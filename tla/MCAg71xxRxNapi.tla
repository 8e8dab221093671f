--------------------------- MODULE MCAg71xxRxNapi ---------------------------
EXTENDS Ag71xxRxNapi
=============================================================================
