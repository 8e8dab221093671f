------------------------- MODULE MCAg71xxTxRestart -------------------------
EXTENDS Ag71xxTxRestart
=============================================================================
