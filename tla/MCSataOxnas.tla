---------------------------- MODULE MCSataOxnas ----------------------------
EXTENDS SataOxnas
=============================================================================
