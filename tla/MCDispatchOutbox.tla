------------------------- MODULE MCDispatchOutbox ---------------------------
EXTENDS DispatchOutbox
=============================================================================
