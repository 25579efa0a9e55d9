--------------------------- MODULE MCReadyOrder ----------------------------
EXTENDS ReadyOrder
CONSTANTS idle, mgr, ta, tb
=============================================================================
