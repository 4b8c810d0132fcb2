--------------------------- MODULE MCSocketCommon ---------------------------
EXTENDS SocketCommon
CONSTANTS c1, ev
=============================================================================
