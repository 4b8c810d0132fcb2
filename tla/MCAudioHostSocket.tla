------------------------- MODULE MCAudioHostSocket -------------------------
EXTENDS AudioHostSocket
CONSTANTS n1, n2, a1
=============================================================================
