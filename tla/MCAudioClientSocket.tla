------------------------ MODULE MCAudioClientSocket ------------------------
EXTENDS AudioClientSocket
CONSTANTS n1, n2, b1, p1
=============================================================================
