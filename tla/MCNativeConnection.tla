------------------------ MODULE MCNativeConnection ------------------------
EXTENDS NativeConnection
CONSTANT p1
=============================================================================
