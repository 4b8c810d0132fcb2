-------------------------- MODULE MCCallbackRegistry -------------------------
EXTENDS CallbackRegistry
CONSTANTS c1, c2, t1, t2
=============================================================================
