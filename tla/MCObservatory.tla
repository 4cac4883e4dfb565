--------------------------- MODULE MCObservatory ---------------------------
(* Instances of Observatory.                                               *)
EXTENDS Observatory

CONSTANT main       \* a thread
=============================================================================
