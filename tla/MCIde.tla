------------------------------- MODULE MCIde -------------------------------
(* The disk driver on a small set of threads.                              *)
EXTENDS Ide

NoTick == [t \in Threads |-> 0]
=============================================================================
