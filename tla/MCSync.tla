------------------------------- MODULE MCSync -------------------------------
(* Locks on a small set of threads, with time slices of one tick.          *)
EXTENDS Sync

OneTick == [t \in Threads |-> 1]
=============================================================================
