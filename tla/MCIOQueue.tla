----------------------------- MODULE MCIOQueue -----------------------------
(* One queue of two bytes (three slots) on small sets of threads.          *)
EXTENDS IOQueue

NoTick == [t \in Threads |-> 0]
=============================================================================
