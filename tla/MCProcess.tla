----------------------------- MODULE MCProcess -----------------------------
(* Process on a small set of threads; any timer interrupt may switch.      *)
EXTENDS Process

NoTick == [t \in Threads |-> 0]
=============================================================================
