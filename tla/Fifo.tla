-------------------------------- MODULE Fifo --------------------------------
(***************************************************************************)
(* What an I/O queue promises: a bounded first-in first-out channel.  Both *)
(* the keyboard buffer and the pipes of the kernel are such channels.      *)
(***************************************************************************)
EXTENDS Naturals, Sequences

CONSTANTS Chars,      \* what is sent
          Capacity    \* how much the channel holds

VARIABLES queue,      \* what was sent and not received yet, oldest first
          last        \* what was received last

FifoInit == queue = << >> /\ last \in Chars

Put(c) == /\ Len(queue) < Capacity
          /\ queue' = Append(queue, c)
          /\ UNCHANGED last

Get == /\ queue # << >>
       /\ last' = Head(queue)
       /\ queue' = Tail(queue)

FifoNext == Get \/ \E c \in Chars : Put(c)

FifoSpec == FifoInit /\ [][FifoNext]_<<queue, last>>
=============================================================================
