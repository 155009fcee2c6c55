------------------------------ MODULE ByteFile ------------------------------
(***************************************************************************)
(* What a file promises to those who have it open: a sequence of bytes     *)
(* that only grows at its end, a position per descriptor, reads that       *)
(* deliver the bytes at the position, and after a loss of power everything *)
(* that finished writes had appended.  A call takes effect piece by piece, *)
(* the pieces of several calls interleaved.                                *)
(***************************************************************************)
EXTENDS Integers, Sequences

CONSTANTS Fds,       \* descriptors of the file
          Word,      \* a position is an unsigned integer below Word
          MaxSize    \* largest size of a file

VARIABLES content,   \* the bytes of the file
          saved,     \* how many of them are safe from a loss of power
          pos,       \* position of each descriptor
          call,      \* what each descriptor's call has left to do, and the bytes
                     \* the last step of a read has delivered
          ok         \* FALSE: the promise no longer binds

vars == <<content, saved, pos, call, ok>>

NoCall == [op |-> "none"]
Writing(src) == [op |-> "write", left |-> src]
Reading(n, buf) == [op |-> "read", left |-> n, buf |-> buf]

Init ==
  /\ content = << >> /\ saved = 0 /\ ok = TRUE
  /\ pos = [d \in Fds |-> 0] /\ call = [d \in Fds |-> NoCall]

Begin(d, c, p) ==
  /\ call[d] = NoCall
  /\ call' = [call EXCEPT ![d] = c] /\ pos' = [pos EXCEPT ![d] = p]
  /\ UNCHANGED <<content, saved>>

StartWrite(d) ==
  /\ call'[d].op = "write" /\ Len(content) + Len(call'[d].left) < MaxSize
  /\ Begin(d, Writing(call'[d].left), (Len(content) - 1) % Word)

\* A read is cut at the end of the file as it is when the read starts.
StartRead(d) ==
  /\ call'[d].op = "read" /\ call'[d].left \in 0..(Len(content) - pos[d])
  /\ Begin(d, Reading(call'[d].left, << >>), pos[d])

Append1(d) ==
  /\ call[d].op = "write"
  /\ \E k \in 1..Len(call[d].left) :
       LET src == call[d].left
       IN /\ content' = content \o SubSeq(src, 1, k)
          /\ pos' = [pos EXCEPT ![d] = Len(content') - 1]
          /\ call' = [call EXCEPT ![d] = Writing(SubSeq(src, k + 1, Len(src)))]
          /\ UNCHANGED saved

Deliver(d) ==
  /\ call[d].op = "read"
  /\ \E k \in 1..call[d].left :
       /\ pos' = [pos EXCEPT ![d] = @ + k]
       /\ call' = [call EXCEPT ![d] =
            Reading(@.left - k, SubSeq(content, pos[d] + 1, pos[d] + k))]
       /\ UNCHANGED <<content, saved>>

FinishWrite(d) ==
  /\ call[d] = Writing(<< >>)
  /\ saved' = Len(content) /\ call' = [call EXCEPT ![d] = NoCall]
  /\ UNCHANGED <<content, pos>>

FinishRead(d) ==
  /\ call[d].op = "read" /\ call[d].left = 0
  /\ call' = [call EXCEPT ![d] = NoCall]
  /\ UNCHANGED <<content, saved, pos>>

\* Opening starts at the first byte; seeking stays within the file.
Move(d) ==
  /\ call[d] = NoCall
  /\ \E p \in {0} \cup 0..(Len(content) - 1) : pos' = [pos EXCEPT ![d] = p]
  /\ UNCHANGED <<content, saved, call>>

PowerLoss ==
  /\ content' = SubSeq(content, 1, saved)
  /\ pos' = [d \in Fds |-> 0] /\ call' = [d \in Fds |-> NoCall]
  /\ UNCHANGED saved

Next ==
  \/ /\ ok' = TRUE
     /\ \/ PowerLoss
        \/ \E d \in Fds : \/ StartWrite(d) \/ Append1(d) \/ FinishWrite(d)
                          \/ StartRead(d) \/ Deliver(d) \/ FinishRead(d)
                          \/ Move(d)
  \/ ok' = FALSE

Spec == Init /\ [][Next]_vars
=============================================================================
