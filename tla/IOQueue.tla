------------------------------ MODULE IOQueue ------------------------------
(***************************************************************************)
(* The ring buffer of device/ioqueue.c in its two uses: as the keyboard    *)
(* buffer, filled by the keyboard interrupt (device/keyboard.c) and read   *)
(* by sys_read(stdin), and as a pipe (shell/pipe.c).  It is composed with  *)
(* the locks of Sync: every queue has a lock, which a thread keeps while   *)
(* it sleeps in ioq_wait.                                                  *)
(*                                                                         *)
(* The functions of ioqueue.c run with interrupts disabled: in the         *)
(* keyboard interrupt, or in a system call.                                *)
(***************************************************************************)
EXTENDS Sync

CONSTANTS Chars,
          BufSize,     \* bufsize: one more than the queue can hold
          MaxCount,    \* bound on the count of one pipe_read or pipe_write
          Readers      \* the processes that read the keyboard

ASSUME IOQueueAssumption == BufSize \in Nat \ {0, 1} /\ MaxCount \in Nat /\ Readers \subseteq SysThreads

VARIABLES buf, head, tail,    \* the ring; the next byte goes to head
          waiter,             \* waiter["get"] is consumer, waiter["put"] producer
          io,                 \* io[t]: where t is in ioqueue.c, and its bytes to go
          got,                \* the last byte some ioq_getchar returned
          use                 \* is this queue the keyboard's or a pipe?

ioVars == <<buf, head, tail, waiter, io, got, use>>
allVars == <<vars, ioVars>>

Side == {"get", "put"}
Other(side) == IF side = "get" THEN "put" ELSE "get"

\* The only lock of this module is the queue's.
QLock == CHOOSE l \in Locks : TRUE

\* io[t].at is "idle": not in ioqueue.c; "test": at the loop test of
\* ioq_getchar or ioq_putchar; "enter": in lock_acquire, then ioq_wait;
\* "leave": in ioq_wait, then lock_release.

next_pos(pos) == (pos + 1) % BufSize
ioq_full  == next_pos(head) = tail
ioq_empty == head = tail
ioq_length == IF head >= tail THEN head - tail ELSE BufSize - (tail - head)

MustWait(side) == IF side = "get" THEN ioq_empty ELSE ioq_full

\* t runs a system call and is not inside lock_acquire or lock_release.
Here(t, at) == InKernel(t) /\ t \in SysThreads /\ io[t].at = at
Step(t, at) == io' = [io EXCEPT ![t].at = at]

IOInit ==
  /\ Init
  /\ \E c \in Chars : buf = [i \in 0..(BufSize - 1) |-> c] /\ got = c
  /\ head = 0 /\ tail = 0 /\ use \in {"keyboard", "pipe"}
  /\ waiter = [s \in Side |-> NoThread]
  /\ io = [t \in Threads |-> [at |-> "idle", side |-> "get", left |-> 0]]

-----------------------------------------------------------------------------
(* ioqueue.c.                                                              *)

\* Faulty variants: no wakeup at all; a wakeup that leaves the slot filled.
Sleeper_ignored(side) == FALSE
\* The end of ioq_getchar and ioq_putchar: weakup of the thread that waits on
\* the other side.
Sleeper(side) == waiter[side] # NoThread
weakup_stale(side) ==
  IF Sleeper(side)
  THEN ThreadUnblock(waiter[side]) /\ UNCHANGED waiter
  ELSE UNCHANGED <<status, ready, ticks, cur, panic, waiter>>

weakup(side) ==
  IF Sleeper(side)
  THEN ThreadUnblock(waiter[side]) /\ waiter' = [waiter EXCEPT ![side] = NoThread]
  ELSE UNCHANGED <<status, ready, ticks, cur, panic, waiter>>

PutByte(c) ==
  /\ buf' = [buf EXCEPT ![head] = c]
  /\ head' = next_pos(head)
  /\ UNCHANGED <<tail, got>>

TakeByte ==
  /\ got' = buf[tail]
  /\ tail' = next_pos(tail)
  /\ UNCHANGED <<buf, head>>

\* ioq_getchar or ioq_putchar that need not wait.  The caller's loop (one
\* byte after the other) goes on while there are bytes to go.
ioq_transfer(t) ==
  LET side == io[t].side
      left == io[t].left - 1
  IN /\ Here(t, "test") /\ ~MustWait(side)
     /\ IF side = "get" THEN TakeByte ELSE \E c \in Chars : PutByte(c)
     /\ weakup(Other(side))
     /\ io' = [io EXCEPT ![t].left = left, ![t].at = IF left = 0 THEN "idle" ELSE "test"]
     /\ UNCHANGED <<iflag, idlePc, lockVars, pc, use>>

\* The loop body: lock_acquire, ioq_wait, lock_release.
ioq_lock(t) ==
  /\ Here(t, "test") /\ MustWait(io[t].side)
  /\ lock_acquire(t, QLock)
  /\ Step(t, "enter")
  /\ UNCHANGED <<buf, head, tail, waiter, got, use>>

ioq_wait(t) ==
  LET side == io[t].side
      st == [status EXCEPT ![t] = "BLOCKED"]
  IN /\ Here(t, "enter") /\ holder[QLock] = t
     /\ waiter' = [waiter EXCEPT ![side] = t]
     /\ panic' = (waiter[side] # NoThread \/ ~ScheduleAsserts(st, ready))
     /\ Schedule(st, ready)
     /\ Step(t, "leave")
     /\ UNCHANGED <<iflag, idlePc, lockVars, pc, buf, head, tail, got, use>>

ioq_unlock(t) ==
  /\ Here(t, "leave")
  /\ lock_release(t, QLock)
  /\ Step(t, "test")
  /\ UNCHANGED <<buf, head, tail, waiter, got, use>>

\* lock_acquire and lock_release on the way (Sync).
InLock(t) == LockStep(t) /\ UNCHANGED ioVars

-----------------------------------------------------------------------------
(* The callers.                                                            *)

Call(t, side, n) ==
  /\ Here(t, "idle") /\ n > 0
  /\ io' = [io EXCEPT ![t] = [at |-> "test", side |-> side, left |-> n]]
  /\ UNCHANGED <<vars, buf, head, tail, waiter, got, use>>

\* sys_read(stdin): ioq_getchar once per byte asked for (the shell asks for one).
sys_read(t) == use = "keyboard" /\ t \in Readers /\ Call(t, "get", 1)

Least(m, n) == IF m < n THEN m ELSE n

\* pipe_read takes what is there and pipe_write what it believes there is room
\* for; a size of 0 returns at once.
ReadSize_all(count) == count     \* faulty variant: does not look at the length
ReadSize(count)  == Least(ioq_length, count)
WriteSize(count) == Least(BufSize - ioq_length, count)
pipe_read(t, count)  == use = "pipe" /\ Call(t, "get", ReadSize(count))
pipe_write(t, count) == use = "pipe" /\ Call(t, "put", WriteSize(count))

Fits_always == TRUE              \* faulty variant: overwrites when full
\* intr_keyboard_handler with a key that makes a character: it is dropped if
\* the queue is full, since the handler cannot wait.
Fits == ~ioq_full
intr_keyboard_handler(c) ==
  /\ ~panic /\ iflag[cur] /\ use = "keyboard"
  /\ IF Fits THEN PutByte(c) /\ weakup("get")
             ELSE UNCHANGED <<status, ready, ticks, cur, panic, buf, head, tail, waiter, got>>
  /\ idlePc' = IF cur = Idle /\ idlePc = "hlt" THEN "block" ELSE idlePc
  /\ UNCHANGED <<iflag, lockVars, pc, io, use>>

\* The rest of the machine: timer, idle thread, main ending, processes being
\* forked, system calls beginning and ending.
Machine ==
  /\ \/ Timer \/ IdleStep \/ MainLeaves
     \/ \E t \in SysThreads : \/ SyscallEnter(t)
                              \/ StartThread(t)
                              \/ io[t].at = "idle" /\ SyscallReturn(t)
  /\ UNCHANGED ioVars

QueueStep(t) == ioq_transfer(t) \/ ioq_lock(t) \/ ioq_wait(t) \/ ioq_unlock(t) \/ InLock(t)

IONext == \/ Machine
          \/ \E c \in Chars : intr_keyboard_handler(c)
          \/ \E t \in SysThreads :
               \/ QueueStep(t)
               \/ sys_read(t)
               \/ \E n \in 0..MaxCount : pipe_read(t, n) \/ pipe_write(t, n)

IOSpec == IOInit /\ [][IONext]_allVars

(***************************************************************************)
(* Fairness: interrupts and the idle thread as in Sync, a thread inside    *)
(* the kernel goes on when it has the CPU, and the user keeps typing.      *)
(***************************************************************************)
IOFairSpec ==
  /\ IOSpec
  /\ SF_allVars(Timer /\ UNCHANGED ioVars)
  /\ WF_allVars(IdleStep /\ UNCHANGED ioVars)
  /\ \A t \in SysThreads : /\ SF_allVars(QueueStep(t))
                           /\ SF_allVars(SyscallReturn(t) /\ io[t].at = "idle" /\ UNCHANGED ioVars)
  /\ SF_allVars(\E c \in Chars : intr_keyboard_handler(c))

-----------------------------------------------------------------------------
(* Properties.                                                             *)

\* The bytes between tail and head, oldest first.
Contents == [i \in 1..ioq_length |-> buf[(tail + i - 1) % BufSize]]

\* The ring buffer is a bounded FIFO channel: whatever the interleaving of
\* keyboard interrupts, readers, writers and wakeups, every byte is delivered
\* once and in order, and never more than bufsize - 1 are held (ioqueue.c:37-65).
F == INSTANCE Fifo WITH queue <- Contents, last <- got, Capacity <- BufSize - 1
IsFifo == F!FifoSpec

\* The slots consumer and producer name threads that sleep in ioq_wait, and
\* every thread that sleeps there is in its slot, so that weakup never wakes a
\* thread that waits for something else (ioqueue.c:25-35).  The sleeper keeps
\* the queue's lock, which is why one slot is enough (ioqueue.c:40-42).  The
\* only reader of the keyboard sleeps there only while there is nothing to read
\* (ioqueue.c:39-43); see the README for two readers.
WaiterSlotExact ==
  /\ \A side \in Side : \A t \in SysThreads :
       waiter[side] = t <=>
         io[t].at = "leave" /\ io[t].side = side /\ status[t] = "BLOCKED" /\ Out(t)
  /\ \A side \in Side : waiter[side] # NoThread => holder[QLock] = waiter[side]
  /\ use = "keyboard" /\ (\E r \in Threads : Readers = {r}) /\ waiter["get"] # NoThread =>
       ioq_empty

\* pipe_read sizes its loop so that it never waits inside ioq_getchar, although
\* each byte it takes may wake a writer (pipe.c:35-41).
PipeReadNeverWaits ==
  \A t \in SysThreads : use = "pipe" /\ io[t].side = "get" => io[t].at \in {"idle", "test"}

\* The reader of the keyboard gets a byte, as long as keys are pressed.
ReaderServed ==
  \A t \in SysThreads : use = "keyboard" /\ io[t].at = "test" ~> io[t].at = "idle"
=============================================================================
