-------------------------------- MODULE Sync --------------------------------
(***************************************************************************)
(* Semaphores and recursive locks: thread/sync.c on top of the scheduler.  *)
(*                                                                         *)
(* A kernel thread calls lock_acquire and lock_release with interrupts     *)
(* enabled, so that the timer may preempt it between any two of their      *)
(* accesses to the lock; a system call (SysThreads) runs them with         *)
(* interrupts disabled and gives up the CPU only where it blocks or        *)
(* yields.  sema_down and sema_up disable interrupts themselves.           *)
(***************************************************************************)
EXTENDS Sched

CONSTANTS Locks,
          SysThreads,   \* the threads whose kernel code is system calls
          NoThread,     \* NULL
          MaxRepeat     \* bound on the nesting of one lock

ASSUME SyncAssumption ==
  /\ SysThreads \subseteq Threads \ {Main, Idle}
  /\ NoThread \notin Threads
  /\ MaxRepeat \in Nat \ {0}

VARIABLES value,        \* lock.semaphore.value
          waiters,      \* lock.semaphore.waiters, head first
          holder,       \* lock.holder
          repeat,       \* lock.holder_repeat_nr
          pc            \* pc[t].at: where t is in sync.c; pc[t].lock: on which lock

lockVars == <<value, waiters, holder, repeat>>
vars == <<schedVars, lockVars, pc>>

(* "out":   not in lock_acquire or lock_release                            *)
(* "again": about to increment holder_repeat_nr (lock_acquire by holder)   *)
(* "down":  in sema_down, before value is taken, waiting or not            *)
(* "own":   value taken, holder not set yet;  "first": repeat not set yet  *)
(* "clear": holder cleared, repeat not yet;   "up": before sema_up         *)
Label == {"out", "again", "down", "own", "first", "clear", "up"}

At(t, label, l) == pc[t].at = label /\ pc[t].lock = l
Out(t) == pc[t].at = "out"
Goto(t, label, l) == pc' = [pc EXCEPT ![t] = [at |-> label, lock |-> l]]
Return(t) == pc' = [pc EXCEPT ![t].at = "out"]

\* The interrupt flag lock_acquire's caller has, which sema_down restores.
OldStatus(t) == t \notin SysThreads

\* t may run client code: a system call has interrupts disabled.
InKernel(t) == Running(t) /\ Out(t) /\ (t \in SysThreads => ~iflag[t])

Holds(t) == {l \in Locks : holder[l] = t}

-----------------------------------------------------------------------------
\* lock_init.
Init ==
  /\ SchedInit
  /\ value = [l \in Locks |-> 1]
  /\ waiters = [l \in Locks |-> << >>]
  /\ holder = [l \in Locks |-> NoThread]
  /\ repeat = [l \in Locks |-> 0]
  /\ pc \in {[t \in Threads |-> [at |-> "out", lock |-> l]] : l \in Locks}

\* lock_acquire: is the caller the holder already?
lock_acquire(t, l) ==
  /\ InKernel(t)
  /\ holder[l] = t => repeat[l] < MaxRepeat
  /\ Goto(t, IF holder[l] # t THEN "down" ELSE "again", l)
  /\ UNCHANGED <<schedVars, lockVars>>

lock_acquire_again(t, l) ==
  /\ Running(t) /\ At(t, "again", l)
  /\ repeat' = [repeat EXCEPT ![l] = @ + 1]
  /\ Return(t)
  /\ UNCHANGED <<schedVars, value, waiters, holder>>

\* sema_down, one turn of its loop, entered first with the caller's interrupt
\* flag and again, with interrupts disabled, whenever the thread is resumed.
\* (Faulty variant: "if" in place of "while".)
CanTake_once(t, l) == value[l] # 0 \/ (OldStatus(t) /\ ~iflag[t])
CanTake(t, l) == value[l] # 0

sema_down_block(t, l) ==
  /\ Running(t) /\ At(t, "down", l) /\ ~CanTake(t, l)
  /\ waiters' = [waiters EXCEPT ![l] = list_append(@, t)]
  /\ LET st == [status EXCEPT ![t] = "BLOCKED"]
     IN /\ panic' = (elem_find(waiters[l], t) \/ ~ScheduleAsserts(st, ready))
        /\ Schedule(st, ready)
  /\ iflag' = [iflag EXCEPT ![t] = FALSE]
  /\ UNCHANGED <<idlePc, value, holder, repeat, pc>>

sema_down_take(t, l) ==
  /\ Running(t) /\ At(t, "down", l) /\ CanTake(t, l)
  /\ value' = [value EXCEPT ![l] = @ - 1]
  /\ panic' = (value'[l] # 0)
  /\ iflag' = [iflag EXCEPT ![t] = OldStatus(t)]
  /\ Goto(t, "own", l)
  /\ UNCHANGED <<status, ready, ticks, cur, idlePc, waiters, holder, repeat>>

lock_acquire_own(t, l) ==
  /\ Running(t) /\ At(t, "own", l)
  /\ holder' = [holder EXCEPT ![l] = t]
  /\ Goto(t, "first", l)
  /\ UNCHANGED <<schedVars, value, waiters, repeat>>

lock_acquire_first(t, l) ==
  /\ Running(t) /\ At(t, "first", l)
  /\ panic' = (repeat[l] # 0)
  /\ repeat' = [repeat EXCEPT ![l] = 1]
  /\ Return(t)
  /\ UNCHANGED <<status, ready, ticks, cur, iflag, idlePc, value, waiters, holder>>

\* lock_release, up to the assignment to holder.  Its callers hold the lock.
lock_release(t, l) ==
  /\ InKernel(t) /\ holder[l] = t
  /\ IF repeat[l] > 1
     THEN /\ repeat' = [repeat EXCEPT ![l] = @ - 1]
          /\ UNCHANGED <<schedVars, value, waiters, holder, pc>>
     ELSE /\ panic' = (repeat[l] # 1)
          /\ holder' = [holder EXCEPT ![l] = NoThread]
          /\ Goto(t, "clear", l)
          /\ UNCHANGED <<status, ready, ticks, cur, iflag, idlePc,
                         value, waiters, repeat>>

\* (Faulty variant: holder_repeat_nr is not reset.)
lock_release_clear_forgotten(t, l) ==
  /\ Running(t) /\ At(t, "clear", l)
  /\ Goto(t, "up", l)
  /\ UNCHANGED <<schedVars, lockVars>>

lock_release_clear(t, l) ==
  /\ Running(t) /\ At(t, "clear", l)
  /\ repeat' = [repeat EXCEPT ![l] = 0]
  /\ Goto(t, "up", l)
  /\ UNCHANGED <<schedVars, value, waiters, holder>>

\* Faulty variants (_never, _peek, _handover): nobody is woken; the woken
\* thread stays in waiters; the value goes to the woken thread unseen.
Wakes_never(l) == FALSE
Wakes(l) == waiters[l] # << >>

WaitersLeft_peek(l) == waiters[l]
WaitersLeft(l) == Tail(waiters[l])

ValueUp_handover(l) == IF Wakes(l) THEN value[l] ELSE value[l] + 1
ValueUp(l) == value[l] + 1

\* sema_up: the first waiter becomes READY, but the value it waits for is
\* there for whoever gets to sema_down first.
sema_up(t, l) ==
  /\ Running(t) /\ At(t, "up", l)
  /\ value' = [value EXCEPT ![l] = ValueUp(l)]
  /\ IF Wakes(l)
     THEN LET w == Head(waiters[l])
          IN /\ waiters' = [waiters EXCEPT ![l] = WaitersLeft(l)]
             /\ ready'  = UnblockReady(ready, w)
             /\ status' = UnblockStatus(status, w)
             /\ panic'  = (value[l] # 0 \/ ~UnblockAsserts(status, ready, w))
     ELSE /\ panic' = (value[l] # 0)
          /\ UNCHANGED <<waiters, ready, status>>
  /\ Return(t)
  /\ UNCHANGED <<ticks, cur, iflag, idlePc, holder, repeat>>

-----------------------------------------------------------------------------
(* The code around the locks.                                              *)

\* int 0x80 and its return; a system call keeps no lock when it returns.
SyscallEnter(t) ==
  /\ t \in SysThreads /\ Out(t)
  /\ IntrDisable(t)
  /\ UNCHANGED <<lockVars, pc>>

SyscallReturn(t) ==
  /\ t \in SysThreads /\ Out(t) /\ Holds(t) = {}
  /\ IntrEnable(t)
  /\ UNCHANGED <<lockVars, pc>>

\* A thread may give up the CPU inside a critical section (mtime_sleep in
\* busy_wait does, under the channel's lock).
YieldOutside(t) == InKernel(t) /\ Yield(t) /\ UNCHANGED <<lockVars, pc>>

StartThread(t) ==
  /\ InKernel(cur) /\ Start(t)
  /\ UNCHANGED <<lockVars, pc>>

MainLeaves == Out(Main) /\ Holds(Main) = {} /\ MainExit /\ UNCHANGED <<lockVars, pc>>

Timer == intr_timer_handler /\ UNCHANGED <<lockVars, pc>>
IdleStep == (IdleBlock \/ IdleHalt) /\ UNCHANGED <<lockVars, pc>>

\* What a thread inside lock_acquire or lock_release does next.
LockStep(t) ==
  \E l \in Locks :
    \/ lock_acquire_again(t, l)
    \/ sema_down_block(t, l)
    \/ sema_down_take(t, l)
    \/ lock_acquire_own(t, l)
    \/ lock_acquire_first(t, l)
    \/ lock_release_clear(t, l)
    \/ sema_up(t, l)

Next ==
  \/ Timer
  \/ IdleStep
  \/ MainLeaves
  \/ \E t \in Threads :
       \/ SyscallEnter(t)
       \/ SyscallReturn(t)
       \/ YieldOutside(t)
       \/ StartThread(t)
       \/ \E l \in Locks : lock_acquire(t, l) \/ lock_release(t, l)
       \/ LockStep(t)

Spec == Init /\ [][Next]_vars

(***************************************************************************)
(* Fairness.  The timer interrupt is periodic and stays pending in the PIC *)
(* while IF is 0, so it cannot be put off for ever by threads that keep    *)
(* disabling interrupts: strong fairness.  idle() only ever waits for an   *)
(* interrupt.  A thread inside sync.c goes on whenever it gets the CPU     *)
(* often enough (SF, since the timer takes the CPU away in between).  The  *)
(* critical sections of a lock end, and so do system calls, after which    *)
(* interrupts are enabled again.                                           *)
(***************************************************************************)
Release(t) == \E l \in Locks : lock_release(t, l)
LastRelease(l) == repeat[l] = 1 /\ \E t \in Threads : lock_release(t, l)

Fairness ==
  /\ SF_vars(Timer)
  /\ WF_vars(IdleStep)
  /\ \A t \in Threads \ {Idle} : SF_vars(LockStep(t) \/ Release(t))
  /\ \A l \in Locks : SF_vars(LastRelease(l))
  /\ \A t \in SysThreads : SF_vars(SyscallReturn(t))

FairSpec == Spec /\ Fairness

-----------------------------------------------------------------------------
(* Properties.                                                             *)

\* The semaphore stays binary and the nesting count within its bound.
TypeOK ==
  /\ SchedTypeOK
  /\ value \in [Locks -> 0..1]
  /\ waiters \in [Locks -> Seq(Threads)]
  /\ holder \in [Locks -> Threads \cup {NoThread}]
  /\ repeat \in [Locks -> 0..MaxRepeat]
  /\ pc \in [Threads -> [at : Label, lock : Locks]]

\* t is past sema_down and before sema_up on l: the critical section, with
\* the parts of lock_acquire and lock_release that belong to it.
Owns(t, l) == \/ holder[l] = t
              \/ pc[t].lock = l /\ pc[t].at \in {"own", "first", "clear", "up"}

\* At most one thread is in the critical section of a lock, wherever the
\* timer preempts lock_acquire and lock_release (sync.c:46-67).
MutualExclusion ==
  \A l \in Locks : \A t, u \in Threads : Owns(t, l) /\ Owns(u, l) => t = u

\* The semaphore is 0 exactly while some thread owns the lock, so that it is
\* neither lost nor doubled between sema_down and sema_up (sync.c:20-29, 36-42).
ValueExact ==
  \A l \in Locks : value[l] = 0 <=> \E t \in Threads : Owns(t, l)

\* general_tag puts a thread into one list at a time: a thread is among the
\* waiters of a lock, once, exactly if it blocked there, and it is then not in
\* the ready list (sync.c:21-26, 36-40).
WaitersExact ==
  \A l \in Locks :
    /\ IsInjective(waiters[l])
    /\ \A t \in Threads \ {Idle} :
         elem_find(waiters[l], t) <=> status[t] = "BLOCKED" /\ At(t, "down", l)

\* No lost wakeup: while a lock is free and threads wait for it, one of the
\* threads it woke or that came by is on its way to take it.
NoLostWakeup ==
  \A l \in Locks :
    value[l] = 1 /\ waiters[l] # << >> =>
      \E t \in Threads : At(t, "down", l) /\ status[t] \in {"READY", "RUNNING"}

\* holder_repeat_nr and holder agree with where the owner is: the ASSERTs of
\* lock_acquire and lock_release hold at every preemption (sync.c:50, 58, 63).
RepeatExact ==
  \A l \in Locks :
    repeat[l] > 0 <=> \E t \in Threads : \/ holder[l] = t /\ ~At(t, "first", l)
                                         \/ At(t, "clear", l)

\* The fields of a lock agree with each other at every preemption (sync.c:46-67).
LockExact == ValueExact /\ RepeatExact

\* The lock and semaphore code uses the scheduler as its contracts allow:
\* every step is a step of the scheduler's specification (or none).
UsesScheduler == SchedSpec

\* A thread that waits for a lock is woken, provided critical sections end.
\* (It may still lose the race for the value and wait again.)
WaiterWoken ==
  \A t \in Threads, l \in Locks : elem_find(waiters[l], t) ~> status[t] = "READY"
=============================================================================
