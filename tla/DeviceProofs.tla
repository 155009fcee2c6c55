---------------------------- MODULE DeviceProofs ----------------------------
(***************************************************************************)
(* Semaphores and locks, and the two drivers on top of them.               *)
(*                                                                         *)
(* For every set of threads, locks, system-call threads and time slices:   *)
(* the locks of sync.c exclude each other, their semaphores are exact, no  *)
(* wakeup is lost, no ASSERT fires, and the code uses the scheduler as its *)
(* contracts allow (the detailed specification implements SchedSpec).      *)
(*                                                                         *)
(* For every size of the ring buffer and every set of threads: ioqueue.c   *)
(* implements a bounded FIFO channel, weakup wakes the thread that sleeps  *)
(* in ioq_wait and no other, a pipe_read never waits, and no ASSERT fires. *)
(* For every number of commands per call: ide.c sends a command only to an *)
(* idle disk, transfers data only when the disk asks for them, has an      *)
(* answer coming whenever a thread sleeps on disk_done, counts no answer   *)
(* twice and runs into none of its ASSERTs.                                *)
(***************************************************************************)
EXTENDS IOQueue, Ide, Sync, SchedProofs

-----------------------------------------------------------------------------
(* Locks: the inductive invariant.                                         *)

LockTypes ==
  /\ value \in [Locks -> 0..1]
  /\ holder \in [Locks -> Threads \cup {NoThread}]
  /\ repeat \in [Locks -> 0..MaxRepeat]
  /\ pc \in [Threads -> [at : Label, lock : Locks]]

\* What the place of t in lock_acquire or lock_release says of the lock.
PlaceOK(t, l) ==
  /\ At(t, "again", l) => holder[l] = t /\ repeat[l] \in 1..(MaxRepeat - 1)
  /\ At(t, "down", l)  => holder[l] # t
  /\ At(t, "own", l)   => holder[l] = NoThread /\ repeat[l] = 0
  /\ At(t, "first", l) => holder[l] = t /\ repeat[l] = 0
  /\ At(t, "clear", l) => holder[l] = NoThread /\ repeat[l] = 1
  /\ At(t, "up", l)    => holder[l] = NoThread /\ repeat[l] = 0
  /\ holder[l] = t     => At(t, "first", l) \/ repeat[l] # 0

\* The part on the lock's own variables: it does not depend on who is
\* scheduled when.
LockInv ==
  /\ LockTypes
  /\ \A l \in Locks, t \in Threads : PlaceOK(t, l)
  /\ \A l \in Locks : value[l] = 1 => repeat[l] = 0
  /\ ValueExact
  /\ MutualExclusion

\* The part that ties the waiters to the scheduler.
WaitInv ==
  /\ waiters \in [Locks -> Seq(Threads)]
  /\ WaitersExact
  /\ NoLostWakeup
  /\ \A l \in Locks : ~elem_find(waiters[l], Idle)
  /\ pc[Idle].at = "out"

SyncInv == SchedInv /\ LockInv /\ WaitInv

-----------------------------------------------------------------------------
(* Lock ownership: each step of lock_acquire and lock_release, wherever    *)
(* it is preempted, keeps LockInv.                                         *)

\* The test of holder at the head of lock_acquire.
LEMMA AcquireKeeps ==
  ASSUME SyncAssumption, LockInv, NEW t \in Threads, NEW l \in Locks,
         lock_acquire(t, l)
  PROVE  LockInv'
  BY DEF SyncAssumption, LockInv, LockTypes, PlaceOK, ValueExact,
         MutualExclusion, Owns, At, Out, InKernel, Goto, Label, lock_acquire,
         lockVars, schedVars

\* The increment of holder_repeat_nr.
LEMMA AgainKeeps ==
  ASSUME SyncAssumption, LockInv, NEW t \in Threads, NEW l \in Locks,
         lock_acquire_again(t, l)
  PROVE  LockInv'
  BY DEF SyncAssumption, LockInv, LockTypes, PlaceOK, ValueExact,
         MutualExclusion, Owns, At, Out, Return, Label, lock_acquire_again,
         lockVars, schedVars

\* sema_down that finds the value 1.
LEMMA TakeKeeps ==
  ASSUME SyncAssumption, LockInv, NEW t \in Threads, NEW l \in Locks,
         sema_down_take(t, l)
  PROVE  LockInv'
  BY DEF SyncAssumption, LockInv, LockTypes, PlaceOK, ValueExact,
         MutualExclusion, Owns, At, Out, Goto, Label, sema_down_take,
         lockVars, schedVars, CanTake

\* The assignment to holder.
LEMMA OwnKeeps ==
  ASSUME SyncAssumption, LockInv, NEW t \in Threads, NEW l \in Locks,
         lock_acquire_own(t, l)
  PROVE  LockInv'
  BY DEF SyncAssumption, LockInv, LockTypes, PlaceOK, ValueExact,
         MutualExclusion, Owns, At, Out, Goto, Label, lock_acquire_own,
         lockVars, schedVars

\* The assignment of 1 to holder_repeat_nr.
LEMMA FirstKeeps ==
  ASSUME SyncAssumption, LockInv, NEW t \in Threads, NEW l \in Locks,
         lock_acquire_first(t, l)
  PROVE  LockInv'
  BY DEF SyncAssumption, LockInv, LockTypes, PlaceOK, ValueExact,
         MutualExclusion, Owns, At, Out, Return, Label, lock_acquire_first,
         lockVars, schedVars

\* lock_release, nested or last.
LEMMA ReleaseKeeps ==
  ASSUME SyncAssumption, LockInv, NEW t \in Threads, NEW l \in Locks,
         lock_release(t, l)
  PROVE  LockInv'
  <1>1. CASE repeat[l] > 1
    BY <1>1 DEF SyncAssumption, LockInv, LockTypes, PlaceOK, ValueExact,
           MutualExclusion, Owns, At, Out, InKernel, lock_release
  <1>2. CASE ~(repeat[l] > 1)
    <2>1. repeat[l] = 1
      <3>1. holder[l] = t /\ pc[t].at = "out"
        BY DEF lock_release, InKernel, Out
      <3>2. PlaceOK(t, l) /\ repeat[l] \in 0..MaxRepeat /\ MaxRepeat \in Nat
        BY DEF LockInv, LockTypes, SyncAssumption
      <3>3. repeat[l] # 0
        BY <3>1, <3>2 DEF PlaceOK, At
      <3>4. QED
        BY <1>2, <3>2, <3>3
    <2>2. /\ holder[l] = t /\ pc[t].at = "out"
          /\ holder' = [holder EXCEPT ![l] = NoThread]
          /\ pc' = [pc EXCEPT ![t] = [at |-> "clear", lock |-> l]]
          /\ UNCHANGED <<value, repeat>>
      BY <1>2 DEF lock_release, InKernel, Out, Goto
    <2>3. QED
      BY <2>1, <2>2 DEF SyncAssumption, LockInv, LockTypes, PlaceOK, ValueExact,
             MutualExclusion, Owns, At, Label
  <1>3. QED
    BY <1>1, <1>2

\* The reset of holder_repeat_nr.
LEMMA ClearKeeps ==
  ASSUME SyncAssumption, LockInv, NEW t \in Threads, NEW l \in Locks,
         lock_release_clear(t, l)
  PROVE  LockInv'
  BY DEF SyncAssumption, LockInv, LockTypes, PlaceOK, ValueExact,
         MutualExclusion, Owns, At, Out, Goto, Label, lock_release_clear,
         lockVars, schedVars

\* sema_up.
LEMMA UpKeeps ==
  ASSUME SyncAssumption, LockInv, NEW t \in Threads, NEW l \in Locks,
         sema_up(t, l)
  PROVE  LockInv'
  BY SMTT(30) DEF SyncAssumption, LockInv, LockTypes, PlaceOK, ValueExact,
         MutualExclusion, Owns, At, Out, Return, Label, sema_up,
         lockVars, schedVars, Wakes, WaitersLeft, ValueUp

-----------------------------------------------------------------------------
(* Waiters and the scheduler.                                              *)

\* No thread inside sema_down starts or stops to be BLOCKED, and one that is
\* READY or RUNNING there stays one of the two.
Quiet ==
  \A t \in Threads \ {Idle} :
    /\ pc[t].at = "down" \/ pc'[t].at = "down" =>
         (status'[t] = "BLOCKED" <=> status[t] = "BLOCKED")
    /\ status[t] \in {"READY", "RUNNING"} /\ pc[t].at = "down" =>
         status'[t] \in {"READY", "RUNNING"}

\* schedule() by a thread that is still RUNNING, or has made itself READY, or
\* is the idle thread, or main ending outside the locks, is quiet.
LEMMA SwitchQuiet ==
  ASSUME SchedAssumption, SchedInv,
         \/ intr_timer_handler
         \/ IdleBlock
         \/ \E t \in Threads : Yield(t)
         \/ MainExit /\ pc[Main].at = "out"
  PROVE  Quiet
  <1>1. CASE MainExit /\ pc[Main].at = "out"
    <2>1. /\ cur = Main /\ status[Main] = "RUNNING" /\ status'[Main] = "DIED"
          /\ \A t \in Threads \ {Idle, Main} : SameKind(status[t], status'[t])
      BY <1>1, MainExitEffect DEF SchedInv, SchedTypeOK, ReadyListExact
    <2>2. QED
      BY <1>1, <2>1 DEF SameKind, Quiet
  <1>2. CASE ~(MainExit /\ pc[Main].at = "out")
    BY <1>2, SwitchEffect DEF SameKind, Quiet
  <1>3. QED
    BY <1>1, <1>2

\* A quiet step that leaves the lists of waiters alone keeps WaitInv, if it
\* frees no lock that is waited for and takes no thread out of sema_down on a
\* lock that stays free.
LEMMA QuietKeeps ==
  ASSUME SchedAssumption, SchedInv, LockInv, WaitInv, Quiet,
         UNCHANGED waiters,
         pc' \in [Threads -> [at : Label, lock : Locks]],
         pc'[Idle].at = "out",
         \A t \in Threads : t # cur => pc'[t] = pc[t],
         \A l \in Locks : value'[l] = 1 => value[l] = 1 \/ waiters[l] = << >>,
         \A l \in Locks : value'[l] = 1 /\ At(cur, "down", l) => pc'[cur] = pc[cur]
  PROVE  WaitInv'
  <1>0. cur \in Threads /\ status[cur] = "RUNNING" /\ Idle \in Threads
    BY DEF SchedInv, SchedTypeOK, ReadyListExact, SchedAssumption
  <1>1. WaitersExact'
    <2>1. SUFFICES ASSUME NEW l \in Locks
                   PROVE  /\ IsInjective(waiters'[l])
                          /\ \A t \in Threads \ {Idle} :
                               elem_find(waiters'[l], t) <=>
                                 status'[t] = "BLOCKED" /\ At(t, "down", l)'
      BY DEF WaitersExact
    <2>2. /\ IsInjective(waiters[l])
          /\ \A t \in Threads \ {Idle} :
               elem_find(waiters[l], t) <=> status[t] = "BLOCKED" /\ At(t, "down", l)
      BY DEF WaitInv, WaitersExact
    <2>3. ASSUME NEW t \in Threads \ {Idle}
          PROVE  elem_find(waiters'[l], t) <=>
                   status'[t] = "BLOCKED" /\ At(t, "down", l)'
      <3>1. /\ pc[t].at = "down" \/ pc'[t].at = "down" =>
                 (status'[t] = "BLOCKED" <=> status[t] = "BLOCKED")
            /\ waiters'[l] = waiters[l]
        BY DEF Quiet
      <3>2. CASE t = cur
        BY <1>0, <2>2, <3>1, <3>2 DEF At
      <3>3. CASE t # cur
        BY <2>2, <3>1, <3>3 DEF At
      <3>4. QED
        BY <3>2, <3>3
    <2>4. QED
      BY <2>2, <2>3
  <1>2. NoLostWakeup'
    <2>1. SUFFICES ASSUME NEW l \in Locks, value'[l] = 1, waiters'[l] # << >>
                   PROVE  \E t \in Threads : /\ At(t, "down", l)'
                                             /\ status'[t] \in {"READY", "RUNNING"}
      BY DEF NoLostWakeup
    <2>2. PICK t \in Threads : At(t, "down", l) /\ status[t] \in {"READY", "RUNNING"}
      BY <2>1 DEF WaitInv, NoLostWakeup
    <2>3. t # Idle
      BY <2>2 DEF WaitInv, At
    <2>4. status'[t] \in {"READY", "RUNNING"}
      BY <2>2, <2>3 DEF Quiet, At
    <2>5. At(t, "down", l)'
      <3>1. pc'[t] = pc[t]
        BY <2>1, <2>2
      <3>2. QED
        BY <2>2, <3>1 DEF At
    <2>6. QED
      BY <2>4, <2>5
  <1>3. QED
    BY <1>1, <1>2 DEF WaitInv

\* sema_down on a lock that is taken: the thread becomes BLOCKED and the last
\* waiter in one step.
LEMMA BlockKeeps ==
  ASSUME SchedAssumption, SyncInv, NEW t \in Threads, NEW l \in Locks,
         sema_down_block(t, l)
  PROVE  WaitInv' /\ ~elem_find(waiters[l], t)
  <1> DEFINE st == [status EXCEPT ![t] = "BLOCKED"]
  <1>0. /\ cur = t /\ t # Idle /\ status[t] = "RUNNING" /\ At(t, "down", l)
        /\ value[l] = 0 /\ Schedule(st, ready)
        /\ waiters' = [waiters EXCEPT ![l] = list_append(waiters[l], t)]
        /\ UNCHANGED <<value, pc>>
    BY DEF sema_down_block, Running, SyncInv, SchedInv, ReadyListExact, CanTake
  <1>1. /\ SchedTypeOK /\ ReadyListExact /\ status \in [Threads -> Status]
        /\ status[Idle] \in {"RUNNING", "READY", "BLOCKED"} /\ Idle \in Threads
        /\ waiters \in [Locks -> Seq(Threads)] /\ WaitersExact /\ NoLostWakeup
        /\ (\A m \in Locks : ~elem_find(waiters[m], Idle)) /\ pc[Idle].at = "out"
    BY DEF SyncInv, SchedInv, SchedTypeOK, WaitInv, SchedAssumption
  <1>2. Agree(st, ready)
    BY <1>0, <1>1 DEF Agree, SchedTypeOK, ReadyListExact, Status
  <1>3. /\ \A u \in Threads : u # t => st[u] = status[u]
        /\ st[t] = "BLOCKED"
    BY <1>1
  <1> HIDE DEF st
  <1>4. \A u \in Threads \ {Idle} : SameKind(st[u], status'[u])
    BY <1>0, <1>1, <1>2, ScheduleKeeps
  <1>5. ~elem_find(waiters[l], t)
    BY <1>0, <1>1 DEF WaitersExact
  <1>6. /\ waiters'[l] \in Seq(Threads) /\ IsInjective(waiters'[l])
        /\ \A y : elem_find(waiters'[l], y) <=> y = t \/ elem_find(waiters[l], y)
    <2>1. waiters'[l] = list_append(waiters[l], t)
      BY <1>0, <1>1
    <2>2. waiters[l] \in Seq(Threads) /\ IsInjective(waiters[l])
      BY <1>1 DEF WaitersExact
    <2>3. /\ list_append(waiters[l], t) \in Seq(Threads)
          /\ IsInjective(list_append(waiters[l], t))
          /\ \A y : elem_find(list_append(waiters[l], t), y) <=>
                     y = t \/ elem_find(waiters[l], y)
      BY <1>5, <2>2, AppendFacts
    <2>4. QED
      BY <2>1, <2>3, Zenon
  <1>7. WaitersExact'
    <2>1. ASSUME NEW m \in Locks, NEW u \in Threads \ {Idle}
          PROVE  elem_find(waiters'[m], u) <=>
                   status'[u] = "BLOCKED" /\ At(u, "down", m)'
      <3>1. elem_find(waiters[m], u) <=> status[u] = "BLOCKED" /\ At(u, "down", m)
        BY <1>1 DEF WaitersExact
      <3>2. At(u, "down", m)' <=> At(u, "down", m)
        BY <1>0 DEF At
      <3>3. status'[u] = "BLOCKED" <=> st[u] = "BLOCKED"
        BY <1>4 DEF SameKind
      <3>4. CASE m = l
        BY <1>0, <1>3, <1>6, <3>1, <3>2, <3>3, <3>4
      <3>5. CASE m # l
        BY <1>0, <1>1, <1>3, <3>1, <3>2, <3>3, <3>5 DEF At
      <3>6. QED
        BY <3>4, <3>5
    <2>2. \A m \in Locks : IsInjective(waiters'[m])
      BY <1>0, <1>1, <1>6 DEF WaitersExact
    <2>3. QED
      BY <2>1, <2>2 DEF WaitersExact
  <1>8. NoLostWakeup'
    <2>1. SUFFICES ASSUME NEW m \in Locks, value'[m] = 1, waiters'[m] # << >>
                   PROVE  \E u \in Threads : /\ At(u, "down", m)'
                                             /\ status'[u] \in {"READY", "RUNNING"}
      BY DEF NoLostWakeup
    <2>2. m # l /\ value[m] = 1 /\ waiters[m] # << >>
      BY <1>0, <1>1, <2>1
    <2>3. PICK u \in Threads : At(u, "down", m) /\ status[u] \in {"READY", "RUNNING"}
      BY <1>1, <2>2 DEF NoLostWakeup
    <2>4. u # t /\ u # Idle
      BY <1>0, <1>1, <2>2, <2>3 DEF At
    <2>5. status'[u] \in {"READY", "RUNNING"}
      BY <1>3, <1>4, <2>3, <2>4 DEF SameKind
    <2>6. At(u, "down", m)'
      BY <1>0, <2>3 DEF At
    <2>7. QED
      BY <2>5, <2>6
  <1>9. QED
    BY <1>0, <1>1, <1>5, <1>6, <1>7, <1>8 DEF WaitInv

\* sema_up with threads waiting: the first of them leaves the list of waiters
\* for the front of the ready list in one step.
LEMMA WakeKeeps ==
  ASSUME SchedAssumption, SyncInv, NEW t \in Threads, NEW l \in Locks,
         sema_up(t, l), waiters[l] # << >>
  PROVE  /\ WaitInv'
         /\ Head(waiters[l]) \in Threads \ {Idle}
         /\ status[Head(waiters[l])] = "BLOCKED"
         /\ ~elem_find(ready, Head(waiters[l]))
  <1> DEFINE w == Head(waiters[l])
  <1>1. /\ ReadyListExact /\ status \in [Threads -> Status] /\ Idle \in Threads
        /\ waiters \in [Locks -> Seq(Threads)] /\ WaitersExact /\ NoLostWakeup
        /\ (\A m \in Locks : ~elem_find(waiters[m], Idle)) /\ pc[Idle].at = "out"
        /\ pc \in [Threads -> [at : Label, lock : Locks]]
    BY DEF SyncInv, SchedInv, SchedTypeOK, WaitInv, LockInv, LockTypes, SchedAssumption
  <1>0. /\ cur = t /\ t # Idle /\ At(t, "up", l)
        /\ waiters' = [waiters EXCEPT ![l] = Tail(waiters[l])]
        /\ status' = [status EXCEPT ![w] = "READY"]
        /\ pc' = [pc EXCEPT ![t].at = "out"]
        /\ value' = [value EXCEPT ![l] = value[l] + 1]
    BY DEF sema_up, Running, Return, UnblockStatus, Wakes, WaitersLeft, ValueUp
  <1>2. /\ w \in Threads /\ elem_find(waiters[l], w)
        /\ Tail(waiters[l]) \in Seq(Threads) /\ IsInjective(Tail(waiters[l]))
        /\ \A y : elem_find(Tail(waiters[l]), y) <=> elem_find(waiters[l], y) /\ y # w
    BY <1>1, PopFacts DEF WaitersExact
  <1>3. w # Idle /\ status[w] = "BLOCKED" /\ At(w, "down", l) /\ ~elem_find(ready, w)
    BY <1>1, <1>2 DEF WaitersExact, ReadyListExact
  <1> HIDE DEF w
  <1>4. w # t
    BY <1>0, <1>3 DEF At
  <1>5. /\ \A u \in Threads : u # t => pc'[u] = pc[u]
        /\ pc'[t].at = "out" /\ pc'[Idle].at = "out"
    BY <1>0, <1>1
  <1>6. WaitersExact'
    <2>1. ASSUME NEW m \in Locks, NEW u \in Threads \ {Idle}
          PROVE  elem_find(waiters'[m], u) <=>
                   status'[u] = "BLOCKED" /\ At(u, "down", m)'
      <3>1. elem_find(waiters[m], u) <=> status[u] = "BLOCKED" /\ At(u, "down", m)
        BY <1>1 DEF WaitersExact
      <3>2. At(u, "down", m)' <=> At(u, "down", m)
        BY <1>0, <1>5 DEF At
      <3>3. status'[u] = "BLOCKED" <=> status[u] = "BLOCKED" /\ u # w
        BY <1>0, <1>1
      <3>4. CASE m = l
        BY <1>0, <1>1, <1>2, <3>1, <3>2, <3>3, <3>4
      <3>5. CASE m # l
        <4>1. waiters'[m] = waiters[m]
          BY <1>0, <1>1, <3>5
        <4>2. ~(u = w /\ At(u, "down", m))
          BY <1>3, <3>5 DEF At
        <4>3. QED
          BY <3>1, <3>2, <3>3, <4>1, <4>2
      <3>6. QED
        BY <3>4, <3>5
    <2>2. \A m \in Locks : IsInjective(waiters'[m])
      BY <1>0, <1>1, <1>2 DEF WaitersExact
    <2>3. QED
      BY <2>1, <2>2 DEF WaitersExact
  <1>7. NoLostWakeup'
    <2>1. SUFFICES ASSUME NEW m \in Locks, value'[m] = 1, waiters'[m] # << >>
                   PROVE  \E u \in Threads : /\ At(u, "down", m)'
                                             /\ status'[u] \in {"READY", "RUNNING"}
      BY DEF NoLostWakeup
    <2>2. CASE m = l
      <3>1. PICK u \in Threads : u = w
        BY <1>2
      <3>2. status'[u] = "READY"
        BY <1>0, <1>1, <3>1
      <3>3. At(u, "down", m)'
        BY <1>3, <1>4, <1>5, <2>2, <3>1 DEF At
      <3>4. QED
        BY <3>2, <3>3
    <2>3. CASE m # l
      <3>1. value[m] = 1 /\ waiters[m] # << >>
        BY <1>0, <1>1, <2>1, <2>3 DEF SyncInv, LockInv, LockTypes
      <3>2. PICK u \in Threads : At(u, "down", m) /\ status[u] \in {"READY", "RUNNING"}
        BY <1>1, <3>1 DEF NoLostWakeup
      <3>3. u # t /\ u # w
        BY <1>0, <1>3, <3>2 DEF At
      <3>4. At(u, "down", m)' /\ status'[u] = status[u]
        BY <1>0, <1>1, <1>5, <3>2, <3>3 DEF At
      <3>5. QED
        BY <3>2, <3>4
    <2>4. QED
      BY <2>2, <2>3
  <1>8. /\ waiters' \in [Locks -> Seq(Threads)]
        /\ \A m \in Locks : ~elem_find(waiters'[m], Idle)
    BY <1>0, <1>1, <1>2
  <1>9. QED
    BY <1>2, <1>3, <1>5, <1>6, <1>7, <1>8 DEF WaitInv, w

-----------------------------------------------------------------------------
(* The whole step.                                                         *)

\* Every step of the lock code is a legal step of the scheduler, or none.
LEMMA StepUsesScheduler ==
  ASSUME SchedAssumption, SyncAssumption, SyncInv, [Next]_vars
  PROVE  [SchedNext]_schedVars
  <1>0. /\ ~panic /\ cur \in Threads /\ iflag \in [Threads -> BOOLEAN]
        /\ LockInv /\ LockTypes /\ SchedInv /\ panic \in BOOLEAN
    BY DEF SyncInv, SchedInv, SchedTypeOK, NoPanic, LockInv
  <1>p. panic = FALSE
    BY <1>0, Zenon
  <1>1. CASE Timer \/ IdleStep \/ MainLeaves
    BY <1>1 DEF Timer, IdleStep, MainLeaves, SchedNext
  <1>2. ASSUME NEW t \in Threads,
               SyscallEnter(t) \/ SyscallReturn(t) \/ YieldOutside(t) \/ StartThread(t)
        PROVE  SchedNext
    BY <1>2 DEF SyscallEnter, SyscallReturn, YieldOutside, StartThread, SchedNext
  <1>3. ASSUME NEW t \in Threads, NEW l \in Locks,
               \/ lock_acquire(t, l) \/ lock_acquire_again(t, l)
               \/ lock_acquire_own(t, l) \/ lock_release_clear(t, l)
        PROVE  UNCHANGED schedVars
    BY <1>3 DEF lock_acquire, lock_acquire_again, lock_acquire_own, lock_release_clear
  <1>4. ASSUME NEW t \in Threads, NEW l \in Locks, lock_acquire_first(t, l)
        PROVE  UNCHANGED schedVars
    <2>1. repeat[l] = 0
      BY <1>0, <1>4 DEF lock_acquire_first, LockInv, PlaceOK
    <2>2. QED
      <3>1. /\ panic' = (repeat[l] # 0)
            /\ UNCHANGED <<status, ready, ticks, cur, iflag, idlePc>>
        BY <1>4 DEF lock_acquire_first
      <3>2. panic' = FALSE
        BY <2>1, <3>1, Zenon
      <3>3. QED
        BY <1>p, <3>1, <3>2 DEF schedVars
  <1>5. ASSUME NEW t \in Threads, NEW l \in Locks, lock_release(t, l)
        PROVE  UNCHANGED schedVars
    <2>1. repeat[l] \in Nat /\ repeat[l] # 0
      <3>1. PlaceOK(t, l) /\ repeat[l] \in 0..MaxRepeat /\ MaxRepeat \in Nat
        BY <1>0 DEF LockInv, LockTypes, SyncAssumption
      <3>2. holder[l] = t /\ pc[t].at = "out"
        BY <1>5 DEF lock_release, InKernel, Out
      <3>3. QED
        BY <3>1, <3>2 DEF PlaceOK, At
    <2>2. CASE repeat[l] > 1
      BY <1>5, <2>2 DEF lock_release
    <2>3. CASE ~(repeat[l] > 1)
      <3>1. repeat[l] = 1
        BY <2>1, <2>3
      <3>2. QED
        <4>1. /\ panic' = (repeat[l] # 1)
              /\ UNCHANGED <<status, ready, ticks, cur, iflag, idlePc>>
          BY <1>5, <2>3 DEF lock_release
        <4>2. panic' = FALSE
          BY <3>1, <4>1, Zenon
        <4>3. QED
          BY <1>p, <4>1, <4>2 DEF schedVars
    <2>4. QED
      BY <2>2, <2>3
  <1>6. ASSUME NEW t \in Threads, NEW l \in Locks, sema_down_take(t, l)
        PROVE  [SchedNext]_schedVars
    <2>1. value[l] = 1
      BY <1>0, <1>6 DEF sema_down_take, LockTypes, CanTake
    <2>2. /\ Running(t) /\ panic' = panic
          /\ iflag' = [iflag EXCEPT ![t] = OldStatus(t)]
          /\ UNCHANGED <<status, ready, ticks, cur, idlePc>>
      <3>1. value'[l] = 0
        BY <1>0, <1>6, <2>1 DEF sema_down_take, LockTypes, CanTake
      <3>2. panic' = (value'[l] # 0)
        BY <1>6, Zenon DEF sema_down_take, CanTake
      <3>3. panic' = FALSE
        BY <3>1, <3>2, Zenon
      <3>4. QED
        BY <1>6, <1>p, <3>3 DEF sema_down_take, CanTake
    <2>3. OldStatus(t) \in BOOLEAN
      BY DEF OldStatus
    <2>4. CASE OldStatus(t) = iflag[t]
      BY <1>0, <2>2, <2>4 DEF schedVars
    <2>5. CASE iflag[t] = TRUE /\ OldStatus(t) = FALSE
      <3>1. IntrDisable(t)
        BY <2>2, <2>5 DEF IntrDisable
      <3>2. QED
        BY <3>1 DEF SchedNext
    <2>6. CASE iflag[t] = FALSE /\ OldStatus(t) = TRUE
      <3>1. IntrEnable(t)
        BY <2>2, <2>6 DEF IntrEnable
      <3>2. QED
        BY <3>1 DEF SchedNext
    <2>7. QED
      BY <1>0, <2>3, <2>4, <2>5, <2>6
  <1>7. ASSUME NEW t \in Threads, NEW l \in Locks, sema_down_block(t, l)
        PROVE  SchedNext
    <2> DEFINE st == [status EXCEPT ![t] = "BLOCKED"]
    <2>1. /\ Running(t) /\ cur = t /\ Schedule(st, ready)
          /\ panic' = (elem_find(waiters[l], t) \/ ~ScheduleAsserts(st, ready))
          /\ iflag' = [iflag EXCEPT ![t] = FALSE] /\ idlePc' = idlePc
      BY <1>7 DEF sema_down_block, Running, CanTake
    <2>2. ~elem_find(waiters[l], t)
      BY <1>7, BlockKeeps
    <2>3. panic' = ~ScheduleAsserts(st, ready)
      BY <2>1, <2>2, Zenon DEF elem_find
    <2>4. ThreadBlock("BLOCKED")
      BY <2>1, <2>3, Zenon DEF ThreadBlock
    <2>5. Block(t, "BLOCKED") /\ "BLOCKED" \in Blocked
      BY <2>1, <2>4 DEF Block, Blocked
    <2>6. QED
      BY <2>5 DEF SchedNext
  <1>8. ASSUME NEW t \in Threads, NEW l \in Locks, sema_up(t, l)
        PROVE  [SchedNext]_schedVars
    <2>0. value[l] = 0
      <3>1. Owns(t, l)
        BY <1>8 DEF sema_up, Owns, At, Wakes, WaitersLeft, ValueUp
      <3>2. QED
        BY <1>0, <3>1 DEF LockInv, ValueExact
    <2>1. CASE waiters[l] = << >>
      <3>1. panic' = (value[l] # 0) /\ UNCHANGED <<status, ready, ticks, cur, iflag, idlePc>>
        BY <1>8, <2>1 DEF sema_up, Wakes, WaitersLeft, ValueUp
      <3>2. panic' = FALSE
        BY <2>0, <3>1, Zenon
      <3>3. QED
        BY <1>p, <3>1, <3>2 DEF schedVars
    <2>2. CASE waiters[l] # << >>
      <3>1. PICK w \in Threads : w = Head(waiters[l])
        BY <1>8, <2>2, WakeKeeps
      <3>2. w # Idle /\ status[w] = "BLOCKED" /\ cur = t /\ t # Idle
        BY <1>8, <2>2, <3>1, WakeKeeps DEF sema_up, Running, Wakes, WaitersLeft, ValueUp
      <3>3. /\ ready' = UnblockReady(ready, w) /\ status' = UnblockStatus(status, w)
            /\ UNCHANGED <<ticks, cur, iflag, idlePc>>
        BY <1>8, <2>2, <3>1 DEF sema_up, Wakes, WaitersLeft, ValueUp
      <3>4. panic' = (value[l] # 0 \/ ~UnblockAsserts(status, ready, w))
        BY <1>8, <2>2, <3>1, Zenon DEF sema_up, Wakes, WaitersLeft, ValueUp
      <3>5. panic' = ~UnblockAsserts(status, ready, w)
        BY <2>0, <3>4, Zenon
      <3>6. Unblock(w)
        BY <1>0, <3>2, <3>3, <3>5 DEF Unblock, ThreadUnblock
      <3>7. QED
        BY <3>6 DEF SchedNext
    <2>3. QED
      BY <2>1, <2>2
  <1>9. CASE UNCHANGED vars
    BY <1>9 DEF vars
  <1>10. QED
    BY <1>1, <1>2, <1>3, <1>4, <1>5, <1>6, <1>7, <1>8, <1>9 DEF Next, LockStep

\* The invariant on the locks depends on their variables and places only.
LEMMA LockUnchanged ==
  ASSUME LockInv, UNCHANGED <<value, holder, repeat, pc>>
  PROVE  LockInv'
  BY DEF LockInv, LockTypes, PlaceOK, ValueExact, MutualExclusion, Owns, At

\* Every step keeps the invariant on the locks.
LEMMA LockInvStep ==
  ASSUME SyncAssumption, LockInv, [Next]_vars
  PROVE  LockInv'
  <1>1. ASSUME UNCHANGED <<value, holder, repeat, pc>>
        PROVE  LockInv'
    BY <1>1, LockUnchanged
  <1>2. CASE Timer \/ IdleStep \/ MainLeaves
    BY <1>1, <1>2 DEF Timer, IdleStep, MainLeaves, lockVars
  <1>3. ASSUME NEW t \in Threads,
               SyscallEnter(t) \/ SyscallReturn(t) \/ YieldOutside(t) \/ StartThread(t)
        PROVE  LockInv'
    BY <1>1, <1>3 DEF SyscallEnter, SyscallReturn, YieldOutside, StartThread, lockVars
  <1>4. ASSUME NEW t \in Threads, NEW l \in Locks, sema_down_block(t, l)
        PROVE  LockInv'
    BY <1>1, <1>4 DEF sema_down_block, CanTake
  <1>5. CASE UNCHANGED vars
    BY <1>1, <1>5 DEF vars, lockVars
  <1>6. QED
    BY <1>2, <1>3, <1>4, <1>5, AcquireKeeps, AgainKeeps, TakeKeeps, OwnKeeps,
       FirstKeeps, ReleaseKeeps, ClearKeeps, UpKeeps DEF Next, LockStep

\* Every step keeps the invariant on the waiters.
LEMMA WaitInvStep ==
  ASSUME SchedAssumption, SyncAssumption, SyncInv, [Next]_vars
  PROVE  WaitInv'
  <1>0. /\ SchedInv /\ LockInv /\ WaitInv /\ LockTypes /\ cur \in Threads
        /\ pc \in [Threads -> [at : Label, lock : Locks]] /\ pc[Idle].at = "out"
        /\ status[cur] = "RUNNING" /\ status \in [Threads -> Status]
        /\ value \in [Locks -> 0..1]
    BY DEF SyncInv, SchedInv, SchedTypeOK, ReadyListExact, LockInv, LockTypes, WaitInv
  <1>1. ASSUME Quiet, UNCHANGED <<value, waiters, pc>>
        PROVE  WaitInv'
    BY <1>0, <1>1, QuietKeeps
  <1>2. CASE Timer \/ IdleStep \/ MainLeaves
    <2>1. UNCHANGED <<value, waiters, pc>>
      BY <1>2 DEF Timer, IdleStep, MainLeaves, lockVars
    <2>2. CASE IdleHalt
      BY <1>1, <2>1, <2>2 DEF IdleHalt, Quiet
    <2>3. CASE ~IdleHalt
      <3>1. intr_timer_handler \/ IdleBlock \/ (MainExit /\ pc[Main].at = "out")
        BY <1>2, <2>3 DEF Timer, IdleStep, MainLeaves, Out
      <3>2. QED
        BY <1>0, <1>1, <2>1, <3>1, SwitchQuiet
    <2>4. QED
      BY <2>2, <2>3
  <1>3. ASSUME NEW t \in Threads, SyscallEnter(t) \/ SyscallReturn(t)
        PROVE  WaitInv'
    BY <1>1, <1>3
       DEF SyscallEnter, SyscallReturn, IntrDisable, IntrEnable, Quiet, lockVars
  <1>4. ASSUME NEW t \in Threads, YieldOutside(t)
        PROVE  WaitInv'
    <2>1. Yield(t) /\ UNCHANGED <<value, waiters, pc>>
      BY <1>4 DEF YieldOutside, lockVars
    <2>2. Quiet
      BY <1>0, <2>1, SwitchQuiet
    <2>3. QED
      BY <1>1, <2>1, <2>2
  <1>5. ASSUME NEW t \in Threads, StartThread(t)
        PROVE  WaitInv'
    <2>1. /\ status[t] = "DIED" /\ status' = [status EXCEPT ![t] = "READY"]
          /\ UNCHANGED <<value, waiters, pc>>
      BY <1>5 DEF StartThread, Start, ThreadStart, lockVars
    <2>2. Quiet
      BY <1>0, <2>1 DEF Quiet
    <2>3. QED
      BY <1>1, <2>1, <2>2
  <1>6. ASSUME NEW t \in Threads, NEW l \in Locks, NEW lab \in Label,
               Running(t), ~At(t, "down", l) \/ value'[l] = 0,
               pc[t].at = "down" => pc[t].lock = l,
               UNCHANGED <<status, waiters>>,
               pc' \in [Threads -> [at : Label, lock : Locks]],
               \A u \in Threads : u # t => pc'[u] = pc[u],
               \A m \in Locks : value'[m] = 1 => value[m] = 1 \/ waiters[m] = << >>
        PROVE  WaitInv'
    <2>1. Quiet /\ cur = t /\ pc'[Idle].at = "out"
      BY <1>0, <1>6 DEF Quiet, Running, SchedAssumption
    <2>2. \A m \in Locks : value'[m] = 1 /\ At(cur, "down", m) => pc'[cur] = pc[cur]
      BY <1>6, <2>1 DEF At
    <2>3. QED
      BY <1>0, <1>6, <2>1, <2>2, QuietKeeps
  <1>7. ASSUME NEW t \in Threads, NEW l \in Locks,
               \/ lock_acquire(t, l) \/ lock_acquire_again(t, l)
               \/ lock_acquire_own(t, l) \/ lock_acquire_first(t, l)
               \/ lock_release(t, l) \/ lock_release_clear(t, l)
        PROVE  WaitInv'
    <2>1. /\ Running(t) /\ pc[t].at # "down"
          /\ UNCHANGED <<status, value, waiters>>
      BY <1>7 DEF lock_acquire, lock_acquire_again, lock_acquire_own,
         lock_acquire_first, lock_release, lock_release_clear, InKernel, Out, At,
         lockVars, schedVars
    <2>2. \E p \in [at : Label, lock : Locks] : pc' = [pc EXCEPT ![t] = p]
      BY <1>0, <1>7 DEF lock_acquire, lock_acquire_again, lock_acquire_own,
         lock_acquire_first, lock_release, lock_release_clear, Goto, Return, Label
    <2>3. /\ pc' \in [Threads -> [at : Label, lock : Locks]]
          /\ \A u \in Threads : u # t => pc'[u] = pc[u]
      BY <1>0, <2>2
    <2>4. QED
      BY <1>0, <1>6, <2>1, <2>3 DEF At
  <1>8. ASSUME NEW t \in Threads, NEW l \in Locks, sema_down_take(t, l)
        PROVE  WaitInv'
    <2>1. /\ Running(t) /\ At(t, "down", l) /\ value' = [value EXCEPT ![l] = value[l] - 1]
          /\ value[l] = 1
          /\ UNCHANGED <<status, waiters>>
          /\ pc' = [pc EXCEPT ![t] = [at |-> "own", lock |-> l]]
      BY <1>0, <1>8 DEF sema_down_take, Goto, CanTake
    <2>2. /\ pc' \in [Threads -> [at : Label, lock : Locks]]
          /\ \A u \in Threads : u # t => pc'[u] = pc[u]
      BY <1>0, <2>1 DEF Label
    <2>3. value'[l] = 0 /\ \A m \in Locks : value'[m] = 1 => value[m] = 1
      BY <1>0, <2>1
    <2>4. QED
      BY <1>6, <2>1, <2>2, <2>3 DEF At
  <1>9. ASSUME NEW t \in Threads, NEW l \in Locks, sema_down_block(t, l)
        PROVE  WaitInv'
    BY <1>9, BlockKeeps
  <1>10. ASSUME NEW t \in Threads, NEW l \in Locks, sema_up(t, l)
         PROVE  WaitInv'
    <2>1. CASE waiters[l] # << >>
      BY <1>10, <2>1, WakeKeeps
    <2>2. CASE waiters[l] = << >>
      <3>1. /\ Running(t) /\ At(t, "up", l) /\ value' = [value EXCEPT ![l] = value[l] + 1]
            /\ UNCHANGED <<status, waiters>>
            /\ pc' = [pc EXCEPT ![t].at = "out"]
        BY <1>10, <2>2 DEF sema_up, Return, Wakes, WaitersLeft, ValueUp
      <3>2. /\ pc' \in [Threads -> [at : Label, lock : Locks]]
            /\ \A u \in Threads : u # t => pc'[u] = pc[u]
        BY <1>0, <3>1 DEF Label
      <3>3. \A m \in Locks : value'[m] = 1 => value[m] = 1 \/ waiters[m] = << >>
        BY <1>0, <2>2, <3>1
      <3>4. QED
        BY <1>6, <3>1, <3>2, <3>3 DEF At
    <2>3. QED
      BY <2>1, <2>2
  <1>11. CASE UNCHANGED vars
    BY <1>1, <1>11 DEF vars, schedVars, lockVars, Quiet
  <1>12. QED
    BY <1>2, <1>3, <1>4, <1>5, <1>7, <1>8, <1>9, <1>10, <1>11 DEF Next, LockStep

\* Every step keeps the invariant.
LEMMA SyncInvStep ==
  ASSUME SchedAssumption, SyncAssumption, SyncInv, [Next]_vars
  PROVE  SyncInv'
  <1>1. SchedInv'
    BY StepUsesScheduler, SchedInvStep DEF SyncInv
  <1>2. LockInv'
    BY LockInvStep DEF SyncInv
  <1>3. WaitInv'
    BY WaitInvStep
  <1>4. QED
    BY <1>1, <1>2, <1>3 DEF SyncInv

-----------------------------------------------------------------------------
(* What the clients of the locks rely on when they sleep for a reason of   *)
(* their own, outside lock_acquire and lock_release.                       *)

\* t sleeps, but not for a lock.
SleepsOutside(t) == status[t] = "BLOCKED" /\ pc[t].at = "out"

\* A step of a client that leaves the locks and the threads in sema_down alone.
LEMMA ClientStep ==
  ASSUME SchedAssumption, SyncInv, SchedInv', Quiet, UNCHANGED <<lockVars, pc>>
  PROVE  SyncInv'
  <1>1. UNCHANGED <<value, waiters, holder, repeat, pc>> /\ SchedInv /\ LockInv /\ WaitInv
    BY DEF lockVars, SyncInv
  <1>2. LockInv'
    BY <1>1, LockUnchanged
  <1>3. WaitInv'
    BY <1>1, QuietKeeps DEF LockInv, LockTypes, WaitInv
  <1>4. QED
    BY <1>2, <1>3 DEF SyncInv

\* The lock code neither wakes such a thread nor makes a thread one.
LEMMA OutsideKept ==
  ASSUME SchedAssumption, SyncAssumption, SyncInv, [Next]_vars,
         NEW t \in Threads \ {Idle}
  PROVE  SleepsOutside(t)' <=> SleepsOutside(t)
  <1>0. /\ SchedInv /\ WaitInv /\ cur \in Threads /\ status \in [Threads -> Status]
        /\ \A u \in Threads : status[u] = "RUNNING" <=> u = cur
        /\ pc \in [Threads -> [at : Label, lock : Locks]]
    BY DEF SyncInv, SchedInv, SchedTypeOK, ReadyListExact, LockInv, LockTypes
  <1>1. CASE Timer \/ IdleStep
    <2>1. SameKind(status[t], status'[t]) /\ pc' = pc
      BY <1>0, <1>1, SwitchEffect DEF Timer, IdleStep
    <2>2. QED
      BY <2>1 DEF SameKind, SleepsOutside
  <1>2. CASE MainLeaves
    <2>1. /\ pc' = pc /\ cur = Main /\ status'[Main] = "DIED"
          /\ t # Main => SameKind(status[t], status'[t])
      BY <1>0, <1>2, MainExitEffect DEF MainLeaves
    <2>2. QED
      BY <1>0, <2>1 DEF SameKind, SleepsOutside
  <1>3. ASSUME NEW u \in Threads, SyscallEnter(u) \/ SyscallReturn(u) \/ StartThread(u)
        PROVE  SleepsOutside(t)' <=> SleepsOutside(t)
    BY <1>0, <1>3 DEF SyscallEnter, SyscallReturn, StartThread, IntrDisable, IntrEnable,
       Start, ThreadStart, SleepsOutside
  <1>4. ASSUME NEW u \in Threads, YieldOutside(u)
        PROVE  SleepsOutside(t)' <=> SleepsOutside(t)
    <2>1. SameKind(status[t], status'[t]) /\ pc' = pc
      BY <1>0, <1>4, SwitchEffect DEF YieldOutside
    <2>2. QED
      BY <2>1 DEF SameKind, SleepsOutside
  <1>5. ASSUME NEW u \in Threads, NEW l \in Locks,
               \/ lock_acquire(u, l) \/ lock_acquire_again(u, l) \/ sema_down_take(u, l)
               \/ lock_acquire_own(u, l) \/ lock_acquire_first(u, l)
               \/ lock_release(u, l) \/ lock_release_clear(u, l)
        PROVE  SleepsOutside(t)' <=> SleepsOutside(t)
    <2>1. cur = u /\ status' = status
      BY <1>5 DEF lock_acquire, lock_acquire_again, sema_down_take, lock_acquire_own,
         lock_acquire_first, lock_release, lock_release_clear, InKernel, Running, schedVars
    <2>2. t # u => pc'[t] = pc[t]
      BY <1>0, <1>5 DEF lock_acquire, lock_acquire_again, sema_down_take, lock_acquire_own,
         lock_acquire_first, lock_release, lock_release_clear, Goto, Return
    <2>3. QED
      BY <1>0, <2>1, <2>2 DEF SleepsOutside
  <1>6. ASSUME NEW u \in Threads, NEW l \in Locks, sema_down_block(u, l)
        PROVE  SleepsOutside(t)' <=> SleepsOutside(t)
    <2>1. /\ cur = u /\ u # Idle /\ pc[u].at = "down" /\ pc' = pc
          /\ Schedule([status EXCEPT ![cur] = "BLOCKED"], ready)
      BY <1>6 DEF sema_down_block, Running, At
    <2>2. \A v \in Threads \ {Idle, cur} : SameKind(status[v], status'[v])
      BY <1>0, <2>1, BlockEffect DEF Blocked
    <2>3. QED
      BY <1>0, <2>1, <2>2 DEF SleepsOutside, SameKind
  <1>7. ASSUME NEW u \in Threads, NEW l \in Locks, sema_up(u, l)
        PROVE  SleepsOutside(t)' <=> SleepsOutside(t)
    <2>1. cur = u /\ pc' = [pc EXCEPT ![u].at = "out"]
      BY <1>7 DEF sema_up, Running, Return
    <2>2. \A v \in Threads : v # u => pc'[v] = pc[v]
      BY <1>0, <2>1
    <2>3. CASE waiters[l] = << >>
      BY <1>0, <1>7, <2>1, <2>2, <2>3 DEF sema_up, Wakes, SleepsOutside
    <2>4. CASE waiters[l] # << >>
      <3> DEFINE w == Head(waiters[l])
      <3>1. w \in Threads \ {Idle} /\ status[w] = "BLOCKED" /\ elem_find(waiters[l], w)
        <4>1. waiters[l] \in Seq(Threads)
          BY <1>0 DEF WaitInv
        <4>2. QED
          BY <1>7, <2>4, <4>1, WakeKeeps, PopFacts
      <3>2. status' = [status EXCEPT ![w] = "READY"]
        BY <1>7, <2>4 DEF sema_up, Wakes, UnblockStatus
      <3> HIDE DEF w
      <3>3. pc[w].at = "down" /\ w # u
        BY <1>0, <2>1, <3>1 DEF WaitInv, WaitersExact, At
      <3>4. QED
        BY <1>0, <2>1, <2>2, <3>1, <3>2, <3>3 DEF SleepsOutside
    <2>5. QED
      BY <2>3, <2>4
  <1>8. CASE UNCHANGED vars
    BY <1>8 DEF vars, schedVars, SleepsOutside
  <1>9. QED
    BY <1>1, <1>2, <1>3, <1>4, <1>5, <1>6, <1>7, <1>8 DEF Next, LockStep

\* A thread that sleeps while it holds a lock keeps it.
LEMMA SleeperKeepsLock ==
  ASSUME SyncAssumption, SyncInv, [Next]_vars,
         NEW t \in Threads, NEW l \in Locks, status[t] = "BLOCKED", holder[l] = t
  PROVE  holder'[l] = t
  <1>0. /\ LockInv /\ LockTypes /\ NoThread \notin Threads
        /\ \A u \in Threads : status[u] = "RUNNING" <=> u = cur
    BY DEF SyncInv, SchedInv, ReadyListExact, LockInv, SyncAssumption
  <1>1. ASSUME NEW u \in Threads, NEW m \in Locks, lock_acquire_own(u, m)
        PROVE  holder'[l] = t
    <2>1. holder[m] = NoThread
      BY <1>0, <1>1 DEF lock_acquire_own, LockInv, PlaceOK
    <2>2. QED
      BY <1>0, <1>1, <2>1 DEF lock_acquire_own, LockTypes
  <1>2. ASSUME NEW u \in Threads, NEW m \in Locks, lock_release(u, m)
        PROVE  holder'[l] = t
    <2>1. cur = u /\ holder[m] = u /\ (holder' = holder \/ holder' = [holder EXCEPT ![m] = NoThread])
      BY <1>2 DEF lock_release, InKernel, Running
    <2>2. QED
      BY <1>0, <2>1 DEF LockTypes
  <1>3. ASSUME NEW u \in Threads, NEW m \in Locks,
               \/ lock_acquire(u, m) \/ lock_acquire_again(u, m) \/ sema_down_take(u, m)
               \/ sema_down_block(u, m) \/ lock_acquire_first(u, m)
               \/ lock_release_clear(u, m) \/ sema_up(u, m)
        PROVE  holder' = holder
    BY <1>3 DEF lock_acquire, lock_acquire_again, sema_down_take, sema_down_block,
       lock_acquire_first, lock_release_clear, sema_up, lockVars
  <1>4. ASSUME NEW u \in Threads,
               SyscallEnter(u) \/ SyscallReturn(u) \/ YieldOutside(u) \/ StartThread(u)
        PROVE  holder' = holder
    BY <1>4 DEF SyscallEnter, SyscallReturn, YieldOutside, StartThread, lockVars
  <1>5. CASE Timer \/ IdleStep \/ MainLeaves \/ UNCHANGED vars
    BY <1>5 DEF Timer, IdleStep, MainLeaves, vars, lockVars
  <1>6. QED
    BY <1>1, <1>2, <1>3, <1>4, <1>5 DEF Next, LockStep

\* What a thread u inside lock_acquire or lock_release does leaves a holder that
\* is not inside them with its lock, and ends or begins no thread.
LEMMA LockStepKeeps ==
  ASSUME SchedAssumption, SyncAssumption, SyncInv, NEW u \in Threads, LockStep(u)
  PROVE  /\ cur = u /\ u # Idle /\ pc[u].at # "out"
         /\ \A t \in Threads : t # u => pc'[t] = pc[t]
         /\ \A t \in Threads, l \in Locks :
              holder[l] = t /\ pc[t].at = "out" => holder'[l] = t
         /\ \A t \in Threads \ {Idle} : status'[t] = "DIED" <=> status[t] = "DIED"
  <1>0. /\ SchedInv /\ WaitInv /\ LockInv /\ LockTypes /\ cur \in Threads
        /\ status \in [Threads -> Status] /\ status[cur] = "RUNNING"
        /\ pc \in [Threads -> [at : Label, lock : Locks]] /\ NoThread \notin Threads
    BY DEF SyncInv, SchedInv, SchedTypeOK, ReadyListExact, LockInv, LockTypes, SyncAssumption
  <1>1. PICK l \in Locks :
          \/ lock_acquire_again(u, l) \/ sema_down_block(u, l) \/ sema_down_take(u, l)
          \/ lock_acquire_own(u, l) \/ lock_acquire_first(u, l) \/ lock_release_clear(u, l)
          \/ sema_up(u, l)
    BY DEF LockStep
  <1>2. cur = u /\ u # Idle /\ pc[u].at # "out"
    BY <1>1 DEF Running, At, lock_acquire_again, sema_down_block, sema_down_take,
       lock_acquire_own, lock_acquire_first, lock_release_clear, sema_up
  <1>3. \A t \in Threads : t # u => pc'[t] = pc[t]
    BY <1>0, <1>1 DEF lock_acquire_again, sema_down_block, sema_down_take,
       lock_acquire_own, lock_acquire_first, lock_release_clear, sema_up, Goto, Return
  <1>4. ASSUME NEW t \in Threads, NEW m \in Locks, holder[m] = t, pc[t].at = "out"
        PROVE  holder'[m] = t
    <2>1. CASE lock_acquire_own(u, l)
      <3>1. holder[l] = NoThread /\ holder' = [holder EXCEPT ![l] = u]
        BY <1>0, <2>1 DEF lock_acquire_own, LockInv, PlaceOK
      <3>2. QED
        BY <1>0, <1>4, <3>1 DEF LockTypes
    <2>2. CASE ~lock_acquire_own(u, l)
      BY <1>1, <1>4, <2>2 DEF lock_acquire_again, sema_down_block, sema_down_take,
         lock_acquire_first, lock_release_clear, sema_up
    <2>3. QED
      BY <2>1, <2>2
  <1>5. \A t \in Threads \ {Idle} : status'[t] = "DIED" <=> status[t] = "DIED"
    <2>1. CASE sema_down_block(u, l)
      <3>1. Schedule([status EXCEPT ![cur] = "BLOCKED"], ready)
        BY <1>2, <2>1 DEF sema_down_block
      <3>2. /\ status'[cur] = "BLOCKED"
            /\ \A v \in Threads \ {Idle, cur} : SameKind(status[v], status'[v])
        BY <1>0, <1>2, <3>1, BlockEffect DEF Blocked
      <3>3. QED
        BY <1>0, <3>2 DEF SameKind
    <2>2. CASE sema_up(u, l) /\ waiters[l] # << >>
      <3>1. /\ Head(waiters[l]) \in Threads \ {Idle} /\ status[Head(waiters[l])] = "BLOCKED"
            /\ status' = [status EXCEPT ![Head(waiters[l])] = "READY"]
        BY <2>2, WakeKeeps DEF sema_up, Wakes, UnblockStatus
      <3>2. QED
        BY <1>0, <3>1
    <2>3. CASE ~sema_down_block(u, l) /\ ~(sema_up(u, l) /\ waiters[l] # << >>)
      BY <1>1, <2>3 DEF lock_acquire_again, sema_down_take, lock_acquire_own, lock_acquire_first,
         lock_release_clear, sema_up, Wakes, schedVars
    <2>4. QED
      BY <2>1, <2>2, <2>3
  <1>6. QED
    BY <1>2, <1>3, <1>4, <1>5

-----------------------------------------------------------------------------
(* The theorems.                                                           *)

\* The initial state: nobody in sync.c, every lock free.
LEMMA SyncInitial ==
  ASSUME SchedAssumption, SyncAssumption, Init
  PROVE  LockInv /\ WaitInv
  <1>1. PICK k \in Locks : pc = [t \in Threads |-> [at |-> "out", lock |-> k]]
    BY DEF Init
  <1>2. /\ value = [l \in Locks |-> 1] /\ waiters = [l \in Locks |-> << >>]
        /\ holder = [l \in Locks |-> NoThread] /\ repeat = [l \in Locks |-> 0]
        /\ NoThread \notin Threads /\ MaxRepeat \in Nat /\ Idle \in Threads
    BY DEF Init, SyncAssumption, SchedAssumption
  <1>3. \A t \in Threads : pc[t].at = "out"
    BY <1>1
  <1>4. LockInv
    BY <1>1, <1>2, <1>3 DEF LockInv, LockTypes, PlaceOK, ValueExact,
       MutualExclusion, Owns, At, Label
  <1>5. WaitInv
    BY <1>2, <1>3, EmptyFacts DEF WaitInv, WaitersExact, NoLostWakeup, At
  <1>6. QED
    BY <1>4, <1>5

\* The detailed specification keeps its invariant and implements that of the
\* scheduler: sync.c calls thread_block and thread_unblock only as thread.c
\* allows (sync.c:17-67).
THEOREM SyncInvariant == Spec => []SyncInv
  <1>1. Init => SyncInv
    <2>1. Init => SchedInit
      BY DEF Init
    <2>2. SchedInit => SchedInv
      BY SchedInitial, SchedAssumption
    <2>3. QED
      BY <2>1, <2>2, SyncInitial, SchedAssumption, SyncAssumption DEF SyncInv
  <1>2. SyncInv /\ [Next]_vars => SyncInv'
    BY SyncInvStep, SchedAssumption, SyncAssumption
  <1>3. QED
    BY <1>1, <1>2, PTL DEF Spec

\* At most one thread is between sema_down and sema_up of a lock, for every
\* number of threads and locks and every preemption (sync.c:46-67).
THEOREM LocksExclude == Spec => []MutualExclusion
  <1>1. SyncInv => MutualExclusion
    BY DEF SyncInv, LockInv
  <1>2. QED
    BY <1>1, SyncInvariant, PTL

\* A free lock that is waited for always has a thread about to take it.
THEOREM WakeupsNotLost == Spec => []NoLostWakeup
  <1>1. SyncInv => NoLostWakeup
    BY DEF SyncInv, WaitInv
  <1>2. QED
    BY <1>1, SyncInvariant, PTL

\* Value, holder and nesting count of every lock agree with where its owner is,
\* at every preemption of lock_acquire and lock_release (sync.c:46-67).
THEOREM LocksExact == Spec => []LockExact
  <1>1. SyncInv => LockExact
    <2>1. SUFFICES ASSUME SyncInv, NEW l \in Locks
                   PROVE  repeat[l] > 0 <=>
                            \E t \in Threads : \/ holder[l] = t /\ ~At(t, "first", l)
                                               \/ At(t, "clear", l)
      BY DEF SyncInv, LockInv, LockExact, RepeatExact
    <2>2. /\ repeat[l] \in 0..MaxRepeat /\ value[l] \in 0..1 /\ MaxRepeat \in Nat
          /\ value[l] = 1 => repeat[l] = 0
          /\ value[l] = 0 => \E t \in Threads : Owns(t, l)
          /\ \A t \in Threads : PlaceOK(t, l)
      BY <2>1, SyncAssumption DEF SyncInv, LockInv, LockTypes, ValueExact, SyncAssumption
    <2>3. ASSUME repeat[l] > 0
          PROVE  \E t \in Threads : \/ holder[l] = t /\ ~At(t, "first", l)
                                    \/ At(t, "clear", l)
      <3>1. PICK t \in Threads : Owns(t, l)
        BY <2>2, <2>3
      <3>2. QED
        BY <2>2, <2>3, <3>1 DEF PlaceOK, Owns, At
    <2>4. ASSUME NEW t \in Threads,
                 (holder[l] = t /\ ~At(t, "first", l)) \/ At(t, "clear", l)
          PROVE  repeat[l] > 0
      BY <2>2, <2>4 DEF PlaceOK
    <2>5. QED
      BY <2>3, <2>4
  <1>2. QED
    BY <1>1, SyncInvariant, PTL

\* A thread is in the list of waiters of a lock, once, exactly if it sleeps in
\* sema_down on that lock (sync.c:21-26, 36-40).
THEOREM WaitersAlwaysExact == Spec => []WaitersExact
  <1>1. SyncInv => WaitersExact
    BY DEF SyncInv, WaitInv
  <1>2. QED
    BY <1>1, SyncInvariant, PTL

\* No ASSERT of sync.c or thread.c fires.
THEOREM SyncNeverPanics == Spec => []NoPanic
  <1>1. SyncInv => NoPanic
    BY DEF SyncInv, SchedInv
  <1>2. QED
    BY <1>1, SyncInvariant, PTL

\* Types are kept, counters within their widths.
THEOREM SyncTypes == Spec => []TypeOK
  <1>1. SyncInv => TypeOK
    BY DEF SyncInv, SchedInv, LockInv, LockTypes, WaitInv, TypeOK
  <1>2. QED
    BY <1>1, SyncInvariant, PTL

\* Refinement: locks and semaphores implement the scheduler's specification.
THEOREM SyncImplementsSched == Spec => UsesScheduler
  <1>1. Init => SchedInit
    BY DEF Init
  <1>2. SyncInv /\ [Next]_vars => [SchedNext]_schedVars
    BY StepUsesScheduler, SchedAssumption, SyncAssumption
  <1>3. QED
    BY <1>1, <1>2, SyncInvariant, PTL DEF Spec, UsesScheduler, SchedSpec

-----------------------------------------------------------------------------
(* The ring buffer.                                                        *)

RingOK ==
  /\ buf \in [0..(BufSize - 1) -> Chars]
  /\ head \in 0..(BufSize - 1)
  /\ tail \in 0..(BufSize - 1)
  /\ got \in Chars

\* The remainder of a number that is less than twice the divisor.
LEMMA WrapOnce ==
  ASSUME NEW B \in Nat \ {0}, NEW a \in 0..(2 * B - 1)
  PROVE  a % B = IF a < B THEN a ELSE a - B
  OBVIOUS

\* next_pos steps around the ring.
LEMMA NextPos ==
  ASSUME IOQueueAssumption, NEW p \in 0..(BufSize - 1)
  PROVE  /\ next_pos(p) = IF p = BufSize - 1 THEN 0 ELSE p + 1
         /\ next_pos(p) \in 0..(BufSize - 1)
  <1>1. BufSize \in Nat \ {0} /\ p + 1 \in 0..(2 * BufSize - 1)
    BY DEF IOQueueAssumption
  <1>2. (p + 1) % BufSize = IF p + 1 < BufSize THEN p + 1 ELSE p + 1 - BufSize
    <2> DEFINE a == p + 1
    <2>1. BufSize \in Nat \ {0} /\ a \in 0..(2 * BufSize - 1)
      BY <1>1
    <2> HIDE DEF a
    <2>2. a % BufSize = IF a < BufSize THEN a ELSE a - BufSize
      BY <2>1, WrapOnce
    <2>3. QED
      BY <2>2 DEF a
  <1>3. QED
    BY <1>1, <1>2 DEF next_pos

\* ioq_length counts the bytes between tail and head; ioq_empty and ioq_full
\* are its extremes.
LEMMA LengthFacts ==
  ASSUME IOQueueAssumption, RingOK
  PROVE  /\ ioq_length \in 0..(BufSize - 1)
         /\ ioq_empty <=> ioq_length = 0
         /\ ioq_full <=> ioq_length = BufSize - 1
  <1>1. BufSize \in Nat \ {0, 1} /\ head \in 0..(BufSize - 1) /\ tail \in 0..(BufSize - 1)
    BY DEF IOQueueAssumption, RingOK
  <1>2. next_pos(head) = IF head = BufSize - 1 THEN 0 ELSE head + 1
    BY <1>1, NextPos
  <1>3. QED
    BY <1>1, <1>2 DEF ioq_length, ioq_empty, ioq_full

\* The place of the i-th byte from tail.
Slot(tl, i) == IF tl + i - 1 < BufSize THEN tl + i - 1 ELSE tl + i - 1 - BufSize

\* n bytes of a ring, from tl on, as a sequence.
RingSeq(b, tl, n) == [i \in 1..n |-> b[(tl + i - 1) % BufSize]]

HoldsRing(s, b, tl, n) ==
  /\ s \in Seq(Chars) /\ Len(s) = n
  /\ \A i \in 1..n : Slot(tl, i) \in 0..(BufSize - 1) /\ s[i] = b[Slot(tl, i)]

LEMMA RingSeqFacts ==
  ASSUME IOQueueAssumption, NEW b \in [0..(BufSize - 1) -> Chars],
         NEW tl \in 0..(BufSize - 1), NEW n \in 0..(BufSize - 1)
  PROVE  HoldsRing(RingSeq(b, tl, n), b, tl, n)
  <1>1. BufSize \in Nat \ {0, 1} /\ n \in Nat
    BY DEF IOQueueAssumption
  <1>2. ASSUME NEW i \in 1..n
        PROVE  Slot(tl, i) \in 0..(BufSize - 1) /\ (tl + i - 1) % BufSize = Slot(tl, i)
    <2> DEFINE a == tl + i - 1
    <2>1. BufSize \in Nat \ {0} /\ a \in 0..(2 * BufSize - 1)
      BY <1>1
    <2>2. Slot(tl, i) = IF a < BufSize THEN a ELSE a - BufSize
      BY DEF Slot
    <2> HIDE DEF a
    <2>3. a % BufSize = IF a < BufSize THEN a ELSE a - BufSize
      BY <2>1, WrapOnce
    <2>4. Slot(tl, i) \in 0..(BufSize - 1)
      BY <2>1, <2>2
    <2>5. QED
      BY <2>2, <2>3, <2>4 DEF a
  <1>3. \A i \in 1..n : b[(tl + i - 1) % BufSize] \in Chars
    BY <1>2
  <1>4. RingSeq(b, tl, n) \in Seq(Chars) /\ Len(RingSeq(b, tl, n)) = n
    BY <1>1, <1>3, IsASeq DEF RingSeq
  <1>5. \A i \in 1..n : RingSeq(b, tl, n)[i] = b[(tl + i - 1) % BufSize]
    BY DEF RingSeq
  <1>6. QED
    BY <1>2, <1>4, <1>5 DEF HoldsRing

\* ioq_putchar appends its byte.
LEMMA PutFacts ==
  ASSUME IOQueueAssumption, RingOK, NEW c \in Chars, ~ioq_full, PutByte(c)
  PROVE  /\ RingOK'
         /\ ioq_length' = ioq_length + 1
         /\ F!Put(c)
  <1>0. /\ BufSize \in Nat \ {0, 1} /\ tail \in 0..(BufSize - 1) /\ head \in 0..(BufSize - 1)
        /\ buf \in [0..(BufSize - 1) -> Chars]
    BY DEF IOQueueAssumption, RingOK
  <1>1. /\ buf' = [buf EXCEPT ![head] = c] /\ head' = next_pos(head) /\ tail' = tail /\ got' = got
    BY DEF PutByte
  <1>2. next_pos(head) = (IF head = BufSize - 1 THEN 0 ELSE head + 1)
        /\ next_pos(head) \in 0..(BufSize - 1)
    BY <1>0, NextPos
  <1>3. RingOK'
    BY <1>0, <1>1, <1>2 DEF RingOK
  <1>4. ioq_length \in 0..(BufSize - 2)
    BY <1>0, LengthFacts
  <1>5. ioq_length' = ioq_length + 1
    BY <1>0, <1>1, <1>2, <1>4 DEF ioq_length, ioq_full
  <1>6. Slot(tail, ioq_length + 1) = head
    BY <1>0 DEF Slot, ioq_length
  <1>7. \A i \in 1..ioq_length : Slot(tail, i) # head
    BY <1>0, <1>4 DEF Slot, ioq_length
  <1>8. \A i \in Int : Slot(tail', i) = Slot(tail, i)
    BY <1>1 DEF Slot
  <1>9. /\ Contents \in Seq(Chars) /\ Len(Contents) = ioq_length
        /\ \A i \in 1..ioq_length : /\ Slot(tail, i) \in 0..(BufSize - 1)
                                    /\ Contents[i] = buf[Slot(tail, i)]
    <2>1. Contents = RingSeq(buf, tail, ioq_length) /\ ioq_length \in 0..(BufSize - 1)
      BY <1>0, <1>4 DEF Contents, RingSeq
    <2>2. HoldsRing(Contents, buf, tail, ioq_length)
      BY <1>0, <2>1, RingSeqFacts
    <2>3. QED
      BY <2>2 DEF HoldsRing
  <1>10. /\ Contents' \in Seq(Chars) /\ Len(Contents') = ioq_length'
         /\ \A i \in 1..ioq_length' : /\ Slot(tail', i) \in 0..(BufSize - 1)
                                      /\ Contents'[i] = buf'[Slot(tail', i)]
    <2>1. Contents' = RingSeq(buf', tail', ioq_length') /\ ioq_length' \in 0..(BufSize - 1)
      BY <1>0, <1>4, <1>5 DEF Contents, RingSeq
    <2>2. buf' \in [0..(BufSize - 1) -> Chars] /\ tail' \in 0..(BufSize - 1)
      BY <1>3 DEF RingOK
    <2>3. HoldsRing(Contents', buf', tail', ioq_length')
      BY <2>1, <2>2, RingSeqFacts
    <2>4. QED
      BY <2>3 DEF HoldsRing
  <1>11. Contents' = Append(Contents, c)
    <2> DEFINE s == Contents
               s1 == Contents'
               n == ioq_length
    <2>1. /\ s \in Seq(Chars) /\ Len(s) = n /\ n \in Nat
          /\ s1 \in Seq(Chars) /\ Len(s1) = n + 1
      BY <1>0, <1>4, <1>5, <1>9, <1>10
    <2>2. \A i \in 1..n : s1[i] = s[i]
      <3>1. SUFFICES ASSUME NEW i \in 1..n PROVE s1[i] = s[i]
        OBVIOUS
      <3>2. i \in 1..ioq_length' /\ Slot(tail', i) = Slot(tail, i) /\ Slot(tail, i) # head
        BY <1>4, <1>5, <1>7, <1>8
      <3>3. buf'[Slot(tail, i)] = buf[Slot(tail, i)]
        BY <1>0, <1>1, <1>9, <3>2
      <3>4. QED
        BY <1>9, <1>10, <3>2, <3>3
    <2>3. s1[n + 1] = c
      <3>1. n + 1 \in 1..ioq_length' /\ Slot(tail', n + 1) = head
        BY <1>4, <1>5, <1>6, <1>8
      <3>2. QED
        BY <1>0, <1>1, <1>10, <3>1
    <2> HIDE DEF s, s1, n
    <2>4. /\ Append(s, c) \in Seq(Chars) /\ Len(Append(s, c)) = n + 1
          /\ \A i \in 1..n : Append(s, c)[i] = s[i]
          /\ Append(s, c)[n + 1] = c
      BY <2>1, AppendProperties
    <2>5. \A i \in 1..(n + 1) : s1[i] = Append(s, c)[i]
      <3>1. \A i \in 1..(n + 1) : i \in 1..n \/ i = n + 1
        BY <2>1
      <3>2. QED
        BY <2>2, <2>3, <2>4, <3>1
    <2>6. s1 = Append(s, c)
      BY <2>1, <2>4, <2>5, SeqEqual
    <2>7. QED
      BY <2>6 DEF s, s1
  <1>12. Len(Contents) < BufSize - 1
    BY <1>0, <1>4, <1>9
  <1>13. QED
    BY <1>1, <1>3, <1>5, <1>11, <1>12 DEF F!Put

\* ioq_getchar returns the oldest byte.
LEMMA TakeFacts ==
  ASSUME IOQueueAssumption, RingOK, ~ioq_empty, TakeByte
  PROVE  /\ RingOK'
         /\ ioq_length' = ioq_length - 1
         /\ F!Get
  <1>0. /\ BufSize \in Nat \ {0, 1} /\ tail \in 0..(BufSize - 1) /\ head \in 0..(BufSize - 1)
        /\ buf \in [0..(BufSize - 1) -> Chars]
    BY DEF IOQueueAssumption, RingOK
  <1>1. got' = buf[tail] /\ tail' = next_pos(tail) /\ buf' = buf /\ head' = head
    BY DEF TakeByte
  <1>2. next_pos(tail) = (IF tail = BufSize - 1 THEN 0 ELSE tail + 1)
        /\ next_pos(tail) \in 0..(BufSize - 1)
    BY <1>0, NextPos
  <1>3. RingOK'
    BY <1>0, <1>1, <1>2 DEF RingOK
  <1>4. ioq_length \in 1..(BufSize - 1)
    BY <1>0, LengthFacts
  <1>5. ioq_length' = ioq_length - 1
    BY <1>0, <1>1, <1>2, <1>4 DEF ioq_length, ioq_empty
  <1>6. Slot(tail, 1) = tail
    BY <1>0 DEF Slot
  <1>7. \A i \in 1..(ioq_length - 1) : Slot(tail', i) = Slot(tail, i + 1)
    BY <1>0, <1>1, <1>2, <1>4 DEF Slot
  <1>9. /\ Contents \in Seq(Chars) /\ Len(Contents) = ioq_length
        /\ \A i \in 1..ioq_length : /\ Slot(tail, i) \in 0..(BufSize - 1)
                                    /\ Contents[i] = buf[Slot(tail, i)]
    <2>1. Contents = RingSeq(buf, tail, ioq_length) /\ ioq_length \in 0..(BufSize - 1)
      BY <1>0, <1>4 DEF Contents, RingSeq
    <2>2. HoldsRing(Contents, buf, tail, ioq_length)
      BY <1>0, <2>1, RingSeqFacts
    <2>3. QED
      BY <2>2 DEF HoldsRing
  <1>10. /\ Contents' \in Seq(Chars) /\ Len(Contents') = ioq_length'
         /\ \A i \in 1..ioq_length' : /\ Slot(tail', i) \in 0..(BufSize - 1)
                                      /\ Contents'[i] = buf'[Slot(tail', i)]
    <2>1. Contents' = RingSeq(buf', tail', ioq_length') /\ ioq_length' \in 0..(BufSize - 1)
      BY <1>0, <1>4, <1>5 DEF Contents, RingSeq
    <2>2. buf' \in [0..(BufSize - 1) -> Chars] /\ tail' \in 0..(BufSize - 1)
      BY <1>3 DEF RingOK
    <2>3. HoldsRing(Contents', buf', tail', ioq_length')
      BY <2>1, <2>2, RingSeqFacts
    <2>4. QED
      BY <2>3 DEF HoldsRing
  <1> DEFINE s == Contents
             s1 == Contents'
             n == ioq_length
  <1>11. /\ s \in Seq(Chars) /\ Len(s) = n /\ n \in Nat \ {0}
         /\ s1 \in Seq(Chars) /\ Len(s1) = n - 1
    BY <1>0, <1>4, <1>5, <1>9, <1>10
  <1>12. \A i \in 1..(n - 1) : s1[i] = s[i + 1]
    <2>1. SUFFICES ASSUME NEW i \in 1..(n - 1) PROVE s1[i] = s[i + 1]
      OBVIOUS
    <2>2. i \in 1..ioq_length' /\ i + 1 \in 1..ioq_length /\ Slot(tail', i) = Slot(tail, i + 1)
      BY <1>4, <1>5, <1>7
    <2>3. QED
      BY <1>1, <1>9, <1>10, <2>2
  <1>13. s[1] = buf[tail]
    BY <1>0, <1>4, <1>6, <1>9
  <1> HIDE DEF s, s1, n
  <1>14. s # << >> /\ Head(s) = s[1]
    BY <1>11
  <1>15. /\ Tail(s) \in Seq(Chars) /\ Len(Tail(s)) = n - 1
         /\ \A i \in 1..(n - 1) : Tail(s)[i] = s[i + 1]
    BY <1>11, <1>14, HeadTailProperties
  <1>16. s1 = Tail(s)
    BY <1>11, <1>12, <1>15, SeqEqual
  <1>17. QED
    BY <1>1, <1>3, <1>5, <1>13, <1>14, <1>16 DEF F!Get, s, s1, n

\* Every step moves the ring as a step of the channel, or leaves it alone.
LEMMA RingStep ==
  ASSUME IOQueueAssumption, RingOK, [IONext]_allVars
  PROVE  RingOK' /\ [F!FifoNext]_<<Contents, got>>
  <1>1. ASSUME UNCHANGED <<buf, head, tail, got>>
        PROVE  RingOK' /\ UNCHANGED <<Contents, got>>
    BY <1>1 DEF RingOK, Contents, ioq_length
  <1>2. CASE Machine \/ UNCHANGED allVars
    BY <1>1, <1>2 DEF Machine, allVars, ioVars
  <1>3. ASSUME NEW c \in Chars, intr_keyboard_handler(c)
        PROVE  RingOK' /\ [F!FifoNext]_<<Contents, got>>
    <2>1. CASE ioq_full
      BY <1>1, <1>3, <2>1 DEF intr_keyboard_handler, Fits
    <2>2. CASE ~ioq_full
      BY <1>3, <2>2, PutFacts DEF intr_keyboard_handler, Fits, F!FifoNext
    <2>3. QED
      BY <2>1, <2>2
  <1>4. ASSUME NEW t \in SysThreads, ioq_transfer(t)
        PROVE  RingOK' /\ [F!FifoNext]_<<Contents, got>>
    <2>1. CASE io[t].side = "get"
      <3>1. ~ioq_empty /\ TakeByte
        BY <1>4, <2>1 DEF ioq_transfer, MustWait
      <3>2. QED
        BY <3>1, TakeFacts DEF F!FifoNext
    <2>2. CASE io[t].side # "get"
      <3>1. ~ioq_full /\ \E c \in Chars : PutByte(c)
        BY <1>4, <2>2 DEF ioq_transfer, MustWait
      <3>2. QED
        BY <3>1, PutFacts DEF F!FifoNext
    <2>3. QED
      BY <2>1, <2>2
  <1>5. ASSUME NEW t \in SysThreads,
               ioq_lock(t) \/ ioq_wait(t) \/ ioq_unlock(t) \/ InLock(t)
        PROVE  UNCHANGED <<buf, head, tail, got>>
    BY <1>5 DEF ioq_lock, ioq_wait, ioq_unlock, InLock, ioVars
  <1>6. ASSUME NEW t \in SysThreads, NEW n \in 0..MaxCount,
               sys_read(t) \/ pipe_read(t, n) \/ pipe_write(t, n)
        PROVE  UNCHANGED <<buf, head, tail, got>>
    BY <1>6 DEF sys_read, pipe_read, pipe_write, Call
  <1>7. QED
    BY <1>1, <1>2, <1>3, <1>4, <1>5, <1>6 DEF IONext, QueueStep, sys_read, Call

-----------------------------------------------------------------------------
(* The slots consumer and producer.                                        *)

IOTypes ==
  /\ waiter \in [Side -> SysThreads \cup {NoThread}]
  /\ io \in [Threads -> [at : {"idle", "test", "enter", "leave"}, side : Side, left : Nat]]
  /\ \A t \in Threads : io[t].at # "idle" => io[t].left > 0
  /\ use \in {"keyboard", "pipe"}

\* A slot names the thread that sleeps in ioq_wait on its side, and that thread
\* has the queue's lock.
Slots ==
  /\ \A side \in Side : \A t \in SysThreads :
       waiter[side] = t <=>
         io[t].at = "leave" /\ io[t].side = side /\ SleepsOutside(t)
  /\ \A side \in Side : waiter[side] # NoThread => holder[QLock] = waiter[side]

\* QLock is a lock, and what the assumptions say of the threads.
LEMMA IOFacts ==
  ASSUME SchedAssumption, SyncAssumption, SyncInv
  PROVE  /\ QLock \in Locks
         /\ SysThreads \subseteq Threads \ {Idle, Main} /\ NoThread \notin Threads
         /\ cur \in Threads /\ status[cur] = "RUNNING" /\ ~panic
         /\ status \in [Threads -> Status] /\ iflag \in [Threads -> BOOLEAN]
         /\ pc \in [Threads -> [at : Label, lock : Locks]]
  <1>1. /\ cur \in Threads /\ status[cur] = "RUNNING" /\ ~panic
        /\ status \in [Threads -> Status] /\ iflag \in [Threads -> BOOLEAN]
        /\ pc \in [Threads -> [at : Label, lock : Locks]]
    BY DEF SyncInv, SchedInv, SchedTypeOK, ReadyListExact, NoPanic, LockInv, LockTypes
  <1>2. pc[cur].lock \in Locks
    BY <1>1
  <1>3. QLock \in Locks
    BY <1>2 DEF QLock
  <1>4. QED
    BY <1>1, <1>3 DEF SyncAssumption

\* A step of the lock code, of the scheduler or of a caller, which changes at
\* most the place of the running thread, keeps the slots.
LEMMA SlotsKept ==
  ASSUME SchedAssumption, SyncAssumption, SyncInv, IOTypes, Slots, [Next]_vars,
         UNCHANGED waiter, \A t \in SysThreads : t # cur => io'[t] = io[t]
  PROVE  Slots'
  <1>0. /\ QLock \in Locks /\ status[cur] = "RUNNING"
        /\ SysThreads \subseteq Threads \ {Idle, Main}
    BY IOFacts
  <1>1. \A t \in SysThreads : SleepsOutside(t)' <=> SleepsOutside(t)
    BY <1>0, OutsideKept
  <1>2. ~SleepsOutside(cur)
    BY <1>0 DEF SleepsOutside
  <1>3. ASSUME NEW side \in Side, NEW t \in SysThreads
        PROVE  waiter'[side] = t <=>
                 io'[t].at = "leave" /\ io'[t].side = side /\ SleepsOutside(t)'
    <2>1. CASE t = cur
      BY <1>1, <1>2, <2>1 DEF Slots
    <2>2. CASE t # cur
      BY <1>1, <2>2 DEF Slots
    <2>3. QED
      BY <2>1, <2>2
  <1>4. ASSUME NEW side \in Side, waiter[side] # NoThread, waiter[side] \in SysThreads
        PROVE  holder'[QLock] = waiter[side]
    <2>1. holder[QLock] = waiter[side] /\ SleepsOutside(waiter[side])
      BY <1>4 DEF Slots
    <2>2. status[waiter[side]] = "BLOCKED" /\ waiter[side] \in Threads
      BY <1>0, <1>4, <2>1 DEF SleepsOutside
    <2>3. QED
      BY <1>0, <2>1, <2>2, SleeperKeepsLock
  <1>5. QED
    BY <1>3, <1>4 DEF Slots, IOTypes

\* weakup wakes the thread in the slot, which sleeps in ioq_wait, and no other.
LEMMA WeakupKeeps ==
  ASSUME SchedAssumption, SyncAssumption, SyncInv, IOTypes, Slots,
         NEW side \in Side, weakup(side),
         cur = Idle => iflag[Idle],
         idlePc' = (IF cur = Idle /\ idlePc = "hlt" THEN "block" ELSE idlePc),
         UNCHANGED <<iflag, lockVars, pc>>,
         \A t \in SysThreads : t # cur => io'[t] = io[t]
  PROVE  SyncInv' /\ Slots'
  <1>0. /\ status[cur] = "RUNNING" /\ SysThreads \subseteq Threads \ {Idle, Main}
        /\ NoThread \notin Threads /\ SchedInv /\ ~panic /\ holder' = holder
        /\ status \in [Threads -> Status] /\ waiter \in [Side -> SysThreads \cup {NoThread}]
    BY IOFacts DEF lockVars, SyncInv, IOTypes
  <1>1. CASE waiter[side] = NoThread
    <2>1. UNCHANGED <<status, ready, ticks, cur, panic, waiter, iflag>>
      BY <1>1 DEF weakup, Sleeper
    <2>2. SchedInv'
      BY <1>0, <2>1 DEF SchedInv, SchedTypeOK, ReadyListExact, NoPanic
    <2>3. Quiet
      BY <2>1 DEF Quiet
    <2>4. SyncInv'
      BY <2>2, <2>3, ClientStep
    <2>5. \A t \in SysThreads : SleepsOutside(t)' <=> SleepsOutside(t)
      BY <2>1 DEF SleepsOutside
    <2>6. ~SleepsOutside(cur)
      BY <1>0 DEF SleepsOutside
    <2>7. \A d \in Side, t \in SysThreads :
            waiter'[d] = t <=> io'[t].at = "leave" /\ io'[t].side = d /\ SleepsOutside(t)'
      <3>1. SUFFICES ASSUME NEW d \in Side, NEW t \in SysThreads
                     PROVE  waiter'[d] = t <=>
                              io'[t].at = "leave" /\ io'[t].side = d /\ SleepsOutside(t)'
        OBVIOUS
      <3>2. CASE t = cur
        BY <2>1, <2>5, <2>6, <3>2 DEF Slots
      <3>3. CASE t # cur
        BY <2>1, <2>5, <3>3 DEF Slots
      <3>4. QED
        BY <3>2, <3>3
    <2>8. Slots'
      BY <1>0, <2>1, <2>7 DEF Slots
    <2>9. QED
      BY <2>4, <2>8
  <1>2. CASE waiter[side] # NoThread
    <2>1. PICK w \in SysThreads :
             waiter[side] = w /\ io[w].at = "leave" /\ io[w].side = side /\ SleepsOutside(w)
      BY <1>0, <1>2 DEF Slots
    <2>2. /\ ThreadUnblock(w) /\ waiter' = [waiter EXCEPT ![side] = NoThread]
          /\ status[w] = "BLOCKED" /\ pc[w].at = "out" /\ w \in Threads /\ w # Idle
      BY <1>0, <1>2, <2>1 DEF weakup, Sleeper, SleepsOutside
    <2>3. status' = [status EXCEPT ![w] = "READY"] /\ UNCHANGED <<cur, pc, iflag>>
      BY <2>2 DEF ThreadUnblock, UnblockStatus
    <2>4. Unblock(w)
      BY <1>0, <2>2 DEF Unblock
    <2>5. SchedInv'
      BY <1>0, <2>2, <2>4, SchedInvStep DEF SchedNext
    <2>6. Quiet
      BY <1>0, <2>2, <2>3 DEF Quiet
    <2>7. SyncInv'
      BY <2>5, <2>6, ClientStep
    <2>8. /\ ~SleepsOutside(w)' /\ ~SleepsOutside(cur)
          /\ \A t \in SysThreads : t # w => (SleepsOutside(t)' <=> SleepsOutside(t))
      BY <1>0, <2>2, <2>3 DEF SleepsOutside
    <2>9. \A d \in Side, t \in SysThreads :
            waiter'[d] = t <=> io'[t].at = "leave" /\ io'[t].side = d /\ SleepsOutside(t)'
      <3>1. SUFFICES ASSUME NEW d \in Side, NEW t \in SysThreads
                     PROVE  waiter'[d] = t <=>
                              io'[t].at = "leave" /\ io'[t].side = d /\ SleepsOutside(t)'
        OBVIOUS
      <3>2. waiter'[d] = (IF d = side THEN NoThread ELSE waiter[d])
        BY <1>0, <2>2
      <3>3. CASE t = w
        BY <1>0, <2>1, <2>8, <3>2, <3>3 DEF Slots
      <3>4. CASE t = cur /\ t # w
        BY <1>0, <2>8, <3>2, <3>4 DEF Slots
      <3>5. CASE t # cur /\ t # w
        <4>1. waiter[d] = t <=> io'[t].at = "leave" /\ io'[t].side = d /\ SleepsOutside(t)'
          BY <2>8, <3>5 DEF Slots
        <4>2. d = side => waiter[d] # t /\ waiter'[d] # t
          BY <1>0, <2>1, <3>2, <3>5
        <4>3. QED
          BY <3>2, <4>1, <4>2
      <3>6. QED
        BY <3>3, <3>4, <3>5
    <2>10. \A d \in Side : waiter'[d] # NoThread => holder'[QLock] = waiter'[d]
      BY <1>0, <2>2 DEF Slots
    <2>11. Slots'
      BY <2>9, <2>10 DEF Slots
    <2>12. QED
      BY <2>7, <2>11
  <1>3. QED
    BY <1>1, <1>2

\* ioq_wait finds its slot free: a thread in it would sleep with the lock that
\* the caller has.
LEMMA WaitKeeps ==
  ASSUME SchedAssumption, SyncAssumption, SyncInv, IOTypes, Slots,
         NEW r \in SysThreads, ioq_wait(r)
  PROVE  SyncInv' /\ Slots' /\ \A d \in Side : waiter[d] = NoThread
  <1>0. /\ status[cur] = "RUNNING" /\ SysThreads \subseteq Threads \ {Idle, Main}
        /\ NoThread \notin Threads /\ SchedInv /\ ~panic
        /\ status \in [Threads -> Status] /\ iflag \in [Threads -> BOOLEAN]
        /\ waiter \in [Side -> SysThreads \cup {NoThread}] /\ LockInv /\ LockTypes
        /\ io \in [Threads -> [at : {"idle", "test", "enter", "leave"}, side : Side, left : Nat]]
    BY IOFacts DEF SyncInv, IOTypes, LockInv
  <1> DEFINE side == io[r].side
  <1>1. /\ cur = r /\ r # Idle /\ Running(r) /\ pc[r].at = "out" /\ holder[QLock] = r
        /\ waiter' = [waiter EXCEPT ![side] = r]
        /\ panic' = (waiter[side] # NoThread \/ ~ScheduleAsserts([status EXCEPT ![r] = "BLOCKED"], ready))
        /\ Schedule([status EXCEPT ![r] = "BLOCKED"], ready)
        /\ io' = [io EXCEPT ![r].at = "leave"]
        /\ UNCHANGED <<iflag, idlePc, lockVars, pc, holder>>
    BY DEF ioq_wait, Here, InKernel, Running, Out, Step, lockVars
  <1>2. \A d \in Side : waiter[d] = NoThread
    BY <1>0, <1>1 DEF Slots, SleepsOutside
  <1>3. side \in Side /\ r \in Threads
    BY <1>0
  <1> HIDE DEF side
  <1>4. ThreadBlock("BLOCKED")
    <2>1. waiter[side] = NoThread
      BY <1>2, <1>3
    <2>2. panic' = ~ScheduleAsserts([status EXCEPT ![cur] = "BLOCKED"], ready)
      BY <1>1, <2>1, Zenon
    <2>3. QED
      BY <1>1, <2>2 DEF ThreadBlock
  <1>5. Block(r, "BLOCKED")
    <2>1. iflag' = [iflag EXCEPT ![r] = iflag[r]]
      BY <1>0, <1>1, <1>3
    <2>2. QED
      BY <1>1, <1>4, <2>1 DEF Block
  <1>6. SchedInv'
    BY <1>0, <1>3, <1>5, SchedInvStep DEF SchedNext, Blocked
  <1>7. /\ status'[r] = "BLOCKED"
        /\ \A t \in Threads \ {Idle, r} : SameKind(status[t], status'[t])
    BY <1>0, <1>1, BlockEffect DEF Blocked
  <1>8. Quiet
    BY <1>0, <1>1, <1>7 DEF Quiet, SameKind
  <1>9. SyncInv'
    BY <1>1, <1>6, <1>8, ClientStep
  <1>10. /\ SleepsOutside(r)'
         /\ \A t \in SysThreads : t # r => (SleepsOutside(t)' <=> SleepsOutside(t))
    BY <1>0, <1>1, <1>7 DEF SleepsOutside, SameKind
  <1>11. /\ io'[r].at = "leave" /\ io'[r].side = side
         /\ \A t \in SysThreads : t # r => io'[t] = io[t]
    BY <1>0, <1>1, <1>3 DEF side
  <1>12. \A d \in Side : waiter'[d] = (IF d = side THEN r ELSE NoThread)
    BY <1>0, <1>1, <1>2, <1>3
  <1>13. ASSUME NEW d \in Side, NEW t \in SysThreads
         PROVE  waiter'[d] = t <=> io'[t].at = "leave" /\ io'[t].side = d /\ SleepsOutside(t)'
    <2>1. CASE t = r
      BY <1>0, <1>10, <1>11, <1>12, <2>1
    <2>2. CASE t # r
      <3>1. waiter[d] # t /\ waiter'[d] # t
        BY <1>0, <1>2, <1>12, <2>2
      <3>2. QED
        BY <1>10, <1>11, <2>2, <3>1 DEF Slots
    <2>3. QED
      BY <2>1, <2>2
  <1>14. Slots'
    BY <1>1, <1>12, <1>13 DEF Slots
  <1>15. QED
    BY <1>2, <1>9, <1>14

-----------------------------------------------------------------------------
(* The steps.  ioq_transfer, ioq_wait and the keyboard interrupt touch the *)
(* scheduler themselves; all others are steps of the lock code, of the     *)
(* scheduler, or of a caller that touches neither.                         *)

OtherStep ==
  \/ Machine
  \/ \E t \in SysThreads : \/ ioq_lock(t) \/ ioq_unlock(t) \/ InLock(t)
                           \/ sys_read(t)
                           \/ \E n \in 0..MaxCount : pipe_read(t, n) \/ pipe_write(t, n)
  \/ UNCHANGED allVars

LEMMA OtherSteps ==
  ASSUME SchedAssumption, SyncAssumption, SyncInv, OtherStep
  PROVE  /\ [Next]_vars /\ UNCHANGED <<waiter, buf, head, tail, use>>
         /\ \A t \in SysThreads : t # cur => io'[t] = io[t]
  <1>0. QLock \in Locks /\ SysThreads \subseteq Threads \ {Idle, Main}
    BY IOFacts
  <1>1. CASE Machine
    <2>1. UNCHANGED ioVars /\ (\/ Timer \/ IdleStep \/ MainLeaves
                               \/ \E t \in SysThreads : SyscallEnter(t) \/ StartThread(t) \/ SyscallReturn(t))
      BY <1>1 DEF Machine
    <2>2. QED
      BY <1>0, <2>1 DEF ioVars, Next
  <1>2. ASSUME NEW t \in SysThreads, ioq_lock(t) \/ ioq_unlock(t)
        PROVE  /\ [Next]_vars /\ UNCHANGED <<waiter, buf, head, tail, use>>
               /\ \A u \in SysThreads : u # cur => io'[u] = io[u]
    <2>1. /\ lock_acquire(t, QLock) \/ lock_release(t, QLock)
          /\ UNCHANGED <<waiter, buf, head, tail, use>> /\ t = cur
          /\ \E a : io' = [io EXCEPT ![t].at = a]
      BY <1>2 DEF ioq_lock, ioq_unlock, Here, InKernel, Running, Step
    <2>2. \A u \in SysThreads : u # cur => io'[u] = io[u]
      BY <2>1
    <2>3. QED
      BY <1>0, <2>1, <2>2 DEF Next
  <1>3. ASSUME NEW t \in SysThreads, InLock(t)
        PROVE  /\ [Next]_vars /\ UNCHANGED <<waiter, buf, head, tail, use, io>>
    BY <1>0, <1>3 DEF InLock, ioVars, Next
  <1>4. ASSUME NEW t \in SysThreads, NEW side, NEW n, Call(t, side, n)
        PROVE  /\ UNCHANGED <<vars, waiter, buf, head, tail, use>>
               /\ \A u \in SysThreads : u # cur => io'[u] = io[u]
    BY <1>4 DEF Call, Here, InKernel, Running
  <1>5. ASSUME NEW t \in SysThreads,
               sys_read(t) \/ \E n \in 0..MaxCount : pipe_read(t, n) \/ pipe_write(t, n)
        PROVE  /\ UNCHANGED <<vars, waiter, buf, head, tail, use>>
               /\ \A u \in SysThreads : u # cur => io'[u] = io[u]
    BY <1>4, <1>5 DEF sys_read, pipe_read, pipe_write
  <1>6. CASE UNCHANGED allVars
    BY <1>6 DEF allVars, ioVars
  <1>7. QED
    BY <1>1, <1>2, <1>3, <1>4, <1>5, <1>6 DEF OtherStep

\* What ioq_transfer and the keyboard interrupt do to the slots.
LEMMA TransferSteps ==
  ASSUME SchedAssumption, SyncAssumption, SyncInv, IOTypes, Slots,
         \/ \E t \in SysThreads : ioq_transfer(t)
         \/ \E c \in Chars : intr_keyboard_handler(c)
  PROVE  SyncInv' /\ Slots'
  <1>0. /\ SysThreads \subseteq Threads \ {Idle, Main} /\ cur \in Threads
        /\ SchedInv /\ status[cur] = "RUNNING"
        /\ io \in [Threads -> [at : {"idle", "test", "enter", "leave"}, side : Side, left : Nat]]
    BY IOFacts DEF SyncInv, IOTypes
  <1>1. ASSUME NEW t \in SysThreads, ioq_transfer(t)
        PROVE  SyncInv' /\ Slots'
    <2>1. /\ cur = t /\ t # Idle /\ weakup(Other(io[t].side)) /\ idlePc' = idlePc
          /\ UNCHANGED <<iflag, lockVars, pc>>
          /\ \A u \in SysThreads : u # t => io'[u] = io[u]
      BY <1>0, <1>1 DEF ioq_transfer, Here, InKernel, Running
    <2>2. Other(io[t].side) \in Side
      BY DEF Other, Side
    <2>3. QED
      BY <2>1, <2>2, WeakupKeeps
  <1>2. ASSUME NEW c \in Chars, intr_keyboard_handler(c)
        PROVE  SyncInv' /\ Slots'
    <2>1. /\ iflag[cur] /\ UNCHANGED <<iflag, lockVars, pc, io>>
          /\ idlePc' = (IF cur = Idle /\ idlePc = "hlt" THEN "block" ELSE idlePc)
      BY <1>2 DEF intr_keyboard_handler
    <2>2. CASE Fits
      <3>1. weakup("get") /\ "get" \in Side
        BY <1>2, <2>2 DEF intr_keyboard_handler, Side
      <3>2. QED
        BY <2>1, <3>1, WeakupKeeps
    <2>3. CASE ~Fits
      <3>1. UNCHANGED <<status, ready, ticks, cur, panic, waiter>>
        BY <1>2, <2>3 DEF intr_keyboard_handler
      <3>2. SchedInv'
        BY <1>0, <2>1, <3>1 DEF SchedInv, SchedTypeOK, ReadyListExact, NoPanic
      <3>3. Quiet
        BY <3>1 DEF Quiet
      <3>4. SyncInv'
        BY <2>1, <3>2, <3>3, ClientStep
      <3>5. Slots'
        BY <2>1, <3>1 DEF Slots, SleepsOutside, lockVars
      <3>6. QED
        BY <3>4, <3>5
    <2>4. QED
      BY <2>2, <2>3
  <1>3. QED
    BY <1>1, <1>2

\* The types.
LEMMA IOTypesStep ==
  ASSUME IOQueueAssumption, SchedAssumption, SyncAssumption, SyncInv, RingOK, IOTypes,
         [IONext]_allVars
  PROVE  IOTypes'
  <1>0. /\ SysThreads \subseteq Threads \ {Idle, Main}
        /\ waiter \in [Side -> SysThreads \cup {NoThread}]
        /\ io \in [Threads -> [at : {"idle", "test", "enter", "leave"}, side : Side, left : Nat]]
        /\ \A t \in Threads : io[t].at # "idle" => io[t].left > 0
        /\ use \in {"keyboard", "pipe"}
        /\ ioq_length \in 0..(BufSize - 1) /\ BufSize \in Nat /\ MaxCount \in Nat
    BY IOFacts, LengthFacts DEF IOTypes, IOQueueAssumption
  <1>1. ASSUME NEW t \in SysThreads, ioq_transfer(t)
        PROVE  IOTypes'
    <2>1. /\ io[t].left > 0 /\ use' = use /\ weakup(Other(io[t].side))
          /\ io' = [io EXCEPT ![t].left = io[t].left - 1,
                              ![t].at = IF io[t].left - 1 = 0 THEN "idle" ELSE "test"]
      BY <1>0, <1>1 DEF ioq_transfer, Here
    <2>2. waiter' \in [Side -> SysThreads \cup {NoThread}]
      BY <1>0, <2>1 DEF weakup
    <2>3. /\ io' \in [Threads -> [at : {"idle", "test", "enter", "leave"}, side : Side, left : Nat]]
          /\ \A u \in Threads : io'[u].at # "idle" => io'[u].left > 0
      <3>1. t \in Threads /\ io[t].left - 1 \in Nat
        BY <1>0, <2>1
      <3>2. \A u \in Threads : u # t => io'[u] = io[u]
        BY <1>0, <2>1
      <3>3. io'[t] = [io[t] EXCEPT !.left = io[t].left - 1,
                                   !.at = IF io[t].left - 1 = 0 THEN "idle" ELSE "test"]
        BY <1>0, <2>1, <3>1
      <3>4. /\ io'[t] \in [at : {"idle", "test", "enter", "leave"}, side : Side, left : Nat]
            /\ io'[t].at # "idle" => io'[t].left > 0
        <4>1. io[t] \in [at : {"idle", "test", "enter", "leave"}, side : Side, left : Nat]
          BY <1>0, <3>1
        <4>2. CASE io[t].left - 1 = 0
          <5>1. io'[t].at = "idle" /\ io'[t] = [at |-> "idle", side |-> io[t].side, left |-> 0]
            BY <3>3, <4>1, <4>2
          <5>2. QED
            BY <4>1, <5>1
        <4>3. CASE io[t].left - 1 # 0
          <5>1. io'[t] = [at |-> "test", side |-> io[t].side, left |-> io[t].left - 1]
            BY <3>3, <4>1, <4>3
          <5>2. io[t].left - 1 > 0
            BY <3>1, <4>1, <4>3
          <5>3. QED
            BY <3>1, <4>1, <5>1, <5>2
        <4>4. QED
          BY <4>2, <4>3
      <3>5. DOMAIN io' = Threads /\ io' = [u \in Threads |-> io'[u]]
        BY <1>0, <2>1
      <3>6. QED
        BY <1>0, <3>1, <3>2, <3>4, <3>5
    <2>4. QED
      BY <1>0, <2>1, <2>2, <2>3 DEF IOTypes
  <1>2. ASSUME NEW t \in SysThreads, NEW a \in {"test", "enter", "leave"}, Step(t, a),
               io[t].at # "idle", use' = use,
               waiter' \in [Side -> SysThreads \cup {NoThread}]
        PROVE  IOTypes'
    BY <1>0, <1>2 DEF Step, IOTypes
  <1>3. ASSUME NEW t \in SysThreads, ioq_wait(t)
        PROVE  IOTypes'
    <2>1. waiter' \in [Side -> SysThreads \cup {NoThread}]
      BY <1>0, <1>3 DEF ioq_wait
    <2>2. QED
      BY <1>2, <1>3, <2>1 DEF ioq_wait, Here
  <1>4. ASSUME NEW t \in SysThreads, ioq_lock(t) \/ ioq_unlock(t)
        PROVE  IOTypes'
    BY <1>0, <1>2, <1>4 DEF ioq_lock, ioq_unlock, Here
  <1>5. ASSUME NEW t \in SysThreads, NEW side \in Side, NEW n \in Nat, Call(t, side, n)
        PROVE  IOTypes'
    BY <1>0, <1>5 DEF Call, IOTypes
  <1>6. ASSUME NEW t \in SysThreads,
               sys_read(t) \/ \E n \in 0..MaxCount : pipe_read(t, n) \/ pipe_write(t, n)
        PROVE  IOTypes'
    <2>1. \A n \in 0..MaxCount : ReadSize(n) \in Nat /\ WriteSize(n) \in Nat
      BY <1>0 DEF ReadSize, WriteSize, Least
    <2>2. "get" \in Side /\ "put" \in Side /\ 1 \in Nat
      BY DEF Side
    <2>3. QED
      BY <1>5, <1>6, <2>1, <2>2 DEF sys_read, pipe_read, pipe_write
  <1>7. CASE Machine \/ (\E t \in SysThreads : InLock(t)) \/ UNCHANGED allVars
    BY <1>0, <1>7 DEF Machine, InLock, allVars, ioVars, IOTypes
  <1>8. ASSUME NEW c \in Chars, intr_keyboard_handler(c)
        PROVE  IOTypes'
    <2>1. waiter' \in [Side -> SysThreads \cup {NoThread}]
      BY <1>0, <1>8 DEF intr_keyboard_handler, weakup
    <2>2. QED
      BY <1>0, <1>8, <2>1 DEF intr_keyboard_handler, IOTypes
  <1>9. QED
    BY <1>1, <1>3, <1>4, <1>6, <1>7, <1>8 DEF IONext, QueueStep

-----------------------------------------------------------------------------
(* A pipe_read never waits.                                                *)

\* A pipe_read runs with interrupts disabled from its first byte to its last,
\* and there is a byte for each one it still wants.
PipeInv ==
  \A t \in SysThreads :
    use = "pipe" /\ io[t].side = "get" /\ io[t].at # "idle" =>
      /\ io[t].at = "test" /\ cur = t /\ ~iflag[t] /\ Out(t)
      /\ io[t].left \in 1..ioq_length

LEMMA PipeStep ==
  ASSUME IOQueueAssumption, SchedAssumption, SyncAssumption, SyncInv, RingOK, IOTypes,
         PipeInv, [IONext]_allVars
  PROVE  PipeInv'
  <1>0. /\ SysThreads \subseteq Threads \ {Idle, Main} /\ cur \in Threads
        /\ io \in [Threads -> [at : {"idle", "test", "enter", "leave"}, side : Side, left : Nat]]
        /\ ioq_length \in 0..(BufSize - 1) /\ (ioq_empty <=> ioq_length = 0)
        /\ BufSize \in Nat /\ MaxCount \in Nat
        /\ iflag \in [Threads -> BOOLEAN] /\ status[cur] = "RUNNING"
    BY IOFacts, LengthFacts DEF IOTypes, IOQueueAssumption
  <1>1. use' = use
    BY DEF IONext, QueueStep, Machine, ioq_transfer, ioq_lock, ioq_wait, ioq_unlock, InLock,
       sys_read, pipe_read, pipe_write, Call, intr_keyboard_handler, allVars, ioVars
  <1>2. SUFFICES ASSUME NEW t \in SysThreads,
                        use = "pipe", io'[t].side = "get", io'[t].at # "idle"
                 PROVE  /\ io'[t].at = "test" /\ cur' = t /\ ~iflag'[t] /\ pc'[t].at = "out"
                        /\ io'[t].left \in 1..ioq_length'
    BY <1>1 DEF PipeInv, Out
  <1>3. ASSUME io[t].side = "get", io[t].at # "idle"
        PROVE  /\ io[t].at = "test" /\ cur = t /\ ~iflag[t] /\ pc[t].at = "out" /\ t # Idle
               /\ io[t].left \in 1..ioq_length /\ ~ioq_empty
    <2>1. /\ io[t].at = "test" /\ cur = t /\ ~iflag[t] /\ pc[t].at = "out"
          /\ io[t].left \in 1..ioq_length
      BY <1>2, <1>3 DEF PipeInv, Out
    <2>2. QED
      BY <1>0, <2>1
  <1> DEFINE Goal == /\ io'[t].at = "test" /\ cur' = t /\ ~iflag'[t] /\ pc'[t].at = "out"
                     /\ io'[t].left \in 1..ioq_length'
  <1>4. CASE Machine
    <2>1. /\ io[t].at = "test" /\ cur = t /\ ~iflag[t] /\ pc[t].at = "out" /\ t # Idle
          /\ io[t].left \in 1..ioq_length /\ UNCHANGED <<io, head, tail>>
      BY <1>2, <1>3, <1>4 DEF Machine, ioVars
    <2>2. ~Timer /\ ~IdleStep /\ ~MainLeaves
      BY <1>0, <2>1 DEF Timer, intr_timer_handler, IdleStep, IdleBlock, IdleHalt,
         MainLeaves, MainExit, Running
    <2>3. \A u \in SysThreads : ~SyscallEnter(u) /\ ~(io[u].at = "idle" /\ SyscallReturn(u))
      BY <2>1 DEF SyscallEnter, IntrDisable, SyscallReturn, IntrEnable, Running
    <2>4. PICK u \in SysThreads : StartThread(u)
      BY <1>4, <2>2, <2>3 DEF Machine
    <2>5. u # t /\ cur' = cur /\ pc' = pc /\ iflag'[t] = iflag[t]
      BY <1>0, <2>1, <2>4 DEF StartThread, Start, ThreadStart
    <2>6. QED
      BY <1>2, <2>1, <2>5 DEF ioq_length
  <1>5. ASSUME NEW c \in Chars, intr_keyboard_handler(c) PROVE Goal
    BY <1>2, <1>5 DEF intr_keyboard_handler
  <1>6. ASSUME NEW u \in SysThreads, cur = u, u # t, io'[t] = io[t] PROVE Goal
    BY <1>2, <1>3, <1>6
  <1>7. ASSUME NEW u \in SysThreads, ioq_transfer(u) PROVE Goal
    <2>1. cur = u /\ (u # t => io'[t] = io[t])
      BY <1>0, <1>7 DEF ioq_transfer, Here, InKernel, Running
    <2>2. CASE u = t
      <3>1. /\ io[t].side \in Side /\ io[t].left \in Nat /\ io[t].at = "test"
            /\ io' = [io EXCEPT ![t].left = io[t].left - 1,
                                ![t].at = IF io[t].left - 1 = 0 THEN "idle" ELSE "test"]
        BY <1>0, <1>7, <2>2 DEF ioq_transfer, Here
      <3>2. /\ io'[t].side = io[t].side /\ io'[t].left = io[t].left - 1
            /\ io'[t].at = IF io[t].left - 1 = 0 THEN "idle" ELSE "test"
        BY <1>0, <3>1
      <3>3. io[t].side = "get" /\ io[t].at # "idle"
        BY <1>2, <3>1, <3>2
      <3>4. /\ cur = t /\ ~iflag[t] /\ pc[t].at = "out" /\ io[t].left \in 1..ioq_length
            /\ ~ioq_empty
        BY <1>3, <3>3
      <3>5. TakeByte /\ UNCHANGED <<cur, iflag, pc>>
        BY <1>7, <2>2, <3>3 DEF ioq_transfer, weakup, ThreadUnblock
      <3>6. ioq_length' = ioq_length - 1
        BY <3>4, <3>5, TakeFacts
      <3>7. io'[t].left \in 1..ioq_length' /\ io'[t].at = "test"
        BY <1>0, <1>2, <3>2, <3>4, <3>6
      <3>8. QED
        BY <3>4, <3>5, <3>7
    <2>3. QED
      BY <1>6, <2>1, <2>2
  <1>8. ASSUME NEW u \in SysThreads, ioq_lock(u) \/ ioq_wait(u) \/ ioq_unlock(u)
        PROVE  Goal
    <2>1. /\ cur = u /\ (u # t => io'[t] = io[t]) /\ io'[t].side = io[t].side
          /\ io[u].at # "idle"
      BY SMTT(30), <1>0, <1>8 DEF ioq_lock, ioq_wait, ioq_unlock, Here, InKernel, Running, Step
    <2>2. CASE u = t
      <3>1. io[t].side = "get" /\ io[t].at = "test" /\ ~ioq_empty
        BY <1>2, <1>3, <2>1, <2>2
      <3>2. QED
        BY <1>8, <2>2, <3>1 DEF ioq_lock, ioq_wait, ioq_unlock, Here, MustWait
    <2>3. QED
      BY <1>6, <2>1, <2>2
  <1>9. ASSUME NEW u \in SysThreads, InLock(u)
        PROVE  Goal
    <2>1. cur = u /\ pc[u].at # "out" /\ io' = io
      BY <1>9 DEF InLock, LockStep, Running, At, lock_acquire_again, sema_down_block,
         sema_down_take, lock_acquire_own, lock_acquire_first, lock_release_clear, sema_up, ioVars
    <2>2. QED
      BY <1>2, <1>3, <2>1
  <1>10. ASSUME NEW u \in SysThreads, NEW side, NEW m, Call(u, side, m),
                side = "get" => m \in Int /\ m <= ioq_length
         PROVE  Goal
    <2>1. /\ cur = u /\ (u # t => io'[t] = io[t]) /\ m > 0 /\ ~iflag[u] /\ pc[u].at = "out"
          /\ io'[u] = [at |-> "test", side |-> side, left |-> m]
          /\ UNCHANGED <<cur, iflag, pc, head, tail>>
      BY <1>0, <1>10 DEF Call, Here, InKernel, Running, Out, vars, schedVars
    <2>2. CASE u = t
      BY <1>0, <1>2, <1>10, <2>1, <2>2 DEF ioq_length
    <2>3. QED
      BY <1>6, <2>1, <2>2
  <1>11. ASSUME NEW u \in SysThreads, sys_read(u) PROVE Goal
    BY <1>2, <1>11 DEF sys_read
  <1>12. ASSUME NEW u \in SysThreads, NEW n \in 0..MaxCount, pipe_read(u, n) \/ pipe_write(u, n)
         PROVE  Goal
    <2>1. ReadSize(n) \in Int /\ ReadSize(n) <= ioq_length
      BY <1>0 DEF ReadSize, Least
    <2>2. QED
      BY <1>10, <1>12, <2>1 DEF pipe_read, pipe_write
  <1>13. CASE UNCHANGED allVars
    <2>1. UNCHANGED <<io, cur, iflag, pc, head, tail>>
      BY <1>13 DEF allVars, ioVars, vars, schedVars
    <2>2. QED
      BY <1>2, <1>3, <2>1 DEF ioq_length
  <1>14. QED
    BY <1>4, <1>5, <1>7, <1>8, <1>9, <1>11, <1>12, <1>13 DEF IONext, QueueStep

-----------------------------------------------------------------------------
(* The only reader of the keyboard.                                        *)

\* r is the only thread in ioqueue.c, so it finds the lock free and sleeps in
\* ioq_wait without having let a key in after it found the queue empty.
Alone(r) ==
  /\ \A t \in Threads \ {r} : io[t].at = "idle" /\ pc[t].at = "out"
  /\ holder[QLock] \in {NoThread, r}
  /\ io[r].at = "enter" => cur = r /\ ~iflag[r] /\ ioq_empty
  /\ io[r].at # "idle" => io[r].side = "get"
  /\ pc[r].at # "out" => pc[r].lock = QLock
  /\ waiter["get"] = r => ioq_empty

SoloInv == \A r \in Threads : use = "keyboard" /\ Readers = {r} => Alone(r)

\* The lock is free when the only reader asks for it.
LEMMA NoWaitForLock ==
  ASSUME SchedAssumption, SyncAssumption, SyncInv, NEW r \in SysThreads, Alone(r),
         NEW l \in Locks, sema_down_block(r, l)
  PROVE  FALSE
  <1>1. /\ pc[r].at = "down" /\ pc[r].lock = l /\ value[l] = 0 /\ r \in Threads
        /\ NoThread \notin Threads
    BY DEF sema_down_block, At, CanTake, SyncAssumption
  <1>2. l = QLock /\ holder[l] \in {NoThread, r} /\ holder[l] # r
    BY <1>1 DEF Alone, SyncInv, LockInv, PlaceOK, At
  <1>3. PICK u \in Threads : Owns(u, l)
    BY <1>1 DEF SyncInv, LockInv, ValueExact
  <1>4. holder[l] # u
    BY <1>1, <1>2
  <1>5. pc[u].at \in {"own", "first", "clear", "up"}
    BY <1>3, <1>4 DEF Owns
  <1>6. QED
    BY <1>1, <1>5 DEF Alone

LEMMA SoloStep ==
  ASSUME IOQueueAssumption, SchedAssumption, SyncAssumption, SyncInv, RingOK, IOTypes, Slots,
         SoloInv, [IONext]_allVars
  PROVE  SoloInv'
  <1>0. /\ SysThreads \subseteq Threads \ {Idle, Main} /\ cur \in Threads /\ NoThread \notin Threads
        /\ io \in [Threads -> [at : {"idle", "test", "enter", "leave"}, side : Side, left : Nat]]
        /\ waiter \in [Side -> SysThreads \cup {NoThread}] /\ "get" \in Side /\ "put" \in Side
        /\ iflag \in [Threads -> BOOLEAN] /\ status[cur] = "RUNNING" /\ QLock \in Locks
        /\ pc \in [Threads -> [at : Label, lock : Locks]]
        /\ holder \in [Locks -> Threads \cup {NoThread}] /\ Readers \subseteq SysThreads
    BY IOFacts DEF IOTypes, IOQueueAssumption, SyncInv, LockInv, LockTypes, Side
  <1>1. use' = use
    BY DEF IONext, QueueStep, Machine, ioq_transfer, ioq_lock, ioq_wait, ioq_unlock, InLock,
       sys_read, pipe_read, pipe_write, Call, intr_keyboard_handler, allVars, ioVars
  <1>2. SUFFICES ASSUME NEW r \in Threads, use = "keyboard", Readers = {r}
                 PROVE  Alone(r)'
    BY <1>1 DEF SoloInv
  <1>3. /\ \A t \in Threads \ {r} : io[t].at = "idle" /\ pc[t].at = "out"
        /\ holder[QLock] \in {NoThread, r}
        /\ io[r].at = "enter" => cur = r /\ ~iflag[r] /\ ioq_empty
        /\ io[r].at # "idle" => io[r].side = "get"
        /\ pc[r].at # "out" => pc[r].lock = QLock
        /\ waiter["get"] = r => ioq_empty
        /\ r \in SysThreads /\ r # Idle /\ r # Main /\ Alone(r)
    BY <1>0, <1>2 DEF SoloInv, Alone
  <1>4. ASSUME UNCHANGED <<io, waiter, head, tail, pc, holder>>,
               io[r].at = "enter" => cur' = r /\ ~iflag'[r]
        PROVE  Alone(r)'
    BY <1>3, <1>4 DEF Alone, ioq_empty
  <1>5. CASE Machine
    <2>1. UNCHANGED <<io, waiter, head, tail, pc, holder>>
      BY <1>5 DEF Machine, ioVars, lockVars, Timer, IdleStep, MainLeaves, SyscallEnter,
         StartThread, SyscallReturn
    <2>2. ASSUME io[r].at = "enter" PROVE cur' = r /\ ~iflag'[r]
      <3>0. cur = r /\ ~iflag[r]
        BY <1>3, <2>2
      <3>1. ~Timer /\ ~IdleStep /\ ~MainLeaves
        BY <1>3, <3>0 DEF Timer, intr_timer_handler, IdleStep, IdleBlock, IdleHalt,
           MainLeaves, MainExit, Running
      <3>2. \A u \in SysThreads : ~SyscallEnter(u) /\ ~(io[u].at = "idle" /\ SyscallReturn(u))
        BY <2>2, <3>0 DEF SyscallEnter, IntrDisable, SyscallReturn, IntrEnable, Running
      <3>3. PICK u \in SysThreads : StartThread(u)
        BY <1>5, <3>1, <3>2 DEF Machine
      <3>4. QED
        BY <1>0, <1>3, <3>0, <3>3 DEF StartThread, Start, ThreadStart
    <2>3. QED
      BY <1>4, <2>1, <2>2
  <1>6. ASSUME NEW c \in Chars, intr_keyboard_handler(c) PROVE Alone(r)'
    <2>1. iflag[cur] /\ UNCHANGED <<io, pc, holder>>
      BY <1>6 DEF intr_keyboard_handler, lockVars
    <2>2. io[r].at # "enter"
      BY <1>3, <2>1
    <2>3. waiter'["get"] = r => ioq_empty'
      <3>1. CASE Fits
        BY <1>0, <1>3, <1>6, <3>1 DEF intr_keyboard_handler, weakup, Sleeper
      <3>2. CASE ~Fits
        BY <1>3, <1>6, <3>2 DEF intr_keyboard_handler, ioq_empty
      <3>3. QED
        BY <3>1, <3>2
    <2>4. QED
      BY <1>3, <2>1, <2>2, <2>3 DEF Alone
  \* What r does in ioqueue.c.
  <1>7. ASSUME NEW a \in {"idle", "test", "enter", "leave"},
               \A t \in Threads : t # r => io'[t] = io[t] /\ pc'[t] = pc[t],
               io'[r].at = a, a # "idle" => io'[r].side = "get",
               a = "enter" => cur' = r /\ ~iflag'[r] /\ ioq_empty',
               holder'[QLock] \in {NoThread, r},
               pc'[r].at # "out" => pc'[r].lock = QLock,
               waiter'["get"] = r => ioq_empty'
        PROVE  Alone(r)'
    BY <1>3, <1>7 DEF Alone
  <1>8. ASSUME NEW t \in SysThreads, ioq_transfer(t) PROVE Alone(r)'
    <2>1. t = r /\ cur = r /\ io[r].side = "get" /\ io[r].at = "test"
      BY <1>0, <1>3, <1>8 DEF ioq_transfer, Here, InKernel, Running
    <2>2. /\ io' = [io EXCEPT ![r].left = io[r].left - 1,
                              ![r].at = IF io[r].left - 1 = 0 THEN "idle" ELSE "test"]
          /\ weakup("put") /\ UNCHANGED <<pc, holder>>
      BY <1>8, <2>1 DEF ioq_transfer, Other, lockVars
    <2>3. waiter["get"] # r
      BY <1>0, <1>3, <2>1 DEF Slots, SleepsOutside
    <2>4. waiter'["get"] # r
      BY <1>0, <2>2, <2>3 DEF weakup
    <2>5. /\ \A u \in Threads : u # r => io'[u] = io[u]
          /\ io'[r].side = "get" /\ (io'[r].at = "idle" \/ io'[r].at = "test")
      BY <1>0, <2>1, <2>2
    <2>6. QED
      BY <1>3, <1>7, <2>2, <2>4, <2>5
  <1>9. ASSUME NEW t \in SysThreads, ioq_lock(t) PROVE Alone(r)'
    <2>1. /\ t = r /\ cur = r /\ ~iflag[r] /\ io[r].side = "get" /\ io[r].at = "test" /\ ioq_empty
      BY <1>0, <1>3, <1>9 DEF ioq_lock, Here, InKernel, Running, MustWait
    <2>2. /\ io' = [io EXCEPT ![r].at = "enter"] /\ UNCHANGED <<cur, iflag, holder, waiter, head, tail>>
          /\ \E a \in Label : pc' = [pc EXCEPT ![r] = [at |-> a, lock |-> QLock]]
      BY <1>9, <2>1 DEF ioq_lock, Step, lock_acquire, Goto, lockVars, schedVars, Label
    <2>3. /\ \A u \in Threads : u # r => io'[u] = io[u] /\ pc'[u] = pc[u]
          /\ io'[r].side = "get" /\ io'[r].at = "enter" /\ pc'[r].lock = QLock
      BY <1>0, <2>1, <2>2
    <2>4. ioq_empty'
      BY <2>1, <2>2 DEF ioq_empty
    <2>5. QED
      BY <1>3, <1>7, <2>1, <2>2, <2>3, <2>4
  <1>10. ASSUME NEW t \in SysThreads, ioq_wait(t) PROVE Alone(r)'
    <2>1. t = r /\ io[r].side = "get" /\ io[r].at = "enter" /\ ioq_empty
      BY <1>0, <1>3, <1>10 DEF ioq_wait, Here
    <2>2. io' = [io EXCEPT ![r].at = "leave"] /\ UNCHANGED <<holder, pc, head, tail>>
      BY <1>10, <2>1 DEF ioq_wait, Step, lockVars
    <2>3. /\ \A u \in Threads : u # r => io'[u] = io[u] /\ pc'[u] = pc[u]
          /\ io'[r].side = "get" /\ io'[r].at = "leave"
      BY <1>0, <2>1, <2>2
    <2>4. ioq_empty'
      BY <2>1, <2>2 DEF ioq_empty
    <2>5. QED
      BY <1>3, <1>7, <2>2, <2>3, <2>4
  <1>11. ASSUME NEW t \in SysThreads, ioq_unlock(t) PROVE Alone(r)'
    <2>1. t = r /\ io[r].side = "get" /\ io[r].at = "leave"
      BY <1>0, <1>3, <1>11 DEF ioq_unlock, Here
    <2>2. io' = [io EXCEPT ![r].at = "test"] /\ UNCHANGED <<waiter, head, tail>>
      BY <1>11, <2>1 DEF ioq_unlock, Step
    <2>3. /\ holder' = holder \/ holder' = [holder EXCEPT ![QLock] = NoThread]
          /\ pc' = pc \/ pc' = [pc EXCEPT ![r] = [at |-> "clear", lock |-> QLock]]
      BY <1>11, <2>1 DEF ioq_unlock, lock_release, Goto
    <2>4. /\ \A u \in Threads : u # r => io'[u] = io[u] /\ pc'[u] = pc[u]
          /\ io'[r].side = "get" /\ io'[r].at = "test"
          /\ pc'[r].at # "out" => pc'[r].lock = QLock
          /\ holder'[QLock] \in {NoThread, r}
      BY <1>0, <1>3, <2>1, <2>2, <2>3
    <2>5. ioq_empty' <=> ioq_empty
      BY <2>2 DEF ioq_empty
    <2>6. QED
      BY <1>3, <1>7, <2>2, <2>4, <2>5
  <1>12. ASSUME NEW t \in SysThreads, InLock(t) PROVE Alone(r)'
    <2>1. PICK l \in Locks :
            \/ lock_acquire_again(t, l) \/ sema_down_block(t, l) \/ sema_down_take(t, l)
            \/ lock_acquire_own(t, l) \/ lock_acquire_first(t, l) \/ lock_release_clear(t, l)
            \/ sema_up(t, l)
      BY <1>12 DEF InLock, LockStep
    <2>2. /\ UNCHANGED <<io, waiter, head, tail>> /\ cur = t /\ pc[t].at # "out" /\ pc[t].lock = l
      BY <1>12, <2>1 DEF InLock, ioVars, Running, At, lock_acquire_again, sema_down_block,
         sema_down_take, lock_acquire_own, lock_acquire_first, lock_release_clear, sema_up
    <2>3. t = r /\ l = QLock
      BY <1>0, <1>3, <2>2
    <2>4. ~sema_down_block(t, l)
      BY <1>3, <2>3, NoWaitForLock
    <2>5. /\ holder' = holder \/ holder' = [holder EXCEPT ![QLock] = r]
          /\ cur' = cur
          /\ iflag' = iflag \/ iflag' = [iflag EXCEPT ![r] = FALSE]
      BY <1>3, <2>1, <2>3, <2>4 DEF lock_acquire_again, sema_down_take, lock_acquire_own,
         lock_acquire_first, lock_release_clear, sema_up, schedVars, OldStatus
    <2>6. \/ pc' = [pc EXCEPT ![r].at = "out"]
          \/ \E a \in Label : pc' = [pc EXCEPT ![r] = [at |-> a, lock |-> QLock]]
      BY <2>1, <2>3, <2>4 DEF lock_acquire_again, sema_down_take, lock_acquire_own,
         lock_acquire_first, lock_release_clear, sema_up, Goto, Return, Label
    <2>7. /\ \A u \in Threads : u # r => pc'[u] = pc[u]
          /\ pc'[r].at # "out" => pc'[r].lock = QLock
      BY <1>0, <2>6
    <2>8. holder'[QLock] \in {NoThread, r} /\ (~iflag[r] => ~iflag'[r])
      BY <1>0, <1>3, <2>5
    <2>9. ioq_empty' <=> ioq_empty
      BY <2>2 DEF ioq_empty
    <2>10. QED
      BY <1>3, <2>2, <2>5, <2>7, <2>8, <2>9 DEF Alone
  <1>13. ASSUME NEW t \in SysThreads, sys_read(t) PROVE Alone(r)'
    <2>1. /\ t = r /\ io' = [io EXCEPT ![r] = [at |-> "test", side |-> "get", left |-> 1]]
          /\ UNCHANGED <<pc, holder, waiter, head, tail>>
      BY <1>2, <1>13 DEF sys_read, Call, vars, lockVars
    <2>2. /\ \A u \in Threads : u # r => io'[u] = io[u]
          /\ io'[r].at = "test" /\ io'[r].side = "get"
      BY <1>0, <2>1
    <2>3. ioq_empty' <=> ioq_empty
      BY <2>1 DEF ioq_empty
    <2>4. QED
      BY <1>3, <1>7, <2>1, <2>2, <2>3
  <1>14. ASSUME NEW t \in SysThreads, NEW n \in 0..MaxCount, pipe_read(t, n) \/ pipe_write(t, n)
         PROVE  Alone(r)'
    BY <1>2, <1>14 DEF pipe_read, pipe_write
  <1>15. CASE UNCHANGED allVars
    BY <1>3, <1>4, <1>15 DEF allVars, ioVars, vars, schedVars, lockVars
  <1>16. QED
    BY <1>5, <1>6, <1>8, <1>9, <1>10, <1>11, <1>12, <1>13, <1>14, <1>15 DEF IONext, QueueStep

-----------------------------------------------------------------------------
(* The theorems.                                                           *)

IOInv == SyncInv /\ RingOK /\ IOTypes /\ Slots /\ PipeInv /\ SoloInv

\* The initial state.
LEMMA IOInitial ==
  ASSUME IOQueueAssumption, SchedAssumption, SyncAssumption, IOInit
  PROVE  IOInv
  <1>1. Init /\ SyncInv
    BY SchedInitial, SyncInitial DEF IOInit, Init, SyncInv
  <1>2. RingOK
    BY DEF IOInit, RingOK, IOQueueAssumption
  <1>3. /\ SysThreads \subseteq Threads \ {Idle, Main} /\ NoThread \notin Threads
        /\ waiter = [d \in Side |-> NoThread] /\ use \in {"keyboard", "pipe"}
        /\ io = [t \in Threads |-> [at |-> "idle", side |-> "get", left |-> 0]]
        /\ "get" \in Side /\ QLock \in Locks
    BY <1>1, IOFacts DEF IOInit, Side
  <1>4. IOTypes
    BY <1>3 DEF IOTypes
  <1>5. Slots
    BY <1>3 DEF Slots
  <1>6. PipeInv
    BY <1>3 DEF PipeInv
  <1>7. SoloInv
    <2>1. holder[QLock] = NoThread /\ \A t \in Threads : pc[t].at = "out"
      BY <1>1, <1>3 DEF Init
    <2>2. QED
      BY <1>3, <2>1 DEF SoloInv, Alone
  <1>8. QED
    BY <1>1, <1>2, <1>4, <1>5, <1>6, <1>7 DEF IOInv

\* Every step keeps it.
LEMMA IOInvStep ==
  ASSUME IOQueueAssumption, SchedAssumption, SyncAssumption, IOInv, [IONext]_allVars
  PROVE  IOInv'
  <1>1. RingOK'
    BY RingStep DEF IOInv
  <1>2. IOTypes'
    BY IOTypesStep DEF IOInv
  <1>3. PipeInv'
    BY PipeStep DEF IOInv
  <1>4. SoloInv'
    BY SoloStep DEF IOInv
  <1>5. SyncInv' /\ Slots'
    <2>1. CASE OtherStep
      BY <2>1, OtherSteps, SyncInvStep, SlotsKept DEF IOInv
    <2>2. ASSUME NEW t \in SysThreads, ioq_wait(t) PROVE SyncInv' /\ Slots'
      BY <2>2, WaitKeeps DEF IOInv
    <2>3. CASE \/ \E t \in SysThreads : ioq_transfer(t)
               \/ \E c \in Chars : intr_keyboard_handler(c)
      BY <2>3, TransferSteps DEF IOInv
    <2>4. QED
      BY <2>1, <2>2, <2>3 DEF IONext, QueueStep, OtherStep
  <1>6. QED
    BY <1>1, <1>2, <1>3, <1>4, <1>5 DEF IOInv

\* The invariant of the queue and its callers.
THEOREM IOInvariant == IOSpec => []IOInv
  <1>1. IOInit => IOInv
    BY IOInitial, IOQueueAssumption, SchedAssumption, SyncAssumption
  <1>2. IOInv /\ [IONext]_allVars => IOInv'
    BY IOInvStep, IOQueueAssumption, SchedAssumption, SyncAssumption
  <1>3. QED
    BY <1>1, <1>2, PTL DEF IOSpec

\* consumer and producer name exactly the threads that sleep in ioq_wait, each
\* with the queue's lock, so that weakup wakes no thread that waits for
\* something else, and the only reader of the keyboard sleeps only while there
\* is nothing to read (ioqueue.c:25-43).
THEOREM SlotsAlwaysExact == IOSpec => []WaiterSlotExact
  <1>1. IOInv => WaiterSlotExact
    <2>1. SUFFICES ASSUME IOInv PROVE WaiterSlotExact
      OBVIOUS
    <2>2. /\ waiter \in [Side -> SysThreads \cup {NoThread}] /\ "get" \in Side /\ Slots
          /\ SoloInv /\ SysThreads \subseteq Threads
      BY <2>1, SyncAssumption DEF IOInv, IOTypes, Side, SyncAssumption
    <2>3. ASSUME use = "keyboard", NEW r \in Threads, Readers = {r}, waiter["get"] # NoThread
          PROVE  ioq_empty
      <3>1. PICK w \in SysThreads : waiter["get"] = w /\ io[w].at = "leave"
        BY <2>2, <2>3 DEF Slots
      <3>2. w = r
        BY <2>2, <2>3, <3>1 DEF SoloInv, Alone
      <3>3. QED
        BY <2>2, <2>3, <3>1, <3>2 DEF SoloInv, Alone
    <2>4. QED
      BY <2>2, <2>3 DEF WaiterSlotExact, Slots, SleepsOutside, Out
  <1>2. QED
    BY <1>1, IOInvariant, PTL

\* pipe_read never waits in ioq_getchar, for every size of the ring and every
\* count, although each byte it takes may wake a writer (pipe.c:35-41).
THEOREM PipeReadsDoNotWait == IOSpec => []PipeReadNeverWaits
  <1>1. IOInv => PipeReadNeverWaits
    BY DEF IOInv, PipeInv, PipeReadNeverWaits
  <1>2. QED
    BY <1>1, IOInvariant, PTL

\* No ASSERT of ioqueue.c, sync.c or thread.c fires; in particular a slot is
\* free when ioq_wait fills it (ioqueue.c:26).
THEOREM IONeverPanics == IOSpec => []NoPanic
  <1>1. IOInv => NoPanic
    BY DEF IOInv, SyncInv, SchedInv
  <1>2. QED
    BY <1>1, IOInvariant, PTL

\* Refinement: the ring buffer of ioqueue.c, whatever its readers, its writers
\* and the keyboard interrupt do, is a FIFO channel of bufsize - 1 bytes: every
\* byte is delivered once and in order (ioqueue.c:37-65).
THEOREM QueueIsFifo == IOSpec => IsFifo
  <1>1. IOInit => RingOK /\ F!FifoInit
    <2>1. SUFFICES ASSUME IOInit PROVE RingOK /\ F!FifoInit
      OBVIOUS
    <2>2. RingOK
      BY <2>1, IOQueueAssumption DEF IOInit, RingOK, IOQueueAssumption
    <2>3. ioq_length = 0
      BY <2>1 DEF IOInit, ioq_length
    <2>4. Contents \in Seq(Chars) /\ Len(Contents) = 0
      BY <2>2, <2>3, RingSeqFacts, IOQueueAssumption
         DEF Contents, RingSeq, RingOK, IOQueueAssumption, HoldsRing
    <2>5. Contents = << >>
      BY <2>4, EmptySeq
    <2>6. QED
      BY <2>1, <2>2, <2>5 DEF IOInit, F!FifoInit
  <1>2. RingOK /\ [IONext]_allVars => RingOK' /\ [F!FifoNext]_<<Contents, got>>
    BY RingStep, IOQueueAssumption
  <1>3. QED
    BY <1>1, <1>2, PTL DEF IOSpec, IsFifo, F!FifoSpec

-----------------------------------------------------------------------------
(* The disk driver.                                                        *)


-----------------------------------------------------------------------------
(* The inductive invariant.                                                *)

Place == {"out", "lock", "loop", "cmd", "down", "busy", "sleep", "woken", "data"}

IdeTypes ==
  /\ disk \in {"idle", "seek read", "data read", "seek write", "data write", "flush"}
  /\ irq \in BOOLEAN /\ expecting \in BOOLEAN /\ done \in 0..1
  /\ op \in [Threads -> [at : Place, call : {"read", "write"}, left : Int]]
  /\ op[Idle].at = "out"

\* The thread between lock_acquire and lock_release of ide_read or ide_write
\* has the channel's lock: there is at most one.
InDriver(t) == op[t].at \notin {"out", "lock"}
OwnerInv ==
  \A t \in Threads : InDriver(t) => holder[ChannelLock] = t /\ pc[t].at = "out"

\* A system call that is in ide.c has interrupts disabled; a kernel thread has
\* them enabled, except while it is in a sema_down.
FlagInv ==
  /\ \A t \in SysThreads : op[t].at # "out" => ~iflag[t] /\ status[t] # "DIED"
  /\ \A t \in Threads \ (SysThreads \cup {Idle}) :
       status[t] # "DIED" /\ pc[t].at # "down" /\ op[t].at # "down" => iflag[t]

\* disk_done has at most one waiter: the thread that sleeps in its sema_down.
Asleep(t) == op[t].at = "down" /\ SleepsOutside(t)
SleepInv ==
  /\ sleepers = << >> \/ \E t \in Threads : sleepers = <<t>>
  /\ \A t \in Threads : sleepers = <<t>> <=> Asleep(t)

\* What the disk, its interrupt and disk_done are like for a thread between
\* the outb of cmd_out and the end of its command...
ReadStage(t) ==
  /\ op[t].at = "down" =>
       \/ disk = "seek read" /\ expecting /\ ~irq /\ done = 0
       \/ disk = "data read" /\ expecting /\ irq /\ done = 0
       \/ disk = "data read" /\ ~expecting /\ ~irq /\ done = 1 /\ sleepers = << >>
  /\ op[t].at \in {"busy", "sleep", "woken", "data"} =>
       disk = "data read" /\ ~expecting /\ ~irq /\ done = 0

WriteStage(t) ==
  /\ op[t].at \in {"busy", "sleep", "woken"} =>
       disk \in {"seek write", "data write"} /\ expecting /\ ~irq /\ done = 0
  /\ op[t].at = "data" => disk = "data write" /\ expecting /\ ~irq /\ done = 0
  /\ op[t].at = "down" =>
       \/ disk = "flush" /\ expecting /\ ~irq /\ done = 0
       \/ disk = "idle" /\ expecting /\ irq /\ done = 0
       \/ disk = "idle" /\ ~expecting /\ ~irq /\ done = 1 /\ sleepers = << >>

\* ... for one that has announced a command and not sent it: an interrupt of an
\* earlier transfer may be pending, but nobody can take it ...
CmdStage(t) ==
  op[t].at = "cmd" =>
    disk = "idle" /\ expecting /\ done = 0 /\ (irq => t \in SysThreads /\ cur = t)

\* ... and while no command is on its way.
Rest == disk = "idle" /\ ~expecting /\ done = 0

Stage(t) ==
  /\ op[t].call = "read" => ReadStage(t)
  /\ op[t].call = "write" => WriteStage(t)
  /\ CmdStage(t)

PhaseInv ==
  /\ (\A t \in Threads : op[t].at \in {"out", "lock", "loop"}) => Rest
  /\ \A t \in Threads : Stage(t)

IdeInv == SyncInv /\ IdeTypes /\ OwnerInv /\ FlagInv /\ SleepInv /\ PhaseInv

-----------------------------------------------------------------------------
(* Frames.                                                                 *)

\* ChannelLock is a lock, and what the assumptions say of the threads.
LEMMA IdeFacts ==
  ASSUME SchedAssumption, SyncAssumption, SyncInv
  PROVE  /\ ChannelLock \in Locks
         /\ SysThreads \subseteq Threads \ {Idle, Main} /\ NoThread \notin Threads
         /\ cur \in Threads /\ status[cur] = "RUNNING" /\ ~panic
         /\ Idle \in Threads /\ Main \in Threads /\ Main # Idle
         /\ status \in [Threads -> Status] /\ iflag \in [Threads -> BOOLEAN]
         /\ pc \in [Threads -> [at : Label, lock : Locks]]
         /\ \A t \in Threads : status[t] = "RUNNING" <=> t = cur
  <1>1. /\ cur \in Threads /\ status[cur] = "RUNNING" /\ ~panic
        /\ status \in [Threads -> Status] /\ iflag \in [Threads -> BOOLEAN]
        /\ pc \in [Threads -> [at : Label, lock : Locks]]
        /\ \A t \in Threads : status[t] = "RUNNING" <=> t = cur
    BY DEF SyncInv, SchedInv, SchedTypeOK, ReadyListExact, NoPanic, LockInv, LockTypes
  <1>2. pc[cur].lock \in Locks
    BY <1>1
  <1>3. ChannelLock \in Locks
    BY <1>2 DEF ChannelLock
  <1>4. QED
    BY <1>1, <1>3 DEF SyncAssumption, SchedAssumption

\* Only one thread is in the driver.
LEMMA OneDriver ==
  ASSUME OwnerInv, NEW t \in Threads, InDriver(t), NEW u \in Threads, u # t
  PROVE  op[u].at \in {"out", "lock"}
  BY DEF OwnerInv, InDriver

\* A step of the lock code or of the scheduler, or one that changes neither,
\* leaves the waiter of disk_done alone.
LEMMA SleepKept ==
  ASSUME SchedAssumption, SyncAssumption, SyncInv, IdeTypes, SleepInv, [Next]_vars,
         UNCHANGED sleepers, op'[Idle].at = "out",
         \A t \in Threads : t # cur => (op'[t].at = "down" <=> op[t].at = "down")
  PROVE  SleepInv'
  <1>0. status[cur] = "RUNNING"
    BY IdeFacts
  <1>1. \A t \in Threads \ {Idle} : SleepsOutside(t)' <=> SleepsOutside(t)
    BY OutsideKept
  <1>2. ~SleepsOutside(cur)
    BY <1>0 DEF SleepsOutside
  <1>3. ASSUME NEW t \in Threads PROVE Asleep(t)' <=> Asleep(t)
    <2>1. CASE t = Idle
      BY <2>1 DEF Asleep, IdeTypes
    <2>2. CASE t = cur /\ t # Idle
      BY <1>1, <1>2, <2>2 DEF Asleep
    <2>3. CASE t # cur /\ t # Idle
      BY <1>1, <2>3 DEF Asleep
    <2>4. QED
      BY <2>1, <2>2, <2>3
  <1>4. QED
    BY <1>3 DEF SleepInv

\* A step of the thread t in the driver: only t's own stage matters.
LEMMA PhaseBy ==
  ASSUME NEW t \in Threads,
         \A u \in Threads : u # t => op'[u] = op[u] /\ op[u].at \in {"out", "lock"},
         Stage(t)', op'[t].at \in {"out", "lock", "loop"} => Rest'
  PROVE  PhaseInv'
  <1>1. ASSUME NEW u \in Threads, u # t PROVE Stage(u)'
    BY <1>1 DEF Stage, ReadStage, WriteStage, CmdStage
  <1>2. QED
    BY <1>1 DEF PhaseInv

\* A step that leaves the disk and the places in ide.c alone.
LEMMA PhaseKept ==
  ASSUME PhaseInv, UNCHANGED ideVars,
         \A t \in SysThreads : op[t].at = "cmd" /\ irq /\ cur = t => cur' = t
  PROVE  PhaseInv'
  <1>1. UNCHANGED <<disk, irq, expecting, done, sleepers, op>>
    BY DEF ideVars
  <1>2. ASSUME NEW t \in Threads PROVE Stage(t)'
    BY <1>1 DEF PhaseInv, Stage, ReadStage, WriteStage, CmdStage
  <1>3. QED
    BY <1>1, <1>2 DEF PhaseInv, Rest

-----------------------------------------------------------------------------
(* The machine around the driver.                                          *)

\* The scheduler runs another thread, without ending or starting one.
LEMMA SwitchKeeps ==
  ASSUME SchedAssumption, SyncAssumption, IdeInv, [Next]_vars,
         UNCHANGED <<lockVars, pc, iflag, disk, irq, expecting, done, sleepers>>,
         \A t \in Threads \ {Idle} : SameKind(status[t], status'[t]),
         \A t \in Threads : \/ op'[t] = op[t]
                            \/ op[t].at = "sleep" /\ op'[t] = [op[t] EXCEPT !.at = "woken"],
         DOMAIN op' = Threads /\ op' = [t \in Threads |-> op'[t]],
         \A t \in SysThreads : op[t].at = "cmd" /\ irq /\ cur = t => cur' = t
  PROVE  IdeInv'
  <1>0. /\ SysThreads \subseteq Threads \ {Idle, Main} /\ SyncInv /\ Idle \in Threads
        /\ op \in [Threads -> [at : Place, call : {"read", "write"}, left : Int]]
        /\ op[Idle].at = "out" /\ holder' = holder
    BY IdeFacts DEF IdeInv, IdeTypes, lockVars
  <1>1. SyncInv'
    BY SyncInvStep DEF IdeInv
  <1>2. \A t \in Threads :
          /\ op'[t].call = op[t].call /\ op'[t].left = op[t].left
          /\ op'[t].at = (IF op'[t] = op[t] THEN op[t].at ELSE "woken")
          /\ op'[t] # op[t] => op[t].at = "sleep"
          /\ op'[t] \in [at : Place, call : {"read", "write"}, left : Int]
    BY <1>0 DEF Place
  <1>3. IdeTypes'
    BY <1>0, <1>2 DEF IdeInv, IdeTypes
  <1>4. OwnerInv'
    BY <1>0, <1>2 DEF IdeInv, OwnerInv, InDriver
  <1>5. FlagInv'
    <2>1. FlagInv /\ \A t \in Threads \ {Idle} : status'[t] = "DIED" <=> status[t] = "DIED"
      BY DEF IdeInv, SameKind
    <2>2. \A t \in Threads : /\ op'[t].at = "out" <=> op[t].at = "out"
                            /\ op'[t].at = "down" <=> op[t].at = "down"
      BY <1>2
    <2>3. UNCHANGED <<pc, iflag>>
      OBVIOUS
    <2>4. QED
      BY SMTT(30), <1>0, <2>1, <2>2, <2>3 DEF FlagInv
  <1>6. SleepInv'
    BY <1>0, <1>2, SleepKept DEF IdeInv
  <1>7. PhaseInv'
    <2>1. ASSUME NEW t \in Threads PROVE Stage(t)'
      <3>1. Stage(t)
        BY DEF IdeInv, PhaseInv
      <3>2. QED
        BY <1>2, <3>1 DEF Stage, ReadStage, WriteStage, CmdStage
    <2>2. (\A t \in Threads : op'[t].at \in {"out", "lock", "loop"}) => Rest'
      BY <1>2 DEF IdeInv, PhaseInv, Rest
    <2>3. QED
      BY <2>1, <2>2 DEF PhaseInv
  <1>8. QED
    BY <1>1, <1>3, <1>4, <1>5, <1>6, <1>7 DEF IdeInv

LEMMA IdeTimerKeeps ==
  ASSUME SchedAssumption, SyncAssumption, IdeInv, IdeTimer
  PROVE  IdeInv'
  <1>0. /\ SysThreads \subseteq Threads \ {Idle, Main} /\ SchedInv
        /\ op \in [Threads -> [at : Place, call : {"read", "write"}, left : Int]]
    BY IdeFacts DEF IdeInv, IdeTypes, SyncInv
  <1>1. /\ Timer /\ intr_timer_handler /\ iflag[cur]
        /\ op' = [t \in Threads |-> IF op[t].at = "sleep" THEN [op[t] EXCEPT !.at = "woken"]
                                                         ELSE op[t]]
        /\ UNCHANGED <<lockVars, pc, iflag, disk, irq, expecting, done, sleepers>>
    BY DEF IdeTimer, Timer, intr_timer_handler
  <1>2. \A t \in Threads \ {Idle} : SameKind(status[t], status'[t])
    BY <1>0, <1>1, SwitchEffect
  <1>3. ASSUME NEW t \in Threads
        PROVE  \/ op'[t] = op[t]
               \/ op[t].at = "sleep" /\ op'[t] = [op[t] EXCEPT !.at = "woken"]
    <2>1. op'[t] = IF op[t].at = "sleep" THEN [op[t] EXCEPT !.at = "woken"] ELSE op[t]
      BY <1>1
    <2>2. CASE op[t].at = "sleep"
      BY <2>1, <2>2
    <2>3. CASE op[t].at # "sleep"
      BY <2>1, <2>3
    <2>4. QED
      BY <2>2, <2>3
  <1>4. \A t \in SysThreads : op[t].at = "cmd" /\ irq /\ cur = t => cur' = t
    BY <1>1 DEF IdeInv, FlagInv
  <1>5. DOMAIN op' = Threads /\ op' = [t \in Threads |-> op'[t]]
    BY <1>1
  <1>6. QED
    BY <1>1, <1>2, <1>3, <1>4, <1>5, SwitchKeeps DEF Next

LEMMA YieldKeeps ==
  ASSUME SchedAssumption, SyncAssumption, IdeInv, NEW u \in Threads, mtime_sleep(u)
  PROVE  IdeInv'
  <1>0. SchedInv /\ op \in [Threads -> [at : Place, call : {"read", "write"}, left : Int]]
    BY DEF IdeInv, IdeTypes, SyncInv
  <1>1. /\ YieldOutside(u) /\ Yield(u) /\ cur = u /\ op[u].at = "sleep"
        /\ UNCHANGED <<lockVars, pc, iflag, disk, irq, expecting, done, sleepers, op>>
    BY DEF mtime_sleep, Steps, YieldOutside, InKernel, Running, Yield, ideVars
  <1>2. \A t \in Threads \ {Idle} : SameKind(status[t], status'[t])
    BY <1>0, <1>1, SwitchEffect
  <1>3. [Next]_vars
    BY <1>1 DEF Next
  <1>4. DOMAIN op' = Threads /\ op' = [t \in Threads |-> op'[t]]
    BY <1>0, <1>1
  <1>5. QED
    BY <1>1, <1>2, <1>3, <1>4, SwitchKeeps

LEMMA MachineKeeps ==
  ASSUME SchedAssumption, SyncAssumption, IdeInv, IdeMachine
  PROVE  IdeInv'
  <1>0. /\ SysThreads \subseteq Threads \ {Idle, Main} /\ SchedInv /\ SyncInv
        /\ op \in [Threads -> [at : Place, call : {"read", "write"}, left : Int]]
        /\ op[Idle].at = "out" /\ status[cur] = "RUNNING" /\ Idle \in Threads
        /\ status \in [Threads -> Status] /\ iflag \in [Threads -> BOOLEAN] /\ Main \in Threads
        /\ ChannelLock \in Locks
    BY IdeFacts DEF IdeInv, IdeTypes, SyncInv
  <1>1. /\ UNCHANGED <<disk, irq, expecting, done, sleepers, op, pc, holder, lockVars>>
        /\ UNCHANGED ideVars
    BY DEF IdeMachine, ideVars, IdleStep, MainLeaves, SyscallEnter, StartThread, SyscallReturn, lockVars
  <1>2. [Next]_vars
    <2>1. \/ IdleStep \/ MainLeaves
          \/ \E t \in SysThreads : SyscallEnter(t) \/ StartThread(t) \/ SyscallReturn(t)
      BY DEF IdeMachine
    <2>2. QED
      BY <1>0, <2>1 DEF Next
  <1>3. CASE IdleStep
    <2>1. cur = Idle /\ iflag' = iflag /\ \A t \in Threads \ {Idle} : SameKind(status[t], status'[t])
      BY <1>0, <1>3, SwitchEffect DEF IdleStep, IdleBlock, IdleHalt
    <2>2. DOMAIN op' = Threads /\ op' = [t \in Threads |-> op'[t]]
      BY <1>0, <1>1
    <2>3. QED
      BY <1>0, <1>1, <1>2, <2>1, <2>2, SwitchKeeps
  <1>4. CASE ~IdleStep
    <2>1. SyncInv'
      BY <1>0, <1>2, SyncInvStep
    <2>2. IdeTypes'
      BY <1>1 DEF IdeInv, IdeTypes
    <2>3. OwnerInv'
      BY <1>1 DEF IdeInv, OwnerInv, InDriver
    <2>4. SleepInv'
      BY <1>0, <1>1, <1>2, SleepKept DEF IdeInv
    <2>5. FlagInv' /\ \A t \in SysThreads : cur = t => cur' = t
      <3>1. CASE MainLeaves
        <4>1. /\ cur = Main /\ status'[Main] = "DIED" /\ iflag' = [iflag EXCEPT ![Main] = FALSE]
              /\ \A t \in Threads \ {Idle, Main} : SameKind(status[t], status'[t])
          BY <1>0, <3>1, MainExitEffect DEF MainLeaves, MainExit
        <4>2. QED
          BY <1>0, <1>1, <4>1 DEF IdeInv, FlagInv, SameKind
      <3>2. ASSUME NEW u \in SysThreads, SyscallEnter(u)
            PROVE  FlagInv' /\ cur' = cur
        BY <1>0, <1>1, <3>2 DEF SyscallEnter, IntrDisable, IdeInv, FlagInv
      <3>3. ASSUME NEW u \in SysThreads, op[u].at = "out", SyscallReturn(u)
            PROVE  FlagInv' /\ cur' = cur
        BY <1>0, <1>1, <3>3 DEF SyscallReturn, IntrEnable, IdeInv, FlagInv
      <3>4. ASSUME NEW u \in SysThreads, StartThread(u)
            PROVE  FlagInv' /\ cur' = cur
        BY <1>0, <1>1, <3>4 DEF StartThread, Start, ThreadStart, IdeInv, FlagInv
      <3>5. QED
        BY <1>4, <3>1, <3>2, <3>3, <3>4 DEF IdeMachine
    <2>6. PhaseInv'
      BY <1>1, <2>5, PhaseKept DEF IdeInv
    <2>7. QED
      BY <2>1, <2>2, <2>3, <2>4, <2>5, <2>6 DEF IdeInv
  <1>5. QED
    BY <1>3, <1>4

\* A thread inside lock_acquire or lock_release is not the one in the driver.
LEMMA LockStepIdeKeeps ==
  ASSUME SchedAssumption, SyncAssumption, IdeInv, NEW u \in Threads,
         LockStep(u), UNCHANGED ideVars
  PROVE  IdeInv'
  <1>0. /\ SysThreads \subseteq Threads \ {Idle, Main} /\ SyncInv
        /\ op[Idle].at = "out" /\ status[cur] = "RUNNING" /\ ChannelLock \in Locks
        /\ status \in [Threads -> Status] /\ iflag \in [Threads -> BOOLEAN]
        /\ pc \in [Threads -> [at : Label, lock : Locks]]
    BY IdeFacts DEF IdeInv, IdeTypes
  <1>1. UNCHANGED <<disk, irq, expecting, done, sleepers, op>>
    BY DEF ideVars
  <1>2. [Next]_vars
    BY DEF Next
  <1>3. SyncInv'
    BY <1>0, <1>2, SyncInvStep
  <1>4. /\ cur = u /\ u # Idle /\ pc[u].at # "out"
        /\ \A t \in Threads : t # u => pc'[t] = pc[t]
        /\ \A t \in Threads, l \in Locks : holder[l] = t /\ pc[t].at = "out" => holder'[l] = t
        /\ \A t \in Threads \ {Idle} : status'[t] = "DIED" <=> status[t] = "DIED"
    BY <1>0, LockStepKeeps
  <1>5. IdeTypes'
    BY <1>1 DEF IdeInv, IdeTypes
  <1>6. OwnerInv'
    BY <1>0, <1>1, <1>4 DEF IdeInv, OwnerInv, InDriver
  <1>7. SleepInv'
    BY <1>0, <1>1, <1>2, SleepKept DEF IdeInv
  <1>8. FlagInv'
    <2>1. PICK l \in Locks :
            \/ lock_acquire_again(u, l) \/ sema_down_block(u, l) \/ sema_down_take(u, l)
            \/ lock_acquire_own(u, l) \/ lock_acquire_first(u, l) \/ lock_release_clear(u, l)
            \/ sema_up(u, l)
      BY DEF LockStep
    <2>2. \/ iflag' = [iflag EXCEPT ![u] = FALSE] /\ pc'[u].at = "down"
          \/ iflag' = [iflag EXCEPT ![u] = OldStatus(u)]
          \/ iflag' = iflag /\ pc[u].at # "down"
      BY <1>0, <2>1 DEF lock_acquire_again, sema_down_block, sema_down_take, At,
         lock_acquire_own, lock_acquire_first, lock_release_clear, sema_up, schedVars
    <2>3. FlagInv /\ \A t \in Threads : t # u => iflag'[t] = iflag[t] /\ pc'[t] = pc[t]
      BY <1>0, <1>4, <2>2 DEF IdeInv
    <2>4. u \in SysThreads /\ op[u].at # "out" => ~iflag'[u]
      BY <1>0, <2>2, <2>3 DEF FlagInv, OldStatus
    <2>5. u \notin SysThreads /\ status'[u] # "DIED" /\ pc'[u].at # "down" /\ op[u].at # "down"
            => iflag'[u]
      BY <1>0, <1>4, <2>2, <2>3 DEF FlagInv, OldStatus
    <2>6. QED
      BY SMTT(30), <1>0, <1>1, <1>4, <2>3, <2>4, <2>5 DEF FlagInv
  <1>9. PhaseInv'
    <2>1. \A t \in SysThreads : op[t].at = "cmd" => t # u
      BY <1>0, <1>4 DEF IdeInv, OwnerInv, InDriver
    <2>2. QED
      BY <1>4, <2>1, PhaseKept DEF IdeInv
  <1>10. QED
    BY <1>3, <1>5, <1>6, <1>7, <1>8, <1>9 DEF IdeInv

-----------------------------------------------------------------------------
(* The driver.                                                             *)

\* A step of the thread with the channel's lock that leaves the locks and the
\* scheduler alone.
LEMMA DriverFrame ==
  ASSUME SchedAssumption, SyncAssumption, IdeInv, NEW t \in Threads, cur = t, t # Idle,
         UNCHANGED <<vars, sleepers>>, holder[ChannelLock] = t, pc[t].at = "out",
         op[t].at \notin {"out", "down"}, op'[t].at # "out",
         \A u \in Threads : u # t => op'[u] = op[u]
  PROVE  SyncInv' /\ OwnerInv' /\ FlagInv' /\ SleepInv'
  <1>1. UNCHANGED <<status, cur, iflag, pc, holder>>
    BY DEF vars, schedVars, lockVars
  <1>2. SyncInv'
    BY SyncInvStep DEF IdeInv
  <1>3. OwnerInv'
    BY <1>1 DEF IdeInv, OwnerInv, InDriver
  <1>4. FlagInv'
    BY <1>1 DEF IdeInv, FlagInv
  <1>5. SleepInv'
    BY SleepKept DEF IdeInv, IdeTypes, SchedAssumption
  <1>6. QED
    BY <1>2, <1>3, <1>4, <1>5

\* lock_acquire has returned.
LEMMA LockedKeeps ==
  ASSUME SchedAssumption, SyncAssumption, IdeInv, NEW t \in Threads, ide_locked(t)
  PROVE  IdeInv'
  <1>0. op \in [Threads -> [at : Place, call : {"read", "write"}, left : Int]]
    BY DEF IdeInv, IdeTypes
  <1>1. /\ cur = t /\ t # Idle /\ op[t].at = "lock" /\ holder[ChannelLock] = t /\ pc[t].at = "out"
        /\ UNCHANGED <<vars, disk, irq, expecting, done, sleepers>>
        /\ op' = [op EXCEPT ![t].at = "loop"]
    BY DEF ide_locked, Steps, InKernel, Running, Out, Continue
  <1>2. /\ \A u \in Threads : u # t => op'[u] = op[u]
        /\ op'[t].at = "loop" /\ op'[t].call = op[t].call
        /\ op' \in [Threads -> [at : Place, call : {"read", "write"}, left : Int]]
    BY <1>0, <1>1 DEF Place
  <1>3. SyncInv' /\ OwnerInv' /\ FlagInv' /\ SleepInv'
    BY <1>1, <1>2, DriverFrame
  <1>4. IdeTypes'
    BY <1>1, <1>2 DEF IdeInv, IdeTypes
  <1>5. \A u \in Threads : op[u].at \in {"out", "lock"}
    BY <1>1 DEF IdeInv, OwnerInv, InDriver
  <1>6. Rest
    BY <1>5 DEF IdeInv, PhaseInv
  <1>7. Stage(t)' /\ Rest'
    BY <1>1, <1>2, <1>6 DEF Stage, ReadStage, WriteStage, CmdStage, Rest
  <1>8. PhaseInv'
    BY <1>2, <1>5, <1>7, PhaseBy
  <1>9. QED
    BY <1>3, <1>4, <1>8 DEF IdeInv

\* The end of a command.
LEMMA NextCommandFacts ==
  ASSUME op \in [Threads -> [at : Place, call : {"read", "write"}, left : Int]],
         NEW t \in Threads, NextCommand(t)
  PROVE  /\ op' \in [Threads -> [at : Place, call : {"read", "write"}, left : Int]]
         /\ op'[t].at = "loop" /\ \A u \in Threads : u # t => op'[u] = op[u]
  <1>1. op' = [op EXCEPT ![t].at = "loop", ![t].left = op[t].left - 1]
    BY DEF NextCommand
  <1>2. op[t] \in [at : Place, call : {"read", "write"}, left : Int]
    OBVIOUS
  <1>3. \A u \in Threads : u # t => op'[u] = op[u]
    BY <1>1
  <1>4. op'[t] = [op[t] EXCEPT !.at = "loop", !.left = op[t].left - 1]
    BY <1>1
  <1>5. op'[t] = [at |-> "loop", call |-> op[t].call, left |-> op[t].left - 1]
    BY <1>2, <1>4
  <1>6. op'[t].at = "loop" /\ op'[t] \in [at : Place, call : {"read", "write"}, left : Int]
    BY <1>2, <1>5 DEF Place
  <1>7. DOMAIN op' = Threads /\ op' = [u \in Threads |-> op'[u]]
    BY <1>1
  <1>8. QED
    BY <1>3, <1>6, <1>7

\* The steps of the thread in the driver that leave the locks and the scheduler
\* alone: the announcement of a command, the command, the test of busy_wait,
\* the end of mtime_sleep and the transfer.
LEMMA DriverKeeps ==
  ASSUME SchedAssumption, SyncAssumption, IdeInv, NEW t \in Threads,
         \/ ide_command(t) \/ cmd_out(t) \/ busy_wait(t) \/ mtime_sleep_over(t) \/ transfer(t)
  PROVE  IdeInv'
  <1>0. /\ op \in [Threads -> [at : Place, call : {"read", "write"}, left : Int]]
        /\ op[t] \in [at : Place, call : {"read", "write"}, left : Int]
        /\ disk \in {"idle", "seek read", "data read", "seek write", "data write", "flush"}
        /\ irq \in BOOLEAN /\ expecting \in BOOLEAN /\ done \in 0..1
        /\ op[Idle].at = "out" /\ OwnerInv /\ FlagInv /\ Stage(t)
        /\ SysThreads \subseteq Threads \ {Idle, Main} /\ status[cur] = "RUNNING"
    BY IdeFacts DEF IdeInv, IdeTypes, PhaseInv
  <1>1. /\ cur = t /\ t # Idle /\ ~panic /\ pc[t].at = "out" /\ UNCHANGED sleepers
        /\ op[t].at \in {"loop", "cmd", "busy", "woken", "data"} /\ (irq => ~iflag[t])
    BY DEF ide_command, cmd_out, busy_wait, mtime_sleep_over, transfer, Steps, InKernel,
       Running, Out
  <1>2. InDriver(t) /\ holder[ChannelLock] = t
    BY <1>0, <1>1 DEF InDriver, OwnerInv
  <1>3. \A u \in Threads : u # t => op[u].at \in {"out", "lock"}
    BY <1>0, <1>2, OneDriver
  <1>4. \A u \in Threads : u # t => op'[u] = op[u]
    BY ZenonT(40), <1>0 DEF ide_command, cmd_out, busy_wait, mtime_sleep_over, transfer, Continue, AfterData,
       NextCommand
  \* It remains to look at t.
  <1>5. ASSUME op' \in [Threads -> [at : Place, call : {"read", "write"}, left : Int]],
               op'[t].at \notin {"out", "lock"}, UNCHANGED vars,
               disk' \in {"idle", "seek read", "data read", "seek write", "data write", "flush"},
               irq' \in BOOLEAN, expecting' \in BOOLEAN, done' = done,
               Stage(t)', op'[t].at = "loop" => Rest'
        PROVE  IdeInv'
    <2>1. SyncInv' /\ OwnerInv' /\ FlagInv' /\ SleepInv'
      BY <1>1, <1>2, <1>4, <1>5, DriverFrame
    <2>2. IdeTypes'
      BY <1>0, <1>1, <1>4, <1>5, SchedAssumption DEF IdeTypes, SchedAssumption
    <2>3. PhaseInv'
      BY <1>3, <1>4, <1>5, PhaseBy
    <2>4. QED
      BY <2>1, <2>2, <2>3 DEF IdeInv
  <1>6. ASSUME NEW at \in Place, op' = [op EXCEPT ![t].at = at]
        PROVE  /\ op' \in [Threads -> [at : Place, call : {"read", "write"}, left : Int]]
               /\ op'[t].at = at /\ op'[t].call = op[t].call
    BY <1>0, <1>6
  <1>7. CASE ide_command(t)
    <2>1. /\ op[t].at = "loop" /\ expecting' = TRUE /\ UNCHANGED <<vars, disk, irq, done>>
          /\ op' = [op EXCEPT ![t].at = "cmd"]
      BY <1>7 DEF ide_command, Steps, Expected, Continue
    <2>2. Rest
      BY <1>3, <2>1 DEF IdeInv, PhaseInv
    <2>3. irq => t \in SysThreads
      BY <1>0, <1>1, <2>1 DEF FlagInv
    <2>4. /\ op'[t].at = "cmd" /\ cur' = cur
          /\ op' \in [Threads -> [at : Place, call : {"read", "write"}, left : Int]]
      BY <1>6, <2>1 DEF Place, vars, schedVars
    <2>5. Stage(t)'
      BY <1>1, <2>1, <2>2, <2>3, <2>4 DEF Stage, ReadStage, WriteStage, CmdStage, Rest
    <2>6. QED
      BY <1>0, <1>5, <2>1, <2>4, <2>5
  <1>8. CASE cmd_out(t)
    <2>1. /\ op[t].at = "cmd" /\ irq' = FALSE /\ UNCHANGED <<vars, expecting, done>>
          /\ disk' = (IF op[t].call = "read" THEN "seek read" ELSE "seek write")
          /\ op' = [op EXCEPT ![t].at = IF op[t].call = "read" THEN "down" ELSE "busy"]
      BY <1>8 DEF cmd_out, Steps, Continue
    <2>2. expecting /\ done = 0
      BY <1>0, <2>1 DEF Stage, CmdStage
    <2>3. CASE op[t].call = "read"
      <3>1. /\ op'[t].at = "down" /\ op'[t].call = "read" /\ disk' = "seek read"
            /\ op' \in [Threads -> [at : Place, call : {"read", "write"}, left : Int]]
        BY <1>6, <2>1, <2>3 DEF Place
      <3>2. Stage(t)'
        BY <2>1, <2>2, <3>1 DEF Stage, ReadStage, CmdStage
      <3>3. QED
        BY <1>0, <1>5, <2>1, <3>1, <3>2
    <2>4. CASE op[t].call = "write"
      <3>1. /\ op'[t].at = "busy" /\ op'[t].call = "write" /\ disk' = "seek write"
            /\ op' \in [Threads -> [at : Place, call : {"read", "write"}, left : Int]]
        BY <1>6, <2>1, <2>4 DEF Place
      <3>2. Stage(t)'
        BY <2>1, <2>2, <3>1 DEF Stage, WriteStage, CmdStage
      <3>3. QED
        BY <1>0, <1>5, <2>1, <3>1, <3>2
    <2>5. QED
      BY <1>0, <2>3, <2>4
  <1>9. CASE busy_wait(t)
    <2>1. /\ op[t].at = "busy" /\ irq' = FALSE /\ UNCHANGED <<disk, expecting, done>>
          /\ op' = [op EXCEPT ![t].at = IF Busy THEN "sleep" ELSE "data"]
          /\ panic' = (~Busy /\ ~Asking)
          /\ UNCHANGED <<status, ready, ticks, cur, iflag, idlePc, lockVars, pc>>
      BY <1>9 DEF busy_wait, Steps, Continue
    <2>2. \/ op[t].call = "read" /\ disk = "data read" /\ ~expecting /\ done = 0
          \/ op[t].call = "write" /\ disk \in {"seek write", "data write"} /\ expecting /\ done = 0
      BY <1>0, <2>1 DEF Stage, ReadStage, WriteStage
    <2>3. UNCHANGED vars
      <3>1. Busy \/ Asking
        BY <2>2 DEF Busy, Asking
      <3>2. panic' = FALSE
        BY <2>1, <3>1, Zenon
      <3>3. panic = FALSE
        <4>1. panic \in BOOLEAN
          BY DEF IdeInv, SyncInv, SchedInv, SchedTypeOK
        <4>2. QED
          BY <1>1, <4>1, Zenon
      <3>4. QED
        BY <2>1, <3>2, <3>3 DEF vars, schedVars
    <2>4. CASE Busy
      <3>1. /\ op'[t].at = "sleep" /\ op'[t].call = op[t].call
            /\ op' \in [Threads -> [at : Place, call : {"read", "write"}, left : Int]]
        BY <1>6, <2>1, <2>4 DEF Place
      <3>2. Stage(t)'
        BY <2>1, <2>2, <3>1 DEF Stage, ReadStage, WriteStage, CmdStage
      <3>3. QED
        BY <1>0, <1>5, <2>1, <2>3, <3>1, <3>2
    <2>5. CASE ~Busy
      <3>1. /\ op'[t].at = "data" /\ op'[t].call = op[t].call
            /\ op' \in [Threads -> [at : Place, call : {"read", "write"}, left : Int]]
        BY <1>6, <2>1, <2>5 DEF Place
      <3>2. disk # "seek write"
        BY <2>5 DEF Busy
      <3>3. Stage(t)'
        BY <2>1, <2>2, <3>1, <3>2 DEF Stage, ReadStage, WriteStage, CmdStage
      <3>4. QED
        BY <1>0, <1>5, <2>1, <2>3, <3>1, <3>3
    <2>6. QED
      BY <2>4, <2>5
  <1>10. CASE mtime_sleep_over(t)
    <2>1. /\ op[t].at = "woken" /\ UNCHANGED <<vars, disk, irq, expecting, done>>
          /\ op' = [op EXCEPT ![t].at = "busy"]
      BY <1>10 DEF mtime_sleep_over, Steps, Continue
    <2>2. /\ op'[t].at = "busy" /\ op'[t].call = op[t].call
          /\ op' \in [Threads -> [at : Place, call : {"read", "write"}, left : Int]]
      BY <1>6, <2>1 DEF Place
    <2>3. Stage(t)'
      BY <1>0, <2>1, <2>2 DEF Stage, ReadStage, WriteStage, CmdStage
    <2>4. QED
      BY <1>0, <1>5, <2>1, <2>2, <2>3
  <1>11. CASE transfer(t)
    <2>1. op[t].at = "data" /\ UNCHANGED <<vars, expecting, done>> /\ iflag[t] \in BOOLEAN
      BY <1>1, <1>11, IdeFacts DEF transfer, Steps, IdeInv
    <2>2. CASE op[t].call = "read"
      <3>1. /\ disk' = "idle" /\ irq' \in BOOLEAN
            /\ NextCommand(t)
        BY <1>11, <2>2 DEF transfer, AfterData
      <3>2. ~expecting /\ done = 0
        BY <1>0, <2>1, <2>2 DEF Stage, ReadStage
      <3>3. /\ op'[t].at = "loop"
            /\ op' \in [Threads -> [at : Place, call : {"read", "write"}, left : Int]]
        BY <1>0, <3>1, NextCommandFacts
      <3>4. Stage(t)' /\ Rest'
        BY <2>1, <3>1, <3>2, <3>3 DEF Stage, ReadStage, WriteStage, CmdStage, Rest
      <3>5. QED
        BY <1>0, <1>5, <2>1, <3>1, <3>3, <3>4
    <2>3. CASE op[t].call # "read"
      <3>1. /\ disk' = "flush" /\ irq' = irq /\ op' = [op EXCEPT ![t].at = "down"]
        BY <1>11, <2>3 DEF transfer, AfterData, Continue
      <3>2. expecting /\ done = 0 /\ ~irq /\ op[t].call = "write"
        BY <1>0, <2>1, <2>3 DEF Stage, WriteStage
      <3>3. /\ op'[t].at = "down" /\ op'[t].call = op[t].call
            /\ op' \in [Threads -> [at : Place, call : {"read", "write"}, left : Int]]
        BY <1>6, <3>1 DEF Place
      <3>4. Stage(t)'
        BY <2>1, <3>1, <3>2, <3>3 DEF Stage, ReadStage, WriteStage, CmdStage
      <3>5. QED
        BY <1>0, <1>5, <2>1, <3>1, <3>3, <3>4
    <2>4. QED
      BY <2>2, <2>3
  <1>12. QED
    BY <1>7, <1>8, <1>9, <1>10, <1>11

\* The head of ide_read and ide_write.
LEMMA CallKeeps ==
  ASSUME SchedAssumption, SyncAssumption, IdeInv, NEW t \in Threads,
         NEW call \in {"read", "write"}, NEW n \in Int, ide_call(t, call, n)
  PROVE  IdeInv'
  <1>0. /\ op \in [Threads -> [at : Place, call : {"read", "write"}, left : Int]]
        /\ SysThreads \subseteq Threads \ {Idle, Main} /\ SyncInv /\ ChannelLock \in Locks
        /\ status[cur] = "RUNNING" /\ pc \in [Threads -> [at : Label, lock : Locks]]
        /\ op[Idle].at = "out"
    BY IdeFacts DEF IdeInv, IdeTypes
  <1>1. /\ cur = t /\ t # Idle /\ pc[t].at = "out" /\ op[t].at = "out"
        /\ (t \in SysThreads => ~iflag[t]) /\ lock_acquire(t, ChannelLock)
        /\ op' = [op EXCEPT ![t] = [at |-> "lock", call |-> call, left |-> n]]
        /\ UNCHANGED <<disk, irq, expecting, done, sleepers, schedVars, lockVars>>
    BY DEF ide_call, Steps, InKernel, Running, Out, lock_acquire
  <1>2. /\ UNCHANGED <<status, cur, iflag, holder>>
        /\ \A u \in Threads : u # t => pc'[u] = pc[u]
    BY <1>0, <1>1 DEF schedVars, lockVars, lock_acquire, Goto
  <1>3. /\ \A u \in Threads : u # t => op'[u] = op[u]
        /\ op'[t].at = "lock"
        /\ op' \in [Threads -> [at : Place, call : {"read", "write"}, left : Int]]
    BY <1>0, <1>1 DEF Place
  <1>4. [Next]_vars
    BY <1>0, <1>1 DEF Next
  <1>5. SyncInv'
    BY <1>0, <1>4, SyncInvStep
  <1>6. IdeTypes'
    BY <1>0, <1>1, <1>3, SchedAssumption DEF IdeInv, IdeTypes, SchedAssumption
  <1>7. OwnerInv'
    BY <1>2, <1>3 DEF IdeInv, OwnerInv, InDriver
  <1>8. FlagInv'
    <2>1. FlagInv
      BY DEF IdeInv
    <2>2. t \in SysThreads => ~iflag[t] /\ status[t] # "DIED"
      BY <1>0, <1>1
    <2>3. t \notin SysThreads => iflag[t]
      BY <1>0, <1>1, <2>1 DEF FlagInv
    <2>4. QED
      BY <1>2, <1>3, <2>1, <2>2, <2>3 DEF FlagInv
  <1>9. SleepInv'
    BY <1>0, <1>1, <1>3, <1>4, SleepKept, SchedAssumption DEF IdeInv, SchedAssumption
  <1>10. PhaseInv'
    <2>1. ASSUME NEW u \in Threads PROVE Stage(u)'
      <3>1. CASE u = t
        BY <1>3, <3>1 DEF Stage, ReadStage, WriteStage, CmdStage
      <3>2. CASE u # t
        <4>1. Stage(u)
          BY DEF IdeInv, PhaseInv
        <4>2. QED
          BY <1>1, <1>2, <1>3, <3>2, <4>1 DEF Stage, ReadStage, WriteStage, CmdStage
      <3>3. QED
        BY <3>1, <3>2
    <2>2. (\A u \in Threads : op'[u].at \in {"out", "lock", "loop"}) => Rest'
      BY <1>1, <1>3 DEF IdeInv, PhaseInv, Rest
    <2>3. QED
      BY <2>1, <2>2 DEF PhaseInv
  <1>11. QED
    BY <1>5, <1>6, <1>7, <1>8, <1>9, <1>10 DEF IdeInv

\* The end of ide_read and ide_write.
LEMMA UnlockKeeps ==
  ASSUME SchedAssumption, SyncAssumption, IdeInv, NEW t \in Threads, ide_unlock(t)
  PROVE  IdeInv'
  <1>0. /\ op \in [Threads -> [at : Place, call : {"read", "write"}, left : Int]]
        /\ SysThreads \subseteq Threads \ {Idle, Main} /\ SyncInv /\ ChannelLock \in Locks
        /\ status[cur] = "RUNNING" /\ pc \in [Threads -> [at : Label, lock : Locks]]
        /\ op[Idle].at = "out" /\ OwnerInv
    BY IdeFacts DEF IdeInv, IdeTypes
  <1>1. /\ cur = t /\ t # Idle /\ pc[t].at = "out" /\ op[t].at = "loop"
        /\ lock_release(t, ChannelLock) /\ op' = [op EXCEPT ![t].at = "out"]
        /\ UNCHANGED <<disk, irq, expecting, done, sleepers>>
    BY DEF ide_unlock, Steps, InKernel, Running, Out, Continue
  <1>2. /\ UNCHANGED <<status, cur, iflag>>
        /\ \A u \in Threads : u # t => pc'[u] = pc[u]
        /\ pc'[t].at \in {"out", "clear"}
    BY <1>0, <1>1 DEF schedVars, lock_release, Goto
  <1>3. /\ \A u \in Threads : u # t => op'[u] = op[u] /\ op[u].at \in {"out", "lock"}
        /\ op'[t].at = "out"
        /\ op' \in [Threads -> [at : Place, call : {"read", "write"}, left : Int]]
    BY SMTT(30), <1>0, <1>1, OneDriver DEF Place, InDriver
  <1>4. [Next]_vars
    BY <1>0, <1>1 DEF Next
  <1>5. SyncInv'
    BY <1>0, <1>4, SyncInvStep
  <1>6. IdeTypes'
    BY <1>0, <1>1, <1>3, SchedAssumption DEF IdeInv, IdeTypes, SchedAssumption
  <1>7. OwnerInv'
    BY <1>3 DEF OwnerInv, InDriver
  <1>8. FlagInv'
    <2>1. FlagInv
      BY DEF IdeInv
    <2>2. t \notin SysThreads => iflag[t]
      BY <1>0, <1>1, <2>1 DEF FlagInv
    <2>3. QED
      BY <1>2, <1>3, <2>1, <2>2 DEF FlagInv
  <1>9. SleepInv'
    BY <1>0, <1>1, <1>3, <1>4, SleepKept, SchedAssumption DEF IdeInv, SchedAssumption
  <1>10. PhaseInv'
    <2>1. Rest
      BY <1>1, <1>3 DEF IdeInv, PhaseInv
    <2>2. Rest' /\ Stage(t)'
      BY <1>1, <1>3, <2>1 DEF Rest, Stage, ReadStage, WriteStage, CmdStage
    <2>3. QED
      BY <1>3, <2>2, PhaseBy
  <1>11. QED
    BY <1>5, <1>6, <1>7, <1>8, <1>9, <1>10 DEF IdeInv

\* The thread that waits for the disk is not asleep while it runs, and then
\* nobody is.
LEMMA NobodyAsleep ==
  ASSUME SchedAssumption, SyncAssumption, IdeInv, op[cur].at = "down"
  PROVE  sleepers = << >>
  <1>0. /\ cur \in Threads /\ status[cur] = "RUNNING" /\ OwnerInv /\ SleepInv
    BY IdeFacts DEF IdeInv
  <1>1. ASSUME NEW u \in Threads, sleepers = <<u>> PROVE FALSE
    <2>1. op[u].at = "down" /\ status[u] = "BLOCKED"
      BY <1>0, <1>1 DEF SleepInv, Asleep, SleepsOutside
    <2>2. u = cur
      BY <1>0, <2>1 DEF OwnerInv, InDriver
    <2>3. QED
      BY <1>0, <2>1, <2>2
  <1>2. QED
    BY <1>0, <1>1 DEF SleepInv

\* sema_down(&disk_done) before the answer.
LEMMA SleepKeeps ==
  ASSUME SchedAssumption, SyncAssumption, IdeInv, NEW t \in Threads, sema_down_sleep(t)
  PROVE  IdeInv'
  <1>0. /\ SysThreads \subseteq Threads \ {Idle, Main} /\ SyncInv /\ SchedInv
        /\ status[cur] = "RUNNING" /\ status \in [Threads -> Status]
        /\ iflag \in [Threads -> BOOLEAN] /\ OwnerInv /\ FlagInv /\ SleepInv
        /\ \A u \in Threads : status[u] = "RUNNING" <=> u = cur
        /\ op[Idle].at = "out"
    BY IdeFacts DEF IdeInv, SyncInv, IdeTypes
  <1>1. /\ cur = t /\ t # Idle /\ Running(t) /\ op[t].at = "down" /\ done = 0
        /\ sleepers' = list_append(sleepers, t)
        /\ panic' = (elem_find(sleepers, t) \/ ~ScheduleAsserts([status EXCEPT ![t] = "BLOCKED"], ready))
        /\ Schedule([status EXCEPT ![t] = "BLOCKED"], ready)
        /\ iflag' = [iflag EXCEPT ![t] = FALSE]
        /\ UNCHANGED <<idlePc, lockVars, pc, disk, irq, expecting, done, op, holder>>
    BY DEF sema_down_sleep, Running, lockVars
  <1>2. sleepers = << >>
    BY <1>1, NobodyAsleep
  <1>3. sleepers' = <<t>> /\ ~elem_find(sleepers, t)
    BY <1>1, <1>2, EmptyFacts DEF list_append
  <1>4. ThreadBlock("BLOCKED")
    <2>1. panic' = ~ScheduleAsserts([status EXCEPT ![cur] = "BLOCKED"], ready)
      BY <1>1, <1>3, Zenon
    <2>2. QED
      BY <1>1, <2>1 DEF ThreadBlock
  <1>5. SchedInv'
    <2>1. Block(t, "BLOCKED")
      BY <1>1, <1>4 DEF Block
    <2>2. QED
      BY <1>0, <2>1, SchedInvStep DEF SchedNext, Blocked
  <1>6. /\ status'[t] = "BLOCKED"
        /\ \A u \in Threads \ {Idle, t} : SameKind(status[u], status'[u])
    BY <1>0, <1>1, BlockEffect DEF Blocked
  <1>7. InDriver(t) /\ pc[t].at = "out" /\ \A u \in Threads : u # t => op[u].at \in {"out", "lock"}
    BY <1>0, <1>1, OneDriver DEF InDriver, OwnerInv
  <1>8. Quiet
    BY <1>0, <1>1, <1>6, <1>7 DEF Quiet, SameKind
  <1>9. SyncInv'
    BY <1>0, <1>1, <1>5, <1>8, ClientStep
  <1>10. IdeTypes'
    BY <1>1 DEF IdeInv, IdeTypes
  <1>11. OwnerInv'
    BY <1>0, <1>1 DEF OwnerInv, InDriver
  <1>12. FlagInv'
    <2>1. \A u \in Threads \ {Idle} : status'[u] = "DIED" <=> status[u] = "DIED"
      BY <1>0, <1>1, <1>6 DEF SameKind
    <2>2. iflag'[t] = FALSE /\ \A u \in Threads : u # t => iflag'[u] = iflag[u]
      BY <1>0, <1>1
    <2>3. QED
      BY <1>0, <1>1, <2>1, <2>2 DEF FlagInv
  <1>13. SleepInv'
    <2>1. Asleep(t)' /\ \A u \in Threads : u # t => ~Asleep(u)'
      BY <1>1, <1>6, <1>7 DEF Asleep, SleepsOutside
    <2>2. \A u \in Threads : sleepers' = <<u>> <=> u = t
      BY <1>3
    <2>3. QED
      BY <1>3, <2>1, <2>2 DEF SleepInv
  <1>14. PhaseInv'
    <2>1. Stage(t)
      BY DEF IdeInv, PhaseInv
    <2>2. /\ op'[t] = op[t] /\ op[t].at = "down" /\ disk' = disk /\ (irq' <=> irq)
          /\ (expecting' <=> expecting) /\ done' = done /\ done = 0
      BY <1>1
    <2>3. ASSUME op[t].call = "read" PROVE ReadStage(t)'
      <3>1. \/ disk = "seek read" /\ expecting /\ ~irq
            \/ disk = "data read" /\ expecting /\ irq
        <4>1. ReadStage(t) /\ done # 1
          BY <2>1, <2>2, <2>3 DEF Stage
        <4>2. QED
          BY <2>2, <4>1 DEF ReadStage
      <3>2. QED
        BY <2>2, <3>1 DEF ReadStage
    <2>4. ASSUME op[t].call = "write" PROVE WriteStage(t)'
      <3>1. \/ disk = "flush" /\ expecting /\ ~irq
            \/ disk = "idle" /\ expecting /\ irq
        BY <2>1, <2>2, <2>4 DEF Stage, WriteStage
      <3>2. QED
        BY <2>2, <3>1 DEF WriteStage
    <2>5. CmdStage(t)'
      BY <1>1, <2>2 DEF CmdStage
    <2>6. Stage(t)'
      BY <2>2, <2>3, <2>4, <2>5 DEF Stage
    <2>7. QED
      BY <1>1, <1>7, <2>6, PhaseBy
  <1>15. QED
    BY <1>9, <1>10, <1>11, <1>12, <1>13, <1>14 DEF IdeInv

\* sema_down(&disk_done) after the answer.
LEMMA DoneKeeps ==
  ASSUME SchedAssumption, SyncAssumption, IdeInv, NEW t \in Threads, sema_down_done(t)
  PROVE  IdeInv'
  <1>0. /\ SysThreads \subseteq Threads \ {Idle, Main} /\ SyncInv /\ SchedInv
        /\ status[cur] = "RUNNING" /\ status \in [Threads -> Status]
        /\ iflag \in [Threads -> BOOLEAN] /\ OwnerInv /\ FlagInv /\ SleepInv /\ Stage(t)
        /\ op[Idle].at = "out" /\ done \in 0..1
        /\ op \in [Threads -> [at : Place, call : {"read", "write"}, left : Int]]
    BY IdeFacts DEF IdeInv, SyncInv, IdeTypes, PhaseInv
  <1>1. /\ cur = t /\ t # Idle /\ op[t].at = "down" /\ done # 0 /\ done' = done - 1
        /\ panic' = (done' # 0) /\ iflag' = [iflag EXCEPT ![t] = OldStatus(t)]
        /\ IF op[t].call = "read" THEN Continue(t, "busy") ELSE NextCommand(t)
        /\ UNCHANGED <<status, ready, ticks, cur, idlePc, lockVars, pc, disk, irq, expecting, sleepers, holder>>
    BY DEF sema_down_done, Running, lockVars
  <1>2. done = 1 /\ done' = 0
    BY <1>0, <1>1
  <1>3. panic' = FALSE
    <2>1. ~(done' # 0)
      BY <1>2
    <2>2. QED
      BY <1>1, <2>1, Zenon
  <1>4. /\ InDriver(t) /\ pc[t].at = "out" /\ holder[ChannelLock] = t /\ sleepers = << >>
        /\ \A u \in Threads : u # t => op[u].at \in {"out", "lock"}
    BY <1>0, <1>1, OneDriver, NobodyAsleep DEF InDriver, OwnerInv
  <1>5. /\ \A u \in Threads : u # t => op'[u] = op[u]
        /\ op'[t].at = (IF op[t].call = "read" THEN "busy" ELSE "loop")
        /\ op[t].call = "read" => op'[t].call = "read"
        /\ op' \in [Threads -> [at : Place, call : {"read", "write"}, left : Int]]
    <2>1. CASE op[t].call = "read"
      <3>1. op' = [op EXCEPT ![t].at = "busy"]
        BY <1>1, <2>1 DEF Continue
      <3>2. QED
        BY <1>0, <2>1, <3>1 DEF Place
    <2>2. CASE op[t].call # "read"
      BY <1>0, <1>1, <2>2, NextCommandFacts
    <2>3. QED
      BY <2>1, <2>2
  <1>6. SyncInv'
    <2>1. iflag' \in [Threads -> BOOLEAN]
      BY <1>0, <1>1 DEF OldStatus
    <2>2. panic' \in BOOLEAN /\ ~panic'
      BY <1>3
    <2>3. SchedInv'
      BY <1>0, <1>1, <2>1, <2>2 DEF SchedInv, SchedTypeOK, ReadyListExact, NoPanic
    <2>4. Quiet
      BY <1>1 DEF Quiet
    <2>5. QED
      BY <1>0, <1>1, <2>3, <2>4, ClientStep
  <1>7. IdeTypes'
    <2>1. done' \in 0..1
      BY <1>2
    <2>2. Idle \in Threads /\ op'[Idle].at = "out"
      BY <1>0, <1>1, <1>5, SchedAssumption DEF SchedAssumption
    <2>3. disk' = disk /\ irq' = irq /\ expecting' = expecting
      BY <1>1
    <2>4. IdeTypes
      BY DEF IdeInv
    <2>5. QED
      BY <1>5, <2>1, <2>2, <2>3, <2>4 DEF IdeTypes
  <1>8. OwnerInv'
    BY <1>0, <1>1, <1>4, <1>5 DEF OwnerInv, InDriver
  <1>9. FlagInv'
    <2>1. /\ \A u \in Threads : u # t => iflag'[u] = iflag[u]
          /\ t \in SysThreads => ~iflag'[t] /\ status[t] # "DIED"
          /\ t \notin SysThreads => iflag'[t]
      BY <1>0, <1>1 DEF OldStatus
    <2>2. QED
      BY SMTT(30), <1>0, <1>1, <1>5, <2>1 DEF FlagInv
  <1>10. SleepInv'
    <2>1. \A u \in Threads : ~Asleep(u)'
      BY <1>0, <1>1, <1>4, <1>5 DEF Asleep, SleepsOutside
    <2>2. sleepers' = << >> /\ \A u \in Threads : sleepers' # <<u>>
      BY <1>1, <1>4
    <2>3. QED
      BY <2>1, <2>2 DEF SleepInv
  <1>11. PhaseInv'
    <2>1. CASE op[t].call = "read"
      <3>1. disk = "data read" /\ ~expecting /\ ~irq
        BY <1>0, <1>1, <1>2, <2>1 DEF Stage, ReadStage
      <3>2. op'[t].at = "busy" /\ op'[t].call = "read"
        BY <1>5, <2>1
      <3>3. Stage(t)'
        BY <1>1, <1>2, <3>1, <3>2 DEF Stage, ReadStage, CmdStage
      <3>4. QED
        BY <1>4, <1>5, <3>2, <3>3, PhaseBy
    <2>2. CASE op[t].call # "read"
      <3>1. op[t].call = "write"
        BY <1>0, <2>2
      <3>2. disk = "idle" /\ ~expecting
        BY <1>0, <1>1, <1>2, <3>1 DEF Stage, WriteStage
      <3>3. op'[t].at = "loop"
        BY <1>5, <2>2
      <3>4. Stage(t)' /\ Rest'
        BY <1>1, <1>2, <3>2, <3>3 DEF Stage, ReadStage, WriteStage, CmdStage, Rest
      <3>5. QED
        BY <1>4, <1>5, <3>4, PhaseBy
    <2>3. QED
      BY <2>1, <2>2
  <1>12. QED
    BY <1>6, <1>7, <1>8, <1>9, <1>10, <1>11 DEF IdeInv

-----------------------------------------------------------------------------
(* The disk and its interrupt.                                             *)

LEMMA DiskKeeps ==
  ASSUME SchedAssumption, SyncAssumption, IdeInv, disk_answers
  PROVE  IdeInv'
  <1>1. /\ UNCHANGED <<vars, expecting, done, sleepers, op>>
        /\ UNCHANGED <<status, cur, iflag, pc, holder>>
    BY DEF disk_answers, vars, schedVars, lockVars
  <1>2. SyncInv'
    BY <1>1, SyncInvStep DEF IdeInv
  <1>3. IdeTypes'
    BY <1>1 DEF IdeInv, IdeTypes, disk_answers
  <1>4. OwnerInv' /\ FlagInv' /\ SleepInv'
    BY <1>1 DEF IdeInv, OwnerInv, InDriver, FlagInv, SleepInv, Asleep, SleepsOutside
  <1>5. ASSUME NEW t \in Threads PROVE Stage(t)'
    <2>1. Stage(t)
      BY DEF IdeInv, PhaseInv
    <2>2. op' = op /\ expecting' = expecting /\ done' = done /\ sleepers' = sleepers /\ cur' = cur
      BY <1>1
    <2>3. \/ disk = "seek read"  /\ disk' = "data read"  /\ irq'
          \/ disk = "seek write" /\ disk' = "data write" /\ (irq' <=> irq)
          \/ disk = "flush"      /\ disk' = "idle"       /\ irq'
      BY Zenon DEF disk_answers
    <2>4. ASSUME op[t].call = "read" PROVE ReadStage(t)'
      <3>1. ReadStage(t)
        BY <2>1, <2>4 DEF Stage
      <3>2. CASE op[t].at = "down"
        <4>1. disk = "seek read" /\ expecting /\ done = 0
          BY <2>3, <3>1, <3>2 DEF ReadStage
        <4>2. QED
          BY <2>2, <2>3, <3>2, <4>1 DEF ReadStage
      <3>3. CASE op[t].at # "down"
        BY <2>2, <2>3, <3>1, <3>3 DEF ReadStage
      <3>4. QED
        BY <3>2, <3>3
    <2>5. ASSUME op[t].call = "write" PROVE WriteStage(t)'
      <3>1. WriteStage(t)
        BY <2>1, <2>5 DEF Stage
      <3>2. CASE op[t].at = "down"
        <4>1. disk = "flush" /\ expecting /\ done = 0
          BY <2>3, <3>1, <3>2 DEF WriteStage
        <4>2. QED
          BY <2>2, <2>3, <3>2, <4>1 DEF WriteStage
      <3>3. CASE op[t].at # "down"
        BY <2>2, <2>3, <3>1, <3>3 DEF WriteStage
      <3>4. QED
        BY <3>2, <3>3
    <2>6. CmdStage(t)'
      BY <2>1, <2>2, <2>3 DEF Stage, CmdStage
    <2>7. QED
      BY <2>2, <2>4, <2>5, <2>6 DEF Stage
  <1>6. PhaseInv'
    BY <1>1, <1>5 DEF IdeInv, PhaseInv, Rest, disk_answers
  <1>7. QED
    BY <1>2, <1>3, <1>4, <1>6 DEF IdeInv

\* Nobody waits unless it is for this answer, which is the first.
LEMMA IntrKeeps ==
  ASSUME SchedAssumption, SyncAssumption, IdeInv, intr_hd_handler
  PROVE  IdeInv'
  <1>0. /\ SysThreads \subseteq Threads \ {Idle, Main} /\ SyncInv /\ SchedInv
        /\ status[cur] = "RUNNING" /\ status \in [Threads -> Status]
        /\ iflag \in [Threads -> BOOLEAN] /\ OwnerInv /\ FlagInv /\ SleepInv /\ PhaseInv
        /\ op[Idle].at = "out" /\ done \in 0..1 /\ ~panic /\ Idle \in Threads
    BY IdeFacts DEF IdeInv, SyncInv, IdeTypes
  <1>1. /\ irq /\ iflag[cur] /\ irq' = FALSE /\ expecting' = FALSE
        /\ idlePc' = (IF cur = Idle /\ idlePc = "hlt" THEN "block" ELSE idlePc)
        /\ UNCHANGED <<ticks, cur, iflag, lockVars, pc, disk, op, holder>>
    BY DEF intr_hd_handler, Answered, lockVars
  <1>2. \A t \in Threads : op[t].at # "cmd"
    <2>1. ASSUME NEW t \in Threads, op[t].at = "cmd" PROVE FALSE
      <3>1. t \in SysThreads /\ cur = t
        BY <1>0, <1>1, <2>1 DEF PhaseInv, Stage, CmdStage
      <3>2. QED
        BY <1>0, <1>1, <2>1, <3>1 DEF FlagInv
    <2>2. QED
      BY <2>1
  <1>3. CASE ~expecting
    <2>1. UNCHANGED <<done, sleepers, ready, status, panic, expecting>>
      <3>1. UNCHANGED <<done, sleepers, ready, status, panic>>
        BY <1>3 DEF intr_hd_handler
      <3>2. expecting \in BOOLEAN
        BY DEF IdeInv, IdeTypes
      <3>3. expecting' = expecting
        BY <1>1, <1>3, <3>2, Zenon
      <3>4. QED
        BY <3>1, <3>3
    <2>2. SchedInv'
      BY <1>0, <1>1, <2>1 DEF SchedInv, SchedTypeOK, ReadyListExact, NoPanic
    <2>3. Quiet
      BY <2>1 DEF Quiet
    <2>4. SyncInv'
      BY <1>0, <1>1, <2>2, <2>3, ClientStep
    <2>5. IdeTypes'
      BY <1>1, <2>1 DEF IdeInv, IdeTypes
    <2>6. OwnerInv' /\ FlagInv' /\ SleepInv'
      BY <1>0, <1>1, <2>1 DEF OwnerInv, InDriver, FlagInv, SleepInv, Asleep, SleepsOutside
    <2>7. ASSUME NEW t \in Threads PROVE Stage(t)'
      <3>1. Stage(t)
        BY <1>0 DEF PhaseInv
      <3>2. op[t].call \in {"read", "write"}
        BY DEF IdeInv, IdeTypes
      <3>3. op[t].at \notin {"down", "busy", "sleep", "woken", "data", "cmd"}
        BY <1>1, <1>2, <1>3, <3>1, <3>2 DEF Stage, ReadStage, WriteStage
      <3>4. QED
        BY <1>1, <3>3 DEF Stage, ReadStage, WriteStage, CmdStage
    <2>8. PhaseInv'
      BY <1>0, <1>1, <2>1, <2>7 DEF PhaseInv, Rest
    <2>9. QED
      BY <2>4, <2>5, <2>6, <2>8 DEF IdeInv
  <1>4. CASE expecting
    \* Some thread is at "down": the only place where an answer is both
    \* expected and there.
    <2>1. PICK t \in Threads : op[t].at = "down"
      <3>1. PICK t \in Threads : op[t].at \notin {"out", "lock", "loop"}
        BY <1>0, <1>4 DEF PhaseInv, Rest
      <3>2. op[t].at \in Place /\ op[t].call \in {"read", "write"}
        BY DEF IdeInv, IdeTypes
      <3>3. op[t].at = "down"
        BY ZenonT(40), <1>0, <1>1, <1>2, <3>1, <3>2 DEF PhaseInv, Stage, ReadStage, WriteStage, Place
      <3>4. QED
        BY <3>3
    <2>2. /\ op[t].call \in {"read", "write"} /\ done = 0 /\ Stage(t)
          /\ op[t].call = "read" => disk = "data read"
          /\ op[t].call = "write" => disk = "idle"
      <3>1. op[t].call \in {"read", "write"} /\ Stage(t)
        BY <1>0 DEF IdeInv, IdeTypes, PhaseInv
      <3>2. QED
        BY <1>1, <1>4, <2>1, <3>1 DEF Stage, ReadStage, WriteStage
    <2>3. InDriver(t) /\ pc[t].at = "out" /\ \A u \in Threads : u # t => op[u].at \in {"out", "lock"}
      BY <1>0, <2>1, OneDriver DEF InDriver, OwnerInv
    <2>4. done' = 1
      <3>1. done' = done + 1
        BY <1>4 DEF intr_hd_handler
      <3>2. done = 0
        BY <2>2
      <3>3. QED
        BY <3>1, <3>2
    <2>5. /\ sleepers' = << >> /\ SyncInv' /\ \A u \in Threads : ~Asleep(u)'
          /\ \A u \in Threads \ {Idle} : status'[u] = "DIED" <=> status[u] = "DIED"
      <3>1. CASE sleepers = << >>
        <4>1. panic' = (done # 0) /\ UNCHANGED <<sleepers, ready, status>>
          BY <1>4, <3>1 DEF intr_hd_handler
        <4>2. panic' = FALSE
          <5>1. ~(done # 0)
            BY <2>2
          <5>2. QED
            BY <4>1, <5>1, Zenon
        <4>3. panic' \in BOOLEAN /\ ~panic'
          BY <4>2
        <4>4. SchedInv'
          BY <1>0, <1>1, <4>1, <4>3 DEF SchedInv, SchedTypeOK, ReadyListExact, NoPanic
        <4>5. Quiet
          BY <4>1 DEF Quiet
        <4>6. SyncInv'
          BY <1>0, <1>1, <4>4, <4>5, ClientStep
        <4>7. \A u \in Threads : ~Asleep(u)'
          <5>1. \A u \in Threads : sleepers # <<u>>
            BY <3>1
          <5>2. QED
            BY <1>0, <1>1, <4>1, <5>1 DEF SleepInv, Asleep, SleepsOutside
        <4>8. QED
          BY <3>1, <4>1, <4>6, <4>7
      <3>2. CASE sleepers # << >>
        <4>1. PICK w \in Threads : sleepers = <<w>>
          BY <1>0, <3>2 DEF SleepInv
        <4>2. Head(sleepers) = w /\ Tail(sleepers) = << >>
          BY <4>1
        <4>3. op[w].at = "down" /\ status[w] = "BLOCKED" /\ pc[w].at = "out" /\ w = t /\ w # Idle
          BY <1>0, <2>3, <4>1 DEF SleepInv, Asleep, SleepsOutside
        <4>4. /\ sleepers' = << >> /\ ready' = UnblockReady(ready, w)
              /\ status' = UnblockStatus(status, w)
              /\ panic' = (done # 0 \/ ~UnblockAsserts(status, ready, w))
          BY <1>4, <3>2, <4>2 DEF intr_hd_handler
        <4>5. panic' = ~UnblockAsserts(status, ready, w)
          <5>1. ~(done # 0)
            BY <2>2
          <5>2. QED
            BY <4>4, <5>1, Zenon
        <4>6. Unblock(w)
          BY <1>0, <1>1, <4>3, <4>4, <4>5 DEF Unblock, ThreadUnblock
        <4>7. SchedInv'
          BY <1>0, <4>6, SchedInvStep DEF SchedNext
        <4>8. status' = [status EXCEPT ![w] = "READY"]
          BY <4>4 DEF UnblockStatus
        <4>9. Quiet
          BY <1>0, <1>1, <4>3, <4>8 DEF Quiet
        <4>10. SyncInv'
          BY <1>0, <1>1, <4>7, <4>9, ClientStep
        <4>11. \A u \in Threads : ~Asleep(u)'
          BY <1>0, <1>1, <2>3, <4>3, <4>8 DEF Asleep, SleepsOutside
        <4>12. \A u \in Threads \ {Idle} : status'[u] = "DIED" <=> status[u] = "DIED"
          BY <1>0, <4>3, <4>8
        <4>13. QED
          BY <4>4, <4>10, <4>11, <4>12
      <3>3. QED
        BY <3>1, <3>2
    <2>6. IdeTypes'
      <3>1. done' \in 0..1
        BY <2>4
      <3>2. irq' \in BOOLEAN /\ expecting' \in BOOLEAN
        BY <1>1
      <3>3. IdeTypes /\ disk' = disk /\ op' = op
        BY <1>1 DEF IdeInv
      <3>4. QED
        BY <3>1, <3>2, <3>3 DEF IdeTypes
    <2>7. OwnerInv'
      BY <1>0, <1>1 DEF OwnerInv, InDriver
    <2>8. FlagInv'
      BY <1>0, <1>1, <2>5 DEF FlagInv
    <2>9. SleepInv'
      <3>1. \A u \in Threads : sleepers' # <<u>>
        BY <2>5
      <3>2. QED
        BY <2>5, <3>1 DEF SleepInv
    <2>10. PhaseInv'
      <3>1. Stage(t)'
        BY <1>1, <2>1, <2>2, <2>4, <2>5 DEF Stage, ReadStage, WriteStage, CmdStage
      <3>2. QED
        BY <1>1, <2>1, <2>3, <3>1, PhaseBy
    <2>11. QED
      BY <2>5, <2>6, <2>7, <2>8, <2>9, <2>10 DEF IdeInv
  <1>5. QED
    BY <1>3, <1>4

-----------------------------------------------------------------------------
(* The theorems.                                                           *)

\* The initial state.
LEMMA IdeInitial ==
  ASSUME SchedAssumption, SyncAssumption, IdeInit
  PROVE  IdeInv
  <1>1. Init /\ SyncInv
    BY SchedInitial, SyncInitial DEF IdeInit, Init, SyncInv
  <1>2. /\ disk = "idle" /\ irq = FALSE /\ expecting = FALSE /\ done = 0 /\ sleepers = << >>
        /\ op = [t \in Threads |-> [at |-> "out", call |-> "read", left |-> 0]]
        /\ iflag = [t \in Threads |-> TRUE]
    BY <1>1 DEF IdeInit, Init, SchedInit
  <1>3. \A t \in Threads : op[t].at = "out" /\ op[t].call = "read"
    BY <1>2
  <1>4. IdeTypes
    <2>1. op \in [Threads -> [at : Place, call : {"read", "write"}, left : Int]]
      BY <1>2 DEF Place
    <2>2. Idle \in Threads
      BY SchedAssumption DEF SchedAssumption
    <2>3. irq \in BOOLEAN /\ expecting \in BOOLEAN
      BY <1>2
    <2>4. done = 0
      BY <1>2
    <2>5. done \in 0..1
      BY <2>4
    <2>6. QED
      BY <1>2, <1>3, <2>1, <2>2, <2>3, <2>5 DEF IdeTypes
  <1>5. OwnerInv /\ FlagInv
    BY <1>2, <1>3, SyncAssumption DEF OwnerInv, InDriver, FlagInv, SyncAssumption
  <1>6. SleepInv
    <2>1. \A t \in Threads : sleepers # <<t>> /\ ~Asleep(t)
      BY <1>2, <1>3 DEF Asleep
    <2>2. QED
      BY <1>2, <2>1 DEF SleepInv
  <1>7. PhaseInv
    BY <1>2, <1>3 DEF PhaseInv, Rest, Stage, ReadStage, WriteStage, CmdStage
  <1>8. QED
    BY <1>1, <1>4, <1>5, <1>6, <1>7 DEF IdeInv

\* Every step keeps it.
LEMMA IdeInvStep ==
  ASSUME IdeAssumption, SchedAssumption, SyncAssumption, IdeInv, [IdeNext]_driverVars
  PROVE  IdeInv'
  <1>1. CASE IdeMachine \/ IdeTimer \/ disk_answers \/ intr_hd_handler
    BY <1>1, MachineKeeps, IdeTimerKeeps, DiskKeeps, IntrKeeps
  <1>2. ASSUME NEW t \in Threads, DriverStep(t) PROVE IdeInv'
    BY <1>2, LockedKeeps, DriverKeeps, SleepKeeps, DoneKeeps, YieldKeeps, UnlockKeeps,
       LockStepIdeKeeps DEF DriverStep
  <1>3. ASSUME NEW t \in Threads, NEW call \in {"read", "write"}, NEW n \in 1..MaxCmds,
               ide_call(t, call, n)
        PROVE  IdeInv'
    <2>1. n \in Int
      BY DEF IdeAssumption
    <2>2. QED
      BY <1>3, <2>1, CallKeeps
  <1>4. CASE UNCHANGED driverVars
    <2>1. /\ UNCHANGED <<disk, irq, expecting, done, sleepers, op, vars, ideVars>>
          /\ UNCHANGED <<status, cur, iflag, pc, holder>>
      BY <1>4 DEF driverVars, ideVars, vars, schedVars, lockVars
    <2>2. SyncInv'
      BY <2>1, SyncInvStep DEF IdeInv
    <2>3. IdeTypes' /\ OwnerInv' /\ FlagInv' /\ SleepInv'
      BY <2>1 DEF IdeInv, IdeTypes, OwnerInv, InDriver, FlagInv, SleepInv, Asleep, SleepsOutside
    <2>4. PhaseInv'
      BY <2>1, PhaseKept DEF IdeInv
    <2>5. QED
      BY <2>2, <2>3, <2>4 DEF IdeInv
  <1>5. QED
    BY <1>1, <1>2, <1>3, <1>4 DEF IdeNext

\* The invariant of the driver, the disk and the channel's lock.
THEOREM IdeInvariant == IdeSpec => []IdeInv
  <1>1. IdeInit => IdeInv
    BY IdeInitial, SchedAssumption, SyncAssumption
  <1>2. IdeInv /\ [IdeNext]_driverVars => IdeInv'
    BY IdeInvStep, IdeAssumption, SchedAssumption, SyncAssumption
  <1>3. QED
    BY <1>1, <1>2, PTL DEF IdeSpec

\* Data are transferred only when the disk asks for them, and in the direction
\* it asks for (ide.c:162-167, 189-194).
THEOREM TransfersMatch == IdeSpec => []TransferMatches
  <1>1. IdeInv => TransferMatches
    <2>1. SUFFICES ASSUME IdeInv, NEW t \in Threads, op[t].at = "data"
                   PROVE  disk = IF op[t].call = "read" THEN "data read" ELSE "data write"
      BY DEF TransferMatches
    <2>2. Stage(t) /\ op[t].call \in {"read", "write"}
      BY <2>1 DEF IdeInv, PhaseInv, IdeTypes
    <2>3. QED
      BY <2>1, <2>2 DEF Stage, ReadStage, WriteStage
  <1>2. QED
    BY <1>1, IdeInvariant, PTL

\* A thread that sleeps on disk_done has its answer coming, and no answer is
\* counted twice (ide.c:104-107, 206-208).
THEOREM AnswersCome == IdeSpec => []AnswerComing
  <1>1. IdeInv => AnswerComing
    <2>1. SUFFICES ASSUME IdeInv PROVE AnswerComing
      OBVIOUS
    <2>2. done \in 0..1
      BY <2>1 DEF IdeInv, IdeTypes
    <2>3. ASSUME sleepers # << >>
          PROVE  expecting /\ (irq \/ disk \in {"seek read", "flush"})
      <3>1. PICK t \in Threads : op[t].at = "down"
        BY <2>1, <2>3 DEF IdeInv, SleepInv, Asleep
      <3>2. Stage(t) /\ op[t].call \in {"read", "write"}
        BY <2>1 DEF IdeInv, PhaseInv, IdeTypes
      <3>3. QED
        BY <2>3, <3>1, <3>2 DEF Stage, ReadStage, WriteStage
    <2>4. done <= 1
      BY <2>2
    <2>5. QED
      BY <2>3, <2>4 DEF AnswerComing
  <1>2. QED
    BY <1>1, IdeInvariant, PTL

\* A command is sent only to an idle disk: no interrupt of an earlier transfer
\* is taken for the end of a command, whoever had the channel before
\* (ide.c:149-170, 177-198).
THEOREM CommandsToIdleDisk == IdeSpec => CommandWhenIdle
  <1>1. IdeInv /\ [IdeNext]_driverVars => [(\E t \in Threads : cmd_out(t)) => disk = "idle"]_driverVars
    <2>1. SUFFICES ASSUME IdeInv, NEW t \in Threads, cmd_out(t) PROVE disk = "idle"
      OBVIOUS
    <2>2. Stage(t) /\ op[t].at = "cmd"
      BY <2>1 DEF IdeInv, PhaseInv, cmd_out, Steps
    <2>3. QED
      BY <2>2 DEF Stage, CmdStage
  <1>2. QED
    BY <1>1, IdeInvariant, PTL DEF IdeSpec, CommandWhenIdle

\* No ASSERT of ide.c, sync.c or thread.c fires, and busy_wait finds a disk
\* that is busy or asks for data.
THEOREM IdeNeverPanics == IdeSpec => []NoPanic
  <1>1. IdeInv => NoPanic
    BY DEF IdeInv, SyncInv, SchedInv
  <1>2. QED
    BY <1>1, IdeInvariant, PTL
=============================================================================
