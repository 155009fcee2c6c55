---------------------------- MODULE SchedProofs ----------------------------
(***************************************************************************)
(* For every set of threads and every choice of time slices: the ready     *)
(* list and the thread states agree, and no ASSERT of thread.c fires.      *)
(***************************************************************************)
EXTENDS Sched, ListProofs

-----------------------------------------------------------------------------
(* The inductive invariant.  Beyond what the runs check it says that the   *)
(* idle thread is RUNNING, READY or BLOCKED: schedule() relies on it to    *)
(* find idle_thread blocked whenever nothing else is ready.                *)

Agree(st, rd) ==
  /\ st \in [Threads -> Status]
  /\ rd \in Seq(Threads)
  /\ IsInjective(rd)
  /\ \A t \in Threads : st[t] = "READY" <=> elem_find(rd, t)
  /\ \A t \in Threads : st[t] = "RUNNING" => t = cur
  /\ st[Idle] \in {"RUNNING", "READY", "BLOCKED"}

\* What schedule() and thread_unblock are responsible for.
ListsOK ==
  /\ status \in [Threads -> Status]
  /\ ready \in Seq(Threads)
  /\ ticks \in [Threads -> 0..255] /\ \A t \in Threads : ticks[t] <= Priority[t]
  /\ cur \in Threads
  /\ ReadyListExact
  /\ status[Idle] \in {"RUNNING", "READY", "BLOCKED"}

SchedInv ==
  /\ SchedTypeOK
  /\ ReadyListExact
  /\ NoPanic
  /\ status[Idle] \in {"RUNNING", "READY", "BLOCKED"}

\* schedule(), called with a ready list and states that agree, runs into none
\* of its ASSERTs and leaves them in agreement with the thread it switches to.
LEMMA ScheduleFacts ==
  ASSUME SchedAssumption, SchedTypeOK,
         NEW st, NEW rd, Agree(st, rd), Schedule(st, rd)
  PROVE  ScheduleAsserts(st, rd) /\ ListsOK'
  <1> DEFINE rd1 == Requeued(st, rd)
             st1 == IF Expired(st) THEN [st EXCEPT ![cur] = "READY"] ELSE st
             rd2 == IF rd1 = << >> THEN UnblockReady(rd1, Idle) ELSE rd1
             st2 == IF rd1 = << >> THEN UnblockStatus(st1, Idle) ELSE st1
  <1>0. cur \in Threads /\ Idle \in Threads
    BY DEF SchedTypeOK, SchedAssumption
  <1>1. /\ st1 \in [Threads -> Status]
        /\ rd1 \in Seq(Threads)
        /\ IsInjective(rd1)
        /\ \A t \in Threads : st1[t] = "READY" <=> elem_find(rd1, t)
        /\ \A t \in Threads : st1[t] # "RUNNING"
        /\ st1[Idle] \in {"RUNNING", "READY", "BLOCKED"}
        /\ Expired(st) => ~elem_find(rd, cur)
    <2>1. CASE Expired(st)
      BY <1>0, <2>1, AppendFacts DEF Agree, Expired, Requeued, Status
    <2>2. CASE ~Expired(st)
      BY <1>0, <2>2 DEF Agree, Expired, Requeued
    <2>3. QED
      BY <2>1, <2>2
  <1>2. rd1 = << >> => ~elem_find(rd1, Idle) /\ st1[Idle] \in Blocked
    <2>1. ASSUME rd1 = << >>
          PROVE  ~elem_find(rd1, Idle)
      BY <2>1, EmptyFacts
    <2>2. QED
      BY <1>0, <1>1, <2>1 DEF Status, Blocked
  <1>3. ScheduleAsserts(st, rd)
    <2>1. ASSUME Requeued(st, rd) = << >>
          PROVE  UnblockAsserts(st, rd, Idle)
      <3>1. ~Expired(st)
        BY <1>0, <2>1, AppendFacts DEF Requeued, Agree
      <3>2. QED
        BY <1>2, <2>1, <3>1 DEF UnblockAsserts, Requeued
    <2>2. QED
      BY <1>1, <2>1 DEF ScheduleAsserts
  <1>4. /\ st2 \in [Threads -> Status]
        /\ rd2 \in Seq(Threads) /\ rd2 # << >>
        /\ IsInjective(rd2)
        /\ \A t \in Threads : st2[t] = "READY" <=> elem_find(rd2, t)
        /\ \A t \in Threads : st2[t] # "RUNNING"
        /\ st2[Idle] \in {"RUNNING", "READY", "BLOCKED"}
    <2>1. CASE rd1 = << >>
      <3>1. st2 = [st1 EXCEPT ![Idle] = "READY"] /\ rd2 = list_push(rd1, Idle)
        BY <2>1 DEF UnblockReady, UnblockStatus
      <3> HIDE DEF rd1, st1, rd2, st2
      <3>2. QED
        BY ZenonT(40), <1>0, <1>1, <1>2, <2>1, <3>1, PushFacts DEF Status
    <2>2. CASE rd1 # << >>
      BY <1>1, <2>2
    <2>3. QED
      BY <2>1, <2>2
  <1>5. /\ ready' = Tail(rd2)
        /\ status' = [st2 EXCEPT ![Head(rd2)] = "RUNNING"]
        /\ cur' = Head(rd2)
    BY DEF Schedule
  <1>6. /\ ticks' \in [Threads -> 0..255]
        /\ \A t \in Threads : ticks'[t] <= Priority[t]
    <2>1. ticks' = IF Expired(st) THEN [ticks EXCEPT ![cur] = Priority[cur]]
                                  ELSE ticks
      BY DEF Schedule
    <2>2. Priority \in [Threads -> 0..255]
      BY DEF SchedAssumption
    <2>3. ticks \in [Threads -> 0..255] /\ \A t \in Threads : ticks[t] <= Priority[t]
      BY DEF SchedTypeOK
    <2>4. \A t \in Threads : Priority[t] \in 0..255 /\ Priority[t] <= Priority[t]
      BY <2>2
    <2>5. QED
      BY <1>0, <2>1, <2>3, <2>4
  <1> HIDE DEF rd1, st1, rd2, st2
  <1>7. /\ Head(rd2) \in Threads /\ Tail(rd2) \in Seq(Threads)
        /\ IsInjective(Tail(rd2))
        /\ \A y : elem_find(Tail(rd2), y) <=> elem_find(rd2, y) /\ y # Head(rd2)
    BY <1>4, PopFacts
  <1>8. status' \in [Threads -> Status] /\ status'[Idle] \in {"RUNNING", "READY", "BLOCKED"}
    BY <1>0, <1>4, <1>5, <1>7 DEF Status
  <1>9. ReadyListExact'
    BY <1>4, <1>5, <1>7 DEF ReadyListExact
  <1>10. QED
    BY <1>3, <1>5, <1>6, <1>7, <1>8, <1>9 DEF ListsOK

\* schedule() moves threads between READY and RUNNING only; no other state,
\* save the idle thread's, changes.
SameKind(a, b) == a = b \/ (a \in {"READY", "RUNNING"} /\ b \in {"READY", "RUNNING"})

LEMMA ScheduleKeeps ==
  ASSUME SchedAssumption, SchedTypeOK,
         NEW st, NEW rd, Agree(st, rd), Schedule(st, rd)
  PROVE  \A t \in Threads \ {Idle} : SameKind(st[t], status'[t])
  <1> DEFINE rd1 == Requeued(st, rd)
             st1 == IF Expired(st) THEN [st EXCEPT ![cur] = "READY"] ELSE st
             rd2 == IF rd1 = << >> THEN UnblockReady(rd1, Idle) ELSE rd1
             st2 == IF rd1 = << >> THEN UnblockStatus(st1, Idle) ELSE st1
  <1>0. cur \in Threads /\ Idle \in Threads
    BY DEF SchedTypeOK, SchedAssumption
  <1>1. /\ st1 \in [Threads -> Status] /\ rd1 \in Seq(Threads)
        /\ \A t \in Threads : elem_find(rd1, t) => st1[t] = "READY"
        /\ \A t \in Threads : SameKind(st[t], st1[t])
    BY <1>0, AppendFacts DEF Agree, Expired, Requeued, Status, SameKind
  <1>2. CASE rd1 = << >>
    <2>1. rd2 = list_push(rd1, Idle) /\ st2 = [st1 EXCEPT ![Idle] = "READY"]
      BY <1>2 DEF UnblockReady, UnblockStatus
    <2>2. status' = [st2 EXCEPT ![Head(rd2)] = "RUNNING"]
      BY DEF Schedule
    <2> HIDE DEF rd1, st1, rd2, st2
    <2>3. Head(rd2) = Idle
      BY ZenonT(40), <1>0, <1>1, <2>1, PushFacts
    <2>4. QED
      BY <1>0, <1>1, <2>1, <2>2, <2>3
  <1>3. CASE rd1 # << >>
    <2>1. status' = [st1 EXCEPT ![Head(rd1)] = "RUNNING"]
      BY <1>3 DEF Schedule
    <2> HIDE DEF rd1, st1
    <2>2. Head(rd1) \in Threads /\ elem_find(rd1, Head(rd1))
      BY <1>1, <1>3, PopFacts
    <2>3. st1[Head(rd1)] = "READY"
      BY <1>1, <2>2
    <2>4. QED
      BY <1>1, <2>1, <2>2, <2>3 DEF SameKind
  <1>4. QED
    BY <1>2, <1>3

\* thread_block, for any of the states it is called with.
LEMMA BlockFacts ==
  ASSUME SchedAssumption, SchedInv, NEW stat \in Blocked, cur = Idle => stat = "BLOCKED",
         ThreadBlock(stat)
  PROVE  panic' = FALSE /\ ListsOK'
  <1> DEFINE st == [status EXCEPT ![cur] = stat]
  <1>1. Agree(st, ready)
    BY DEF SchedInv, SchedTypeOK, ReadyListExact, Agree, Status, Blocked
  <1>2. Schedule(st, ready) /\ panic' = ~ScheduleAsserts(st, ready)
    BY DEF ThreadBlock
  <1>3. SchedTypeOK
    BY DEF SchedInv
  <1> HIDE DEF st
  <1>4. ScheduleAsserts(st, ready)
    BY <1>1, <1>2, <1>3, ScheduleFacts
  <1>5. panic' = FALSE
    BY <1>2, <1>4, Zenon
  <1>6. QED
    BY <1>1, <1>2, <1>3, <1>5, ScheduleFacts

\* thread_unblock of a blocked thread.
LEMMA UnblockFacts ==
  ASSUME SchedAssumption, SchedInv,
         NEW t \in Threads, status[t] \in Blocked,
         ready' = UnblockReady(ready, t), status' = UnblockStatus(status, t),
         UNCHANGED <<ticks, cur>>
  PROVE  UnblockAsserts(status, ready, t) /\ ListsOK'
  <1>1. ready \in Seq(Threads) /\ IsInjective(ready) /\ ~elem_find(ready, t)
    BY DEF SchedInv, SchedTypeOK, ReadyListExact, Blocked
  <1>2. /\ ready' \in Seq(Threads)
        /\ IsInjective(ready')
        /\ \A u \in Threads : elem_find(ready', u) <=> u = t \/ elem_find(ready, u)
    BY <1>1, PushFacts DEF UnblockReady
  <1>3. status' = [status EXCEPT ![t] = "READY"] /\ status \in [Threads -> Status]
    BY DEF UnblockStatus, SchedInv, SchedTypeOK
  <1>4. QED
    BY <1>1, <1>2, <1>3
       DEF SchedInv, SchedTypeOK, ListsOK, ReadyListExact, UnblockAsserts,
           Blocked, Status, SchedAssumption

\* A switch of threads by the timer, idle() or thread_yield changes no other
\* state than the idle thread's.
LEMMA SwitchEffect ==
  ASSUME SchedAssumption, SchedInv,
         \/ intr_timer_handler
         \/ IdleBlock
         \/ IdleHalt
         \/ \E t \in Threads : Yield(t)
  PROVE  \A t \in Threads \ {Idle} : SameKind(status[t], status'[t])
  <1>0. /\ SchedTypeOK /\ ReadyListExact /\ cur \in Threads
        /\ Idle \in Threads /\ status \in [Threads -> Status]
        /\ status[Idle] \in {"RUNNING", "READY", "BLOCKED"}
    BY DEF SchedInv, SchedTypeOK, SchedAssumption
  <1>a. ASSUME NEW st, NEW rd, Agree(st, rd), Schedule(st, rd),
               \A t \in Threads \ {Idle} : SameKind(status[t], st[t])
        PROVE  \A t \in Threads \ {Idle} : SameKind(status[t], status'[t])
    <2>1. \A t \in Threads \ {Idle} : SameKind(st[t], status'[t])
      BY <1>0, <1>a, ScheduleKeeps
    <2>2. QED
      BY <1>a, <2>1 DEF SameKind
  <1>1. CASE intr_timer_handler
    <2>1. CASE SliceOver
      <3>1. Agree(status, ready) /\ Schedule(status, ready)
        BY <1>0, <1>1, <2>1
           DEF Agree, SchedTypeOK, ReadyListExact, intr_timer_handler
      <3>2. QED
        BY <1>a, <3>1 DEF SameKind
    <2>2. CASE ~SliceOver
      BY <1>1, <2>2 DEF intr_timer_handler, SameKind
    <2>3. QED
      BY <2>1, <2>2
  <1>2. CASE IdleBlock
    <2> DEFINE st == [status EXCEPT ![cur] = "BLOCKED"]
    <2>1. Schedule(st, ready) /\ cur = Idle
      BY <1>2 DEF IdleBlock, ThreadBlock
    <2>2. Agree(st, ready)
      BY <1>0, <2>1 DEF Agree, SchedTypeOK, ReadyListExact, Status
    <2>3. \A t \in Threads \ {Idle} : SameKind(status[t], st[t])
      BY <1>0, <2>1 DEF SameKind
    <2> HIDE DEF st
    <2>4. QED
      BY <1>a, <2>1, <2>2, <2>3
  <1>3. CASE IdleHalt
    BY <1>3 DEF IdleHalt, SameKind
  <1>4. CASE \E t \in Threads : Yield(t)
    <2> DEFINE st == [status EXCEPT ![cur] = "READY"]
               rd == list_append(ready, cur)
    <2>1. Schedule(st, rd)
      BY <1>4 DEF Yield, ThreadYield
    <2>2. status[cur] = "RUNNING" /\ ~elem_find(ready, cur)
      BY <1>0 DEF ReadyListExact
    <2>3. /\ rd \in Seq(Threads) /\ IsInjective(rd)
          /\ \A y : elem_find(rd, y) <=> y = cur \/ elem_find(ready, y)
      BY <1>0, <2>2, AppendFacts DEF SchedTypeOK, ReadyListExact
    <2>4. Agree(st, rd)
      BY <1>0, <2>2, <2>3 DEF Agree, ReadyListExact, Status
    <2>5. \A t \in Threads \ {Idle} : SameKind(status[t], st[t])
      BY <1>0, <2>2 DEF SameKind
    <2> HIDE DEF st, rd
    <2>6. QED
      BY <1>a, <2>1, <2>4, <2>5
  <1>5. QED
    BY <1>1, <1>2, <1>3, <1>4

\* thread_block gives the caller its new state; the others but idle keep theirs.
LEMMA BlockEffect ==
  ASSUME SchedAssumption, SchedInv, NEW stat \in Blocked, cur # Idle,
         Schedule([status EXCEPT ![cur] = stat], ready)
  PROVE  /\ status'[cur] = stat
         /\ \A t \in Threads \ {Idle, cur} : SameKind(status[t], status'[t])
  <1> DEFINE st == [status EXCEPT ![cur] = stat]
  <1>0. /\ SchedTypeOK /\ ReadyListExact /\ cur \in Threads /\ Idle \in Threads
        /\ status \in [Threads -> Status]
    BY DEF SchedInv, SchedTypeOK, SchedAssumption
  <1>1. Agree(st, ready)
    BY <1>0 DEF SchedInv, SchedTypeOK, ReadyListExact, Agree, Status, Blocked
  <1>2. st[cur] = stat /\ \A t \in Threads \ {cur} : st[t] = status[t]
    BY <1>0
  <1>3. Schedule(st, ready)
    OBVIOUS
  <1> HIDE DEF st
  <1>4. \A t \in Threads \ {Idle} : SameKind(st[t], status'[t])
    BY <1>0, <1>1, <1>3, ScheduleKeeps
  <1>5. QED
    BY <1>0, <1>2, <1>4 DEF SameKind, Blocked

\* thread_exit(main, true): main is DIED, the others but idle keep their state.
LEMMA MainExitEffect ==
  ASSUME SchedAssumption, SchedInv, MainExit
  PROVE  /\ cur = Main /\ status'[Main] = "DIED"
         /\ \A t \in Threads \ {Idle, Main} : SameKind(status[t], status'[t])
  <1> DEFINE st == [status EXCEPT ![Main] = "DIED"]
  <1>0. /\ SchedTypeOK /\ ReadyListExact /\ cur \in Threads /\ Idle \in Threads
        /\ Main \in Threads /\ Main # Idle
        /\ status \in [Threads -> Status]
        /\ status[Idle] \in {"RUNNING", "READY", "BLOCKED"}
    BY DEF SchedInv, SchedTypeOK, SchedAssumption
  <1>1. cur = Main /\ status[Main] = "RUNNING" /\ ~elem_find(ready, Main)
    BY <1>0 DEF MainExit, Running, ReadyListExact
  <1>2. Schedule(st, ready)
    BY <1>1 DEF MainExit, ExitReady, ExitStatus
  <1>3. Agree(st, ready)
    BY <1>0, <1>1 DEF Agree, SchedTypeOK, ReadyListExact, Status
  <1>4. st[Main] = "DIED" /\ \A t \in Threads \ {Main} : st[t] = status[t]
    BY <1>0
  <1> HIDE DEF st
  <1>5. \A t \in Threads \ {Idle} : SameKind(st[t], status'[t])
    BY <1>0, <1>2, <1>3, ScheduleKeeps
  <1>6. QED
    BY <1>0, <1>1, <1>4, <1>5 DEF SameKind

\* Every step of the scheduler, whatever its clients do, keeps the invariant.
LEMMA SchedInvStep ==
  ASSUME SchedAssumption, SchedInv, [SchedNext]_schedVars
  PROVE  SchedInv'
  <1>0. /\ SchedTypeOK /\ ReadyListExact /\ ~panic /\ status[Idle] \in {"RUNNING", "READY", "BLOCKED"}
        /\ cur \in Threads /\ Main \in Threads /\ Idle \in Threads
    BY DEF SchedInv, NoPanic, SchedTypeOK, SchedAssumption
  <1>1. CASE intr_timer_handler
    <2>1. idlePc' \in {"block", "sti", "hlt"} /\ iflag' \in [Threads -> BOOLEAN]
      BY <1>0, <1>1 DEF intr_timer_handler, SchedTypeOK
    <2>2. CASE SliceOver
      <3>1. Schedule(status, ready) /\ panic' = ~ScheduleAsserts(status, ready)
        BY <1>1, <2>2 DEF intr_timer_handler
      <3>2. Agree(status, ready)
        BY <1>0 DEF Agree, SchedTypeOK, ReadyListExact
      <3>3. ScheduleAsserts(status, ready)
        BY <1>0, <3>1, <3>2, ScheduleFacts
      <3>4. QED
        BY SMTT(30), <1>0, <2>1, <3>1, <3>2, <3>3, ScheduleFacts
           DEF SchedInv, SchedTypeOK, NoPanic, ListsOK
    <2>3. CASE ~SliceOver
      <3>1. /\ ticks' = [ticks EXCEPT ![cur] = (ticks[cur] - 1) % 256]
            /\ UNCHANGED <<status, ready, cur, panic>>
        BY <1>1, <2>3 DEF intr_timer_handler
      <3>2. ticks[cur] \in 1..255 /\ ticks[cur] <= Priority[cur]
        BY <1>0, <2>3 DEF SliceOver, SchedTypeOK
      <3>3. (ticks[cur] - 1) % 256 = ticks[cur] - 1
        BY <3>2
      <3>a. ticks[cur] - 1 \in 0..255 /\ ticks[cur] - 1 <= Priority[cur]
        <4>1. Priority[cur] \in 0..255
          BY <1>0 DEF SchedAssumption
        <4>2. \A m \in 1..255, n \in 0..255 : m <= n => m - 1 \in 0..255 /\ m - 1 <= n
          OBVIOUS
        <4>3. QED
          BY <3>2, <4>1, <4>2
      <3>b. ticks' = [ticks EXCEPT ![cur] = ticks[cur] - 1]
        BY <3>1, <3>3
      <3>4. /\ ticks' \in [Threads -> 0..255]
            /\ \A t \in Threads : ticks'[t] <= Priority[t]
        BY <1>0, <3>a, <3>b DEF SchedTypeOK
      <3>5. QED
        BY <1>0, <2>1, <3>1, <3>4 DEF SchedInv, SchedTypeOK, NoPanic, ReadyListExact
    <2>4. QED
      BY <2>2, <2>3
  <1>2. CASE IdleBlock
    <2>1. ThreadBlock("BLOCKED") /\ idlePc' = "sti" /\ iflag' = iflag
      BY <1>2 DEF IdleBlock
    <2>2. "BLOCKED" \in Blocked
      BY DEF Blocked
    <2>3. QED
      BY <1>0, <2>1, <2>2, BlockFacts DEF SchedInv, SchedTypeOK, NoPanic, ListsOK
  <1>3. CASE IdleHalt
    BY <1>0, <1>3 DEF IdleHalt, SchedInv, SchedTypeOK, NoPanic, ReadyListExact
  <1>4. CASE MainExit
    <2> DEFINE st == ExitStatus(Main)
    <2>1. cur = Main /\ status[Main] = "RUNNING" /\ ~elem_find(ready, Main)
      BY <1>0, <1>4 DEF MainExit, Running, ReadyListExact
    <2>2. ExitReady(Main) = ready
      BY <2>1 DEF ExitReady
    <2>3. Agree(st, ready)
      BY <1>0, <2>1
         DEF ExitStatus, Agree, SchedTypeOK, ReadyListExact, Status, SchedAssumption
    <2>4. /\ Schedule(st, ready) /\ panic' = ~ScheduleAsserts(st, ready)
          /\ iflag' \in [Threads -> BOOLEAN] /\ idlePc' = idlePc
      BY <1>0, <1>4, <2>2 DEF MainExit, SchedTypeOK
    <2> HIDE DEF st
    <2>5. ScheduleAsserts(st, ready)
      BY <1>0, <2>3, <2>4, ScheduleFacts
    <2>6. panic' = FALSE
      BY <2>4, <2>5, Zenon
    <2>7. ListsOK'
      BY <1>0, <2>3, <2>4, ScheduleFacts
    <2>8. QED
      BY <1>0, <2>4, <2>6, <2>7 DEF SchedInv, SchedTypeOK, NoPanic, ListsOK
  <1>5. ASSUME NEW t \in Threads, IntrDisable(t) \/ IntrEnable(t)
        PROVE  SchedInv'
    <2>1. /\ UNCHANGED <<status, ready, ticks, cur, idlePc, panic>>
          /\ \E i \in BOOLEAN : iflag' = [iflag EXCEPT ![t] = i]
      BY <1>5 DEF IntrDisable, IntrEnable
    <2>2. iflag' \in [Threads -> BOOLEAN]
      BY <1>0, <2>1 DEF SchedTypeOK
    <2>3. QED
      BY <1>0, <2>1, <2>2 DEF SchedInv, SchedTypeOK, NoPanic, ReadyListExact
  <1>6. ASSUME NEW t \in Threads, NEW stat \in Blocked, Block(t, stat)
        PROVE  SchedInv'
    <2>1. ThreadBlock(stat) /\ idlePc' = idlePc /\ cur # Idle
      BY <1>6 DEF Block, Running
    <2>2. iflag' \in [Threads -> BOOLEAN]
      BY <1>0, <1>6 DEF Block, SchedTypeOK
    <2>3. QED
      BY <1>0, <2>1, <2>2, BlockFacts DEF SchedInv, SchedTypeOK, NoPanic, ListsOK
  <1>7. ASSUME NEW t \in Threads, Yield(t)
        PROVE  SchedInv'
    <2> DEFINE st == [status EXCEPT ![cur] = "READY"]
               rd == list_append(ready, cur)
    <2>1. status[cur] = "RUNNING" /\ ~elem_find(ready, cur)
      BY <1>0 DEF ReadyListExact
    <2>2. /\ rd \in Seq(Threads) /\ IsInjective(rd)
          /\ \A y : elem_find(rd, y) <=> y = cur \/ elem_find(ready, y)
      BY <1>0, <2>1, AppendFacts DEF SchedTypeOK, ReadyListExact
    <2>3. Agree(st, rd)
      BY <1>0, <2>1, <2>2 DEF Agree, SchedTypeOK, ReadyListExact, Status
    <2>4. /\ Schedule(st, rd)
          /\ panic' = (elem_find(ready, cur) \/ ~ScheduleAsserts(st, rd))
          /\ UNCHANGED <<iflag, idlePc>>
      BY <1>7 DEF Yield, ThreadYield
    <2> HIDE DEF st, rd
    <2>5. ScheduleAsserts(st, rd)
      BY <1>0, <2>3, <2>4, ScheduleFacts
    <2>6. QED
      BY SMTT(30), <1>0, <2>1, <2>3, <2>4, <2>5, ScheduleFacts
         DEF SchedInv, SchedTypeOK, NoPanic, ListsOK
  <1>8. ASSUME NEW t \in Threads, Unblock(t)
        PROVE  SchedInv'
    <2>1. /\ status[t] \in Blocked
          /\ ready' = UnblockReady(ready, t) /\ status' = UnblockStatus(status, t)
          /\ panic' = ~UnblockAsserts(status, ready, t)
          /\ UNCHANGED <<ticks, cur, iflag>>
          /\ idlePc' \in {"block", "sti", "hlt"}
      BY <1>0, <1>8 DEF Unblock, ThreadUnblock, Blocked, SchedTypeOK
    <2>2. QED
      BY <1>0, <2>1, UnblockFacts DEF SchedInv, SchedTypeOK, NoPanic, ListsOK
  <1>9. ASSUME NEW t \in Threads, Start(t)
        PROVE  SchedInv'
    <2>1. status[t] = "DIED" /\ ~elem_find(ready, t) /\ t # cur
      BY <1>0, <1>9 DEF Start, ReadyListExact
    <2>2. /\ ready' = list_append(ready, t) /\ panic' = FALSE
          /\ status' = [status EXCEPT ![t] = "READY"]
          /\ ticks' = [ticks EXCEPT ![t] = Priority[t]]
          /\ iflag' = [iflag EXCEPT ![t] = TRUE]
          /\ UNCHANGED <<cur, idlePc>>
      BY <1>9, <2>1 DEF Start, ThreadStart
    <2>3. /\ ready' \in Seq(Threads) /\ IsInjective(ready')
          /\ \A y : elem_find(ready', y) <=> y = t \/ elem_find(ready, y)
      BY <1>0, <2>1, <2>2, AppendFacts DEF SchedTypeOK, ReadyListExact
    <2>4. ReadyListExact'
      BY <1>0, <2>1, <2>2, <2>3 DEF ReadyListExact, SchedTypeOK
    <2>5. /\ ticks' \in [Threads -> 0..255]
          /\ \A u \in Threads : ticks'[u] <= Priority[u]
      <3>1. \A u \in Threads : Priority[u] \in 0..255 /\ Priority[u] <= Priority[u]
        BY DEF SchedAssumption
      <3>2. QED
        BY <1>0, <2>2, <3>1 DEF SchedTypeOK
    <2>6. QED
      BY <1>0, <2>2, <2>3, <2>4, <2>5 DEF SchedInv, SchedTypeOK, NoPanic, Status
  <1>10. ASSUME NEW t \in Threads, Reap(t)
         PROVE  SchedInv'
    <2>1. status[t] = "HANGING" /\ ~elem_find(ready, t) /\ t # cur
      BY <1>0, <1>10 DEF Reap, ReadyListExact
    <2>2. /\ ready' = ready /\ status' = [status EXCEPT ![t] = "DIED"]
          /\ iflag' = [iflag EXCEPT ![cur] = FALSE]
          /\ UNCHANGED <<ticks, cur, idlePc, panic>>
      BY <1>10, <2>1 DEF Reap, ExitReady, ExitStatus
    <2>3. QED
      BY <1>0, <2>1, <2>2
         DEF SchedInv, SchedTypeOK, NoPanic, ReadyListExact, Status
  <1>11. CASE UNCHANGED schedVars
    BY <1>0, <1>11 DEF schedVars, SchedInv, SchedTypeOK, NoPanic, ReadyListExact
  <1>12. QED
    BY <1>1, <1>2, <1>3, <1>4, <1>5, <1>6, <1>7, <1>8, <1>9, <1>10, <1>11
       DEF SchedNext

\* The state thread_init leaves: init and idle in the list, main running.
LEMMA SchedInitial ==
  ASSUME SchedAssumption, SchedInit
  PROVE  SchedInv
  <1>a. /\ Threads # {} /\ Main \in Threads /\ Idle \in Threads
        /\ InitThread \in Threads
        /\ Main # Idle /\ Main # InitThread /\ InitThread # Idle
        /\ Priority \in [Threads -> 0..255]
    BY DEF SchedAssumption
  <1>1. SchedTypeOK
    <2>1. \A t \in Threads : Priority[t] \in 0..255 /\ Priority[t] <= Priority[t]
      BY <1>a
    <2>2. status \in [Threads -> Status]
      BY <1>a DEF SchedInit, Status
    <2>3. ready \in Seq(Threads)
      BY <1>a DEF SchedInit
    <2>4. QED
      BY <1>a, <2>1, <2>2, <2>3 DEF SchedInit, SchedTypeOK
  <1>2. /\ ready \in Seq(Threads) /\ Len(ready) = 2
        /\ ready[1] = InitThread /\ ready[2] = Idle
    BY <1>a DEF SchedInit
  <1>3. IsInjective(ready)
    BY <1>a, <1>2, FindFacts
  <1>4. \A t \in Threads : elem_find(ready, t) <=> t = InitThread \/ t = Idle
    <2>1. \A t : elem_find(ready, t) <=> \E i \in 1..2 : ready[i] = t
      BY <1>2, FindFacts
    <2>2. 1..2 = {1, 2}
      OBVIOUS
    <2>3. QED
      BY <1>2, <2>1, <2>2
  <1>5. ReadyListExact
    BY <1>a, <1>3, <1>4 DEF ReadyListExact, SchedInit
  <1>6. QED
    BY <1>a, <1>1, <1>5 DEF SchedInv, SchedInit, NoPanic

\* Whatever the clients of the scheduler do within the contracts of its calls
\* (thread.c:128-209, 281-301, timer.c:35-45), the invariant always holds.
THEOREM SchedInvariant == SchedSpec => []SchedInv
  <1>1. SchedInit => SchedInv
    BY SchedInitial, SchedAssumption
  <1>2. SchedInv /\ [SchedNext]_schedVars => SchedInv'
    BY SchedInvStep, SchedAssumption
  <1>3. QED
    BY <1>1, <1>2, PTL DEF SchedSpec

\* The ready list and the thread states always agree.
THEOREM ReadyListAlwaysExact == SchedSpec => []ReadyListExact
  <1>1. SchedInv => ReadyListExact
    BY DEF SchedInv
  <1>2. QED
    BY <1>1, SchedInvariant, PTL

\* No ASSERT of thread.c ever fires.
THEOREM SchedNeverPanics == SchedSpec => []NoPanic
  <1>1. SchedInv => NoPanic
    BY DEF SchedInv
  <1>2. QED
    BY <1>1, SchedInvariant, PTL
=============================================================================
