--------------------------- MODULE ProcessProofs ---------------------------
(***************************************************************************)
(* For every set of threads, every size of the pid pool and every choice   *)
(* of the threads that sleep: pids are unique, a thread's parent is alive, *)
(* a process that sleeps in sys_wait has a child and none that hangs       *)
(* already, no ASSERT fires, and fork, wait and exit use the scheduler as  *)
(* its contracts allow.                                                    *)
(***************************************************************************)
EXTENDS Process, SchedProofs, FiniteSetTheorems

Calls == {"free", "boot", "user", "other", "fork", "copy", "embryo",
          "wait", "exit", "release", "hang"}

\* The places inside a system call, where interrupts are disabled.
InCall == {"other", "fork", "copy", "wait", "exit", "release", "hang"}

-----------------------------------------------------------------------------
(* The inductive invariant.                                                *)

ProcTypes ==
  /\ all \in Seq(Threads) /\ IsInjective(all)
  /\ pid \in [Threads -> 0..MaxPid]
  /\ parent \in [Threads -> 0..MaxPid]
  /\ used \in SUBSET Pids
  /\ call \in [Threads -> Calls]

\* What the place of t says of its task_struct.
PlaceOK(t) ==
  /\ elem_find(all, t) <=> call[t] \notin {"free", "embryo"}
  /\ pid[t] = NoPid <=> call[t] = "free"
  /\ parent[t] = NoPid <=> t \in {InitThread, Main, Idle} \/ call[t] = "free"
  /\ status[t] = "DIED" <=> call[t] \in {"free", "embryo"}
  /\ status[t] = "HANGING" => call[t] = "hang"
  /\ status[t] = "WAITING" => call[t] = "wait"
  /\ call[t] = "hang" => status[t] \in {"RUNNING", "HANGING"}
  /\ call[t] \in InCall => ~iflag[t]

\* main never forks, idle is never freed and init never exits.
RootsOK ==
  /\ call[Main] \in {"user", "free"}
  /\ call[Idle] = "user"
  /\ call[InitThread] \in {"boot", "user", "other", "fork", "copy", "wait"}
  /\ pid[InitThread] = InitPid

Places == RootsOK /\ \A t \in Threads : PlaceOK(t)

\* ParentAlive, with the place of the parent instead of its state.
Parents ==
  \A t \in Threads : parent[t] # NoPid =>
    \E p \in Threads \ {Main} : /\ elem_find(all, p) /\ pid[p] = parent[t]
                                /\ call[p] \notin {"release", "hang"}

\* A task_struct that nobody sees yet belongs to one fork, and a fork has one.
Embryos ==
  \A x \in Threads : call[x] = "embryo" =>
    /\ \E t \in Threads : call[t] = "copy" /\ pid[t] = parent[x]
    /\ \A y \in Threads : call[y] = "embryo" /\ parent[y] = parent[x] => y = x

\* WaiterHasNoZombie; and between its thread_unblock and its thread_block in
\* sys_exit a thread has no parent that waits.
Waiters ==
  /\ \A p \in Threads : status[p] = "WAITING" =>
       /\ \E c \in Threads : elem_find(all, c) /\ parent[c] = pid[p]
       /\ p # InitThread =>
            \A c \in Threads : elem_find(all, c) /\ parent[c] = pid[p] =>
                                 status[c] # "HANGING"
  /\ \A t, p \in Threads : call[t] = "hang" /\ status[t] = "RUNNING" /\ pid[p] = parent[t] =>
                             status[p] # "WAITING"

\* Every fork that has begun will find a pid.
Forking == {t \in Threads : call[t] = "fork"}
PidRoom == Cardinality(Forking) <= Cardinality(Pids \ used)

CoreInv ==
  /\ ProcTypes
  /\ Places
  /\ PidsUnique
  /\ Parents
  /\ Embryos
  /\ Waiters
  /\ PidRoom

ProcInv == SchedInv /\ CoreInv

\* The facts every step starts from.
LEMMA Basics ==
  ASSUME SchedAssumption, ProcessAssumption, SchedInv
  PROVE  /\ Main \in Threads /\ Idle \in Threads /\ InitThread \in Threads
         /\ Main # Idle /\ Main # InitThread /\ InitThread # Idle
         /\ cur \in Threads /\ status \in [Threads -> Status]
         /\ iflag \in [Threads -> BOOLEAN]
         /\ \A t \in Threads : status[t] = "RUNNING" <=> t = cur
         /\ status[Idle] \in {"RUNNING", "READY", "BLOCKED"}
         /\ ~panic
         /\ NoPid = 0 /\ InitPid = 1 /\ Pids = 1..MaxPid /\ MaxPid \in Nat /\ MaxPid >= 3
  BY DEF SchedInv, SchedTypeOK, ReadyListExact, NoPanic, SchedAssumption,
         ProcessAssumption, NoPid, InitPid, Pids

-----------------------------------------------------------------------------
(* The pid pool.                                                           *)

\* A set of pids is finite.
LEMMA FinitePids ==
  ASSUME ProcessAssumption, NEW S \in SUBSET Pids
  PROVE  IsFiniteSet(S)
  <1>1. IsFiniteSet(1..MaxPid)
    BY FS_Interval DEF ProcessAssumption
  <1>2. QED
    BY <1>1, FS_Subset DEF Pids

\* allocate_pid finds a free pid, since a fork begins only if there is one.
LEMMA PidFound ==
  ASSUME ProcessAssumption, ProcTypes, PidRoom,
         NEW t \in Threads, call[t] = "fork"
  PROVE  FreePid \in Pids \ used
  <1>1. IsFiniteSet(Forking) /\ Forking # {}
    BY FS_Subset DEF Forking, ProcessAssumption
  <1>2. Cardinality(Forking) \in Nat /\ Cardinality(Forking) # 0
    BY <1>1, FS_CardinalityType, FS_EmptySet
  <1>3. IsFiniteSet(Pids \ used)
    BY FinitePids
  <1>4. Pids \ used # {}
    BY <1>2, <1>3, FS_CardinalityType, FS_EmptySet DEF PidRoom
  <1>5. \E p \in Pids \ used : \A q \in Pids \ used : p <= q
    <2>1. Pids \ used \in SUBSET Nat
      BY DEF Pids
    <2>2. QED
      BY <1>4, <2>1, LeastNat
  <1>6. QED
    BY <1>5 DEF FreePid

\* The room for pids when neither the forks nor the pool get worse.
LEMMA RoomKept ==
  ASSUME ProcessAssumption, PidRoom, Forking' \subseteq Forking, used' \subseteq used
  PROVE  PidRoom'
  <1>1. IsFiniteSet(Forking)
    BY FS_Subset DEF Forking, ProcessAssumption
  <1>2. Forking' \in SUBSET Forking
    OBVIOUS
  <1>3. IsFiniteSet(Pids \ used') /\ Pids \ used \in SUBSET (Pids \ used')
    BY FinitePids
  <1>4. /\ Cardinality(Forking') <= Cardinality(Forking)
        /\ Cardinality(Forking) \in Nat /\ Cardinality(Forking') \in Nat
    BY <1>1, <1>2, FS_Subset, FS_CardinalityType
  <1>5. /\ Cardinality(Pids \ used) <= Cardinality(Pids \ used')
        /\ Cardinality(Pids \ used) \in Nat /\ Cardinality(Pids \ used') \in Nat
    BY <1>3, FS_Subset, FS_CardinalityType
  <1>6. Pids' = Pids
    BY DEF Pids
  <1>7. QED
    BY <1>4, <1>5, <1>6 DEF PidRoom

-----------------------------------------------------------------------------
(* Every step is a step of the scheduler.                                  *)

\* pid2thread of a thread's parent finds it.
LEMMA ParentFound ==
  ASSUME SchedAssumption, ProcessAssumption, ProcInv,
         NEW t \in Threads, parent[t] # NoPid
  PROVE  /\ pid_check(parent[t]) # {}
         /\ pid2thread(parent[t]) \in Threads
         /\ pid[pid2thread(parent[t])] = parent[t]
         /\ \A p \in Threads : pid[p] = parent[t] => p = pid2thread(parent[t])
  <1>1. PICK p \in Threads : elem_find(all, p) /\ pid[p] = parent[t]
    BY DEF ProcInv, CoreInv, Parents
  <1>2. p \in pid_check(parent[t])
    BY <1>1 DEF pid_check, elem_find
  <1>3. all \in Seq(Threads)
    BY DEF ProcInv, CoreInv, ProcTypes
  <1>4. pid2thread(parent[t]) \in pid_check(parent[t])
    BY <1>1, <1>2, <1>3, TraversalFacts DEF pid2thread
  <1>5. Range(all) \subseteq Threads
    BY <1>3, LenProperties, ElementOfSeq DEF Range
  <1>6. pid2thread(parent[t]) \in Threads /\ pid[pid2thread(parent[t])] = parent[t]
    BY <1>4, <1>5 DEF pid_check
  <1>7. QED
    BY <1>2, <1>6 DEF ProcInv, CoreInv, PidsUnique

\* sys_wait's list_traversal(find_hanging_child) finds a hanging child.
LEMMA ChildFound ==
  ASSUME SchedAssumption, ProcessAssumption, ProcInv,
         NEW t \in Threads, find_hanging_child(t) # {},
         NEW c, c = list_traversal(all, find_hanging_child(t))
  PROVE  /\ c \in Threads /\ elem_find(all, c)
         /\ parent[c] = pid[t] /\ status[c] = "HANGING"
  <1>1. PICK x \in find_hanging_child(t) : elem_find(all, x)
    BY DEF find_hanging_child, elem_find
  <1>2. all \in Seq(Threads)
    BY DEF ProcInv, CoreInv, ProcTypes
  <1>3. c \in find_hanging_child(t) /\ elem_find(all, c)
    BY <1>1, <1>2, TraversalFacts
  <1>4. Range(all) \subseteq Threads
    BY <1>2, LenProperties, ElementOfSeq DEF Range
  <1>5. QED
    BY <1>3, <1>4 DEF find_hanging_child

\* exit_adopt never finds a thread without a parent.
LEMMA ExitHasParent ==
  ASSUME SchedAssumption, ProcessAssumption, ProcInv,
         NEW t \in Threads, call[t] \in {"exit", "release", "hang"}
  PROVE  parent[t] # NoPid /\ t \notin {InitThread, Main, Idle}
  <1>1. PlaceOK(t) /\ RootsOK
    BY DEF ProcInv, CoreInv, Places
  <1>2. QED
    BY <1>1 DEF PlaceOK, RootsOK

\* The step of exit_wake: the parent is unblocked if it waits.
LEMMA WakeEffect ==
  ASSUME SchedAssumption, ProcessAssumption, ProcInv,
         NEW t \in Threads, exit_wake(t)
  PROVE  LET p == pid2thread(parent[t])
         IN \/ status[p] = "WAITING" /\ Unblock(p)
            \/ status[p] # "WAITING" /\ UNCHANGED schedVars
  <1>1. call[t] = "release" /\ cur = t /\ t # Idle /\ ~panic
    BY DEF exit_wake, At, Running
  <1>2. parent[t] # NoPid
    BY <1>1, ExitHasParent
  <1>3. pid_check(parent[t]) # {} /\ pid2thread(parent[t]) \in Threads
    BY <1>2, ParentFound
  <1>4. status[Idle] # "WAITING"
    BY Basics DEF ProcInv
  <1>5. QED
    BY <1>1, <1>3, <1>4
       DEF exit_wake, ParentWaits, Unblock, schedVars

LEMMA StepUsesScheduler ==
  ASSUME SchedAssumption, ProcessAssumption, ProcInv, [Next]_vars
  PROVE  [SchedNext]_schedVars
  <1>1. CASE Timer \/ IdleStep \/ MainLeaves
    BY <1>1 DEF Timer, IdleStep, MainLeaves, SchedNext
  <1>2. ASSUME NEW t \in Threads, NEW c \in {"other", "fork", "wait", "exit"}, Enter(t, c)
        PROVE  SchedNext
    BY <1>2 DEF Enter, SchedNext
  <1>3. ASSUME NEW t \in Threads, Leave(t)
        PROVE  SchedNext
    BY <1>3 DEF Leave, SchedNext
  <1>4. ASSUME NEW t \in Threads,
               Sleep(t) \/ wait_block(t) \/ exit_hang(t)
        PROVE  SchedNext
    BY <1>4 DEF Sleep, wait_block, exit_hang, Blocked, SchedNext
  <1>5. ASSUME NEW t \in Threads, Wake(t)
        PROVE  SchedNext
    BY <1>5 DEF Wake, SchedNext
  <1>6. ASSUME NEW t \in Threads, NEW c \in Threads, fork_pid(t, c) \/ sys_fork_fails(t, c)
        PROVE  UNCHANGED schedVars
    BY <1>6 DEF fork_pid, sys_fork_fails
  <1>7. ASSUME NEW t \in Threads, NEW c \in Threads, sys_fork(t, c)
        PROVE  SchedNext
    BY <1>7 DEF sys_fork, SchedNext
  <1>8. ASSUME NEW t \in Threads, wait_reap(t)
        PROVE  SchedNext
    <2> DEFINE c == list_traversal(all, find_hanging_child(t))
    <2>1. Reap(c) /\ find_hanging_child(t) # {}
      BY <1>8 DEF wait_reap
    <2>2. c \in Threads
      BY <2>1, ChildFound
    <2> HIDE DEF c
    <2>3. QED
      BY <2>1, <2>2 DEF SchedNext
  <1>9. ASSUME NEW t \in Threads, wait_none(t)
        PROVE  UNCHANGED schedVars
    BY <1>9 DEF wait_none
  <1>10. ASSUME NEW t \in Threads, exit_adopt(t)
         PROVE  UNCHANGED schedVars
    <2>1. parent[t] # NoPid
      BY <1>10, ExitHasParent DEF exit_adopt, At
    <2>2. panic' = (parent[t] = NoPid) /\ panic = FALSE
      BY <1>10, Basics DEF exit_adopt, At, Running, ProcInv, SchedInv, SchedTypeOK
    <2>3. panic' = panic
      BY <2>1, <2>2
    <2>4. QED
      BY <1>10, <2>3 DEF exit_adopt, schedVars
  <1>11. ASSUME NEW t \in Threads, exit_wake(t)
         PROVE  [SchedNext]_schedVars
    <2>1. call[t] = "release"
      BY <1>11 DEF exit_wake, At
    <2>2. pid2thread(parent[t]) \in Threads
      BY <2>1, ExitHasParent, ParentFound
    <2>3. QED
      BY <1>11, <2>2, WakeEffect DEF SchedNext
  <1>12. CASE UNCHANGED vars
    BY <1>12 DEF vars
  <1>13. QED
    BY <1>1, <1>2, <1>3, <1>4, <1>5, <1>6, <1>7, <1>8, <1>9, <1>10, <1>11, <1>12
       DEF Next, KernelStep

-----------------------------------------------------------------------------
(* Steps that only switch threads, and steps of one thread's place.        *)

\* Nothing that fork, wait or exit rely on changes: who is DIED, HANGING or
\* WAITING, and the disabled interrupts of a system call.
Steady(t) ==
  /\ status'[t] = "DIED" <=> status[t] = "DIED"
  /\ status'[t] = "HANGING" <=> status[t] = "HANGING"
  /\ status'[t] = "WAITING" <=> status[t] = "WAITING"
  /\ call[t] = "hang" => status'[t] = status[t]
  /\ call[t] \in InCall => ~iflag'[t]

LEMMA SteadyKeeps ==
  ASSUME SchedAssumption, ProcessAssumption, ProcInv, SchedInv',
         UNCHANGED procVars, \A t \in Threads \ {Idle} : Steady(t)
  PROVE  CoreInv'
  <1>0. /\ UNCHANGED <<all, pid, parent, used, call>>
        /\ CoreInv
    BY DEF procVars, ProcInv
  <1>1. status'[Idle] \in {"RUNNING", "READY", "BLOCKED"} /\ Idle \in Threads /\ RootsOK
    BY Basics DEF SchedInv, SchedAssumption, CoreInv, ProcInv, Places
  <1>2. Places'
    <2>1. ASSUME NEW t \in Threads PROVE PlaceOK(t)'
      BY <1>0, <1>1 DEF CoreInv, Places, PlaceOK, RootsOK, Steady, InCall
    <2>2. QED
      BY <1>0, <2>1 DEF CoreInv, Places, RootsOK
  <1>3. Waiters'
    <2>1. \A t \in Threads : Steady(t) \/ t = Idle
      OBVIOUS
    <2>2. status[Idle] \in {"RUNNING", "READY", "BLOCKED"}
      BY Basics DEF ProcInv
    <2>3. \A t \in Threads : /\ status'[t] = "WAITING" <=> status[t] = "WAITING"
                             /\ status'[t] = "HANGING" <=> status[t] = "HANGING"
                             /\ call[t] = "hang" => status'[t] = status[t]
      BY <1>1, <2>1, <2>2 DEF Steady, RootsOK
    <2>4. QED
      BY <1>0, <2>3 DEF CoreInv, Waiters
  <1>4. PidRoom'
    BY <1>0, RoomKept DEF CoreInv, Forking
  <1>5. ProcTypes' /\ PidsUnique' /\ Parents' /\ Embryos'
    BY <1>0 DEF CoreInv, ProcTypes, PidsUnique, Parents, Embryos
  <1>6. QED
    BY <1>2, <1>3, <1>4, <1>5 DEF CoreInv

\* The timer does not interrupt a system call.
LEMMA SwitchSteady ==
  ASSUME SchedAssumption, ProcessAssumption, ProcInv, Timer \/ IdleStep
  PROVE  UNCHANGED procVars /\ \A t \in Threads \ {Idle} : Steady(t)
  <1>0. UNCHANGED <<procVars, iflag>> /\ (iflag[cur] \/ cur = Idle)
    BY DEF Timer, IdleStep, intr_timer_handler, IdleBlock, IdleHalt
  <1>1. \A t \in Threads \ {Idle} : SameKind(status[t], status'[t])
    BY SwitchEffect DEF ProcInv, Timer, IdleStep
  <1>2. ASSUME NEW t \in Threads \ {Idle} PROVE Steady(t)
    <2>1. PlaceOK(t) /\ (status[t] = "RUNNING" <=> t = cur) /\ status[t] \in Status
      BY Basics DEF ProcInv, CoreInv, Places
    <2>2. QED
      BY <1>0, <1>1, <2>1 DEF Steady, SameKind, PlaceOK, InCall, Status
  <1>3. QED
    BY <1>0, <1>2

\* Sleep, in a system call or in main.
LEMMA SleepSteady ==
  ASSUME SchedAssumption, ProcessAssumption, ProcInv, NEW t \in Threads, Sleep(t)
  PROVE  UNCHANGED procVars /\ \A u \in Threads \ {Idle} : Steady(u)
  <1>0. /\ UNCHANGED procVars /\ cur = t /\ t # Idle /\ SchedInv
        /\ t = Main \/ call[t] \in {"other", "fork", "copy", "release"}
        /\ Schedule([status EXCEPT ![cur] = "BLOCKED"], ready)
        /\ \E i \in {iflag[t], FALSE} : iflag' = [iflag EXCEPT ![t] = i]
    BY DEF Sleep, Block, ThreadBlock, Running, ProcInv
  <1>1. /\ status'[t] = "BLOCKED"
        /\ \A u \in Threads \ {Idle, t} : SameKind(status[u], status'[u])
    BY <1>0, BlockEffect DEF Blocked
  <1>2. ASSUME NEW u \in Threads \ {Idle} PROVE Steady(u)
    <2>1. /\ PlaceOK(u) /\ (status[u] = "RUNNING" <=> u = cur)
          /\ iflag \in [Threads -> BOOLEAN]
          /\ RootsOK
      BY Basics DEF ProcInv, CoreInv, Places
    <2>2. iflag'[u] => iflag[u]
      BY <1>0, <2>1
    <2>3. QED
      BY <1>0, <1>1, <2>1, <2>2 DEF Steady, SameKind, PlaceOK, InCall, RootsOK
  <1>3. QED
    BY <1>0, <1>2

\* A BLOCKED thread is woken; the running thread is not about to hang.
LEMMA WakeSteady ==
  ASSUME SchedAssumption, ProcessAssumption, ProcInv, NEW t \in Threads, Wake(t)
  PROVE  UNCHANGED procVars /\ \A u \in Threads \ {Idle} : Steady(u)
  <1>0. /\ UNCHANGED <<procVars, iflag>> /\ status[t] = "BLOCKED"
        /\ status' = [status EXCEPT ![t] = "READY"]
    BY DEF Wake, Unblock, ThreadUnblock, UnblockStatus
  <1>1. ASSUME NEW u \in Threads \ {Idle} PROVE Steady(u)
    <2>1. PlaceOK(u) /\ status \in [Threads -> Status]
      BY Basics DEF ProcInv, CoreInv, Places
    <2>2. QED
      BY <1>0, <2>1 DEF Steady, PlaceOK
  <1>2. QED
    BY <1>0, <1>1

\* The system call enters, returns or finds no child: only the place of the
\* running thread t changes, and not to or from a place of exit or fork that
\* others depend on.
LEMMA PlaceKeeps ==
  ASSUME SchedAssumption, ProcessAssumption, ProcInv, SchedInv',
         NEW t \in Threads, cur = t, t \notin {Main, Idle},
         NEW c \in {"user", "other", "fork", "wait", "exit"},
         call[t] \in {"boot", "user", "other", "wait"},
         t = InitThread => c # "exit",
         Goto(t, c), UNCHANGED <<all, pid, parent, used, status>>,
         \A u \in Threads \ {t} : iflag'[u] = iflag[u],
         c # "user" => ~iflag'[t],
         c = "fork" => Room
  PROVE  CoreInv'
  <1>0. /\ call' = [call EXCEPT ![t] = c] /\ call \in [Threads -> Calls]
        /\ CoreInv /\ status[t] = "RUNNING"
    BY Basics DEF Goto, ProcInv, CoreInv, ProcTypes
  <1>a. call'[t] = c /\ \A u \in Threads \ {t} : call'[u] = call[u]
    BY <1>0
  <1>1. ProcTypes'
    BY <1>0 DEF CoreInv, ProcTypes, Calls
  <1>2. Places'
    <2>1. ASSUME NEW u \in Threads PROVE PlaceOK(u)'
      <3>1. CASE u = t
        BY <1>0, <1>a, <3>1 DEF CoreInv, Places, PlaceOK, InCall
      <3>2. CASE u # t
        BY <1>0, <1>a, <3>2 DEF CoreInv, Places, PlaceOK, InCall
      <3>3. QED
        BY <3>1, <3>2
    <2>2. RootsOK'
      BY <1>0, <1>a, Basics DEF CoreInv, Places, RootsOK, ProcInv
    <2>3. QED
      BY <2>1, <2>2 DEF Places
  <1>3. PidsUnique'
    BY <1>0 DEF CoreInv, PidsUnique
  <1>4. Parents'
    BY <1>0, <1>a DEF CoreInv, Parents
  <1>5. Embryos'
    BY <1>0, <1>a DEF CoreInv, Embryos
  <1>6. Waiters'
    BY <1>0, <1>a DEF CoreInv, Waiters
  <1>7. PidRoom'
    <2>1. CASE c # "fork"
      <3>1. Forking' \subseteq Forking
        BY <1>a, <2>1 DEF Forking
      <3>2. QED
        BY <1>0, <3>1, RoomKept DEF CoreInv
    <2>2. CASE c = "fork"
      <3>1. Forking' = Forking \cup {t} /\ t \notin Forking
        BY <1>a, <2>2 DEF Forking
      <3>2. IsFiniteSet(Forking) /\ IsFiniteSet(Pids \ used)
        BY FS_Subset, FinitePids DEF Forking, ProcessAssumption
      <3>3. /\ Cardinality(Forking') = Cardinality(Forking) + 1
            /\ Cardinality(Forking) \in Nat /\ Cardinality(Pids \ used) \in Nat
        BY <3>1, <3>2, FS_AddElement, FS_CardinalityType
      <3>4. Cardinality(Forking) < Cardinality(Pids \ used)
        BY <2>2 DEF Room, Forking
      <3>5. (Pids \ used)' = Pids \ used
        BY DEF Pids
      <3>6. QED
        BY <3>3, <3>4, <3>5 DEF PidRoom
    <2>3. QED
      BY <2>1, <2>2
  <1>8. QED
    BY <1>1, <1>2, <1>3, <1>4, <1>5, <1>6, <1>7 DEF CoreInv

\* int 0x80, its return, and a wait without children.
LEMMA CallKeeps ==
  ASSUME SchedAssumption, ProcessAssumption, ProcInv, SchedInv', NEW t \in Threads,
         \/ \E c \in {"other", "fork", "wait", "exit"} : Enter(t, c)
         \/ Leave(t)
         \/ wait_none(t)
  PROVE  CoreInv'
  <1>0. /\ PlaceOK(t) /\ (status[t] = "RUNNING" <=> t = cur) /\ RootsOK
        /\ call[t] \in Calls /\ iflag \in [Threads -> BOOLEAN]
    BY Basics DEF ProcInv, CoreInv, ProcTypes, Places
  <1>1. ASSUME NEW c \in {"other", "fork", "wait", "exit"}, Enter(t, c)
        PROVE  CoreInv'
    <2>1. /\ cur = t /\ t \notin {Main, Idle} /\ iflag[t]
          /\ Goto(t, c) /\ UNCHANGED <<all, pid, parent, used, status>>
          /\ iflag' = [iflag EXCEPT ![t] = FALSE]
          /\ c = "fork" => Room
          /\ t = InitThread => c # "exit"
      BY <1>1 DEF Enter, IntrDisable, Running
    <2>2. call[t] \in {"boot", "user", "other", "wait"}
      BY <1>0, <2>1 DEF PlaceOK, Calls, InCall
    <2>3. QED
      BY <1>0, <2>1, <2>2, PlaceKeeps
  <1>2. CASE Leave(t)
    <2>1. /\ cur = t /\ t # Idle /\ call[t] = "other"
          /\ Goto(t, "user") /\ UNCHANGED <<all, pid, parent, used, status>>
          /\ iflag' = [iflag EXCEPT ![t] = TRUE]
      BY <1>2 DEF Leave, IntrEnable, Running, At
    <2>2. t # Main
      BY <1>0, <2>1 DEF RootsOK
    <2>3. QED
      BY <1>0, <2>1, <2>2, PlaceKeeps
  <1>3. CASE wait_none(t)
    <2>1. /\ cur = t /\ t # Idle /\ call[t] = "wait"
          /\ Goto(t, "other") /\ UNCHANGED <<all, pid, parent, used, status, iflag>>
      BY <1>3 DEF wait_none, Running, At, schedVars
    <2>2. t # Main /\ ~iflag[t]
      BY <1>0, <2>1 DEF RootsOK, PlaceOK, InCall
    <2>3. QED
      BY <1>0, <2>1, <2>2, PlaceKeeps
  <1>4. QED
    BY <1>1, <1>2, <1>3

-----------------------------------------------------------------------------
(* wait and exit give up the CPU.                                          *)

\* What thread_block(WAITING) and thread_block(HANGING) do to the others.
LEMMA BlockSteady ==
  ASSUME SchedAssumption, ProcessAssumption, ProcInv, NEW t \in Threads,
         NEW stat \in Blocked, Block(t, stat), call[t] \in InCall
  PROVE  /\ status'[t] = stat /\ ~iflag'[t]
         /\ \A u \in Threads \ {Idle, t} : Steady(u)
  <1>0. /\ cur = t /\ t # Idle /\ SchedInv
        /\ Schedule([status EXCEPT ![cur] = stat], ready)
        /\ \E i \in {iflag[t], FALSE} : iflag' = [iflag EXCEPT ![t] = i]
    BY DEF Block, ThreadBlock, Running, ProcInv
  <1>1. /\ status'[t] = stat
        /\ \A u \in Threads \ {Idle, t} : SameKind(status[u], status'[u])
    BY <1>0, BlockEffect
  <1>2. \A u \in Threads : iflag'[u] => iflag[u]
    BY <1>0, Basics DEF ProcInv
  <1>3. ~iflag[t]
    BY DEF ProcInv, CoreInv, Places, PlaceOK
  <1>4. ASSUME NEW u \in Threads \ {Idle, t} PROVE Steady(u)
    <2>1. PlaceOK(u) /\ (status[u] = "RUNNING" <=> u = cur)
      BY Basics DEF ProcInv, CoreInv, Places
    <2>2. QED
      BY <1>0, <1>1, <1>2, <2>1 DEF Steady, SameKind, PlaceOK, InCall
  <1>5. QED
    BY <1>1, <1>2, <1>3, <1>4

\* thread_block(WAITING): there was a child, and no hanging one.
LEMMA WaitKeeps ==
  ASSUME SchedAssumption, ProcessAssumption, ProcInv, SchedInv',
         NEW t \in Threads, wait_block(t)
  PROVE  CoreInv'
  <1>0. /\ call[t] = "wait" /\ cur = t /\ t # Idle /\ Block(t, "WAITING")
        /\ UNCHANGED <<all, pid, parent, used, call>> /\ CoreInv
        /\ find_hanging_child(t) = {} /\ find_child(t)
    BY DEF wait_block, At, Running, procVars, ProcInv
  <1>1. /\ status'[t] = "WAITING" /\ ~iflag'[t]
        /\ \A u \in Threads \ {Idle, t} : Steady(u)
    BY <1>0, BlockSteady DEF Blocked, InCall
  <1>2. /\ status'[Idle] \in {"RUNNING", "READY", "BLOCKED"} /\ Idle \in Threads /\ RootsOK
        /\ status[Idle] \in {"RUNNING", "READY", "BLOCKED"} /\ status[t] = "RUNNING"
    BY <1>0, Basics DEF SchedInv, SchedAssumption, CoreInv, ProcInv, Places
  <1>3. Places'
    <2>1. ASSUME NEW u \in Threads PROVE PlaceOK(u)'
      BY <1>0, <1>1, <1>2 DEF CoreInv, Places, PlaceOK, RootsOK, Steady, InCall
    <2>2. QED
      BY <1>0, <2>1 DEF CoreInv, Places, RootsOK
  <1>4. \A u \in Threads \ {t} : /\ status'[u] = "WAITING" <=> status[u] = "WAITING"
                                 /\ status'[u] = "HANGING" <=> status[u] = "HANGING"
                                 /\ call[u] = "hang" => status'[u] = status[u]
    BY <1>1, <1>2 DEF Steady, RootsOK
  <1>5. /\ \E c \in Threads : elem_find(all, c) /\ parent[c] = pid[t]
        /\ \A c \in Threads : elem_find(all, c) /\ parent[c] = pid[t] => status[c] # "HANGING"
    <2>1. all \in Seq(Threads)
      BY <1>0 DEF CoreInv, ProcTypes
    <2>2. Range(all) \subseteq Threads
      BY <2>1, LenProperties, ElementOfSeq DEF Range
    <2>3. QED
      BY <1>0, <2>2 DEF find_child, find_hanging_child, elem_find
  <1>6. Waiters'
    <2>1. ASSUME NEW u \in Threads, call'[u] = "hang", status'[u] = "RUNNING"
          PROVE  FALSE
      <3>1. u # t /\ call[u] = "hang"
        BY <1>0, <2>1
      <3>2. status[u] = "RUNNING"
        BY <1>4, <2>1, <3>1
      <3>3. QED
        BY <1>0, <3>1, <3>2, Basics DEF ProcInv
    <2>2. QED
      BY <1>0, <1>1, <1>2, <1>4, <1>5, <2>1 DEF CoreInv, Waiters
  <1>7. PidRoom'
    BY <1>0, RoomKept DEF CoreInv, Forking
  <1>8. ProcTypes' /\ PidsUnique' /\ Parents' /\ Embryos'
    BY <1>0 DEF CoreInv, ProcTypes, PidsUnique, Parents, Embryos
  <1>9. QED
    BY <1>3, <1>6, <1>7, <1>8 DEF CoreInv

\* thread_block(HANGING): the parent was woken, and could not start to wait
\* since.
LEMMA HangKeeps ==
  ASSUME SchedAssumption, ProcessAssumption, ProcInv, SchedInv',
         NEW t \in Threads, exit_hang(t)
  PROVE  CoreInv'
  <1>0. /\ call[t] = "hang" /\ cur = t /\ t # Idle /\ Block(t, "HANGING")
        /\ UNCHANGED <<all, pid, parent, used, call>> /\ CoreInv
    BY DEF exit_hang, At, Running, procVars, ProcInv
  <1>1. /\ status'[t] = "HANGING" /\ ~iflag'[t]
        /\ \A u \in Threads \ {Idle, t} : Steady(u)
    BY <1>0, BlockSteady DEF Blocked, InCall
  <1>2. /\ status'[Idle] \in {"RUNNING", "READY", "BLOCKED"} /\ Idle \in Threads /\ RootsOK
        /\ status[Idle] \in {"RUNNING", "READY", "BLOCKED"} /\ status[t] = "RUNNING"
    BY <1>0, Basics DEF SchedInv, SchedAssumption, CoreInv, ProcInv, Places
  <1>3. Places'
    <2>1. ASSUME NEW u \in Threads PROVE PlaceOK(u)'
      BY <1>0, <1>1, <1>2 DEF CoreInv, Places, PlaceOK, RootsOK, Steady, InCall
    <2>2. QED
      BY <1>0, <2>1 DEF CoreInv, Places, RootsOK
  <1>4. \A u \in Threads \ {t} : /\ status'[u] = "WAITING" <=> status[u] = "WAITING"
                                 /\ status'[u] = "HANGING" <=> status[u] = "HANGING"
                                 /\ call[u] = "hang" => status'[u] = status[u]
    BY <1>1, <1>2 DEF Steady, RootsOK
  <1>5. \A p \in Threads : pid[p] = parent[t] => status[p] # "WAITING"
    BY <1>0, <1>2 DEF CoreInv, Waiters
  <1>6. Waiters'
    <2>1. ASSUME NEW u \in Threads, call'[u] = "hang", status'[u] = "RUNNING"
          PROVE  FALSE
      <3>1. u # t /\ call[u] = "hang"
        BY <1>0, <1>1, <2>1
      <3>2. status[u] = "RUNNING"
        BY <1>4, <2>1, <3>1
      <3>3. QED
        BY <1>0, <3>1, <3>2, Basics DEF ProcInv
    <2>2. QED
      BY <1>0, <1>1, <1>2, <1>4, <1>5, <2>1 DEF CoreInv, Waiters
  <1>7. PidRoom'
    BY <1>0, RoomKept DEF CoreInv, Forking
  <1>8. ProcTypes' /\ PidsUnique' /\ Parents' /\ Embryos'
    BY <1>0 DEF CoreInv, ProcTypes, PidsUnique, Parents, Embryos
  <1>9. QED
    BY <1>3, <1>6, <1>7, <1>8 DEF CoreInv

-----------------------------------------------------------------------------
(* fork.                                                                   *)

\* The first half of fork: a fresh pid, a child nobody sees yet.
LEMMA ForkKeeps ==
  ASSUME SchedAssumption, ProcessAssumption, ProcInv, SchedInv',
         NEW t \in Threads, NEW c \in Threads \ {Main}, fork_pid(t, c)
  PROVE  CoreInv'
  <1> DEFINE n == FreePid
  <1>0. /\ call[t] = "fork" /\ call[c] = "free" /\ CoreInv
        /\ pid' = [pid EXCEPT ![c] = n]
        /\ used' = used \cup {n}
        /\ parent' = [parent EXCEPT ![c] = pid[t]]
        /\ call' = [call EXCEPT ![t] = "copy", ![c] = "embryo"]
        /\ UNCHANGED <<all, status, iflag>>
    BY DEF fork_pid, At, ProcInv, schedVars
  <1>1. n \in Pids /\ n \notin used
    BY <1>0, PidFound DEF CoreInv
  <1> HIDE DEF n
  <1>2. /\ pid \in [Threads -> 0..MaxPid] /\ parent \in [Threads -> 0..MaxPid]
        /\ call \in [Threads -> Calls]
    BY <1>0 DEF CoreInv, ProcTypes
  <1>3. t # c /\ c \notin {InitThread, Idle, Main} /\ t # Main
    BY <1>0 DEF CoreInv, Places, RootsOK
  <1>4. /\ call'[t] = "copy" /\ call'[c] = "embryo" /\ pid'[c] = n /\ parent'[c] = pid[t]
        /\ \A u \in Threads \ {t, c} : call'[u] = call[u]
        /\ \A u \in Threads \ {c} : pid'[u] = pid[u] /\ parent'[u] = parent[u]
    BY <1>0, <1>2, <1>3
  <1>5. pid[t] # NoPid /\ n # NoPid
    BY <1>0, <1>1, Basics DEF CoreInv, Places, PlaceOK, ProcInv
  <1>6. ProcTypes'
    <2>1. n \in 0..MaxPid /\ pid[t] \in 0..MaxPid
      BY SMTT(30), <1>1, <1>2, Basics DEF ProcInv
    <2>2. pid' \in [Threads -> 0..MaxPid] /\ parent' \in [Threads -> 0..MaxPid]
      BY <1>0, <1>2, <2>1
    <2>3. call' \in [Threads -> Calls]
      BY <1>0, <1>2 DEF Calls
    <2>4. used' \in SUBSET Pids' /\ Pids' = Pids
      BY <1>0, <1>1 DEF CoreInv, ProcTypes, Pids
    <2>5. QED
      BY <1>0, <2>2, <2>3, <2>4 DEF CoreInv, ProcTypes
  <1>7. Places'
    <2>1. ASSUME NEW u \in Threads PROVE PlaceOK(u)'
      <3>0. PlaceOK(u) /\ NoPid' = NoPid
        BY <1>0 DEF CoreInv, Places, NoPid
      <3>1. CASE u = t
        BY <1>0, <1>3, <1>4, <3>0, <3>1 DEF PlaceOK, InCall
      <3>2. CASE u = c
        BY <1>0, <1>3, <1>4, <1>5, <3>0, <3>2 DEF PlaceOK, InCall
      <3>3. CASE u \notin {t, c}
        BY ZenonT(40), <1>0, <1>4, <3>0, <3>3 DEF PlaceOK, InCall
      <3>4. QED
        BY <3>1, <3>2, <3>3
    <2>2. RootsOK'
      BY ZenonT(40), <1>0, <1>3, <1>4, Basics DEF CoreInv, Places, RootsOK, ProcInv, InitPid
    <2>3. QED
      BY <2>1, <2>2 DEF Places
  <1>8. PidsUnique'
    BY <1>0, <1>1, <1>4 DEF CoreInv, PidsUnique, NoPid
  <1>9. Parents'
    <2>1. elem_find(all, t) /\ ~elem_find(all, c)
      BY <1>0 DEF CoreInv, Places, PlaceOK
    <2>2. SUFFICES ASSUME NEW u \in Threads, parent'[u] # NoPid
                   PROVE  \E p \in Threads \ {Main} :
                            /\ elem_find(all', p) /\ pid'[p] = parent'[u]
                            /\ call'[p] \notin {"release", "hang"}
      BY DEF Parents, NoPid
    <2>3. CASE u = c
      BY <1>0, <1>3, <1>4, <2>1, <2>3
    <2>4. CASE u # c
      <3>1. PICK p \in Threads \ {Main} : /\ elem_find(all, p) /\ pid[p] = parent[u]
                                          /\ call[p] \notin {"release", "hang"}
        BY <1>0, <1>4, <2>2, <2>4 DEF CoreInv, Parents
      <3>2. QED
        BY <1>0, <1>4, <2>1, <2>4, <3>1
    <2>5. QED
      BY <2>3, <2>4
  <1>10. Embryos'
    <2>1. \A y \in Threads : call[y] = "embryo" => parent[y] # pid[t]
      BY <1>0, <1>5 DEF CoreInv, Embryos, PidsUnique
    <2>2. \A y \in Threads : call'[y] = "embryo" <=> y = c \/ call[y] = "embryo"
      BY <1>0, <1>4
    <2>3. SUFFICES ASSUME NEW x \in Threads, call'[x] = "embryo"
                   PROVE  /\ \E u \in Threads : call'[u] = "copy" /\ pid'[u] = parent'[x]
                          /\ \A y \in Threads : call'[y] = "embryo" /\ parent'[y] = parent'[x]
                                                  => y = x
      BY DEF Embryos
    <2>4. CASE x = c
      BY <1>3, <1>4, <2>1, <2>2, <2>4
    <2>5. CASE x # c
      <3>1. PICK u \in Threads : call[u] = "copy" /\ pid[u] = parent[x]
        BY <1>0, <2>2, <2>3, <2>5 DEF CoreInv, Embryos
      <3>2. call'[u] = "copy" /\ pid'[u] = parent'[x]
        BY <1>0, <1>4, <2>5, <3>1
      <3>3. \A y \in Threads : call[y] = "embryo" /\ parent[y] = parent[x] => y = x
        BY <1>0, <2>2, <2>3, <2>5 DEF CoreInv, Embryos
      <3>4. parent[x] # pid[t] /\ \A y \in Threads \ {c} : parent'[y] = parent[y]
        BY <1>4, <2>1, <2>2, <2>3, <2>5
      <3>5. QED
        BY <1>4, <2>2, <2>5, <3>2, <3>3, <3>4
    <2>6. QED
      BY <2>4, <2>5
  <1>11. Waiters'
    <2>1. ~elem_find(all, c) /\ status[c] = "DIED"
      BY <1>0 DEF CoreInv, Places, PlaceOK
    <2>2. \A u \in Threads : call'[u] = "hang" => call[u] = "hang" /\ u # c
      BY <1>4
    <2>3. ASSUME NEW p \in Threads, status[p] = "WAITING"
          PROVE  /\ \E x \in Threads : elem_find(all', x) /\ parent'[x] = pid'[p]
                 /\ p # InitThread =>
                      \A x \in Threads : elem_find(all', x) /\ parent'[x] = pid'[p] =>
                                           status'[x] # "HANGING"
      BY <1>0, <1>4, <2>1, <2>3 DEF CoreInv, Waiters
    <2>4. ASSUME NEW u \in Threads, NEW p \in Threads, call'[u] = "hang",
                 status'[u] = "RUNNING", pid'[p] = parent'[u]
          PROVE  status'[p] # "WAITING"
      BY <1>0, <1>4, <2>1, <2>2, <2>4 DEF CoreInv, Waiters
    <2>5. QED
      BY <1>0, <2>3, <2>4 DEF Waiters
  <1>12. PidRoom'
    <2>1. Forking' = Forking \ {t} /\ t \in Forking
      BY ZenonT(40), <1>0, <1>3, <1>4 DEF Forking
    <2>2. Pids \ used' = (Pids \ used) \ {n} /\ n \in Pids \ used
      BY <1>0, <1>1 DEF Pids
    <2>3. IsFiniteSet(Forking) /\ IsFiniteSet(Pids \ used)
      BY FS_Subset, FinitePids DEF Forking, ProcessAssumption
    <2>4. /\ Cardinality(Forking') = Cardinality(Forking) - 1
          /\ Cardinality(Pids \ used') = Cardinality(Pids \ used) - 1
          /\ Cardinality(Forking) \in Nat /\ Cardinality(Pids \ used) \in Nat
      <3>1. Cardinality(Forking') = Cardinality(Forking) - 1
        BY <2>1, <2>3, FS_RemoveElement
      <3>2. Cardinality(Pids \ used') = Cardinality(Pids \ used) - 1
        <4> DEFINE F == Pids \ used
        <4>1. IsFiniteSet(F) /\ n \in F /\ Pids \ used' = F \ {n}
          BY <2>2, <2>3
        <4> HIDE DEF F
        <4>2. Cardinality(F \ {n}) = Cardinality(F) - 1
          BY <4>1, FS_RemoveElement
        <4>3. QED
          BY <4>1, <4>2 DEF F
      <3>3. Cardinality(Forking) \in Nat /\ Cardinality(Pids \ used) \in Nat
        BY <2>3, FS_CardinalityType
      <3>4. QED
        BY <3>1, <3>2, <3>3
    <2>5. Pids' = Pids
      BY DEF Pids
    <2>6. QED
      BY <1>0, <2>4, <2>5 DEF CoreInv, PidRoom
  <1>13. QED
    BY <1>6, <1>7, <1>8, <1>9, <1>10, <1>11, <1>12 DEF CoreInv

\* The second half: the child enters both lists.
LEMMA StartKeeps ==
  ASSUME SchedAssumption, ProcessAssumption, ProcInv, SchedInv',
         NEW t \in Threads, NEW c \in Threads \ {Main}, sys_fork(t, c)
  PROVE  CoreInv'
  <1>0. /\ call[t] = "copy" /\ call[c] = "embryo" /\ parent[c] = pid[t] /\ CoreInv
        /\ cur = t /\ status[c] = "DIED"
        /\ status' = [status EXCEPT ![c] = "READY"]
        /\ iflag' = [iflag EXCEPT ![c] = TRUE]
        /\ all' = list_append(all, c)
        /\ call' = [call EXCEPT ![t] = "other", ![c] = "user"]
        /\ UNCHANGED <<pid, parent, used>>
    BY DEF sys_fork, At, Running, ChildOf, Start, ThreadStart, ProcInv
  <1>1. /\ status \in [Threads -> Status] /\ iflag \in [Threads -> BOOLEAN]
        /\ \A u \in Threads : status[u] = "RUNNING" <=> u = cur
    BY Basics DEF ProcInv
  <1>2. /\ all \in Seq(Threads) /\ IsInjective(all) /\ call \in [Threads -> Calls]
    BY <1>0 DEF CoreInv, ProcTypes
  <1>3. t # c /\ c \notin {InitThread, Idle, Main} /\ t # Main /\ ~elem_find(all, c)
    BY <1>0 DEF CoreInv, Places, RootsOK, PlaceOK
  <1>4. /\ call'[t] = "other" /\ call'[c] = "user"
        /\ \A u \in Threads \ {t, c} : call'[u] = call[u]
        /\ status'[c] = "READY" /\ \A u \in Threads \ {c} : status'[u] = status[u]
        /\ \A u \in Threads \ {c} : iflag'[u] = iflag[u]
    BY <1>0, <1>1, <1>2, <1>3
  <1>5. /\ all' \in Seq(Threads) /\ IsInjective(all')
        /\ \A y : elem_find(all', y) <=> y = c \/ elem_find(all, y)
    BY <1>0, <1>2, <1>3, AppendFacts
  <1>6. ProcTypes'
    <2>1. call' \in [Threads -> Calls]
      BY <1>0, <1>2 DEF Calls
    <2>2. QED
      BY <1>0, <1>5, <2>1 DEF CoreInv, ProcTypes, Pids
  <1>7. Places'
    <2>1. ASSUME NEW u \in Threads PROVE PlaceOK(u)'
      <3>0. PlaceOK(u) /\ NoPid' = NoPid
        BY <1>0 DEF CoreInv, Places, NoPid
      <3>1. CASE u = t
        BY <1>0, <1>3, <1>4, <1>5, <3>0, <3>1 DEF PlaceOK, InCall
      <3>2. CASE u = c
        BY <1>0, <1>3, <1>4, <1>5, <3>0, <3>2 DEF PlaceOK, InCall
      <3>3. CASE u \notin {t, c}
        <4>1. /\ status'[u] = status[u] /\ call'[u] = call[u] /\ iflag'[u] = iflag[u]
              /\ elem_find(all', u) <=> elem_find(all, u)
              /\ pid'[u] = pid[u] /\ parent'[u] = parent[u]
          BY <1>0, <1>4, <1>5, <3>3
        <4>2. QED
          BY <3>0, <4>1 DEF PlaceOK
      <3>4. QED
        BY <3>1, <3>2, <3>3
    <2>2. RootsOK'
      BY ZenonT(40), <1>0, <1>3, <1>4, Basics DEF CoreInv, Places, RootsOK, ProcInv, InitPid
    <2>3. QED
      BY <2>1, <2>2 DEF Places
  <1>8. PidsUnique'
    BY <1>0 DEF CoreInv, PidsUnique, NoPid
  <1>9. Parents'
    <2>1. \A p \in Threads : call[p] \notin {"release", "hang"} => call'[p] \notin {"release", "hang"}
      BY <1>4
    <2>2. QED
      BY <1>0, <1>5, <2>1 DEF CoreInv, Parents, NoPid
  <1>10. Embryos'
    <2>1. \A y \in Threads : call'[y] = "embryo" <=> y # c /\ call[y] = "embryo"
      BY <1>0, <1>4
    <2>2. SUFFICES ASSUME NEW x \in Threads, call'[x] = "embryo"
                   PROVE  /\ \E u \in Threads : call'[u] = "copy" /\ pid'[u] = parent'[x]
                          /\ \A y \in Threads : call'[y] = "embryo" /\ parent'[y] = parent'[x]
                                                  => y = x
      BY DEF Embryos
    <2>3. x # c /\ call[x] = "embryo"
      BY <2>1, <2>2
    <2>4. PICK u \in Threads : call[u] = "copy" /\ pid[u] = parent[x]
      BY <1>0, <2>3 DEF CoreInv, Embryos
    <2>5. u # t /\ u # c
      BY <1>0, <2>3, <2>4 DEF CoreInv, Embryos
    <2>6. call'[u] = "copy" /\ pid'[u] = parent'[x]
      BY <1>0, <1>4, <2>3, <2>4, <2>5
    <2>7. \A y \in Threads : call[y] = "embryo" /\ parent[y] = parent[x] => y = x
      BY <1>0, <2>3 DEF CoreInv, Embryos
    <2>8. \A y \in Threads : y # c => parent'[y] = parent[y]
      BY <1>0, <1>4
    <2>9. QED
      BY <2>1, <2>3, <2>6, <2>7, <2>8
  <1>11. Waiters'
    <2>1. \A u \in Threads : call'[u] = "hang" => call[u] = "hang" /\ u # c
      BY <1>4
    <2>2. ASSUME NEW p \in Threads, status'[p] = "WAITING"
          PROVE  /\ \E x \in Threads : elem_find(all', x) /\ parent'[x] = pid'[p]
                 /\ p # InitThread =>
                      \A x \in Threads : elem_find(all', x) /\ parent'[x] = pid'[p] =>
                                           status'[x] # "HANGING"
      BY <1>0, <1>4, <1>5, <2>2 DEF CoreInv, Waiters
    <2>3. ASSUME NEW u \in Threads, NEW p \in Threads, call'[u] = "hang",
                 status'[u] = "RUNNING", pid'[p] = parent'[u]
          PROVE  status'[p] # "WAITING"
      BY <1>0, <1>4, <2>1, <2>3 DEF CoreInv, Waiters
    <2>4. QED
      BY <1>0, <2>2, <2>3 DEF Waiters
  <1>12. PidRoom'
    <2>1. Forking' \subseteq Forking
      BY <1>0, <1>4 DEF Forking
    <2>2. QED
      BY <1>0, <2>1, RoomKept DEF CoreInv
  <1>13. QED
    BY <1>6, <1>7, <1>8, <1>9, <1>10, <1>11, <1>12 DEF CoreInv

\* copy_process fails: the task_struct is forgotten, its pid stays taken.
LEMMA ForkFailKeeps ==
  ASSUME SchedAssumption, ProcessAssumption, ProcInv, SchedInv',
         NEW t \in Threads, NEW c \in Threads \ {Main}, sys_fork_fails(t, c)
  PROVE  CoreInv'
  <1>0. /\ call[t] = "copy" /\ call[c] = "embryo" /\ parent[c] = pid[t] /\ CoreInv
        /\ pid' = [pid EXCEPT ![c] = NoPid]
        /\ parent' = [parent EXCEPT ![c] = NoPid]
        /\ call' = [call EXCEPT ![t] = "other", ![c] = "free"]
        /\ UNCHANGED <<all, used, status, iflag>>
    BY DEF sys_fork_fails, At, ChildOf, ProcInv, schedVars
  <1>2. /\ pid \in [Threads -> 0..MaxPid] /\ parent \in [Threads -> 0..MaxPid]
        /\ call \in [Threads -> Calls]
    BY <1>0 DEF CoreInv, ProcTypes
  <1>3. t # c /\ c \notin {InitThread, Idle, Main} /\ t # Main /\ ~elem_find(all, c)
        /\ status[c] = "DIED"
    BY <1>0 DEF CoreInv, Places, RootsOK, PlaceOK
  <1>4. /\ call'[t] = "other" /\ call'[c] = "free" /\ pid'[c] = NoPid /\ parent'[c] = NoPid
        /\ \A u \in Threads \ {t, c} : call'[u] = call[u]
        /\ \A u \in Threads \ {c} : pid'[u] = pid[u] /\ parent'[u] = parent[u]
    BY <1>0, <1>2, <1>3
  <1>6. ProcTypes'
    <2>1. NoPid \in 0..MaxPid
      BY Basics DEF ProcInv
    <2>2. pid' \in [Threads -> 0..MaxPid] /\ parent' \in [Threads -> 0..MaxPid]
      BY <1>0, <1>2, <2>1
    <2>3. call' \in [Threads -> Calls]
      BY <1>0, <1>2 DEF Calls
    <2>5. QED
      BY <1>0, <2>2, <2>3 DEF CoreInv, ProcTypes, Pids
  <1>7. Places'
    <2>1. ASSUME NEW u \in Threads PROVE PlaceOK(u)'
      <3>0. PlaceOK(u) /\ NoPid' = NoPid
        BY <1>0 DEF CoreInv, Places, NoPid
      <3>1. CASE u = t
        BY <1>0, <1>3, <1>4, <3>0, <3>1 DEF PlaceOK, InCall
      <3>2. CASE u = c
        BY <1>0, <1>3, <1>4, <3>0, <3>2 DEF PlaceOK, InCall
      <3>3. CASE u \notin {t, c}
        BY ZenonT(40), <1>0, <1>4, <3>0, <3>3 DEF PlaceOK, InCall
      <3>4. QED
        BY <3>1, <3>2, <3>3
    <2>2. RootsOK'
      BY ZenonT(40), <1>0, <1>3, <1>4, Basics DEF CoreInv, Places, RootsOK, ProcInv, InitPid
    <2>3. QED
      BY <2>1, <2>2 DEF Places
  <1>8. PidsUnique'
    BY <1>0, <1>4 DEF CoreInv, PidsUnique, NoPid
  <1>9. Parents'
    <2>1. ASSUME NEW u \in Threads, parent'[u] # NoPid
          PROVE  \E p \in Threads \ {Main} :
                   /\ elem_find(all', p) /\ pid'[p] = parent'[u]
                   /\ call'[p] \notin {"release", "hang"}
      <3>1. u # c /\ parent'[u] = parent[u]
        BY <1>4, <2>1
      <3>2. PICK p \in Threads \ {Main} : /\ elem_find(all, p) /\ pid[p] = parent[u]
                                          /\ call[p] \notin {"release", "hang"}
        BY <1>0, <2>1, <3>1 DEF CoreInv, Parents
      <3>3. QED
        BY ZenonT(40), <1>0, <1>3, <1>4, <3>1, <3>2
    <2>2. QED
      BY <2>1 DEF Parents, NoPid
  <1>10. Embryos'
    <2>1. \A y \in Threads : call'[y] = "embryo" <=> y # c /\ call[y] = "embryo"
      BY <1>0, <1>4
    <2>2. SUFFICES ASSUME NEW x \in Threads, call'[x] = "embryo"
                   PROVE  /\ \E u \in Threads : call'[u] = "copy" /\ pid'[u] = parent'[x]
                          /\ \A y \in Threads : call'[y] = "embryo" /\ parent'[y] = parent'[x]
                                                  => y = x
      BY DEF Embryos
    <2>3. x # c /\ call[x] = "embryo"
      BY <2>1, <2>2
    <2>4. PICK u \in Threads : call[u] = "copy" /\ pid[u] = parent[x]
      BY <1>0, <2>3 DEF CoreInv, Embryos
    <2>5. u # t /\ u # c
      BY <1>0, <2>3, <2>4 DEF CoreInv, Embryos
    <2>6. call'[u] = "copy" /\ pid'[u] = parent'[x]
      BY <1>0, <1>4, <2>3, <2>4, <2>5
    <2>7. \A y \in Threads : call[y] = "embryo" /\ parent[y] = parent[x] => y = x
      BY <1>0, <2>3 DEF CoreInv, Embryos
    <2>8. \A y \in Threads : y # c => parent'[y] = parent[y]
      BY <1>0, <1>4
    <2>9. QED
      BY <2>1, <2>3, <2>6, <2>7, <2>8
  <1>11. Waiters'
    <2>1. \A u \in Threads : call'[u] = "hang" => call[u] = "hang" /\ u # c
      BY <1>4
    <2>2. ASSUME NEW p \in Threads, status'[p] = "WAITING"
          PROVE  /\ \E x \in Threads : elem_find(all', x) /\ parent'[x] = pid'[p]
                 /\ p # InitThread =>
                      \A x \in Threads : elem_find(all', x) /\ parent'[x] = pid'[p] =>
                                           status'[x] # "HANGING"
      BY <1>0, <1>3, <1>4, <2>2 DEF CoreInv, Waiters
    <2>3. ASSUME NEW u \in Threads, NEW p \in Threads, call'[u] = "hang",
                 status'[u] = "RUNNING", pid'[p] = parent'[u]
          PROVE  status'[p] # "WAITING"
      BY <1>0, <1>3, <1>4, <2>1, <2>3 DEF CoreInv, Waiters
    <2>4. QED
      BY <1>0, <2>2, <2>3 DEF Waiters
  <1>12. PidRoom'
    <2>1. Forking' \subseteq Forking
      BY <1>0, <1>4 DEF Forking
    <2>2. QED
      BY <1>0, <2>1, RoomKept DEF CoreInv
  <1>13. QED
    BY <1>6, <1>7, <1>8, <1>9, <1>10, <1>11, <1>12 DEF CoreInv

-----------------------------------------------------------------------------
(* A task_struct is freed.                                                 *)

\* thread_exit of a hanging child: it is nobody's parent any more, and the
\* only process that waited for it is the caller.
LEMMA ReapKeeps ==
  ASSUME SchedAssumption, ProcessAssumption, ProcInv, SchedInv',
         NEW t \in Threads, wait_reap(t)
  PROVE  CoreInv'
  <1> DEFINE c == list_traversal(all, find_hanging_child(t))
  <1>a. c \in Threads /\ elem_find(all, c) /\ parent[c] = pid[t] /\ status[c] = "HANGING"
    BY ChildFound DEF wait_reap
  <1>0. /\ call[t] = "wait" /\ cur = t /\ CoreInv
        /\ status' = [status EXCEPT ![c] = "DIED"]
        /\ iflag' = [iflag EXCEPT ![cur] = FALSE]
        /\ all' = list_remove(all, c)
        /\ used' = used \ {pid[c]}
        /\ pid' = [pid EXCEPT ![c] = NoPid]
        /\ parent' = [parent EXCEPT ![c] = NoPid]
        /\ call' = [call EXCEPT ![t] = "other", ![c] = "free"]
    BY DEF wait_reap, At, Running, Reap, ExitStatus, Unlisted, ProcInv
  <1> HIDE DEF c
  <1>1. /\ status \in [Threads -> Status] /\ iflag \in [Threads -> BOOLEAN]
        /\ \A u \in Threads : status[u] = "RUNNING" <=> u = cur
    BY Basics DEF ProcInv
  <1>2. /\ all \in Seq(Threads) /\ IsInjective(all) /\ call \in [Threads -> Calls]
        /\ pid \in [Threads -> 0..MaxPid] /\ parent \in [Threads -> 0..MaxPid]
    BY <1>0 DEF CoreInv, ProcTypes
  <1>3. /\ call[c] = "hang" /\ c # t /\ c \notin {InitThread, Idle, Main} /\ ~iflag[t]
        /\ pid[t] # NoPid /\ pid[c] # NoPid
    BY <1>0, <1>a DEF CoreInv, Places, RootsOK, PlaceOK, InCall
  <1>4. /\ call'[t] = "other" /\ call'[c] = "free" /\ pid'[c] = NoPid /\ parent'[c] = NoPid
        /\ status'[c] = "DIED" /\ ~iflag'[t]
        /\ \A u \in Threads \ {t, c} : call'[u] = call[u]
        /\ \A u \in Threads \ {c} : /\ pid'[u] = pid[u] /\ parent'[u] = parent[u]
                                    /\ status'[u] = status[u]
        /\ \A u \in Threads \ {t} : iflag'[u] = iflag[u]
    BY <1>0, <1>1, <1>2, <1>3, <1>a
  <1>5. /\ all' \in Seq(Threads) /\ IsInjective(all')
        /\ \A y : elem_find(all', y) <=> elem_find(all, y) /\ y # c
    BY <1>0, <1>2, <1>a, RemoveFacts
  <1>6. ProcTypes'
    <2>1. NoPid \in 0..MaxPid
      BY Basics DEF ProcInv
    <2>2. pid' \in [Threads -> 0..MaxPid] /\ parent' \in [Threads -> 0..MaxPid]
      BY <1>0, <1>2, <2>1
    <2>3. call' \in [Threads -> Calls]
      BY <1>0, <1>2 DEF Calls
    <2>4. QED
      BY <1>0, <1>5, <2>2, <2>3 DEF CoreInv, ProcTypes, Pids
  <1>7. Places'
    <2>1. ASSUME NEW u \in Threads PROVE PlaceOK(u)'
      <3>0. PlaceOK(u) /\ NoPid' = NoPid
        BY <1>0 DEF CoreInv, Places, NoPid
      <3>1. CASE u = t
        BY <1>0, <1>1, <1>3, <1>4, <1>5, <3>0, <3>1 DEF PlaceOK, InCall
      <3>2. CASE u = c
        BY <1>3, <1>4, <1>5, <3>0, <3>2 DEF PlaceOK, InCall
      <3>3. CASE u \notin {t, c}
        <4>1. /\ status'[u] = status[u] /\ call'[u] = call[u] /\ iflag'[u] = iflag[u]
              /\ elem_find(all', u) <=> elem_find(all, u)
              /\ pid'[u] = pid[u] /\ parent'[u] = parent[u]
          BY <1>4, <1>5, <3>3
        <4>2. QED
          BY <3>0, <4>1 DEF PlaceOK
      <3>4. QED
        BY <3>1, <3>2, <3>3
    <2>2. RootsOK'
      <3>1. {Main, Idle, InitThread} \subseteq Threads
        BY DEF SchedAssumption
      <3>2. RootsOK /\ InitPid' = InitPid
        BY <1>0 DEF CoreInv, Places, InitPid
      <3>3. QED
        BY ZenonT(40), <1>0, <1>3, <1>4, <3>1, <3>2 DEF RootsOK
    <2>3. QED
      BY <2>1, <2>2 DEF Places
  <1>8. PidsUnique'
    BY <1>0, <1>3, <1>4, <1>a DEF CoreInv, PidsUnique, NoPid
  <1>9. Parents'
    <2>1. ASSUME NEW u \in Threads, parent'[u] # NoPid
          PROVE  \E p \in Threads \ {Main} :
                   /\ elem_find(all', p) /\ pid'[p] = parent'[u]
                   /\ call'[p] \notin {"release", "hang"}
      <3>1. u # c /\ parent'[u] = parent[u]
        BY <1>4, <2>1
      <3>2. PICK p \in Threads \ {Main} : /\ elem_find(all, p) /\ pid[p] = parent[u]
                                          /\ call[p] \notin {"release", "hang"}
        BY <1>0, <2>1, <3>1 DEF CoreInv, Parents
      <3>3. p # c
        BY <1>3, <3>2
      <3>4. QED
        BY <1>4, <1>5, <3>1, <3>2, <3>3
    <2>2. QED
      BY <2>1 DEF Parents, NoPid
  <1>10. Embryos'
    <2>1. \A y \in Threads : /\ call'[y] = "embryo" <=> call[y] = "embryo"
                             /\ call[y] = "embryo" => y # c
                             /\ call[y] = "copy" => y # c /\ call'[y] = "copy"
      BY ZenonT(40), <1>0, <1>3, <1>4
    <2>2. \A y \in Threads : y # c => pid'[y] = pid[y] /\ parent'[y] = parent[y]
      BY <1>4
    <2>3. Embryos
      BY <1>0 DEF CoreInv
    <2>4. QED
      BY <2>1, <2>2, <2>3 DEF Embryos
  <1>11. Waiters'
    <2>1. \A u \in Threads : call'[u] = "hang" => call[u] = "hang" /\ u # c
      BY <1>4
    <2>2. ASSUME NEW p \in Threads, status'[p] = "WAITING"
          PROVE  /\ \E x \in Threads : elem_find(all', x) /\ parent'[x] = pid'[p]
                 /\ p # InitThread =>
                      \A x \in Threads : elem_find(all', x) /\ parent'[x] = pid'[p] =>
                                           status'[x] # "HANGING"
      <3>1. p # c /\ status[p] = "WAITING" /\ pid'[p] = pid[p] /\ p # t
        BY <1>0, <1>1, <1>4, <2>2
      <3>2. pid[p] # pid[t]
        BY <1>0, <1>3, <3>1 DEF CoreInv, PidsUnique
      <3>3. PICK x \in Threads : elem_find(all, x) /\ parent[x] = pid[p]
        BY <1>0, <3>1 DEF CoreInv, Waiters
      <3>4. elem_find(all', x) /\ parent'[x] = pid'[p]
        BY <1>4, <1>5, <1>a, <3>1, <3>2, <3>3
      <3>5. QED
        BY <1>0, <1>4, <1>5, <3>1, <3>4 DEF CoreInv, Waiters
    <2>3. ASSUME NEW u \in Threads, NEW p \in Threads, call'[u] = "hang",
                 status'[u] = "RUNNING", pid'[p] = parent'[u]
          PROVE  status'[p] # "WAITING"
      BY <1>0, <1>3, <1>4, <2>1, <2>3 DEF CoreInv, Waiters
    <2>4. QED
      BY <1>0, <2>2, <2>3 DEF Waiters
  <1>12. PidRoom'
    <2>1. Forking' \subseteq Forking /\ used' \subseteq used
      BY <1>0, <1>4 DEF Forking
    <2>2. QED
      BY <1>0, <2>1, RoomKept DEF CoreInv
  <1>13. QED
    BY <1>6, <1>7, <1>8, <1>9, <1>10, <1>11, <1>12 DEF CoreInv

\* thread_exit of main: it never was a parent.
LEMMA MainKeeps ==
  ASSUME SchedAssumption, ProcessAssumption, ProcInv, SchedInv', MainLeaves
  PROVE  CoreInv'
  <1>0. /\ MainExit /\ CoreInv
        /\ all' = list_remove(all, Main)
        /\ used' = used \ {pid[Main]}
        /\ pid' = [pid EXCEPT ![Main] = NoPid]
        /\ call' = [call EXCEPT ![Main] = "free"]
        /\ iflag' = [iflag EXCEPT ![Main] = FALSE]
        /\ UNCHANGED parent
    BY DEF MainLeaves, MainExit, Goto, Unlisted, ProcInv
  <1>1. /\ iflag \in [Threads -> BOOLEAN] /\ status \in [Threads -> Status]
        /\ \A u \in Threads : status[u] = "RUNNING" <=> u = cur
        /\ Main \in Threads /\ Idle \in Threads /\ InitThread \in Threads
        /\ Main # Idle /\ Main # InitThread /\ InitThread # Idle
        /\ status[Idle] \in {"RUNNING", "READY", "BLOCKED"}
        /\ status'[Idle] \in {"RUNNING", "READY", "BLOCKED"}
    BY Basics DEF ProcInv, SchedInv
  <1>2. /\ cur = Main /\ status'[Main] = "DIED"
        /\ \A u \in Threads \ {Idle, Main} : SameKind(status[u], status'[u])
    BY <1>0, MainExitEffect DEF ProcInv
  <1>3. /\ all \in Seq(Threads) /\ IsInjective(all) /\ call \in [Threads -> Calls]
        /\ pid \in [Threads -> 0..MaxPid]
    BY <1>0 DEF CoreInv, ProcTypes
  <1>4. call[Main] = "user" /\ elem_find(all, Main) /\ pid[Main] # NoPid
    BY <1>0, <1>1, <1>2 DEF CoreInv, Places, RootsOK, PlaceOK
  <1>5. /\ call'[Main] = "free" /\ pid'[Main] = NoPid
        /\ \A u \in Threads \ {Main} : /\ call'[u] = call[u] /\ pid'[u] = pid[u]
                                       /\ iflag'[u] = iflag[u]
    BY <1>0, <1>1, <1>3
  <1>6. /\ all' \in Seq(Threads) /\ IsInjective(all')
        /\ \A y : elem_find(all', y) <=> elem_find(all, y) /\ y # Main
    BY <1>0, <1>3, <1>4, RemoveFacts
  <1>s. \A u \in Threads \ {Main} :
          /\ status'[u] = "DIED" <=> status[u] = "DIED"
          /\ status'[u] = "HANGING" <=> status[u] = "HANGING"
          /\ status'[u] = "WAITING" <=> status[u] = "WAITING"
          /\ call[u] = "hang" => status'[u] = status[u]
    <2>1. ASSUME NEW u \in Threads \ {Main, Idle}
          PROVE  /\ status'[u] = "DIED" <=> status[u] = "DIED"
                 /\ status'[u] = "HANGING" <=> status[u] = "HANGING"
                 /\ status'[u] = "WAITING" <=> status[u] = "WAITING"
                 /\ call[u] = "hang" => status'[u] = status[u]
      <3>1. PlaceOK(u) /\ SameKind(status[u], status'[u]) /\ status[u] # "RUNNING"
        BY <1>0, <1>1, <1>2 DEF CoreInv, Places
      <3>2. QED
        BY <3>1 DEF PlaceOK, SameKind
    <2>2. call[Idle] = "user"
      BY <1>0 DEF CoreInv, Places, RootsOK
    <2>3. QED
      BY <1>1, <2>1, <2>2
  <1>7. ProcTypes'
    <2>1. NoPid \in 0..MaxPid
      BY Basics DEF ProcInv
    <2>2. pid' \in [Threads -> 0..MaxPid]
      BY <1>0, <1>3, <2>1
    <2>3. call' \in [Threads -> Calls]
      BY <1>0, <1>3 DEF Calls
    <2>4. QED
      BY <1>0, <1>6, <2>2, <2>3 DEF CoreInv, ProcTypes, Pids
  <1>8. Places'
    <2>1. ASSUME NEW u \in Threads PROVE PlaceOK(u)'
      <3>0. PlaceOK(u) /\ NoPid' = NoPid
        BY <1>0 DEF CoreInv, Places, NoPid
      <3>1. CASE u = Main
        BY <1>0, <1>2, <1>5, <1>6, <3>0, <3>1 DEF PlaceOK, InCall
      <3>2. CASE u # Main
        BY <1>0, <1>5, <1>6, <1>s, <3>0, <3>2 DEF PlaceOK
      <3>3. QED
        BY <3>1, <3>2
    <2>2. RootsOK'
      BY <1>0, <1>1, <1>5 DEF CoreInv, Places, RootsOK, InitPid
    <2>3. QED
      BY <2>1, <2>2 DEF Places
  <1>9. PidsUnique'
    BY <1>0, <1>1, <1>4, <1>5 DEF CoreInv, PidsUnique, NoPid
  <1>10. Parents'
    BY <1>0, <1>5, <1>6 DEF CoreInv, Parents, NoPid
  <1>11. Embryos'
    <2>1. \A y \in Threads : /\ call'[y] = "embryo" <=> call[y] = "embryo"
                             /\ call[y] = "copy" => call'[y] = "copy" /\ pid'[y] = pid[y]
      BY <1>4, <1>5
    <2>2. QED
      BY <1>0, <2>1 DEF CoreInv, Embryos
  <1>12. Waiters'
    <2>1. parent[Main] = NoPid
      BY <1>0, <1>1 DEF CoreInv, Places, PlaceOK
    <2>2. \A u \in Threads : call'[u] = "hang" => call[u] = "hang" /\ u # Main
      BY <1>4, <1>5
    <2>3. ASSUME NEW p \in Threads, status'[p] = "WAITING"
          PROVE  /\ \E x \in Threads : elem_find(all', x) /\ parent'[x] = pid'[p]
                 /\ p # InitThread =>
                      \A x \in Threads : elem_find(all', x) /\ parent'[x] = pid'[p] =>
                                           status'[x] # "HANGING"
      <3>1. p # Main /\ status[p] = "WAITING" /\ pid'[p] = pid[p] /\ pid[p] # NoPid
        BY <1>0, <1>2, <1>5, <1>s, <2>3 DEF CoreInv, Places, PlaceOK
      <3>2. PICK x \in Threads : elem_find(all, x) /\ parent[x] = pid[p]
        BY <1>0, <3>1 DEF CoreInv, Waiters
      <3>3. elem_find(all', x) /\ parent'[x] = pid'[p]
        BY <1>0, <1>6, <2>1, <3>1, <3>2
      <3>4. QED
        BY <1>0, <1>6, <1>s, <3>1, <3>3 DEF CoreInv, Waiters
    <2>4. ASSUME NEW u \in Threads, NEW p \in Threads, call'[u] = "hang",
                 status'[u] = "RUNNING", pid'[p] = parent'[u]
          PROVE  status'[p] # "WAITING"
      BY <1>0, <1>1, <1>2, <1>s, <2>2, <2>4
    <2>5. QED
      BY <2>3, <2>4 DEF Waiters
  <1>13. PidRoom'
    <2>1. Forking' \subseteq Forking /\ used' \subseteq used
      BY <1>0, <1>4, <1>5 DEF Forking
    <2>2. QED
      BY <1>0, <2>1, RoomKept DEF CoreInv
  <1>14. QED
    BY <1>7, <1>8, <1>9, <1>10, <1>11, <1>12, <1>13 DEF CoreInv

-----------------------------------------------------------------------------
(* exit.                                                                   *)

\* init_adopt_a_child for every child: a child that a fork of the dying thread
\* has not made visible yet would be missed, but it is not in fork.
LEMMA AdoptKeeps ==
  ASSUME SchedAssumption, ProcessAssumption, ProcInv, SchedInv',
         NEW t \in Threads, exit_adopt(t)
  PROVE  CoreInv'
  <1>0. /\ call[t] = "exit" /\ cur = t /\ CoreInv
        /\ parent' = [x \in Threads |-> IF elem_find(all, x) /\ parent[x] = pid[t]
                                        THEN InitPid ELSE parent[x]]
        /\ call' = [call EXCEPT ![t] = "release"]
        /\ UNCHANGED <<all, pid, used, status, iflag>>
    BY DEF exit_adopt, At, Running, Adopted, Goto, ProcInv
  <1>1. /\ status[t] = "RUNNING" /\ InitThread \in Threads /\ InitThread # Main
        /\ MaxPid \in Nat /\ MaxPid >= 3 /\ InitPid = 1 /\ NoPid = 0
    BY <1>0, Basics DEF ProcInv
  <1>2. call \in [Threads -> Calls] /\ parent \in [Threads -> 0..MaxPid]
    BY <1>0 DEF CoreInv, ProcTypes
  <1>3. t \notin {InitThread, Main, Idle} /\ pid[t] # NoPid /\ ~iflag[t]
    BY <1>0, ExitHasParent DEF CoreInv, Places, PlaceOK, InCall
  <1>4. call'[t] = "release" /\ \A u \in Threads \ {t} : call'[u] = call[u]
    BY <1>0, <1>2
  <1>5. \A x \in Threads : /\ elem_find(all, x) /\ parent[x] = pid[t] => parent'[x] = InitPid
                           /\ ~(elem_find(all, x) /\ parent[x] = pid[t]) => parent'[x] = parent[x]
    BY <1>0
  <1>6. \A x \in Threads : call[x] = "embryo" => parent[x] # pid[t]
    BY <1>0, <1>3 DEF CoreInv, Embryos, PidsUnique
  <1>7. \A x \in Threads : parent[x] = pid[t] => elem_find(all, x) /\ parent'[x] = InitPid
    <2>1. SUFFICES ASSUME NEW x \in Threads, parent[x] = pid[t]
                   PROVE  elem_find(all, x)
      BY <1>5
    <2>2. PlaceOK(x)
      BY <1>0 DEF CoreInv, Places
    <2>3. QED
      BY <1>3, <1>6, <2>1, <2>2 DEF PlaceOK
  <1>8. ProcTypes'
    <2>1. InitPid \in 0..MaxPid
      BY <1>1
    <2>2. parent' \in [Threads -> 0..MaxPid]
      BY <1>0, <1>2, <2>1
    <2>3. call' \in [Threads -> Calls]
      BY <1>0, <1>2 DEF Calls
    <2>4. QED
      BY <1>0, <2>2, <2>3 DEF CoreInv, ProcTypes, Pids
  <1>9. Places'
    <2>1. ASSUME NEW u \in Threads PROVE PlaceOK(u)'
      <3>0. PlaceOK(u) /\ NoPid' = NoPid /\ InitPid # NoPid
        BY <1>0, <1>1 DEF CoreInv, Places, NoPid
      <3>1. parent'[u] = NoPid <=> parent[u] = NoPid
        BY <1>3, <1>5, <3>0
      <3>2. CASE u = t
        BY <1>0, <1>1, <1>3, <1>4, <3>0, <3>1, <3>2 DEF PlaceOK, InCall
      <3>3. CASE u # t
        BY <1>0, <1>4, <3>0, <3>1, <3>3 DEF PlaceOK
      <3>4. QED
        BY <3>2, <3>3
    <2>2. RootsOK'
      BY <1>0, <1>3, <1>4, Basics DEF CoreInv, Places, RootsOK, ProcInv, InitPid
    <2>3. QED
      BY <2>1, <2>2 DEF Places
  <1>10. PidsUnique'
    BY <1>0 DEF CoreInv, PidsUnique, NoPid
  <1>11. Parents'
    <2>1. ASSUME NEW u \in Threads, parent'[u] # NoPid
          PROVE  \E p \in Threads \ {Main} :
                   /\ elem_find(all', p) /\ pid'[p] = parent'[u]
                   /\ call'[p] \notin {"release", "hang"}
      <3>1. CASE parent[u] = pid[t]
        <4>1. /\ elem_find(all, InitThread) /\ pid[InitThread] = InitPid
              /\ call[InitThread] \notin {"release", "hang"}
          BY <1>0, <1>1 DEF CoreInv, Places, PlaceOK, RootsOK
        <4>2. QED
          BY <1>0, <1>1, <1>3, <1>4, <1>7, <3>1, <4>1
      <3>2. CASE parent[u] # pid[t]
        <4>1. parent'[u] = parent[u]
          BY <1>5, <3>2
        <4>2. PICK p \in Threads \ {Main} : /\ elem_find(all, p) /\ pid[p] = parent[u]
                                            /\ call[p] \notin {"release", "hang"}
          BY <1>0, <2>1, <4>1 DEF CoreInv, Parents
        <4>3. p # t
          BY <3>2, <4>2
        <4>4. QED
          BY <1>0, <1>4, <4>1, <4>2, <4>3
      <3>3. QED
        BY <3>1, <3>2
    <2>2. QED
      BY <2>1 DEF Parents, NoPid
  <1>12. Embryos'
    <2>1. \A y \in Threads : /\ call'[y] = "embryo" <=> call[y] = "embryo"
                             /\ call[y] = "embryo" => parent'[y] = parent[y]
                             /\ call[y] = "copy" => call'[y] = "copy"
      BY <1>0, <1>4, <1>5, <1>6
    <2>2. QED
      BY <1>0, <2>1 DEF CoreInv, Embryos
  <1>13. Waiters'
    <2>1. \A u \in Threads : ~(call'[u] = "hang" /\ status'[u] = "RUNNING")
      BY <1>0, <1>4, Basics DEF ProcInv
    <2>2. ASSUME NEW p \in Threads, status'[p] = "WAITING"
          PROVE  /\ \E x \in Threads : elem_find(all', x) /\ parent'[x] = pid'[p]
                 /\ p # InitThread =>
                      \A x \in Threads : elem_find(all', x) /\ parent'[x] = pid'[p] =>
                                           status'[x] # "HANGING"
      <3>1. p # t /\ status[p] = "WAITING" /\ pid'[p] = pid[p] /\ pid[p] # pid[t]
        BY <1>0, <1>1, <1>3, <2>2 DEF CoreInv, PidsUnique
      <3>2. PICK x \in Threads : elem_find(all, x) /\ parent[x] = pid[p]
        BY <1>0, <3>1 DEF CoreInv, Waiters
      <3>3. elem_find(all', x) /\ parent'[x] = pid'[p]
        BY <1>0, <1>5, <3>1, <3>2
      <3>4. p # InitThread => pid[p] # InitPid
        BY <1>0, <1>1 DEF CoreInv, PidsUnique, Places, RootsOK
      <3>5. \A y \in Threads : p # InitThread /\ parent'[y] = pid[p] => parent[y] = pid[p]
        BY <1>5, <1>7, <3>4
      <3>6. QED
        BY <1>0, <3>1, <3>3, <3>5 DEF CoreInv, Waiters
    <2>3. QED
      BY <2>1, <2>2 DEF Waiters
  <1>14. PidRoom'
    <2>1. Forking' \subseteq Forking /\ used' \subseteq used
      BY <1>0, <1>4 DEF Forking
    <2>2. QED
      BY <1>0, <2>1, RoomKept DEF CoreInv
  <1>15. QED
    BY <1>8, <1>9, <1>10, <1>11, <1>12, <1>13, <1>14 DEF CoreInv

\* The parent, if it waits, is made READY before the thread hangs.
LEMMA TellKeeps ==
  ASSUME SchedAssumption, ProcessAssumption, ProcInv, SchedInv',
         NEW t \in Threads, exit_wake(t)
  PROVE  CoreInv'
  <1> DEFINE p == pid2thread(parent[t])
  <1>0. /\ call[t] = "release" /\ cur = t /\ CoreInv
        /\ call' = [call EXCEPT ![t] = "hang"]
        /\ UNCHANGED <<all, pid, used, parent, iflag>>
    BY DEF exit_wake, At, Running, Goto, ProcInv
  <1>1. \/ status[p] = "WAITING" /\ status' = [status EXCEPT ![p] = "READY"]
        \/ status[p] # "WAITING" /\ status' = status
    BY WakeEffect DEF Unblock, ThreadUnblock, UnblockStatus, schedVars
  <1>2. parent[t] # NoPid /\ t \notin {InitThread, Main, Idle}
    BY <1>0, ExitHasParent
  <1>3. p \in Threads /\ \A q \in Threads : pid[q] = parent[t] => q = p
    BY <1>2, ParentFound
  <1> HIDE DEF p
  <1>4. /\ status \in [Threads -> Status] /\ status[t] = "RUNNING"
        /\ \A u \in Threads : status[u] = "RUNNING" <=> u = cur
    BY <1>0, Basics DEF ProcInv
  <1>5. /\ status'[p] # "WAITING"
        /\ \A u \in Threads : /\ status'[u] = "WAITING" => status[u] = "WAITING"
                              /\ status'[u] = "DIED" <=> status[u] = "DIED"
                              /\ status'[u] = "HANGING" <=> status[u] = "HANGING"
                              /\ status[u] # "WAITING" => status'[u] = status[u]
    BY <1>1, <1>3, <1>4
  <1>6. call \in [Threads -> Calls]
    BY <1>0 DEF CoreInv, ProcTypes
  <1>7. call'[t] = "hang" /\ \A u \in Threads \ {t} : call'[u] = call[u]
    BY <1>0, <1>6
  <1>8. ProcTypes'
    BY <1>0, <1>6 DEF CoreInv, ProcTypes, Pids, Calls
  <1>9. Places'
    <2>1. ASSUME NEW u \in Threads PROVE PlaceOK(u)'
      <3>0. PlaceOK(u) /\ NoPid' = NoPid
        BY <1>0 DEF CoreInv, Places, NoPid
      <3>2. CASE u = t
        BY <1>0, <1>4, <1>5, <1>7, <3>0, <3>2 DEF PlaceOK, InCall
      <3>3. CASE u # t
        BY <1>0, <1>5, <1>7, <3>0, <3>3 DEF PlaceOK
      <3>4. QED
        BY <3>2, <3>3
    <2>2. RootsOK'
      BY <1>0, <1>2, <1>7, Basics DEF CoreInv, Places, RootsOK, ProcInv, InitPid
    <2>3. QED
      BY <2>1, <2>2 DEF Places
  <1>10. PidsUnique'
    BY <1>0 DEF CoreInv, PidsUnique, NoPid
  <1>11. Parents'
    <2>1. \A u \in Threads : call[u] \notin {"release", "hang"} => call'[u] \notin {"release", "hang"}
      BY <1>0, <1>7
    <2>2. QED
      BY <1>0, <2>1 DEF CoreInv, Parents, NoPid
  <1>12. Embryos'
    <2>1. \A y \in Threads : /\ call'[y] = "embryo" <=> call[y] = "embryo"
                             /\ call[y] = "copy" => call'[y] = "copy"
      BY <1>0, <1>7
    <2>2. QED
      BY <1>0, <2>1 DEF CoreInv, Embryos
  <1>13. Waiters'
    <2>1. ASSUME NEW u \in Threads, NEW q \in Threads, call'[u] = "hang",
                 status'[u] = "RUNNING", pid'[q] = parent'[u]
          PROVE  status'[q] # "WAITING"
      <3>1. status[u] = "RUNNING"
        BY <1>1, <1>3, <1>4, <2>1
      <3>2. u = t
        BY <1>0, <1>4, <3>1
      <3>3. QED
        BY <1>0, <1>3, <1>5, <2>1, <3>2
    <2>2. QED
      BY <1>0, <1>5, <2>1 DEF CoreInv, Waiters
  <1>14. PidRoom'
    <2>1. Forking' \subseteq Forking /\ used' \subseteq used
      BY <1>0, <1>7 DEF Forking
    <2>2. QED
      BY <1>0, <2>1, RoomKept DEF CoreInv
  <1>15. QED
    BY <1>8, <1>9, <1>10, <1>11, <1>12, <1>13, <1>14 DEF CoreInv

-----------------------------------------------------------------------------
(* The theorems.                                                           *)

\* The state thread_init leaves.
LEMMA ProcInitial ==
  ASSUME SchedAssumption, ProcessAssumption, Init
  PROVE  ProcInv
  <1>0. SchedInv
    BY SchedInitial DEF Init
  <1>a. /\ Main \in Threads /\ Idle \in Threads /\ InitThread \in Threads
        /\ Main # Idle /\ Main # InitThread /\ InitThread # Idle
        /\ NoPid = 0 /\ InitPid = 1 /\ Pids = 1..MaxPid /\ MaxPid \in Nat /\ MaxPid >= 3
    BY <1>0, Basics
  <1>1. /\ all \in Seq(Threads) /\ Len(all) = 3
        /\ all[1] = InitThread /\ all[2] = Main /\ all[3] = Idle
    BY <1>a DEF Init
  <1>2. 1..3 = {1, 2, 3} /\ \A i \in {1, 2, 3} : i \in 0..MaxPid /\ i \in 1..MaxPid
    BY <1>a
  <1>3. IsInjective(all)
    BY SMTT(30), <1>a, <1>1, <1>2, FindFacts
  <1>4. \A t : elem_find(all, t) <=> t \in {InitThread, Main, Idle}
    <2>1. \A t : elem_find(all, t) <=> \E i \in 1..Len(all) : all[i] = t
      BY <1>1, FindFacts
    <2>2. \A t : elem_find(all, t) <=> \E i \in {1, 2, 3} : all[i] = t
      BY <1>1, <1>2, <2>1
    <2>3. \A t : (\E i \in {1, 2, 3} : all[i] = t) <=> t \in {all[1], all[2], all[3]}
      BY Zenon
    <2>4. QED
      BY <1>1, <2>2, <2>3
  <1>5. /\ pid \in [Threads -> 0..MaxPid] /\ parent \in [Threads -> 0..MaxPid]
        /\ used \in SUBSET Pids /\ call \in [Threads -> Calls]
    BY <1>a, <1>2 DEF Init, Calls
  <1>6. /\ pid[InitThread] = 1 /\ pid[Main] = 2 /\ pid[Idle] = 3
        /\ call[InitThread] = "boot" /\ call[Main] = "user" /\ call[Idle] = "user"
        /\ status[InitThread] = "READY" /\ status[Main] = "RUNNING" /\ status[Idle] = "READY"
        /\ used = {1, 2, 3}
        /\ \A t \in Threads : parent[t] = NoPid
        /\ \A t \in Threads \ {InitThread, Main, Idle} :
             pid[t] = NoPid /\ call[t] = "free" /\ status[t] = "DIED"
    BY <1>a DEF Init, SchedInit
  <1>7. Places
    <2>1. ASSUME NEW t \in Threads PROVE PlaceOK(t)
      <3>1. CASE t \in {InitThread, Main, Idle}
        BY <1>a, <1>4, <1>6, <3>1 DEF PlaceOK, InCall
      <3>2. CASE t \notin {InitThread, Main, Idle}
        BY <1>4, <1>6, <3>2 DEF PlaceOK, InCall
      <3>3. QED
        BY <3>1, <3>2
    <2>2. QED
      BY <1>a, <1>6, <2>1 DEF Places, RootsOK
  <1>8. \A t \in Threads : call[t] \in {"boot", "user", "free"} /\ status[t] # "WAITING"
    BY <1>6
  <1>9. PidsUnique
    BY <1>a, <1>6 DEF PidsUnique
  <1>10. Parents /\ Embryos /\ Waiters
    BY <1>6, <1>8 DEF Parents, Embryos, Waiters
  <1>11. PidRoom
    <2>1. Forking = {}
      BY <1>8 DEF Forking
    <2>2. Cardinality(Forking) = 0
      BY <2>1, FS_EmptySet
    <2>3. Cardinality(Pids \ used) \in Nat
      BY FinitePids, FS_CardinalityType
    <2>4. QED
      BY <2>2, <2>3 DEF PidRoom
  <1>12. QED
    BY <1>0, <1>1, <1>3, <1>5, <1>7, <1>9, <1>10, <1>11 DEF ProcInv, CoreInv, ProcTypes

\* Every step of a process keeps the invariant.
LEMMA ProcInvStep ==
  ASSUME SchedAssumption, ProcessAssumption, ProcInv, [Next]_vars
  PROVE  ProcInv'
  <1>1. SchedInv'
    BY StepUsesScheduler, SchedInvStep DEF ProcInv
  <1>2. CASE Timer \/ IdleStep
    BY <1>1, <1>2, SwitchSteady, SteadyKeeps DEF ProcInv
  <1>3. CASE MainLeaves
    BY <1>1, <1>3, MainKeeps DEF ProcInv
  <1>4. ASSUME NEW t \in Threads,
               \/ \E c \in {"other", "fork", "wait", "exit"} : Enter(t, c)
               \/ Leave(t) \/ wait_none(t)
        PROVE  ProcInv'
    BY <1>1, <1>4, CallKeeps DEF ProcInv
  <1>5. ASSUME NEW t \in Threads, Sleep(t)
        PROVE  ProcInv'
    BY <1>1, <1>5, SleepSteady, SteadyKeeps DEF ProcInv
  <1>6. ASSUME NEW t \in Threads, Wake(t)
        PROVE  ProcInv'
    BY <1>1, <1>6, WakeSteady, SteadyKeeps DEF ProcInv
  <1>7. ASSUME NEW t \in Threads, NEW c \in Threads \ {Main},
               fork_pid(t, c) \/ sys_fork(t, c) \/ sys_fork_fails(t, c)
        PROVE  ProcInv'
    BY <1>1, <1>7, ForkKeeps, StartKeeps, ForkFailKeeps DEF ProcInv
  <1>8. ASSUME NEW t \in Threads, wait_reap(t) \/ wait_block(t)
        PROVE  ProcInv'
    BY <1>1, <1>8, ReapKeeps, WaitKeeps DEF ProcInv
  <1>9. ASSUME NEW t \in Threads, exit_adopt(t) \/ exit_wake(t) \/ exit_hang(t)
        PROVE  ProcInv'
    BY <1>1, <1>9, AdoptKeeps, TellKeeps, HangKeeps DEF ProcInv
  <1>10. CASE UNCHANGED vars
    <2>1. UNCHANGED <<status, iflag>> /\ UNCHANGED procVars
      BY <1>10 DEF vars, schedVars
    <2>2. \A t \in Threads \ {Idle} : Steady(t)
      BY <2>1 DEF ProcInv, CoreInv, Places, PlaceOK, Steady
    <2>3. QED
      BY <1>1, <2>1, <2>2, SteadyKeeps DEF ProcInv
  <1>11. QED
    BY <1>2, <1>3, <1>4, <1>5, <1>6, <1>7, <1>8, <1>9, <1>10 DEF Next, KernelStep

\* The invariant holds in every state a process can bring about (fork.c:14,
\* wait_exit.c:83-128, thread.c:34-47, 281-301).
THEOREM ProcInvariant == Spec => []ProcInv
  <1>1. Init => ProcInv
    BY ProcInitial, SchedAssumption, ProcessAssumption
  <1>2. ProcInv /\ [Next]_vars => ProcInv'
    BY ProcInvStep, SchedAssumption, ProcessAssumption
  <1>3. QED
    BY <1>1, <1>2, PTL DEF Spec

\* No two task_structs ever have the same pid, and a pid in use is marked.
THEOREM PidsAlwaysUnique == Spec => []PidsUnique
  <1>1. ProcInv => PidsUnique
    BY DEF ProcInv, CoreInv
  <1>2. QED
    BY <1>1, ProcInvariant, PTL

\* The parent of a thread is alive and has not begun to die, whatever sleeps in
\* between: pid2thread in sys_exit never returns a null pointer or a stranger.
THEOREM ParentsAlive == Spec => []ParentAlive
  <1>1. ProcInv => ParentAlive
    <2>1. SUFFICES ASSUME ProcInv, NEW t \in Threads, parent[t] # NoPid
                   PROVE  \E p \in Range(all) : /\ pid[p] = parent[t]
                                                /\ status[p] # "HANGING"
                                                /\ call[p] \notin {"release", "hang"}
      BY DEF ParentAlive
    <2>2. PICK p \in Threads : /\ elem_find(all, p) /\ pid[p] = parent[t]
                               /\ call[p] \notin {"release", "hang"}
      BY <2>1 DEF ProcInv, CoreInv, Parents
    <2>3. status[p] # "HANGING"
      BY <2>1, <2>2 DEF ProcInv, CoreInv, Places, PlaceOK
    <2>4. QED
      BY <2>2, <2>3 DEF elem_find
  <1>2. QED
    BY <1>1, ProcInvariant, PTL

\* No wakeup is lost between sys_wait and sys_exit, however their steps
\* interleave with forks, adoptions and the end of main.
THEOREM NoZombieForWaiter == Spec => []WaiterHasNoZombie
  <1>1. ProcInv => WaiterHasNoZombie
    <2>1. SUFFICES ASSUME ProcInv, NEW p \in Threads, status[p] = "WAITING"
                   PROVE  /\ find_child(p)
                          /\ p # InitThread => find_hanging_child(p) = {}
      BY DEF WaiterHasNoZombie
    <2>2. all \in Seq(Threads)
      BY <2>1 DEF ProcInv, CoreInv, ProcTypes
    <2>3. Range(all) \subseteq Threads
      BY <2>2, LenProperties, ElementOfSeq DEF Range
    <2>4. QED
      BY <2>1, <2>3
         DEF ProcInv, CoreInv, Waiters, find_child, find_hanging_child, elem_find
  <1>2. QED
    BY <1>1, ProcInvariant, PTL

\* No ASSERT and no PANIC of fork, wait, exit or the scheduler is reached.
THEOREM ProcNeverPanics == Spec => []NoPanic
  <1>1. ProcInv => NoPanic
    BY DEF ProcInv, SchedInv
  <1>2. QED
    BY <1>1, ProcInvariant, PTL

\* fork, wait, exit and the end of main implement the scheduler's
\* specification: each of their steps is one its contracts allow, or none.
THEOREM ProcImplementsSched == Spec => UsesScheduler
  <1>1. Init => SchedInit
    BY DEF Init
  <1>2. ProcInv /\ [Next]_vars => [SchedNext]_schedVars
    BY StepUsesScheduler, SchedAssumption, ProcessAssumption
  <1>3. QED
    BY <1>1, <1>2, ProcInvariant, PTL DEF Spec, UsesScheduler, SchedSpec
=============================================================================
