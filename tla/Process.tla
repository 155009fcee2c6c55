------------------------------ MODULE Process ------------------------------
(***************************************************************************)
(* The life of a process: fork (userprog/fork.c), wait and exit            *)
(* (userprog/wait_exit.c), the pid pool and thread_all_list                *)
(* (thread/thread.c) and the process init (kernel/main.c), on top of the   *)
(* scheduler.                                                              *)
(*                                                                         *)
(* A system call runs with interrupts disabled.  fork and exit allocate    *)
(* and free kernel memory under kernel_pool.lock; only main, a kernel      *)
(* thread, can be preempted while it holds that lock, so they may block    *)
(* there as long as main lives and never afterwards.                       *)
(*                                                                         *)
(* A thread stands for the page of its task_struct.                        *)
(***************************************************************************)
EXTENDS Sched, FiniteSets

CONSTANTS MaxPid,     \* bound: the size of the pid pool (1024 in the code)
          Sleepers    \* the threads that may block for a device or a lock

ASSUME ProcessAssumption ==
  /\ IsFiniteSet(Threads) /\ Sleepers \subseteq Threads
  /\ MaxPid \in Nat /\ MaxPid >= 3

VARIABLES all,        \* thread_all_list
          pid,        \* task_struct.pid
          parent,     \* task_struct.parent_pid
          used,       \* the bits set in pid_pool
          call        \* where the thread is

procVars == <<all, pid, parent, used, call>>
vars == <<schedVars, procVars>>

NoPid == 0            \* parent_pid of a thread nobody forked (-1 in the code)
InitPid == 1
Pids == 1..MaxPid

(* call[t]:                                                                *)
(* "free":    the page is not a task_struct                                *)
(* "boot":    init before its fork                                         *)
(* "user":    in user code, or (main, idle) in code of no interest here    *)
(* "other":   in some other system call, or about to return from one       *)
(* "fork":    in sys_fork, before fork_pid;  "copy": after it              *)
(* "embryo":  a task_struct that sys_fork fills and nobody sees yet        *)
(* "wait":    in the loop of sys_wait                                      *)
(* "exit", "release", "hang": in sys_exit, before the adoption, while it   *)
(*            frees memory and files, and after it has woken the parent    *)

At(t, c) == Running(t) /\ call[t] = c
Goto(t, c) == call' = [call EXCEPT ![t] = c]

\* After thread_init: init was made first, then main, then idle.
Init ==
  /\ SchedInit
  /\ all = <<InitThread, Main, Idle>>
  /\ pid = [t \in Threads |-> CASE t = InitThread -> InitPid [] t = Main -> 2
                                [] t = Idle -> 3 [] OTHER -> NoPid]
  /\ parent = [t \in Threads |-> NoPid]
  /\ used = {1, 2, 3}
  /\ call = [t \in Threads |-> CASE t = InitThread -> "boot"
                                 [] t \in {Main, Idle} -> "user"
                                 [] OTHER -> "free"]

-----------------------------------------------------------------------------
\* Bound: a fork begins only if the model has a page and a pid left for it; the
\* kernel would panic in bitmap_scan.
Room ==
  LET forking == Cardinality({t \in Threads : call[t] = "fork"})
  IN /\ forking < Cardinality({t \in Threads \ {Main} : call[t] = "free"})
     /\ forking < Cardinality(Pids \ used)

\* int 0x80.  init forks once and then waits for ever; it never exits.
Enter(t, c) ==
  /\ IntrDisable(t) /\ t # Main
  /\ t = InitThread => c = IF call[t] = "boot" THEN "fork" ELSE "wait"
  /\ c = "fork" => Room
  /\ c = "other" => t \in Sleepers
  /\ Goto(t, c)
  /\ UNCHANGED <<all, pid, parent, used>>

\* The return to user code.
Leave(t) ==
  /\ At(t, "other") /\ IntrEnable(t)
  /\ Goto(t, "user")
  /\ UNCHANGED <<all, pid, parent, used>>

\* A thread blocks for a device or a lock: a process in another system call,
\* main, or a fork or exit on kernel_pool.lock.  It is woken by the running
\* thread or by an interrupt.
Sleep(t) ==
  /\ Running(t) /\ t \in Sleepers
  /\ \/ t = Main
     \/ call[t] = "other"
     \/ call[t] \in {"fork", "copy", "release"} /\ status[Main] # "DIED"
  /\ Block(t, "BLOCKED") /\ UNCHANGED procVars

Wake(t) ==
  /\ status[t] = "BLOCKED" /\ (iflag[cur] \/ call[cur] \in {"other", "fork", "copy", "release"})
  /\ Unblock(t) /\ UNCHANGED procVars

\* allocate_pid: the lowest free pid.  (Faulty variant: one more than the
\* number of pids in use.)
FreePid_count == Cardinality(used) + 1
FreePid == CHOOSE p \in Pids \ used : \A q \in Pids \ used : p <= q

\* sys_fork up to fork_pid: the child's task_struct is a copy of the parent's.
fork_pid(t, c) ==
  /\ At(t, "fork") /\ call[c] = "free"
  /\ pid' = [pid EXCEPT ![c] = FreePid]
  /\ used' = used \cup {FreePid}
  /\ parent' = [parent EXCEPT ![c] = pid[t]]
  /\ call' = [call EXCEPT ![t] = "copy", ![c] = "embryo"]
  /\ UNCHANGED <<schedVars, all>>

ChildOf(t, c) == call[c] = "embryo" /\ parent[c] = pid[t]

\* The rest of sys_fork.  The child returns from the same system call.
sys_fork(t, c) ==
  /\ At(t, "copy") /\ ChildOf(t, c)
  /\ Start(c)
  /\ all' = list_append(all, c)
  /\ call' = [call EXCEPT ![t] = "other", ![c] = "user"]
  /\ UNCHANGED <<pid, parent, used>>

\* copy_process fails: the page of the child and its pid are not given back.
sys_fork_fails(t, c) ==
  /\ At(t, "copy") /\ ChildOf(t, c)
  /\ call' = [call EXCEPT ![t] = "other", ![c] = "free"]
  /\ pid' = [pid EXCEPT ![c] = NoPid]
  /\ parent' = [parent EXCEPT ![c] = NoPid]
  /\ UNCHANGED <<schedVars, all, used>>

-----------------------------------------------------------------------------
(* sys_wait: each turn of its loop.                                        *)

find_hanging_child(t) == {c \in Range(all) : parent[c] = pid[t] /\ status[c] = "HANGING"}
find_child(t) == \E c \in Range(all) : parent[c] = pid[t]

\* thread_exit takes t out of thread_all_list.
Unlisted(t) == list_remove(all, t)

\* thread_exit(child, false): its page and its pid are free again.
wait_reap(t) ==
  /\ At(t, "wait") /\ find_hanging_child(t) # {}
  /\ LET c == list_traversal(all, find_hanging_child(t))
     IN /\ Reap(c)
        /\ all' = Unlisted(c)
        /\ used' = used \ {pid[c]}
        /\ pid' = [pid EXCEPT ![c] = NoPid]
        /\ parent' = [parent EXCEPT ![c] = NoPid]
        /\ call' = [call EXCEPT ![t] = "other", ![c] = "free"]

wait_none(t) ==
  /\ At(t, "wait") /\ find_hanging_child(t) = {} /\ ~find_child(t)
  /\ Goto(t, "other")
  /\ UNCHANGED <<schedVars, all, pid, parent, used>>

wait_block(t) ==
  /\ At(t, "wait") /\ find_hanging_child(t) = {} /\ find_child(t)
  /\ Block(t, "WAITING") /\ UNCHANGED procVars

-----------------------------------------------------------------------------
(* sys_exit.                                                               *)

\* init_adopt_a_child, for every thread.  (Faulty variant: no adoption.)
Adopted_kept(p) == parent
Adopted(p) == [x \in Threads |-> IF elem_find(all, x) /\ parent[x] = p
                                 THEN InitPid ELSE parent[x]]
exit_adopt(t) ==
  /\ At(t, "exit")
  /\ panic' = (parent[t] = NoPid)
  /\ parent' = Adopted(pid[t])
  /\ Goto(t, "release")
  /\ UNCHANGED <<status, ready, ticks, cur, iflag, idlePc, all, pid, used>>

pid_check(p) == {x \in Range(all) : pid[x] = p}
pid2thread(p) == list_traversal(all, pid_check(p))

\* Faulty variants: the parent is never woken; it is woken unasked.
ParentWaits_no(t) == FALSE
ParentWaits_unchecked(t) == TRUE
ParentWaits(t) == status[pid2thread(parent[t])] = "WAITING"

\* release_prog_resource is over; a parent that does not exist would be a
\* null pointer.
exit_wake(t) ==
  /\ At(t, "release")
  /\ IF pid_check(parent[t]) = {}
     THEN panic' = TRUE /\ UNCHANGED <<status, ready, ticks, cur>>
     ELSE IF ParentWaits(t)
     THEN ThreadUnblock(pid2thread(parent[t]))
     ELSE UNCHANGED <<status, ready, ticks, cur, panic>>
  /\ Goto(t, "hang")
  /\ UNCHANGED <<iflag, idlePc, all, pid, parent, used>>

exit_hang(t) == At(t, "hang") /\ Block(t, "HANGING") /\ UNCHANGED procVars

-----------------------------------------------------------------------------
\* main ends, thread_exit(main, true), with no lock held.
MainLeaves ==
  /\ \A t \in Threads : call[t] \in {"fork", "copy", "release"} => status[t] # "BLOCKED"
  /\ MainExit
  /\ all' = Unlisted(Main)
  /\ used' = used \ {pid[Main]}
  /\ pid' = [pid EXCEPT ![Main] = NoPid]
  /\ Goto(Main, "free")
  /\ UNCHANGED parent

Timer == intr_timer_handler /\ UNCHANGED procVars
IdleStep == (IdleBlock \/ IdleHalt) /\ UNCHANGED procVars

\* What a thread inside fork, wait or exit does next.
KernelStep(t) ==
  \/ \E c \in Threads \ {Main} :
       fork_pid(t, c) \/ sys_fork(t, c) \/ sys_fork_fails(t, c)
  \/ wait_reap(t) \/ wait_none(t) \/ wait_block(t)
  \/ exit_adopt(t) \/ exit_wake(t) \/ exit_hang(t)

Next ==
  \/ Timer \/ IdleStep \/ MainLeaves
  \/ \E t \in Threads :
       \/ \E c \in {"other", "fork", "wait", "exit"} : Enter(t, c)
       \/ Leave(t) \/ Sleep(t) \/ Wake(t)
       \/ KernelStep(t)

Spec == Init /\ [][Next]_vars

(***************************************************************************)
(* Fairness: the timer and idle as in Sync; fork, wait and exit run to     *)
(* their end when they get the CPU often enough, and so do the return to   *)
(* user code and the loop of init.  Nothing is assumed of user programs.   *)
(***************************************************************************)
Progress(t) == \/ KernelStep(t) \/ Leave(t)
               \/ t = InitThread /\ \E c \in {"fork", "wait"} : Enter(t, c)

Fairness ==
  /\ SF_vars(Timer)
  /\ WF_vars(IdleStep)
  /\ \A t \in Threads \ {Main, Idle} : SF_vars(Progress(t))

FairSpec == Spec /\ Fairness

-----------------------------------------------------------------------------
(* Properties.                                                             *)

\* No two task_structs have the same pid, although pids are given back and
\* used again, and every pid in use is marked in the pool, also between the
\* two halves of fork (thread.c:34-47, fork.c:14, thread.c:296).
PidsUnique ==
  \A t \in Threads : pid[t] # NoPid =>
    /\ pid[t] \in used
    /\ \A u \in Threads : pid[u] = pid[t] => u = t

\* The parent of a thread is alive and has not begun to die, so that the
\* pid2thread of sys_exit finds the right thread: parents adopt their children
\* away before they die, even if they sleep in between, and a reused pid never
\* makes a stranger somebody's parent (wait_exit.c:83-90, 122-127).
ParentAlive ==
  \A t \in Threads : parent[t] # NoPid =>
    \E p \in Range(all) : /\ pid[p] = parent[t]
                          /\ status[p] # "HANGING"
                          /\ call[p] \notin {"release", "hang"}

\* No lost wakeup between wait and exit: a process that sleeps in sys_wait has
\* a child, and none that already hangs.  Not true of init, which adopts
\* without being woken (wait_exit.c:94-113, 124-128).
WaiterHasNoZombie ==
  \A p \in Threads : status[p] = "WAITING" =>
    /\ find_child(p)
    /\ p # InitThread => find_hanging_child(p) = {}

\* fork, wait, exit and main's end use the scheduler as its contracts allow.
UsesScheduler == SchedSpec

\* A wait for a child that has exited returns.
WaitReturns ==
  \A p \in Threads \ {Main, Idle, InitThread} :
    call[p] = "wait" /\ find_hanging_child(p) # {} ~> call[p] # "wait"

\* Every exited child of init is reaped.  This is what README.md:49 says of
\* wait and exit, and what the loop of init is there for (main.c:43-49).
OrphanReaped ==
  \A t \in Threads \ {Main, Idle, InitThread} :
    status[t] = "HANGING" /\ parent[t] = InitPid ~> status[t] = "DIED"
=============================================================================
