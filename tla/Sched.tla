------------------------------- MODULE Sched -------------------------------
(***************************************************************************)
(* The scheduler of the kernel: the ready list and the thread states of    *)
(* thread/thread.c and the timer interrupt of device/timer.c, on the       *)
(* single CPU the kernel drives.                                           *)
(*                                                                         *)
(* One step is a stretch of code that runs with interrupts disabled, or    *)
(* one access to shared state made with interrupts enabled.  Threads are   *)
(* what the kernel calls task_structs; a thread that is not alive (never   *)
(* started, or thread_exit was called for it) has status DIED.             *)
(*                                                                         *)
(* The clients of the scheduler (locks, queues, wait/exit, the disk) are   *)
(* here an arbitrary environment that calls thread_block, thread_unblock,  *)
(* thread_yield, thread_start and thread_exit the way their contracts      *)
(* allow; the other modules put the real clients in its place.             *)
(***************************************************************************)
EXTENDS Naturals, List

CONSTANTS Threads,     \* every thread that can exist, the idle thread included
          Main,        \* the thread that boots the kernel (main_thread)
          InitThread,  \* the process init, which thread_init starts first
          Idle,        \* idle_thread
          Priority     \* Priority[t]: the ticks of a full time slice of t

ASSUME SchedAssumption ==
  /\ {Main, InitThread, Idle} \subseteq Threads
  /\ Main # Idle /\ Main # InitThread /\ InitThread # Idle
  /\ Priority \in [Threads -> 0..255]

VARIABLES status,      \* task_struct.status
          ready,       \* thread_ready_list, head first
          ticks,       \* task_struct.ticks, what is left of the time slice
          cur,         \* running_thread()
          iflag,       \* iflag[t]: is IF set in t's context (now, or when t is resumed)
          idlePc,      \* where idle() is: at thread_block, at "sti", or halted
          panic        \* an ASSERT or a PANIC stopped the machine

schedVars == <<status, ready, ticks, cur, iflag, idlePc, panic>>

Status == {"RUNNING", "READY", "BLOCKED", "WAITING", "HANGING", "DIED"}

\* The states thread_unblock accepts.
Blocked == {"BLOCKED", "WAITING", "HANGING"}

\* The time slice that is left never exceeds the thread's priority: ticks does
\* not wrap around below 0 (timer.c:40-44).
SchedTypeOK ==
  /\ status \in [Threads -> Status]
  /\ ready \in Seq(Threads)
  /\ ticks \in [Threads -> 0..255] /\ \A t \in Threads : ticks[t] <= Priority[t]
  /\ cur \in Threads
  /\ iflag \in [Threads -> BOOLEAN]
  /\ idlePc \in {"block", "sti", "hlt"}
  /\ panic \in BOOLEAN

-----------------------------------------------------------------------------
(* thread.c.  An operator that other code calls takes the status and the   *)
(* ready list as the caller has left them.                                 *)

\* thread_unblock puts the thread at the FRONT of the ready list.
UnblockReady(rd, t)  == list_push(rd, t)
UnblockStatus(st, t) == [st EXCEPT ![t] = "READY"]
UnblockAsserts(st, rd, t) == st[t] \in Blocked /\ ~elem_find(rd, t)

\* Faulty variants: requeued at the front, or even if it blocked.
Requeued_front(st, rd)  == IF st[cur] = "RUNNING" THEN list_push(rd, cur) ELSE rd
Requeued_always(st, rd) == list_append(rd, cur)

\* schedule(): the running thread, if it is still RUNNING, goes to the tail
\* of the ready list with a fresh time slice; with nothing ready idle_thread
\* is unblocked; the head of the list runs next.
Expired(st) == st[cur] = "RUNNING"
Requeued(st, rd) == IF Expired(st) THEN list_append(rd, cur) ELSE rd
Schedule(st, rd) ==
  LET rd1  == Requeued(st, rd)
      st1  == IF Expired(st) THEN [st EXCEPT ![cur] = "READY"] ELSE st
      rd2  == IF rd1 = << >> THEN UnblockReady(rd1, Idle) ELSE rd1
      st2  == IF rd1 = << >> THEN UnblockStatus(st1, Idle) ELSE st1
      next == Head(rd2)
  IN /\ ready'  = Tail(rd2)
     /\ status' = [st2 EXCEPT ![next] = "RUNNING"]
     /\ cur'    = next
     /\ ticks'  = IF Expired(st) THEN [ticks EXCEPT ![cur] = Priority[cur]]
                                 ELSE ticks

\* The ASSERTs that schedule() runs into.
ScheduleAsserts(st, rd) ==
  /\ Expired(st) => ~elem_find(rd, cur)
  /\ Requeued(st, rd) = << >> => UnblockAsserts(st, rd, Idle)

\* thread_block(stat) by the running thread.
ThreadBlock(stat) ==
  LET st == [status EXCEPT ![cur] = stat]
  IN /\ panic' = ~ScheduleAsserts(st, ready)
     /\ Schedule(st, ready)

\* thread_unblock(t).
ThreadUnblock(t) ==
  /\ panic'  = ~UnblockAsserts(status, ready, t)
  /\ ready'  = UnblockReady(ready, t)
  /\ status' = UnblockStatus(status, t)
  /\ UNCHANGED <<ticks, cur>>

\* Faulty variant: enters the list but stays RUNNING.
ThreadYield_running ==
  LET rd == list_append(ready, cur)
  IN /\ panic' = (elem_find(ready, cur) \/ ~ScheduleAsserts(status, rd))
     /\ Schedule(status, rd)

\* thread_yield(): the thread enters the list itself, before schedule(), so
\* that its time slice is not renewed.
ThreadYield ==
  LET st == [status EXCEPT ![cur] = "READY"]
      rd == list_append(ready, cur)
  IN /\ panic' = (elem_find(ready, cur) \/ ~ScheduleAsserts(st, rd))
     /\ Schedule(st, rd)

\* init_thread and thread_start (or the end of sys_fork): t is made READY at
\* the tail of the list.
ThreadStart(t) ==
  /\ panic'  = elem_find(ready, t)
  /\ ready'  = list_append(ready, t)
  /\ status' = [status EXCEPT ![t] = "READY"]
  /\ ticks'  = [ticks EXCEPT ![t] = Priority[t]]
  /\ UNCHANGED cur

\* What thread_exit(t, ...) does to the list and the states, before it
\* schedules if asked to.
ExitReady(t)  == IF elem_find(ready, t) THEN list_remove(ready, t) ELSE ready
ExitStatus(t) == [status EXCEPT ![t] = "DIED"]

-----------------------------------------------------------------------------
(* The steps of the scheduler.  After a panic nothing moves.               *)

\* intr_timer_handler, with the interrupt delivered to the running thread.
\* An interrupt ends the hlt of the idle thread.
SliceOver_never == FALSE    \* faulty variant: ticks wrap around
SliceOver == ticks[cur] = 0
intr_timer_handler ==
  /\ ~panic /\ iflag[cur]
  /\ IF SliceOver
     THEN /\ panic' = ~ScheduleAsserts(status, ready)
          /\ Schedule(status, ready)
     ELSE /\ ticks' = [ticks EXCEPT ![cur] = (@ - 1) % 256]
          /\ UNCHANGED <<status, ready, cur, panic>>
  /\ idlePc' = IF cur = Idle /\ idlePc = "hlt" THEN "block" ELSE idlePc
  /\ UNCHANGED iflag

\* idle(): block, and once resumed enable interrupts and halt.
IdleBlock ==
  /\ ~panic /\ cur = Idle /\ idlePc = "block"
  /\ ThreadBlock("BLOCKED")
  /\ idlePc' = "sti"
  /\ UNCHANGED iflag

IdleHalt ==
  /\ ~panic /\ cur = Idle /\ idlePc = "sti"
  /\ idlePc' = "hlt"
  /\ UNCHANGED <<status, ready, ticks, cur, iflag, panic>>

\* After thread_init.
SchedInit ==
  /\ status = [t \in Threads |-> CASE t = Main -> "RUNNING"
                                   [] t \in {InitThread, Idle} -> "READY"
                                   [] OTHER -> "DIED"]
  /\ ready = <<InitThread, Idle>>
  /\ ticks = Priority
  /\ cur = Main
  /\ iflag = [t \in Threads |-> TRUE]
  /\ idlePc = "block"
  /\ panic = FALSE

-----------------------------------------------------------------------------
(* The environment: the code that the current thread runs, and the         *)
(* interrupt handlers that wake a thread.                                  *)

Running(t) == ~panic /\ cur = t /\ t # Idle

\* intr_disable() / intr_enable(), also the entry to and the return from a
\* system call (int 0x80 is an interrupt gate).
IntrDisable(t) ==
  /\ Running(t) /\ iflag[t]
  /\ iflag' = [iflag EXCEPT ![t] = FALSE]
  /\ UNCHANGED <<status, ready, ticks, cur, idlePc, panic>>

IntrEnable(t) ==
  /\ Running(t) /\ ~iflag[t]
  /\ iflag' = [iflag EXCEPT ![t] = TRUE]
  /\ UNCHANGED <<status, ready, ticks, cur, idlePc, panic>>

\* A thread blocks; its caller may have disabled interrupts first.
Block(t, stat) ==
  /\ Running(t)
  /\ ThreadBlock(stat)
  /\ \E i \in {iflag[t], FALSE} : iflag' = [iflag EXCEPT ![t] = i]
  /\ UNCHANGED idlePc

Yield(t) ==
  /\ Running(t)
  /\ ThreadYield
  /\ UNCHANGED <<iflag, idlePc>>

\* A thread is unblocked by the running thread, or by an interrupt handler
\* (keyboard, disk) on top of whatever runs.
Unblock(t) ==
  /\ ~panic /\ t # Idle /\ status[t] \in {"BLOCKED", "WAITING"}
  /\ cur = Idle => iflag[Idle]
  /\ ThreadUnblock(t)
  /\ idlePc' = IF cur = Idle /\ idlePc = "hlt" THEN "block" ELSE idlePc
  /\ UNCHANGED iflag

\* A thread is started by the running one, thread_start or fork; it will
\* enable interrupts first.
Start(t) ==
  /\ ~panic /\ cur # Idle /\ t # Main /\ status[t] = "DIED"
  /\ ThreadStart(t)
  /\ iflag' = [iflag EXCEPT ![t] = TRUE]
  /\ UNCHANGED idlePc

\* sys_wait reaps a hanging child: thread_exit(child, false), which leaves
\* interrupts as the system call has them.
Reap(t) ==
  /\ ~panic /\ cur # Idle /\ status[t] = "HANGING"
  /\ status' = ExitStatus(t)
  /\ ready' = ExitReady(t)
  /\ iflag' = [iflag EXCEPT ![cur] = FALSE]
  /\ UNCHANGED <<ticks, cur, idlePc, panic>>

\* main ends: thread_exit(running_thread(), true).
MainExit ==
  /\ Running(Main)
  /\ panic' = ~ScheduleAsserts(ExitStatus(Main), ExitReady(Main))
  /\ Schedule(ExitStatus(Main), ExitReady(Main))
  /\ iflag' = [iflag EXCEPT ![Main] = FALSE]
  /\ UNCHANGED idlePc

SchedNext ==
  \/ intr_timer_handler
  \/ IdleBlock
  \/ IdleHalt
  \/ MainExit
  \/ \E t \in Threads : \/ IntrDisable(t)
                        \/ IntrEnable(t)
                        \/ \E stat \in Blocked : Block(t, stat)
                        \/ Yield(t)
                        \/ Unblock(t)
                        \/ Start(t)
                        \/ Reap(t)

SchedSpec == SchedInit /\ [][SchedNext]_schedVars

-----------------------------------------------------------------------------
(* Properties.                                                             *)

\* The ready list and the states tell the same story: a thread is in the list
\* exactly once if it is READY and never otherwise, and the running thread is
\* the only one that is RUNNING.  thread_block, thread_unblock, thread_yield,
\* schedule and thread_exit each change the two separately (thread.c:128-209).
ReadyListExact ==
  /\ IsInjective(ready)
  /\ \A t \in Threads : status[t] = "READY" <=> elem_find(ready, t)
  /\ \A t \in Threads : status[t] = "RUNNING" <=> t = cur

\* No ASSERT of thread.c fires, in particular not the one on the idle thread
\* when schedule() finds the list empty (thread.c:163-165, 197-202).
NoPanic == ~panic

\* A READY thread gets the CPU although thread_unblock keeps pushing woken
\* threads in front of it and thread_yield does not renew a time slice.
ReadyRuns == \A t \in Threads : status[t] = "READY" ~> cur = t
=============================================================================
