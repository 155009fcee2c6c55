-------------------------------- MODULE Ide --------------------------------
(***************************************************************************)
(* The disk driver of device/ide.c on one channel: ide_read, ide_write,    *)
(* busy_wait with mtime_sleep (device/timer.c), and the disk's interrupt,  *)
(* on top of the locks of Sync (the channel's lock) and the scheduler.     *)
(* disk_done is a semaphore like those inside the locks, initially 0.      *)
(*                                                                         *)
(* The disk itself is external: it takes a command when it is idle, is     *)
(* busy for a while, asks for the transfer of the data and, for a write,   *)
(* is busy again.  It interrupts when a read has data and when a write is  *)
(* done.  The data of a transfer are left out, and so is a disk that never *)
(* answers (PANIC after the time limit).                                   *)
(***************************************************************************)
EXTENDS Sync

CONSTANT MaxCmds      \* bound: the commands (256 sectors each) of one call

ASSUME IdeAssumption == MaxCmds \in Nat \ {0}

VARIABLES disk,       \* what the disk does
          irq,        \* its interrupt, pending
          expecting,  \* expecting_intr
          done,       \* disk_done.value
          sleepers,   \* disk_done.waiters
          op          \* op[t]: where t is in ide.c, its call, the commands left

ideVars == <<disk, irq, expecting, done, sleepers, op>>
driverVars == <<vars, ideVars>>

(* "out":   not in ide.c;            "lock": in lock_acquire               *)
(* "loop":  at the head of the loop; "cmd":  in cmd_out, before the outb   *)
(* "down":  at sema_down(disk_done); "busy": in busy_wait, at the test     *)
(* "sleep": in ticks_to_sleep, no tick yet;  "woken": after a tick         *)
(* "data":  before the transfer                                            *)
(* disk: "idle", "seek read", "data read", "seek write", "data write",     *)
(* "flush"                                                                 *)
Busy_never == FALSE                  \* faulty variant: does not look
Busy == disk \in {"seek read", "seek write", "flush"}      \* BIT_ALT_STAT_BSY
Asking == disk \in {"data read", "data write"}             \* BIT_ALT_STAT_DRQ

ChannelLock == CHOOSE l \in Locks : TRUE

\* A pending interrupt comes before the next step of a thread that can be
\* interrupted.
Steps(t, at) == /\ InKernel(t) /\ op[t].at = at
                /\ irq => ~iflag[t]
Continue(t, at) == op' = [op EXCEPT ![t].at = at]

\* ide_init.
IdeInit ==
  /\ Init
  /\ disk = "idle" /\ irq = FALSE /\ expecting = FALSE /\ done = 0 /\ sleepers = << >>
  /\ op = [t \in Threads |-> [at |-> "out", call |-> "read", left |-> 0]]

-----------------------------------------------------------------------------
(* ide_read and ide_write.                                                 *)

ide_call(t, call, n) ==
  /\ Steps(t, "out")
  /\ lock_acquire(t, ChannelLock)
  /\ op' = [op EXCEPT ![t] = [at |-> "lock", call |-> call, left |-> n]]
  /\ UNCHANGED <<disk, irq, expecting, done, sleepers>>

ide_locked(t) ==
  /\ Steps(t, "lock") /\ holder[ChannelLock] = t
  /\ Continue(t, "loop")
  /\ UNCHANGED <<vars, disk, irq, expecting, done, sleepers>>

\* select_sector and the first line of cmd_out.  (Faulty variant: the flag is
\* set after the command, when the interrupt may already have come.)
Expected_late == expecting
Expected == TRUE
ide_command(t) ==
  /\ Steps(t, "loop") /\ op[t].left > 0
  /\ expecting' = Expected
  /\ Continue(t, "cmd")
  /\ UNCHANGED <<vars, disk, irq, done, sleepers>>

\* The outb of cmd_out; the disk drops an interrupt nobody has taken.
cmd_out(t) ==
  /\ Steps(t, "cmd")
  /\ disk' = (IF op[t].call = "read" THEN "seek read" ELSE "seek write") /\ irq' = FALSE
  /\ Continue(t, IF op[t].call = "read" THEN "down" ELSE "busy")
  /\ UNCHANGED <<vars, expecting, done, sleepers>>

\* A command is over.
NextCommand(t) == op' = [op EXCEPT ![t].at = "loop", ![t].left = @ - 1]

\* sema_down(&disk_done), one turn of its loop.
sema_down_sleep(t) ==
  /\ Running(t) /\ op[t].at = "down" /\ done = 0 /\ (irq => ~iflag[t])
  /\ sleepers' = list_append(sleepers, t)
  /\ LET st == [status EXCEPT ![t] = "BLOCKED"]
     IN /\ panic' = (elem_find(sleepers, t) \/ ~ScheduleAsserts(st, ready))
        /\ Schedule(st, ready)
  /\ iflag' = [iflag EXCEPT ![t] = FALSE]
  /\ UNCHANGED <<idlePc, lockVars, pc, disk, irq, expecting, done, op>>

\* What follows a command: the transfer of a read, or the next command.
sema_down_done(t) ==
  /\ Running(t) /\ op[t].at = "down" /\ done # 0 /\ (irq => ~iflag[t])
  /\ done' = done - 1
  /\ panic' = (done' # 0)
  /\ iflag' = [iflag EXCEPT ![t] = OldStatus(t)]
  /\ IF op[t].call = "read" THEN Continue(t, "busy") ELSE NextCommand(t)
  /\ UNCHANGED <<status, ready, ticks, cur, idlePc, lockVars, pc, disk, irq, expecting, sleepers>>

\* busy_wait.  Reading the status register takes the interrupt back.
busy_wait(t) ==
  /\ Steps(t, "busy")
  /\ irq' = FALSE
  /\ Continue(t, IF Busy THEN "sleep" ELSE "data")
  /\ panic' = (~Busy /\ ~Asking)
  /\ UNCHANGED <<status, ready, ticks, cur, iflag, idlePc, lockVars, pc,
                 disk, expecting, done, sleepers>>

\* ticks_to_sleep: yields until the tick counter has moved.
mtime_sleep(t) ==
  /\ Steps(t, "sleep")
  /\ Yield(t)
  /\ UNCHANGED <<lockVars, pc, ideVars>>

mtime_sleep_over(t) ==
  /\ Steps(t, "woken")
  /\ Continue(t, "busy")
  /\ UNCHANGED <<vars, disk, irq, expecting, done, sleepers>>

\* After its data a write waits for the disk.  (Faulty variant: it
\* does not wait.)
AfterData_nowait(t) == NextCommand(t)
AfterData(t) == IF op[t].call = "read" THEN NextCommand(t) ELSE Continue(t, "down")

\* read_from_sector and write2sector.  The disk interrupts for every sector of
\* a read: what comes during the transfer stays pending if it cannot be taken.
transfer(t) ==
  /\ Steps(t, "data")
  /\ IF op[t].call = "read"
     THEN /\ disk' = "idle"
          /\ irq' \in IF iflag[t] THEN {FALSE} ELSE BOOLEAN
     ELSE disk' = "flush" /\ UNCHANGED irq
  /\ AfterData(t)
  /\ UNCHANGED <<vars, expecting, done, sleepers>>

ide_unlock(t) ==
  /\ Steps(t, "loop") /\ op[t].left = 0
  /\ lock_release(t, ChannelLock)
  /\ Continue(t, "out")
  /\ UNCHANGED <<disk, irq, expecting, done, sleepers>>

-----------------------------------------------------------------------------
(* The disk and the rest of the machine.                                   *)

disk_answers ==
  /\ \/ disk = "seek read"  /\ disk' = "data read"  /\ irq' = TRUE
     \/ disk = "seek write" /\ disk' = "data write" /\ UNCHANGED irq
     \/ disk = "flush"      /\ disk' = "idle"       /\ irq' = TRUE
  /\ UNCHANGED <<vars, expecting, done, sleepers, op>>

\* (Faulty variant: the flag is not taken back.)
Answered_kept == expecting
Answered == FALSE

intr_hd_handler ==
  /\ ~panic /\ irq /\ iflag[cur]
  /\ irq' = FALSE
  /\ expecting' = Answered
  /\ IF expecting
     THEN /\ done' = done + 1
          /\ IF sleepers # << >>
             THEN LET w == Head(sleepers)
                  IN /\ sleepers' = Tail(sleepers)
                     /\ ready' = UnblockReady(ready, w)
                     /\ status' = UnblockStatus(status, w)
                     /\ panic' = (done # 0 \/ ~UnblockAsserts(status, ready, w))
             ELSE panic' = (done # 0) /\ UNCHANGED <<sleepers, ready, status>>
     ELSE UNCHANGED <<done, sleepers, ready, status, panic>>
  /\ idlePc' = IF cur = Idle /\ idlePc = "hlt" THEN "block" ELSE idlePc
  /\ UNCHANGED <<ticks, cur, iflag, lockVars, pc, disk, op>>

\* The tick counter moves: whoever sleeps in ticks_to_sleep sees it.
IdeTimer ==
  /\ Timer
  /\ op' = [t \in Threads |-> IF op[t].at = "sleep" THEN [op[t] EXCEPT !.at = "woken"]
                                                   ELSE op[t]]
  /\ UNCHANGED <<disk, irq, expecting, done, sleepers>>

IdeMachine ==
  /\ \/ IdleStep \/ MainLeaves
     \/ \E t \in SysThreads : \/ SyscallEnter(t)
                              \/ StartThread(t)
                              \/ op[t].at = "out" /\ SyscallReturn(t)
  /\ UNCHANGED ideVars

DriverStep(t) ==
  \/ ide_locked(t) \/ ide_command(t) \/ cmd_out(t) \/ sema_down_sleep(t)
  \/ sema_down_done(t) \/ busy_wait(t) \/ mtime_sleep(t) \/ mtime_sleep_over(t)
  \/ transfer(t) \/ ide_unlock(t)
  \/ LockStep(t) /\ UNCHANGED ideVars

IdeNext ==
  \/ IdeMachine \/ IdeTimer \/ disk_answers \/ intr_hd_handler
  \/ \E t \in Threads :
       \/ DriverStep(t)
       \/ \E call \in {"read", "write"}, n \in 1..MaxCmds : ide_call(t, call, n)

IdeSpec == IdeInit /\ [][IdeNext]_driverVars

(***************************************************************************)
(* Fairness: timer, idle thread and kernel code as in Sync; the disk       *)
(* answers, and its interrupt stays pending until it can be taken.         *)
(***************************************************************************)
IdeFairSpec ==
  /\ IdeSpec
  /\ SF_driverVars(IdeTimer)
  /\ WF_driverVars(IdleStep /\ UNCHANGED ideVars)
  /\ WF_driverVars(disk_answers)
  /\ SF_driverVars(intr_hd_handler)
  /\ \A t \in Threads \ {Idle} :
       /\ SF_driverVars(DriverStep(t))
       /\ SF_driverVars(SyscallReturn(t) /\ op[t].at = "out" /\ UNCHANGED ideVars)

-----------------------------------------------------------------------------
(* Properties.                                                             *)

\* A command is sent only to an idle disk, although locks are handed over and
\* interrupts of an earlier transfer may still be pending (ide.c:149-170, 177-198).
CommandWhenIdle == [][ (\E t \in Threads : cmd_out(t)) => disk = "idle" ]_driverVars

\* Data are transferred only when the disk asks for them, in the direction it
\* asks for (ide.c:162-167, 189-194).
TransferMatches ==
  \A t \in Threads : op[t].at = "data" =>
    disk = IF op[t].call = "read" THEN "data read" ELSE "data write"

\* Who sleeps on disk_done has its answer coming: the interrupt is expected,
\* and the disk is at work or has interrupted already; and an answer is never
\* counted twice (ide.c:104-107, 206-208).
AnswerComing ==
  /\ sleepers # << >> => expecting /\ (irq \/ disk \in {"seek read", "flush"})
  /\ done <= 1

\* A thread that waits for the disk's interrupt goes on (ide.c:161, 195).
DiskServed == \A t \in Threads : op[t].at = "down" ~> op[t].at # "down"

\* busy_wait returns once the disk is ready, as its comment says (ide.c:131).
BusyWaitReturns ==
  \A t \in Threads :
    op[t].at \in {"busy", "sleep", "woken"} /\ Asking
      ~> op[t].at \notin {"busy", "sleep", "woken"}
=============================================================================
