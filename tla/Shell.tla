------------------------------- MODULE Shell --------------------------------
(***************************************************************************)
(* The shell (shell/shell.c) on top of the open files and pipes of         *)
(* FileTable and the keyboard of Input: my_shell reads a line, splits it   *)
(* at '|', makes a pipe, redirects its own descriptors around each command *)
(* and waits for the child that runs it (cmd_execute, sys_execv).          *)
(*                                                                         *)
(* Of a command only this matters: built in, a program, or blank.  A       *)
(* command that begins with a small letter stands for one that is built    *)
(* in.  Programs use the descriptors they inherit and no files (a bound).  *)
(***************************************************************************)
EXTENDS FileTable, Input

\* Descriptors for a pipe (MAX_FILES_OPEN_PER_PROC is 8); both standard ones are
\* redirected.
ASSUME ShellAssumption == MaxFds >= 5 /\ Std = {0, 1} /\ Uses = {"pipes"}

VARIABLE job   \* what each process executes: what, the instructions it still
               \* has to do, fd[2] of my_shell, the child it waits for

shellVars == <<vars, inputVars, job>>

NoJob == [what |-> "none", todo |-> << >>, fd |-> << -1, -1>>, child |-> Null]

ShellInit ==
  /\ Init /\ InputInit
  /\ job = [p \in Procs |-> IF p = First THEN [NoJob EXCEPT !.what = "shell"] ELSE NoJob]

AtPrompt(p) == job[p].what = "shell" /\ job[p].todo = << >>
Next1(p) == Head(job[p].todo)
Does(p, instr) == job[p].what = "shell" /\ job[p].todo # << >> /\ Next1(p)[1] = instr
Advance(p) == job' = [job EXCEPT ![p].todo = Tail(@)]

-----------------------------------------------------------------------------
(* The line and what my_shell makes of it.                                 *)

\* strchr(..., '|') until there is no more, and the first character of each part.
Scanned(cmds, c) ==
  CASE c = "|" -> Append(cmds, "blank")
    [] c # "|" /\ cmds[Len(cmds)] = "blank" ->
         [cmds EXCEPT ![Len(cmds)] = IF c \in {"a", "l", "u"} THEN "builtin" ELSE "program"]
    [] OTHER -> cmds
Commands(s) ==
  LET to[k \in 0..Len(s)] == IF k = 0 THEN <<"blank">> ELSE Scanned(to[k - 1], s[k])
  IN to[Len(s)]

Exec(cmd) == <<"exec", cmd>>

\* my_shell after readline: <<"redirect", n, i>> is fd_redirect(n, fd[i]).
\* (Faulty variant: the second end of the pipe is not closed.)
Cleanup_half == << <<"restore", 0>>, <<"close", 1>> >>
Cleanup == << <<"restore", 0>>, <<"close", 1>>, <<"close", 2>> >>

Script(cmds) ==
  LET n == Len(cmds)
  IN IF n = 1 THEN <<Exec(cmds[1])>>
     ELSE << <<"pipe">>, <<"redirect", 1, 2>>, Exec(cmds[1]), <<"redirect", 0, 1>> >>
          \o [i \in 1..(n - 2) |-> Exec(cmds[i + 1])]
          \o << <<"restore", 1>>, Exec(cmds[n])>> \o Cleanup

\* read(stdin_no, pos, 1) returns: one character for the shell at the prompt.
readline(p) ==
  LET c == Head(queue)
      ends == c = "CR" /\ line.pos < LineLen
  IN /\ AtPrompt(p) /\ CanRun(p) /\ queue # << >> /\ ~line.over
     /\ queue' = Tail(queue)
     /\ line' = IF ends THEN EmptyLine ELSE readline_step(line, c)
     /\ typed' = IF ends \/ line'.over THEN << >> ELSE typed
     /\ job' = IF ends /\ line.pos > 0
               THEN [job EXCEPT ![p].todo = Script(Commands(String(line)))] ELSE job
     /\ UNCHANGED <<vars, kb, held, lock>>

-----------------------------------------------------------------------------
(* The steps of a line.                                                    *)

\* pipe(fd): with no slot left, what FileTable says of it.
DoPipe(p) ==
  LET free == {fd \in Fds : fd_table[p][fd] = -1}
      f1 == Least(free)
  IN /\ Does(p, "pipe")
     /\ \/ /\ sys_pipe(p)
           /\ job' = [job EXCEPT ![p].todo = Tail(@), ![p].fd = <<f1, Least(free \ {f1})>>]
        \/ sys_pipe_overrun(p) /\ UNCHANGED job
     /\ UNCHANGED inputVars

DoRedirect(p) ==
  /\ \/ Does(p, "redirect") /\ sys_fd_redirect(p, Next1(p)[2], job[p].fd[Next1(p)[3]])
     \/ Does(p, "restore") /\ sys_fd_redirect(p, Next1(p)[2], Next1(p)[2])
  /\ Advance(p) /\ UNCHANGED inputVars

\* fd[2] is dead when both ends are closed.
DoClose(p) ==
  LET i == Next1(p)[2]
  IN /\ Does(p, "close") /\ sys_close(p, job[p].fd[i])
     /\ job' = [job EXCEPT ![p].todo = Tail(@), ![p].fd[i] = -1]
     /\ UNCHANGED inputVars

\* A blank command leaves argv[0] at NULL: the assertion of strcmp, a loop.
ExecHere(p) ==
  /\ CanRun(p) /\ Does(p, "exec") /\ Next1(p)[2] # "program"
  /\ IF Next1(p)[2] = "blank" THEN job' = [job EXCEPT ![p].what = "spin"] ELSE Advance(p)
  /\ UNCHANGED <<vars, inputVars>>

\* What is left to do for the shell that has forked, and for the child.
\* (Faulty variant: the child goes the way of the parent.)
ChildTodo_waits(rest) == << <<"wait">> >> \o rest
ParentTodo(rest) == << <<"wait">> >> \o rest
ChildTodo(rest) == << <<"load">> >> \o rest

Fork(p, c) ==
  LET rest == Tail(job[p].todo)
  IN /\ Does(p, "exec") /\ Next1(p)[2] = "program" /\ sys_fork(p, c)
     /\ job' = [job EXCEPT ![p].todo = ParentTodo(rest), ![p].child = c,
                           ![c] = [job[p] EXCEPT !.todo = ChildTodo(rest)]]
     /\ UNCHANGED inputVars

\* fork returns -1, wait finds no child, and the shell gives up.
ForkFails(p) ==
  /\ CanRun(p) /\ Does(p, "exec") /\ Next1(p)[2] = "program"
  /\ \A c \in Procs : state[c] # Idle
  /\ job' = [job EXCEPT ![p].what = "spin"]
  /\ UNCHANGED <<vars, inputVars>>

Wait(p) ==
  /\ CanRun(p) /\ Does(p, "wait") /\ job[p].child # p /\ job[p].child # Null
  /\ state[job[p].child] = Idle
  /\ job' = [job EXCEPT ![p].todo = Tail(@), ![p].child = Null]
  /\ UNCHANGED <<vars, inputVars>>

\* The child: stat finds no file, and it exits.
NoSuchFile(p) ==
  /\ Does(p, "load") /\ sys_exit(p)
  /\ job' = [job EXCEPT ![p] = NoJob] /\ UNCHANGED inputVars

\* sys_execv replaces the program and keeps the descriptors ...
Execv(p) ==
  /\ CanRun(p) /\ Does(p, "load")
  /\ job' = [job EXCEPT ![p] = [NoJob EXCEPT !.what = "program"]]
  /\ UNCHANGED <<vars, inputVars>>

\* ... or returns -1, and the child goes on as a shell with the rest of the line.
ExecvFails(p) ==
  /\ CanRun(p) /\ Does(p, "load")
  /\ Advance(p) /\ UNCHANGED <<vars, inputVars>>

ProgramCloses(p, fd) ==
  /\ job[p].what = "program" /\ sys_close(p, fd) /\ UNCHANGED <<inputVars, job>>

ProgramExits(p) ==
  /\ job[p].what = "program" /\ sys_exit(p)
  /\ job' = [job EXCEPT ![p] = NoJob] /\ UNCHANGED inputVars

Exiting(p) == (exit_close(p) \/ exit_done(p)) /\ UNCHANGED <<inputVars, job>>

Step(p) ==
  \/ readline(p)
  \/ DoPipe(p) \/ DoRedirect(p) \/ DoClose(p)
  \/ ExecHere(p) \/ ForkFails(p) \/ (\E c \in Procs : Fork(p, c)) \/ Wait(p)
  \/ NoSuchFile(p) \/ Execv(p) \/ ExecvFails(p)
  \/ ProgramExits(p) \/ Exiting(p)

User ==
  /\ \E p \in Procs : AtPrompt(p)
  /\ \E key \in Keys : Strike(key) \/ Press(key) \/ Release(key)
     \/ CapsLock
  /\ UNCHANGED <<vars, job>>

ShellNext ==
  \/ User
  \/ \E p \in Procs : Step(p) \/ \E fd \in Fds : ProgramCloses(p, fd)

\* Every process that can run gets to run, and programs come to their exit.
ShellSpec == ShellInit /\ [][ShellNext]_shellVars /\ \A p \in Procs : WF_shellVars(Step(p))

-----------------------------------------------------------------------------
(* Properties.                                                             *)

\* A shell at the prompt reads from the keyboard, writes to the console and has
\* nothing else open, after any line and although a child whose execv failed
\* has gone through the rest of the line as well.  Each pipe that is left
\* belongs to a shell that waits, and counts exactly the descriptors that lead
\* to it (shell.c:155-180, fs.c:390-395, fork.c:95, wait_exit.c:48-61).
PromptClean ==
  \A p \in Procs : AtPrompt(p) =>
    /\ fd_table[p] = NoneOpen
    /\ \A g \in Slots : file_table[g].inode = Page =>
         /\ \E q \in Procs : Refs(q, g) > 0 /\ Does(q, "wait")
         /\ file_table[g].pos =
              Cardinality({x \in Procs \X Fds : fd_table[x[1]][x[2]] = g})

\* A line that was entered leads back to a prompt, the shell's own or that of a
\* child whose execv failed, unless a blank command or a failed fork makes a
\* shell loop, or file_table is full (shell.c:93-142, 146-191).
PromptReturns ==
  \A p \in Procs :
    (job[p].what = "shell" /\ job[p].todo # << >>)
      ~> (panic \/ \E q \in Procs : AtPrompt(q) \/ job[q].what = "spin")
=============================================================================
