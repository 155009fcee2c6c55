----------------------------- MODULE FileTable -----------------------------
(***************************************************************************)
(* Open files: the global file_table and the fd_table of every process     *)
(* (fs/file.c, fs/fs.c), the in-memory inodes of fs/inode.c, the pipes of  *)
(* shell/pipe.c, and what fork and exit do to them.                        *)
(*                                                                         *)
(* A system call runs with interrupts disabled and is one step, except     *)
(* that inode_open blocks while the disk reads an inode: other processes   *)
(* run in between.  The files exist already; creating and deleting them    *)
(* belongs to the directories.                                             *)
(***************************************************************************)
EXTENDS Integers, FiniteSets, List

CONSTANTS Procs,      \* processes
          First,      \* the process that runs first
          Files,      \* inode numbers of the files
          Mem,        \* kernel memory for struct inode (a bound)
          Page,       \* kernel memory for the queue of a pipe
          Null,
          MaxOpen,    \* MAX_FILES_OPEN
          MaxFds,     \* MAX_FILES_OPEN_PER_PROC
          MaxCnts,    \* bound on open_cnts
          Uses,       \* what programs use: "files", "pipes" or "both" (a bound)
          Std         \* the descriptors fd_redirect is used on: stdin, stdout

ASSUME FileTableAssumption ==
  /\ IsFiniteSet(Procs) /\ First \in Procs
  /\ {Page, Null} \cap (Mem \cup Files) = {} /\ Page # Null
  /\ MaxOpen \in Nat /\ MaxFds \in Nat /\ MaxCnts \in Nat /\ Uses \subseteq {"files", "pipes", "both"}
  /\ Std \subseteq {0, 1}

VARIABLES file_table, \* fd_inode, fd_flag ("r", "w" or "pipe") and fd_pos of every slot
          fd_table,   \* fd_table[p][fd]: a slot, or -1
          inode,      \* the struct inodes in memory; i_no is Null if freed
          open_inodes,\* cur_part->open_inodes, head first
          state,      \* what each process does
          panic,
          use         \* what the programs of this behaviour use

vars == <<file_table, fd_table, inode, open_inodes, state, panic, use>>

Slots == 3..(MaxOpen - 1)
Fds == 3..(MaxFds - 1)
NoneOpen == [fd \in Fds \cup Std |-> IF fd \in Std THEN fd ELSE -1]

Idle == [at |-> "none"]
Run == [at |-> "run"]

\* A process in inode_open waits for the disk: [at |-> "open"] with the file,
\* the flag and the slot it has chosen.

Init ==
  /\ file_table = [g \in Slots |-> [inode |-> Null, flag |-> "r", pos |-> 0]]
  /\ fd_table = [p \in Procs |-> NoneOpen]
  /\ inode = [m \in Mem |-> [i_no |-> Null, cnts |-> 0, deny |-> FALSE]]
  /\ open_inodes = << >>
  /\ state = [p \in Procs |-> IF p = First THEN Run ELSE Idle]
  /\ panic = FALSE
  /\ use \in Uses

\* sys_exit closes its files in one go.
CanRun(p) == ~panic /\ state[p] = Run /\ \A q \in Procs : state[q].at # "exit"

Least(S) == IF S = {} THEN -1 ELSE CHOOSE x \in S : \A y \in S : x <= y

get_free_slot_in_global == Least({g \in Slots : file_table[g].inode = Null})

pcb_fd_install(tab, p, g) ==
  LET fd == Least({x \in Fds : tab[p][x] = -1})
  IN IF fd = -1 THEN tab ELSE [tab EXCEPT ![p][fd] = g]

-----------------------------------------------------------------------------
(* sys_open of a file that exists.                                         *)

\* file_open once it has the inode m: the write check, then the descriptor.
\* A denied open gives the slot back, but not its count on the inode.
Denied(flag, deny) == flag = "w" /\ deny

GotInode(p, g, flag, m, ind) ==
  LET denied == Denied(flag, ind[m].deny)
  IN /\ inode' = IF flag = "w" THEN [ind EXCEPT ![m].deny = TRUE] ELSE ind
     /\ file_table' = [file_table EXCEPT ![g] =
          [inode |-> IF denied THEN Null ELSE m,
           flag |-> IF state[p] = Run THEN flag ELSE @.flag, pos |-> 0]]
     /\ fd_table' = IF denied THEN fd_table ELSE pcb_fd_install(fd_table, p, g)

\* What the search of inode_open stops at.
Listed(f) == {m \in Mem : elem_find(open_inodes, m) /\ inode[m].i_no = f}

\* inode_open finds the inode in memory.
file_open_cached(p, f, flag) ==
  LET g == get_free_slot_in_global
      m == list_traversal(open_inodes, Listed(f))
  IN /\ use # "pipes" /\ CanRun(p) /\ g # -1 /\ Listed(f) # {} /\ inode[m].cnts < MaxCnts
     /\ GotInode(p, g, flag, m, [inode EXCEPT ![m].cnts = @ + 1])
     /\ UNCHANGED <<open_inodes, state, panic, use>>

\* inode_open has to read the inode: the slot is chosen, and still looks free.
file_open(p, f, flag) ==
  LET g == get_free_slot_in_global
  IN /\ use # "pipes" /\ CanRun(p) /\ g # -1 /\ Listed(f) = {}
     /\ file_table' = [file_table EXCEPT ![g].flag = flag]
     /\ state' = [state EXCEPT ![p] = [at |-> "open", file |-> f, flag |-> flag, slot |-> g]]
     /\ UNCHANGED <<fd_table, inode, open_inodes, panic, use>>

\* The disk has answered.
inode_open(p, m) ==
  LET s == state[p]
  IN /\ ~panic /\ s.at = "open" /\ inode[m].i_no = Null
     /\ \A q \in Procs : state[q].at # "exit"
     /\ GotInode(p, s.slot, s.flag, m,
                 [inode EXCEPT ![m] = [i_no |-> s.file, cnts |-> 1, deny |-> FALSE]])
     /\ open_inodes' = list_push(open_inodes, m)
     /\ state' = [state EXCEPT ![p] = Run]
     /\ UNCHANGED <<panic, use>>

-----------------------------------------------------------------------------
(* Closing.                                                                *)

is_pipe(g) == file_table[g].flag = "pipe"

\* Faulty variants: the first close frees; the freed inode stays in the list.
Freed_always(cnts) == TRUE
Unlisted_kept(m) == open_inodes

Unlisted(m) == list_remove(open_inodes, m)
Freed(cnts) == cnts = 0

\* file_close and inode_close of slot g; a slot without inode is a null pointer.
file_close(g) ==
  LET m == file_table[g].inode
      cnts == inode[m].cnts - 1
  IN IF m \notin Mem
     THEN panic' = TRUE /\ UNCHANGED <<file_table, inode, open_inodes>>
     ELSE /\ inode' = [inode EXCEPT ![m] =
               IF Freed(cnts) THEN [i_no |-> Null, cnts |-> 0, deny |-> FALSE]
               ELSE [@ EXCEPT !.cnts = cnts, !.deny = FALSE]]
          /\ open_inodes' = IF Freed(cnts) THEN Unlisted(m) ELSE open_inodes
          /\ file_table' = [file_table EXCEPT ![g].inode = Null]
          /\ UNCHANGED panic

\* The descriptors of a pipe are counted in fd_pos.
pipe_close(g) ==
  LET pos == file_table[g].pos - 1
  IN /\ file_table' = [file_table EXCEPT ![g].pos = pos,
                         ![g].inode = IF pos = 0 THEN Null ELSE @]
     /\ panic' = (pos = 0 /\ file_table[g].inode # Page)
     /\ UNCHANGED <<inode, open_inodes>>

Close(p, fd) ==
  /\ IF is_pipe(fd_table[p][fd]) THEN pipe_close(fd_table[p][fd])
                                 ELSE file_close(fd_table[p][fd])
  /\ fd_table' = [fd_table EXCEPT ![p][fd] = -1]

\* sys_close of an open descriptor.
sys_close(p, fd) ==
  /\ CanRun(p) /\ fd_table[p][fd] # -1
  /\ Close(p, fd)
  /\ UNCHANGED <<state, use>>

\* sys_exit closes every descriptor (release_prog_resource).
sys_exit(p) ==
  /\ CanRun(p) /\ p # First
  /\ state' = [state EXCEPT ![p] = [at |-> "exit"]]
  /\ UNCHANGED <<file_table, fd_table, inode, open_inodes, panic, use>>

exit_close(p) ==
  LET fd == Least({x \in Fds : fd_table[p][x] # -1})
  IN /\ ~panic /\ state[p].at = "exit" /\ fd # -1
     /\ Close(p, fd)
     /\ UNCHANGED <<state, use>>

exit_done(p) ==
  /\ ~panic /\ state[p].at = "exit" /\ \A fd \in Fds : fd_table[p][fd] = -1
  /\ state' = [state EXCEPT ![p] = Idle]
  /\ fd_table' = [fd_table EXCEPT ![p] = NoneOpen]
  /\ UNCHANGED <<file_table, inode, open_inodes, panic, use>>

-----------------------------------------------------------------------------
(* Pipes and fork.                                                         *)

\* Nothing is checked: with no slot free it writes in front of file_table, and
\* with no descriptor free the pipe keeps a count nobody will take down.
sys_pipe(p) ==
  LET g == get_free_slot_in_global
  IN /\ use # "files" /\ CanRun(p) /\ g # -1
     /\ file_table' = [file_table EXCEPT ![g] = [inode |-> Page, flag |-> "pipe", pos |-> 2]]
     /\ fd_table' = pcb_fd_install(pcb_fd_install(fd_table, p, g), p, g)
     /\ UNCHANGED <<inode, open_inodes, state, panic, use>>

sys_pipe_overrun(p) ==
  /\ use # "files" /\ CanRun(p) /\ get_free_slot_in_global = -1
  /\ panic' = TRUE
  /\ UNCHANGED <<file_table, fd_table, inode, open_inodes, state, use>>

\* fd_redirect(old, new), old being stdin or stdout; programs that redirect use
\* no files beside their pipes (a bound).
sys_fd_redirect(p, old, new) ==
  /\ use = "pipes" /\ CanRun(p)
  /\ fd_table' = [fd_table EXCEPT ![p][old] = IF new < 3 THEN new ELSE fd_table[p][new]]
  /\ UNCHANGED <<file_table, inode, open_inodes, state, panic, use>>

\* How many descriptors of p, stdin and stdout left aside, are on slot g.
Refs(p, g) == Cardinality({fd \in Fds : fd_table[p][fd] = g})

\* (Faulty variant: the child's descriptors are not counted.)
Inherited_uncounted(p, g) == 0
Inherited(p, g) == Refs(p, g)

\* sys_fork: the child gets the descriptors, update_inode_open_cnts counts them.
sys_fork(p, c) ==
  LET held == {fd \in Fds : fd_table[p][fd] # -1 /\ ~is_pipe(fd_table[p][fd])}
      Behind(fd) == file_table[fd_table[p][fd]].inode
      Extra(m) == Cardinality({fd \in held : Behind(fd) = m})
  IN /\ CanRun(p) /\ state[c] = Idle
     /\ \A m \in Mem : inode[m].cnts + Extra(m) <= MaxCnts
     /\ panic' = (\E fd \in held : Behind(fd) \notin Mem)
     /\ fd_table' = [fd_table EXCEPT ![c] = fd_table[p]]
     /\ file_table' = [g \in Slots |-> IF is_pipe(g)
                         THEN [file_table[g] EXCEPT !.pos = @ + Inherited(p, g)]
                         ELSE file_table[g]]
     /\ inode' = [m \in Mem |-> [inode[m] EXCEPT !.cnts = @ + Extra(m)]]
     /\ state' = [state EXCEPT ![c] = Run]
     /\ UNCHANGED <<open_inodes, use>>

Next ==
  \E p \in Procs :
    \/ \E f \in Files, flag \in {"r", "w"} : file_open(p, f, flag) \/ file_open_cached(p, f, flag)
    \/ \E m \in Mem : inode_open(p, m)
    \/ \E fd \in Fds : sys_close(p, fd)
    \/ sys_exit(p) \/ exit_close(p) \/ exit_done(p)
    \/ sys_pipe(p) \/ sys_pipe_overrun(p)
    \/ \E old \in Std, new \in Std \cup Fds : sys_fd_redirect(p, old, new)
    \/ \E c \in Procs : sys_fork(p, c)

Spec == Init /\ [][Next]_vars

-----------------------------------------------------------------------------
(* Properties.                                                             *)

\* No slot points to an inode that was freed, and open_cnts never falls below
\* the number of slots on the inode, whatever opens, denied opens, forks, closes
\* and exits overlap (inode.c:77, 106, 115; fork.c:98; file.c:180).
InodeAlive ==
  \A m \in Mem :
    Cardinality({g \in Slots : file_table[g].inode = m}) <= inode[m].cnts

\* open_inodes holds exactly the inodes in memory, each once: an inode that is
\* freed is unlinked in the same step (inode.c:105, 115-123).
OpenListExact ==
  /\ IsInjective(open_inodes)
  /\ \A m \in Mem : elem_find(open_inodes, m) <=> inode[m].i_no # Null

\* An open file descriptor leads to an inode (file.c:189-197).
FdUsable ==
  \A p \in Procs, fd \in Fds :
    LET g == fd_table[p][fd]
    IN g # -1 /\ ~is_pipe(g) => file_table[g].inode \in Mem

\* The queue of a pipe is there as long as a descriptor of some process leads
\* to it, over any sequence of pipes, forks, closes and exits, and its count
\* never falls below the number of these descriptors (pipe.c:22, fs.c:390-395,
\* fork.c:95-96, wait_exit.c:51-56).  Programs with files besides can keep a
\* descriptor whose slot another process emptied, see FdUsable.
PipeAlive ==
  \A g \in Slots : use = "pipes" /\ is_pipe(g) =>
    /\ \A p \in Procs : Refs(p, g) > 0 => file_table[g].inode = Page
    /\ file_table[g].inode = Page =>
         Cardinality({x \in Procs \X Fds : fd_table[x[1]][x[2]] = g}) <= file_table[g].pos
=============================================================================
