---------------------------- MODULE ShellProofs -----------------------------
(***************************************************************************)
(* Open files and the shell that uses them, on any number of processes,    *)
(* files, slots and descriptors.                                           *)
(*                                                                         *)
(* Open files: no slot points to an inode that was freed, the list of open *)
(* inodes holds the inodes in memory and nothing else, and the queue of a  *)
(* pipe lives as long as a descriptor leads to it.                         *)
(*                                                                         *)
(* The shell: the line it reads is what was typed, for every length of the *)
(* line and of the queue of the keyboard.  Whatever lines it has carried   *)
(* out: at the prompt it has stdin, stdout and nothing else open, and the  *)
(* pipes that are left belong to shells that wait.                         *)
(***************************************************************************)
EXTENDS Shell, ListProofs, FiniteSetTheorems

-----------------------------------------------------------------------------
(* Open files: the inductive invariant.                                    *)

Slot == [inode : Mem \cup {Page, Null}, flag : {"r", "w", "pipe"}, pos : Int]
Inode == [i_no : Files \cup {Null}, cnts : Int, deny : BOOLEAN]
FdTables == [Procs -> [Fds \cup Std -> Int]]
Opening == [at : {"open"}, file : Files, flag : {"r", "w"}, slot : Slots]

FileTypes ==
  /\ file_table \in [Slots -> Slot]
  /\ fd_table \in FdTables
  /\ \A p \in Procs, fd \in Fds : fd_table[p][fd] \in Slots \cup {-1}
  /\ inode \in [Mem -> Inode]
  /\ open_inodes \in Seq(Mem)
  /\ state \in [Procs -> {Idle, Run, [at |-> "exit"]} \cup Opening]

\* Nobody counts on an inode that is not in memory: inode_open may use the
\* memory again.
NotCounted == \A m \in Mem : inode[m].i_no = Null => inode[m].cnts = 0

\* With programs that use pipes only: a descriptor leads to a pipe, whose count
\* covers all its descriptors, and who is not running has none to pass on.
Holders(tab, g) == {x \in Procs \X Fds : tab[x[1]][x[2]] = g}

PipeSlot(g) ==
  /\ file_table[g].inode \in {Page, Null}
  /\ file_table[g].inode = Page =>
       is_pipe(g) /\ Cardinality(Holders(fd_table, g)) <= file_table[g].pos

PipesOnly ==
  use = "pipes" =>
    /\ \A g \in Slots : PipeSlot(g)
    /\ \A p \in Procs, fd \in Fds :
         fd_table[p][fd] # -1 => file_table[fd_table[p][fd]].inode = Page
    /\ \A p \in Procs : /\ state[p].at # "open"
                        /\ state[p] = Idle => \A fd \in Fds : fd_table[p][fd] = -1

FileInv == FileTypes /\ NotCounted /\ InodeAlive /\ OpenListExact /\ PipesOnly
-----------------------------------------------------------------------------
(* Constants, and the operators of the model.                              *)

\* The sets of the model are finite, and pairwise distinct.
LEMMA FileFacts ==
  ASSUME FileTableAssumption
  PROVE  /\ IsFiniteSet(Slots) /\ IsFiniteSet(Fds) /\ IsFiniteSet(Procs \X Fds)
         /\ Slots \subseteq Nat /\ Fds \subseteq Nat /\ -1 \notin Slots /\ -1 \notin Fds
         /\ Page \notin Mem /\ Null \notin Mem /\ Null \notin Files /\ Page # Null
         /\ First \in Procs /\ Fds \cap Std = {} /\ Std \subseteq {0, 1}
  <1>1. MaxOpen \in Nat /\ MaxFds \in Nat /\ Std \subseteq {0, 1} /\ IsFiniteSet(Procs)
    BY DEF FileTableAssumption
  <1>2. MaxOpen - 1 \in Int /\ MaxFds - 1 \in Int
    BY <1>1
  <1>3. IsFiniteSet(Slots) /\ IsFiniteSet(Fds)
    BY <1>2, FS_Interval DEF Slots, Fds
  <1>4. IsFiniteSet(Procs \X Fds)
    BY <1>1, <1>3, FS_Product
  <1>5. Slots \subseteq Nat /\ Fds \subseteq Nat /\ -1 \notin Slots /\ -1 \notin Fds
    BY <1>2 DEF Slots, Fds
  <1>6. Fds \cap Std = {}
    BY <1>1, <1>2 DEF Fds
  <1>7. QED
    BY <1>1, <1>3, <1>4, <1>5, <1>6 DEF FileTableAssumption

\* The loops for a free slot and a free descriptor find one if there is one.
LEMMA LeastFacts ==
  ASSUME NEW S \in SUBSET Nat
  PROVE  /\ S = {} => Least(S) = -1
         /\ Least(S) = -1 \/ Least(S) \in S
  <1>1. CASE S = {}
    BY <1>1 DEF Least
  <1>2. CASE S # {}
    <2>1. \E n \in S : \A m \in S : n <= m
      BY <1>2, LeastNat
    <2>2. QED
      BY <1>2, <2>1 DEF Least
  <1>3. QED
    BY <1>1, <1>2

\* The slots on an inode when one slot changes.
On(tab, m) == {g \in Slots : tab[g].inode = m}

LEMMA OneSlot ==
  ASSUME FileTableAssumption, NEW a, NEW b, NEW g \in Slots, NEW m,
         \A h \in Slots : h # g => b[h].inode = a[h].inode
  PROVE  /\ Cardinality(On(a, m)) \in Nat /\ Cardinality(On(b, m)) \in Nat
         /\ Cardinality(On(b, m)) <= Cardinality(On(a, m)) + 1
         /\ b[g].inode # m => Cardinality(On(b, m)) <= Cardinality(On(a, m))
         /\ b[g].inode # m /\ a[g].inode = m =>
              Cardinality(On(b, m)) = Cardinality(On(a, m)) - 1
  <1>1. IsFiniteSet(Slots)
    BY FileFacts
  <1>2. IsFiniteSet(On(a, m)) /\ IsFiniteSet(On(b, m))
    BY <1>1, FS_Subset DEF On
  <1>3. /\ Cardinality(On(a, m)) \in Nat /\ Cardinality(On(b, m)) \in Nat
    BY <1>2, FS_CardinalityType
  <1>4. CASE b[g].inode = m
    <2>1. On(b, m) = On(a, m) \cup {g}
      BY <1>4 DEF On
    <2>2. \/ Cardinality(On(b, m)) = Cardinality(On(a, m))
          \/ Cardinality(On(b, m)) = Cardinality(On(a, m)) + 1
      BY <1>2, <2>1, FS_AddElement
    <2>3. QED
      BY <1>3, <1>4, <2>2
  <1>5. CASE b[g].inode # m
    <2>1. On(b, m) = On(a, m) \ {g} /\ (g \in On(a, m) <=> a[g].inode = m)
      BY <1>5 DEF On
    <2>2. QED
      BY <1>2, <1>3, <1>5, <2>1, FS_RemoveElement
  <1>6. QED
    BY <1>4, <1>5

\* The descriptors of a pipe.
LEMMA HoldersFacts ==
  ASSUME FileTableAssumption, NEW tab, NEW g
  PROVE  /\ IsFiniteSet(Holders(tab, g)) /\ Cardinality(Holders(tab, g)) \in Nat
         /\ Holders(tab, g) = {} <=> \A p \in Procs, fd \in Fds : tab[p][fd] # g
  <1>1. IsFiniteSet(Holders(tab, g))
    BY FileFacts, FS_Subset DEF Holders
  <1>2. Cardinality(Holders(tab, g)) \in Nat
    BY <1>1, FS_CardinalityType
  <1>3. Holders(tab, g) = {} <=> \A p \in Procs, fd \in Fds : tab[p][fd] # g
    <2>1. ASSUME NEW p \in Procs, NEW fd \in Fds, tab[p][fd] = g PROVE <<p, fd>> \in Holders(tab, g)
      BY <2>1 DEF Holders
    <2>2. QED
      BY ZenonT(40), <2>1 DEF Holders
  <1>4. QED
    BY <1>1, <1>2, <1>3

\* pcb_fd_install takes one free descriptor, or none if there is none.
LEMMA InstallFacts ==
  ASSUME FileTableAssumption, NEW tab \in FdTables,
         NEW p \in Procs, NEW g \in Int
  PROVE  /\ pcb_fd_install(tab, p, g) \in FdTables
         /\ \E fd \in Int : \A q \in Procs, x \in Fds :
              \/ pcb_fd_install(tab, p, g)[q][x] = tab[q][x]
              \/ /\ q = p /\ x = fd /\ tab[q][x] = -1
                 /\ pcb_fd_install(tab, p, g)[q][x] = g
  <1> DEFINE free == {x \in Fds : tab[p][x] = -1}
             fd == Least(free)
  <1>1. fd = -1 \/ (fd \in Fds /\ tab[p][fd] = -1)
    <2>1. free \in SUBSET Nat
      BY FileFacts
    <2>2. fd = -1 \/ fd \in free
      BY <2>1, LeastFacts
    <2>3. QED
      BY <2>2
  <1>2. pcb_fd_install(tab, p, g) = IF fd = -1 THEN tab ELSE [tab EXCEPT ![p][fd] = g]
    BY DEF pcb_fd_install
  <1> HIDE DEF fd, free
  <1>3. CASE fd = -1
    BY <1>2, <1>3 DEF FdTables
  <1>4. CASE fd # -1
    <2>1. fd \in Fds /\ fd \in Int
      BY <1>1, <1>4, FileFacts
    <2>2. pcb_fd_install(tab, p, g) = [tab EXCEPT ![p][fd] = g]
      BY <1>2, <1>4
    <2>3. \A q \in Procs, x \in Fds :
            \/ pcb_fd_install(tab, p, g)[q][x] = tab[q][x]
            \/ /\ q = p /\ x = fd /\ tab[q][x] = -1
               /\ pcb_fd_install(tab, p, g)[q][x] = g
      BY <1>1, <1>4, <2>1, <2>2 DEF FdTables
    <2>4. pcb_fd_install(tab, p, g) \in FdTables
      BY ZenonT(40), <2>1, <2>2 DEF FdTables
    <2>5. QED
      BY <2>1, <2>3, <2>4
  <1>5. QED
    BY <1>3, <1>4

-----------------------------------------------------------------------------
(* Opening.                                                                *)

\* The same, as a predicate of the two tables.
Installed(tab, new, p, g) ==
  /\ new \in FdTables
  /\ \E fd \in Int : \A q \in Procs, x \in Fds :
       \/ new[q][x] = tab[q][x]
       \/ q = p /\ x = fd /\ tab[q][x] = -1 /\ new[q][x] = g

LEMMA Installs ==
  ASSUME FileTableAssumption, NEW tab \in FdTables,
         NEW p \in Procs, NEW g \in Int
  PROVE  Installed(tab, pcb_fd_install(tab, p, g), p, g)
  BY InstallFacts DEF Installed

\* The chosen slot is free.
LEMMA FreeSlot ==
  ASSUME FileTableAssumption, get_free_slot_in_global # -1
  PROVE  /\ get_free_slot_in_global \in Slots
         /\ file_table[get_free_slot_in_global].inode = Null
  <1>1. {g \in Slots : file_table[g].inode = Null} \in SUBSET Nat
    BY FileFacts
  <1>2. QED
    BY <1>1, LeastFacts DEF get_free_slot_in_global

\* file_open with the inode m, which ind has counted for it already.
LEMMA GotKeeps ==
  ASSUME FileTableAssumption, FileInv, NEW p \in Procs, NEW g \in Slots, NEW flag \in {"r", "w"},
         NEW m \in Mem, NEW ind \in [Mem -> Inode],
         GotInode(p, g, flag, m, ind),
         ind[m].cnts > Cardinality(On(file_table, m)),
         \A x \in Mem : x # m => ind[x] = inode[x]
  PROVE  /\ file_table' \in [Slots -> Slot]
         /\ fd_table' \in FdTables
         /\ \A q \in Procs, fd \in Fds : fd_table'[q][fd] \in Slots \cup {-1}
         /\ inode' \in [Mem -> Inode]
         /\ \A x \in Mem : inode'[x].i_no = ind[x].i_no /\ inode'[x].cnts = ind[x].cnts
         /\ InodeAlive'
  <1> DEFINE denied == Denied(flag, ind[m].deny)
             entry == [inode |-> IF denied THEN Null ELSE m,
                       flag |-> IF state[p] = Run THEN flag ELSE file_table[g].flag, pos |-> 0]
  <1>0. FileTypes /\ InodeAlive
    BY DEF FileInv
  <1>1. /\ inode' = (IF flag = "w" THEN [ind EXCEPT ![m].deny = TRUE] ELSE ind)
        /\ file_table' = [file_table EXCEPT ![g] = entry]
        /\ fd_table' = (IF denied THEN fd_table ELSE pcb_fd_install(fd_table, p, g))
    BY DEF GotInode
  <1>2. entry \in Slot
    <2>1. file_table[g].flag \in {"r", "w", "pipe"}
      BY <1>0 DEF FileTypes, Slot
    <2>2. QED
      BY <2>1 DEF Slot
  <1> HIDE DEF denied, entry
  <1>3. /\ file_table' \in [Slots -> Slot]
        /\ \A h \in Slots : h # g => file_table'[h] = file_table[h]
    BY <1>0, <1>1, <1>2 DEF FileTypes
  <1>4. /\ fd_table' \in FdTables
        /\ \A q \in Procs, fd \in Fds : fd_table'[q][fd] \in Slots \cup {-1}
    <2>1. CASE denied
      BY <1>0, <1>1, <2>1 DEF FileTypes
    <2>2. CASE ~denied
      <3>1. fd_table' = pcb_fd_install(fd_table, p, g)
        BY <1>1, <2>2
      <3>2. g \in Int
        <4>1. Slots \subseteq Nat
          BY FileFacts
        <4>2. QED
          BY <4>1
      <3>3. /\ fd_table \in FdTables
            /\ \A q \in Procs, fd \in Fds : fd_table[q][fd] \in Slots \cup {-1}
        BY <1>0 DEF FileTypes
      <3>4. /\ pcb_fd_install(fd_table, p, g) \in FdTables
            /\ \A q \in Procs, x \in Fds :
                 \/ pcb_fd_install(fd_table, p, g)[q][x] = fd_table[q][x]
                 \/ pcb_fd_install(fd_table, p, g)[q][x] = g
        <4>1. fd_table \in FdTables
          BY <3>3
        <4>2. /\ pcb_fd_install(fd_table, p, g) \in FdTables
              /\ \E fd \in Int : \A q \in Procs, x \in Fds :
                   \/ pcb_fd_install(fd_table, p, g)[q][x] = fd_table[q][x]
                   \/ /\ q = p /\ x = fd /\ fd_table[q][x] = -1
                      /\ pcb_fd_install(fd_table, p, g)[q][x] = g
          BY <3>2, <4>1, InstallFacts
        <4>3. QED
          BY <4>2
      <3>5. QED
        BY <3>1, <3>3, <3>4
    <2>3. QED
      BY <2>1, <2>2
  <1>5. /\ inode' \in [Mem -> Inode]
        /\ \A x \in Mem : inode'[x].i_no = ind[x].i_no /\ inode'[x].cnts = ind[x].cnts
    <2>1. CASE flag = "w"
      <3>1. inode' = [ind EXCEPT ![m] = [ind[m] EXCEPT !.deny = TRUE]] /\ ind[m] \in Inode
        BY <1>1, <2>1
      <3>2. QED
        BY <3>1 DEF Inode
    <2>2. CASE flag # "w"
      BY <1>1, <2>2
    <2>3. QED
      BY <2>1, <2>2
  <1>6. InodeAlive'
    <2>1. SUFFICES ASSUME NEW x \in Mem
                   PROVE  Cardinality(On(file_table', x)) <= inode'[x].cnts
      BY DEF InodeAlive, On
    <2>2. /\ Cardinality(On(file_table, x)) \in Nat /\ Cardinality(On(file_table', x)) \in Nat
          /\ Cardinality(On(file_table', x)) <= Cardinality(On(file_table, x)) + 1
          /\ file_table'[g].inode # x => Cardinality(On(file_table', x)) <= Cardinality(On(file_table, x))
      BY <1>3, OneSlot
    <2>3. CASE x = m
      <3>1. ind[m].cnts \in Int /\ inode'[x].cnts = ind[m].cnts
        BY <1>5, <2>3 DEF Inode
      <3>2. Cardinality(On(file_table, x)) < ind[m].cnts
        BY <2>3
      <3>3. QED
        BY <2>2, <3>1, <3>2
    <2>4. CASE x # m
      <3>1. file_table'[g].inode # x
        BY <1>0, <1>1, <2>4, FileFacts DEF entry, FileTypes
      <3>2. Cardinality(On(file_table, x)) <= inode[x].cnts
        BY <1>0 DEF InodeAlive, On
      <3>3. inode'[x].cnts = inode[x].cnts /\ inode[x].cnts \in Int
        BY <1>0, <1>5, <2>4 DEF FileTypes, Inode
      <3>4. QED
        BY <2>2, <3>1, <3>2, <3>3
    <2>5. QED
      BY <2>3, <2>4
  <1>7. QED
    BY <1>3, <1>4, <1>5, <1>6

\* inode_open finds the inode: the count goes up with the slot.
LEMMA CachedKeeps ==
  ASSUME FileTableAssumption, FileInv, NEW p \in Procs, NEW f \in Files, NEW flag \in {"r", "w"},
         file_open_cached(p, f, flag)
  PROVE  FileInv'
  <1> DEFINE g == get_free_slot_in_global
             m == list_traversal(open_inodes, Listed(f))
             ind == [inode EXCEPT ![m].cnts = @ + 1]
  <1>0. FileTypes /\ InodeAlive /\ OpenListExact /\ NotCounted
    BY DEF FileInv
  <1>1. /\ use # "pipes" /\ g # -1 /\ Listed(f) # {} /\ GotInode(p, g, flag, m, ind)
        /\ UNCHANGED <<open_inodes, state, panic, use>>
    BY DEF file_open_cached
  <1>2. g \in Slots
    BY <1>1, FreeSlot
  <1>3. m \in Mem /\ inode[m].i_no = f
    <2>1. open_inodes \in Seq(Mem)
      BY <1>0 DEF FileTypes
    <2>2. PICK x \in Listed(f) : elem_find(open_inodes, x)
      BY <1>1 DEF Listed
    <2>3. m \in Listed(f)
      BY <2>1, <2>2, TraversalFacts
    <2>4. QED
      BY <2>3 DEF Listed
  <1> HIDE DEF g, m
  <1>4. /\ ind \in [Mem -> Inode]
        /\ ind[m].cnts = inode[m].cnts + 1 /\ inode[m].cnts \in Int
        /\ \A x \in Mem : ind[x].i_no = inode[x].i_no
        /\ \A x \in Mem : x # m => ind[x] = inode[x]
    <2>1. inode \in [Mem -> Inode] /\ inode[m] \in Inode
      BY <1>0, <1>3 DEF FileTypes
    <2>2. ind[m] = [inode[m] EXCEPT !.cnts = @ + 1] /\ \A x \in Mem : x # m => ind[x] = inode[x]
      BY <1>3, <2>1
    <2>3. /\ ind[m].cnts = inode[m].cnts + 1 /\ inode[m].cnts \in Int
          /\ ind[m].i_no = inode[m].i_no /\ ind[m] \in Inode
      BY <2>1, <2>2 DEF Inode
    <2>4. ind \in [Mem -> Inode]
      BY <2>1, <2>2, <2>3
    <2>5. QED
      BY <2>2, <2>3, <2>4
  <1>5. ind[m].cnts > Cardinality(On(file_table, m))
    <2>1. Cardinality(On(file_table, m)) <= inode[m].cnts
      BY <1>0, <1>3 DEF InodeAlive, On
    <2>2. Cardinality(On(file_table, m)) \in Nat
      BY <1>2, OneSlot
    <2>3. QED
      BY <1>4, <2>1, <2>2
  <1> HIDE DEF ind
  <1>6. /\ file_table' \in [Slots -> Slot]
        /\ fd_table' \in FdTables
        /\ \A q \in Procs, fd \in Fds : fd_table'[q][fd] \in Slots \cup {-1}
        /\ inode' \in [Mem -> Inode]
        /\ \A x \in Mem : inode'[x].i_no = ind[x].i_no /\ inode'[x].cnts = ind[x].cnts
        /\ InodeAlive'
    BY <1>1, <1>2, <1>3, <1>4, <1>5, GotKeeps
  <1>7. FileTypes'
    BY <1>0, <1>1, <1>6 DEF FileTypes
  <1>8. NotCounted' /\ OpenListExact'
    BY <1>0, <1>1, <1>3, <1>4, <1>6, FileFacts DEF NotCounted, OpenListExact
  <1>9. PipesOnly'
    BY <1>1 DEF PipesOnly
  <1>10. QED
    BY <1>6, <1>7, <1>8, <1>9 DEF FileInv

\* inode_open has to read the inode; the slot still looks free.
LEMMA OpenKeeps ==
  ASSUME FileTableAssumption, FileInv, NEW p \in Procs, NEW f \in Files, NEW flag \in {"r", "w"},
         file_open(p, f, flag)
  PROVE  FileInv'
  <1> DEFINE g == get_free_slot_in_global
  <1>0. FileTypes /\ InodeAlive /\ OpenListExact /\ NotCounted
    BY DEF FileInv
  <1>1. /\ use # "pipes" /\ g # -1
        /\ file_table' = [file_table EXCEPT ![g].flag = flag]
        /\ state' = [state EXCEPT ![p] = [at |-> "open", file |-> f, flag |-> flag, slot |-> g]]
        /\ UNCHANGED <<fd_table, inode, open_inodes, panic, use>>
    BY DEF file_open
  <1>2. g \in Slots
    BY <1>1, FreeSlot
  <1> HIDE DEF g
  <1>3. /\ file_table' \in [Slots -> Slot]
        /\ \A h \in Slots : file_table'[h].inode = file_table[h].inode
    <2>1. file_table \in [Slots -> Slot] /\ file_table[g] \in Slot
      BY <1>0, <1>2 DEF FileTypes
    <2>2. /\ file_table'[g] = [file_table[g] EXCEPT !.flag = flag]
          /\ \A h \in Slots : h # g => file_table'[h] = file_table[h]
      BY <1>1, <1>2, <2>1
    <2>3. file_table'[g] \in Slot /\ file_table'[g].inode = file_table[g].inode
      BY <2>1, <2>2 DEF Slot
    <2>4. file_table' \in [Slots -> Slot]
      BY <1>1, <2>1, <2>2, <2>3
    <2>5. QED
      BY <2>2, <2>3, <2>4
  <1>4. state' \in [Procs -> {Idle, Run, [at |-> "exit"]} \cup Opening]
    <2>1. [at |-> "open", file |-> f, flag |-> flag, slot |-> g] \in Opening
      BY <1>2 DEF Opening
    <2>2. QED
      BY <1>0, <1>1, <2>1 DEF FileTypes
  <1>5. FileTypes'
    BY <1>0, <1>1, <1>3, <1>4 DEF FileTypes
  <1>6. InodeAlive'
    BY <1>0, <1>1, <1>3 DEF InodeAlive
  <1>7. NotCounted' /\ OpenListExact' /\ PipesOnly'
    BY <1>0, <1>1 DEF NotCounted, OpenListExact, PipesOnly
  <1>8. QED
    BY <1>5, <1>6, <1>7 DEF FileInv

\* The disk has answered: the inode is new in memory, so that no slot was on it,
\* and the slot that was chosen may have been taken in the meantime.
LEMMA ReadKeeps ==
  ASSUME FileTableAssumption, FileInv, NEW p \in Procs, NEW m \in Mem, inode_open(p, m)
  PROVE  FileInv'
  <1> DEFINE s == state[p]
             ind == [inode EXCEPT ![m] = [i_no |-> s.file, cnts |-> 1, deny |-> FALSE]]
  <1>0. FileTypes /\ InodeAlive /\ OpenListExact /\ NotCounted /\ PipesOnly
    BY DEF FileInv
  <1>1. /\ s.at = "open" /\ inode[m].i_no = Null
        /\ GotInode(p, s.slot, s.flag, m, ind)
        /\ open_inodes' = list_push(open_inodes, m)
        /\ state' = [state EXCEPT ![p] = Run]
        /\ UNCHANGED <<panic, use>>
    BY DEF inode_open
  <1>2. s \in Opening
    <2>1. s \in {Idle, Run, [at |-> "exit"]} \cup Opening
      BY <1>0 DEF FileTypes
    <2>2. Idle.at = "none" /\ Run.at = "run" /\ [at |-> "exit"].at = "exit"
      BY DEF Idle, Run
    <2>3. QED
      BY <1>1, <2>1, <2>2
  <1>3. s.slot \in Slots /\ s.flag \in {"r", "w"} /\ s.file \in Files
    BY <1>2 DEF Opening
  <1>4. use # "pipes"
    BY <1>0, <1>1 DEF PipesOnly
  <1> HIDE DEF s
  <1>5. /\ ind \in [Mem -> Inode]
        /\ ind[m].cnts = 1 /\ ind[m].i_no = s.file /\ \A x \in Mem : x # m => ind[x] = inode[x]
    <2>1. inode \in [Mem -> Inode] /\ [i_no |-> s.file, cnts |-> 1, deny |-> FALSE] \in Inode
      BY <1>0, <1>3 DEF FileTypes, Inode
    <2>2. QED
      BY <2>1
  <1>6. ind[m].cnts > Cardinality(On(file_table, m))
    <2>1. Cardinality(On(file_table, m)) <= inode[m].cnts /\ inode[m].cnts = 0
      BY <1>0, <1>1 DEF InodeAlive, On, NotCounted
    <2>2. Cardinality(On(file_table, m)) \in Nat
      BY <1>3, OneSlot
    <2>3. QED
      BY <1>5, <2>1, <2>2
  <1> HIDE DEF ind
  <1>7. /\ file_table' \in [Slots -> Slot]
        /\ fd_table' \in FdTables
        /\ \A q \in Procs, fd \in Fds : fd_table'[q][fd] \in Slots \cup {-1}
        /\ inode' \in [Mem -> Inode]
        /\ \A x \in Mem : inode'[x].i_no = ind[x].i_no /\ inode'[x].cnts = ind[x].cnts
        /\ InodeAlive'
    BY <1>1, <1>3, <1>5, <1>6, GotKeeps
  <1>8. /\ open_inodes' \in Seq(Mem) /\ IsInjective(open_inodes')
        /\ \A y : elem_find(open_inodes', y) <=> y = m \/ elem_find(open_inodes, y)
    <2>1. open_inodes \in Seq(Mem) /\ IsInjective(open_inodes) /\ ~elem_find(open_inodes, m)
      BY <1>0, <1>1 DEF FileTypes, OpenListExact
    <2>2. QED
      BY <1>1, <2>1, PushFacts
  <1>9. FileTypes'
    BY <1>0, <1>1, <1>7, <1>8 DEF FileTypes
  <1>10. NotCounted' /\ OpenListExact'
    <2>1. inode'[m].i_no # Null
      BY <1>3, <1>5, <1>7, FileFacts
    <2>2. \A x \in Mem : x # m => inode'[x].i_no = inode[x].i_no /\ inode'[x].cnts = inode[x].cnts
      BY <1>5, <1>7
    <2>3. QED
      BY <1>0, <1>8, <2>1, <2>2 DEF NotCounted, OpenListExact
  <1>11. PipesOnly'
    BY <1>1, <1>4 DEF PipesOnly
  <1>12. QED
    BY <1>7, <1>9, <1>10, <1>11 DEF FileInv

-----------------------------------------------------------------------------
(* Closing.                                                                *)

\* Records with two fields set.
LEMMA SlotFields ==
  ASSUME NEW r \in Slot, NEW x \in Int, NEW y \in Mem \cup {Page, Null}
  PROVE  [r EXCEPT !.pos = x, !.inode = y] = [inode |-> y, flag |-> r.flag, pos |-> x]
  <1>1. PICK q : q = [r EXCEPT !.pos = x]
    OBVIOUS
  <1>2. q \in Slot /\ q.flag = r.flag /\ q.pos = x
    BY <1>1 DEF Slot
  <1>3. PICK z : z = [q EXCEPT !.inode = y]
    OBVIOUS
  <1>4. z \in Slot /\ z.flag = r.flag /\ z.pos = x /\ z.inode = y
    BY <1>2, <1>3 DEF Slot
  <1>5. z = [inode |-> y, flag |-> r.flag, pos |-> x]
    BY <1>4 DEF Slot
  <1>6. QED
    BY <1>1, <1>3, <1>5

LEMMA InodeFields ==
  ASSUME NEW r \in Inode, NEW x \in Int, NEW y \in BOOLEAN
  PROVE  [r EXCEPT !.cnts = x, !.deny = y] = [i_no |-> r.i_no, cnts |-> x, deny |-> y]
  <1>1. PICK q : q = [r EXCEPT !.cnts = x]
    OBVIOUS
  <1>2. q \in Inode /\ q.i_no = r.i_no /\ q.cnts = x
    BY <1>1 DEF Inode
  <1>3. PICK z : z = [q EXCEPT !.deny = y]
    OBVIOUS
  <1>4. z \in Inode /\ z.i_no = r.i_no /\ z.cnts = x /\ z.deny = y
    BY <1>2, <1>3 DEF Inode
  <1>5. z = [i_no |-> r.i_no, cnts |-> x, deny |-> y]
    BY <1>4 DEF Inode
  <1>6. QED
    BY <1>1, <1>3, <1>5

\* file_close: the last slot on an inode takes it out of memory and list.
LEMMA FileCloseKeeps ==
  ASSUME FileTableAssumption, FileInv, NEW g \in Slots, file_close(g)
  PROVE  /\ file_table' \in [Slots -> Slot] /\ inode' \in [Mem -> Inode] /\ open_inodes' \in Seq(Mem)
         /\ NotCounted' /\ InodeAlive' /\ OpenListExact'
  <1> DEFINE m == file_table[g].inode
             cnts == inode[m].cnts - 1
  <1>0. /\ file_table \in [Slots -> Slot] /\ inode \in [Mem -> Inode] /\ open_inodes \in Seq(Mem)
        /\ InodeAlive /\ OpenListExact /\ NotCounted
    BY DEF FileInv, FileTypes
  <1>1. CASE m \notin Mem
    <2>1. UNCHANGED <<file_table, inode, open_inodes>>
      BY <1>1 DEF file_close
    <2>2. QED
      BY <1>0, <2>1 DEF NotCounted, InodeAlive, OpenListExact
  <1>2. CASE m \in Mem
    <2>1. /\ inode' = [inode EXCEPT ![m] =
               IF cnts = 0 THEN [i_no |-> Null, cnts |-> 0, deny |-> FALSE]
               ELSE [inode[m] EXCEPT !.cnts = cnts, !.deny = FALSE]]
          /\ open_inodes' = (IF cnts = 0 THEN list_remove(open_inodes, m) ELSE open_inodes)
          /\ file_table' = [file_table EXCEPT ![g].inode = Null]
      BY <1>2 DEF file_close, Freed, Unlisted
    <2>2. m \in Mem /\ m = file_table[g].inode /\ inode[m] \in Inode
      BY <1>0, <1>2
    <2>3. inode[m].cnts \in Int /\ inode[m].i_no \in Files \cup {Null} /\ cnts \in Int
      BY <2>2 DEF Inode
    <2>4. /\ file_table' \in [Slots -> Slot] /\ file_table'[g].inode = Null
          /\ \A h \in Slots : h # g => file_table'[h] = file_table[h]
      <3>1. file_table[g] \in Slot /\ file_table'[g] = [file_table[g] EXCEPT !.inode = Null]
        BY <1>0, <2>1
      <3>2. file_table'[g] \in Slot /\ file_table'[g].inode = Null
        BY <3>1 DEF Slot
      <3>3. QED
        BY <1>0, <2>1, <3>2
    <2>5. \A x \in Mem :
            /\ Cardinality(On(file_table, x)) \in Nat /\ Cardinality(On(file_table', x)) \in Nat
            /\ Cardinality(On(file_table', x)) <= Cardinality(On(file_table, x))
            /\ x = m => Cardinality(On(file_table', x)) = Cardinality(On(file_table, x)) - 1
      <3>1. ASSUME NEW x \in Mem
            PROVE  /\ Cardinality(On(file_table, x)) \in Nat /\ Cardinality(On(file_table', x)) \in Nat
                   /\ file_table'[g].inode # x =>
                        Cardinality(On(file_table', x)) <= Cardinality(On(file_table, x))
                   /\ file_table'[g].inode # x /\ file_table[g].inode = x =>
                        Cardinality(On(file_table', x)) = Cardinality(On(file_table, x)) - 1
        BY SMTT(30), <2>4, OneSlot
      <3>2. \A x \in Mem : file_table'[g].inode # x
        BY <2>4, FileFacts
      <3>3. QED
        BY <2>2, <3>1, <3>2
    <2>6. \A x \in Mem : Cardinality(On(file_table, x)) <= inode[x].cnts
      BY <1>0 DEF InodeAlive, On
    <2> HIDE DEF m
    <2>7. inode[m].i_no # Null
      <3>1. inode[m].cnts # 0
        BY <2>2, <2>3, <2>5, <2>6
      <3>2. QED
        BY <1>0, <2>2, <3>1 DEF NotCounted
    <2>8. /\ inode' \in [Mem -> Inode] /\ \A x \in Mem : x # m => inode'[x] = inode[x]
          /\ inode'[m].cnts = cnts
          /\ inode'[m].i_no = (IF cnts = 0 THEN Null ELSE inode[m].i_no)
      <3>1. CASE cnts = 0
        <4>1. inode' = [inode EXCEPT ![m] = [i_no |-> Null, cnts |-> 0, deny |-> FALSE]]
          BY <2>1, <3>1
        <4>2. [i_no |-> Null, cnts |-> 0, deny |-> FALSE] \in Inode
          BY DEF Inode
        <4>3. QED
          BY <1>0, <2>2, <3>1, <4>1, <4>2
      <3>2. CASE cnts # 0
        <4>1. inode' = [inode EXCEPT ![m] = [i_no |-> inode[m].i_no, cnts |-> cnts, deny |-> FALSE]]
          <5>1. [inode[m] EXCEPT !.cnts = cnts, !.deny = FALSE]
                  = [i_no |-> inode[m].i_no, cnts |-> cnts, deny |-> FALSE]
            BY <2>2, <2>3, InodeFields
          <5>2. inode' = [inode EXCEPT ![m] = [inode[m] EXCEPT !.cnts = cnts, !.deny = FALSE]]
            BY <2>1, <3>2
          <5>3. QED
            BY <5>1, <5>2
        <4>2. [i_no |-> inode[m].i_no, cnts |-> cnts, deny |-> FALSE] \in Inode
          BY <2>3 DEF Inode
        <4>3. QED
          BY <1>0, <2>2, <3>2, <4>1, <4>2
      <3>3. QED
        BY <3>1, <3>2
    <2>9. NotCounted'
      BY <1>0, <2>7, <2>8 DEF NotCounted
    <2>10. InodeAlive'
      <3>1. ASSUME NEW x \in Mem PROVE Cardinality(On(file_table', x)) <= inode'[x].cnts
        <4>1. CASE x = m
          <5>1. Cardinality(On(file_table', m)) = Cardinality(On(file_table, m)) - 1
            BY <2>2, <2>5
          <5>2. QED
            BY <2>2, <2>3, <2>5, <2>6, <2>8, <4>1, <5>1
        <4>2. CASE x # m
          <5>1. inode'[x].cnts = inode[x].cnts /\ inode[x].cnts \in Int
            BY <1>0, <2>8, <4>2 DEF Inode
          <5>2. QED
            BY <2>5, <2>6, <5>1
        <4>3. QED
          BY <4>1, <4>2
      <3>2. QED
        BY <3>1 DEF InodeAlive, On
    <2>11. open_inodes' \in Seq(Mem) /\ OpenListExact'
      <3>1. elem_find(open_inodes, m) /\ IsInjective(open_inodes)
        BY <1>0, <2>2, <2>7 DEF OpenListExact
      <3>2. CASE cnts = 0
        <4>1. open_inodes' = list_remove(open_inodes, m) /\ inode'[m].i_no = Null
          BY <2>1, <2>8, <3>2
        <4>2. /\ open_inodes' \in Seq(Mem) /\ IsInjective(open_inodes')
              /\ \A y : elem_find(open_inodes', y) <=> elem_find(open_inodes, y) /\ y # m
          BY <1>0, <3>1, <4>1, RemoveFacts
        <4>3. QED
          BY <1>0, <2>8, <4>1, <4>2 DEF OpenListExact
      <3>3. CASE cnts # 0
        BY <1>0, <2>1, <2>8, <3>3 DEF OpenListExact
      <3>4. QED
        BY <3>2, <3>3
    <2>12. QED
      BY <2>4, <2>8, <2>9, <2>10, <2>11
  <1>3. QED
    BY <1>1, <1>2

\* pipe_close: the slot keeps its inode or loses it.
LEMMA PipeCloseKeeps ==
  ASSUME FileTableAssumption, FileInv, NEW g \in Slots, pipe_close(g)
  PROVE  /\ file_table' \in [Slots -> Slot] /\ InodeAlive' /\ UNCHANGED <<inode, open_inodes>>
         /\ \A h \in Slots : h # g => file_table'[h] = file_table[h]
         /\ file_table'[g].pos = file_table[g].pos - 1
         /\ file_table'[g].flag = file_table[g].flag
         /\ file_table'[g].inode = (IF file_table[g].pos = 1 THEN Null ELSE file_table[g].inode)
  <1>0. file_table \in [Slots -> Slot] /\ InodeAlive /\ file_table[g] \in Slot
    BY DEF FileInv, FileTypes
  <1>1. /\ file_table[g].pos \in Int /\ file_table[g].pos - 1 \in Int
        /\ file_table[g].inode \in Mem \cup {Page, Null} /\ file_table[g].flag \in {"r", "w", "pipe"}
        /\ file_table[g].pos - 1 = 0 <=> file_table[g].pos = 1
    BY <1>0 DEF Slot
  <1> DEFINE left == IF file_table[g].pos = 1 THEN Null ELSE file_table[g].inode
             entry == [inode |-> left, flag |-> file_table[g].flag, pos |-> file_table[g].pos - 1]
  <1>2. UNCHANGED <<inode, open_inodes>> /\ file_table' = [file_table EXCEPT ![g] = entry]
    <2>1. /\ file_table' = [file_table EXCEPT ![g].pos = file_table[g].pos - 1,
                         ![g].inode = IF file_table[g].pos - 1 = 0 THEN Null ELSE @]
          /\ UNCHANGED <<inode, open_inodes>>
      BY DEF pipe_close
    <2>2. file_table' = [file_table EXCEPT ![g] = [file_table[g] EXCEPT !.pos = file_table[g].pos - 1, !.inode = left]]
      BY <1>0, <1>1, <2>1
    <2>3. [file_table[g] EXCEPT !.pos = file_table[g].pos - 1, !.inode = left] = entry
      <3>1. left \in Mem \cup {Page, Null}
        BY <1>1
      <3>2. PICK x \in Int, y \in Mem \cup {Page, Null} : x = file_table[g].pos - 1 /\ y = left
        BY <1>1, <3>1
      <3>3. [file_table[g] EXCEPT !.pos = x, !.inode = y]
              = [inode |-> y, flag |-> file_table[g].flag, pos |-> x]
        BY <1>0, SlotFields
      <3>4. QED
        BY <3>2, <3>3
    <2>4. QED
      BY <2>1, <2>2, <2>3
  <1>3. entry \in Slot /\ left \in {Null, file_table[g].inode}
    BY <1>1 DEF Slot
  <1> HIDE DEF entry
  <1>4. /\ file_table' \in [Slots -> Slot] /\ file_table'[g] = entry
        /\ \A h \in Slots : h # g => file_table'[h] = file_table[h]
    BY <1>0, <1>2, <1>3
  <1>5. file_table'[g].inode = left
    BY <1>4 DEF entry
  <1>6. InodeAlive'
    <2>1. ASSUME NEW x \in Mem PROVE Cardinality(On(file_table', x)) <= inode[x].cnts
      <3>1. Cardinality(On(file_table, x)) <= inode[x].cnts
        BY <1>0 DEF InodeAlive, On
      <3>2. On(file_table', x) \subseteq On(file_table, x)
        BY <1>3, <1>4, <1>5, FileFacts DEF On
      <3>3. IsFiniteSet(On(file_table, x))
        BY FileFacts, FS_Subset DEF On
      <3>4. /\ Cardinality(On(file_table', x)) <= Cardinality(On(file_table, x))
            /\ Cardinality(On(file_table', x)) \in Nat /\ Cardinality(On(file_table, x)) \in Nat
        BY <3>2, <3>3, FS_Subset, FS_CardinalityType
      <3>5. inode[x].cnts \in Int
        BY DEF FileInv, FileTypes, Inode
      <3>6. QED
        BY <3>1, <3>4, <3>5
    <2>2. QED
      BY <1>2, <2>1 DEF InodeAlive, On
  <1>7. QED
    BY <1>2, <1>4, <1>5, <1>6 DEF entry

\* A descriptor is closed.
LEMMA CloseKeeps ==
  ASSUME FileTableAssumption, FileInv, NEW p \in Procs, NEW fd \in Fds,
         fd_table[p][fd] # -1, Close(p, fd), UNCHANGED <<state, use>>
  PROVE  FileInv'
  <1>0. FileTypes /\ NotCounted /\ OpenListExact /\ PipesOnly
    BY DEF FileInv
  <1>1. PICK g \in Slots : fd_table[p][fd] = g
    BY <1>0 DEF FileTypes
  <1>2. /\ fd_table' = [fd_table EXCEPT ![p][fd] = -1]
        /\ is_pipe(g) => pipe_close(g)
        /\ ~is_pipe(g) => file_close(g)
    BY <1>1 DEF Close
  <1>3. /\ fd_table' \in FdTables
        /\ fd_table'[p][fd] = -1
        /\ \A q \in Procs, x \in Fds : q # p \/ x # fd => fd_table'[q][x] = fd_table[q][x]
    <2>1. fd_table \in FdTables
      BY <1>0 DEF FileTypes
    <2>2. fd_table[p] \in [Fds \cup Std -> Int] /\ fd_table'[p] = [fd_table[p] EXCEPT ![fd] = -1]
      BY <1>2, <2>1 DEF FdTables
    <2>3. fd_table' = [fd_table EXCEPT ![p] = [fd_table[p] EXCEPT ![fd] = -1]]
      BY <1>2
    <2>4. [fd_table[p] EXCEPT ![fd] = -1] \in [Fds \cup Std -> Int]
      BY <2>2
    <2>5. fd_table' \in FdTables /\ \A q \in Procs : q # p => fd_table'[q] = fd_table[q]
      BY <2>1, <2>3, <2>4 DEF FdTables
    <2>6. QED
      BY <2>2, <2>5
  <1>4. \A q \in Procs, x \in Fds : fd_table'[q][x] \in Slots \cup {-1}
    BY <1>0, <1>3 DEF FileTypes
  <1>5. CASE ~is_pipe(g)
    <2>1. file_close(g)
      BY <1>2, <1>5
    <2>2. /\ file_table' \in [Slots -> Slot] /\ inode' \in [Mem -> Inode] /\ open_inodes' \in Seq(Mem)
          /\ NotCounted' /\ InodeAlive' /\ OpenListExact'
      BY <2>1, FileCloseKeeps
    <2>3. use # "pipes"
      BY <1>0, <1>1, <1>5 DEF PipesOnly, PipeSlot
    <2>4. FileTypes'
      BY <1>0, <1>3, <1>4, <2>2 DEF FileTypes
    <2>5. QED
      BY <2>2, <2>3, <2>4 DEF FileInv, PipesOnly
  <1>6. CASE is_pipe(g)
    <2>1. pipe_close(g)
      BY <1>2, <1>6
    <2>2. /\ file_table' \in [Slots -> Slot] /\ InodeAlive' /\ UNCHANGED <<inode, open_inodes>>
          /\ \A h \in Slots : h # g => file_table'[h] = file_table[h]
          /\ file_table'[g].pos = file_table[g].pos - 1
          /\ file_table'[g].flag = file_table[g].flag
          /\ file_table'[g].inode = (IF file_table[g].pos = 1 THEN Null ELSE file_table[g].inode)
      BY <2>1, PipeCloseKeeps
    <2>3. FileTypes' /\ NotCounted' /\ OpenListExact'
      BY <1>0, <1>3, <1>4, <2>2 DEF FileTypes, NotCounted, OpenListExact
    <2>4. ASSUME use = "pipes" PROVE PipesOnly'
      <3>1. file_table[g].inode = Page /\ Cardinality(Holders(fd_table, g)) <= file_table[g].pos
        BY <1>0, <1>1, <2>4, FileFacts DEF PipesOnly, PipeSlot
      <3>2. Cardinality(Holders(fd_table', g)) = Cardinality(Holders(fd_table, g)) - 1
        <4>1. Holders(fd_table', g) = Holders(fd_table, g) \ {<<p, fd>>}
          BY <1>1, <1>3, FileFacts DEF Holders
        <4>2. <<p, fd>> \in Holders(fd_table, g) /\ IsFiniteSet(Holders(fd_table, g))
          <5>1. <<p, fd>> \in Procs \X Fds /\ <<p, fd>>[1] = p /\ <<p, fd>>[2] = fd
            OBVIOUS
          <5>2. <<p, fd>> \in Holders(fd_table, g)
            BY <1>1, <5>1 DEF Holders
          <5>3. QED
            BY <5>2, HoldersFacts
        <4>3. QED
          BY ZenonT(40), <4>1, <4>2, FS_RemoveElement
      <3>3. \A h \in Slots : h # g => Holders(fd_table', h) = Holders(fd_table, h)
        BY <1>1, <1>3, FileFacts DEF Holders
      <3>4. /\ file_table[g].pos \in Int /\ Cardinality(Holders(fd_table, g)) \in Nat
            /\ Cardinality(Holders(fd_table', g)) \in Nat
        BY <1>0, HoldersFacts DEF FileTypes, Slot
      <3>5. \A h \in Slots : PipeSlot(h)'
        <4>1. ASSUME NEW h \in Slots, h # g PROVE PipeSlot(h)'
          BY <1>0, <2>2, <2>4, <3>3, <4>1 DEF PipesOnly, PipeSlot, is_pipe
        <4>2. PipeSlot(g)'
          BY <1>6, <2>2, <3>1, <3>2, <3>4 DEF PipeSlot, is_pipe
        <4>3. QED
          BY <4>1, <4>2
      <3>6. ASSUME NEW q \in Procs, NEW x \in Fds, fd_table'[q][x] # -1
            PROVE  file_table'[fd_table'[q][x]].inode = Page
        <4>1. fd_table'[q][x] = fd_table[q][x] /\ fd_table[q][x] \in Slots
          BY <1>0, <1>3, <3>6 DEF FileTypes
        <4>2. file_table[fd_table[q][x]].inode = Page
          BY <1>0, <2>4, <3>6, <4>1 DEF PipesOnly
        <4>3. CASE fd_table[q][x] = g
          \* The count is not 0 yet: this descriptor is still counted.
          <5>1. Cardinality(Holders(fd_table', g)) # 0
            <6>1. Holders(fd_table', g) # {} /\ IsFiniteSet(Holders(fd_table', g))
              BY <4>1, <4>3, HoldersFacts
            <6>2. QED
              BY <6>1, FS_EmptySet
          <5>2. file_table[g].pos # 1
            BY <3>1, <3>2, <3>4, <5>1
          <5>3. QED
            BY <2>2, <3>1, <4>1, <4>3, <5>2
        <4>4. CASE fd_table[q][x] # g
          BY <2>2, <4>1, <4>2, <4>4
        <4>5. QED
          BY <4>3, <4>4
      <3>7. \A q \in Procs : /\ state'[q].at # "open"
                             /\ state'[q] = Idle => \A x \in Fds : fd_table'[q][x] = -1
        BY <1>0, <1>3, <2>4 DEF PipesOnly
      <3>8. QED
        BY <3>5, <3>6, <3>7 DEF PipesOnly
    <2>5. QED
      BY <2>2, <2>3, <2>4 DEF FileInv, PipesOnly
  <1>7. QED
    BY <1>5, <1>6

\* exit_close closes one that is open.
LEMMA ExitCloseKeeps ==
  ASSUME FileTableAssumption, FileInv, NEW p \in Procs, exit_close(p)
  PROVE  FileInv'
  <1> DEFINE fd == Least({x \in Fds : fd_table[p][x] # -1})
  <1>1. fd # -1 /\ Close(p, fd) /\ UNCHANGED <<state, use>>
    BY DEF exit_close
  <1>2. {x \in Fds : fd_table[p][x] # -1} \in SUBSET Nat
    BY FileFacts
  <1>3. fd \in Fds /\ fd_table[p][fd] # -1
    BY <1>1, <1>2, LeastFacts
  <1> HIDE DEF fd
  <1>4. QED
    BY <1>1, <1>3, CloseKeeps

\* A process begins to exit, or has closed everything.
LEMMA ExitKeeps ==
  ASSUME FileTableAssumption, FileInv, NEW p \in Procs, sys_exit(p) \/ exit_done(p)
  PROVE  FileInv'
  <1>0. FileTypes /\ NotCounted /\ OpenListExact /\ PipesOnly /\ InodeAlive
    BY DEF FileInv
  <1>1. /\ UNCHANGED <<file_table, inode, open_inodes, use>>
        /\ state' = [state EXCEPT ![p] = [at |-> "exit"]] \/ state' = [state EXCEPT ![p] = Idle]
        /\ fd_table' = fd_table \/ fd_table' = [fd_table EXCEPT ![p] = NoneOpen]
        /\ fd_table' # fd_table \/ state'[p] = Idle => \A fd \in Fds : fd_table[p][fd] = -1
    <2>1. CASE sys_exit(p)
      <3>1. state' = [state EXCEPT ![p] = [at |-> "exit"]] /\ UNCHANGED <<fd_table, file_table, inode, open_inodes, use>>
        BY <2>1 DEF sys_exit
      <3>2. state'[p] # Idle
        BY <1>0, <3>1 DEF FileTypes, Idle
      <3>3. QED
        BY <3>1, <3>2
    <2>2. CASE exit_done(p)
      BY <2>2 DEF exit_done
    <2>3. QED
      BY <2>1, <2>2
  <1>2. \A q \in Procs, fd \in Fds : fd_table'[q][fd] = fd_table[q][fd]
    <2>1. CASE fd_table' = fd_table
      BY <2>1
    <2>2. CASE fd_table' # fd_table
      <3>1. \A fd \in Fds : NoneOpen[fd] = -1 /\ fd_table[p][fd] = -1
        BY <1>1, <2>2, FileFacts DEF NoneOpen
      <3>2. fd_table'[p] = NoneOpen /\ \A q \in Procs : q # p => fd_table'[q] = fd_table[q]
        BY <1>0, <1>1, <2>2 DEF FileTypes, FdTables
      <3>3. QED
        BY <3>1, <3>2
    <2>3. QED
      BY <2>1, <2>2
  <1>3. fd_table' \in FdTables
    <2>1. NoneOpen \in [Fds \cup Std -> Int]
      BY FileFacts DEF NoneOpen
    <2>2. fd_table \in FdTables
      BY <1>0 DEF FileTypes
    <2>3. QED
      BY <1>1, <2>1, <2>2 DEF FdTables
  <1>4. /\ state' \in [Procs -> {Idle, Run, [at |-> "exit"]} \cup Opening]
        /\ state'[p].at # "open" /\ \A q \in Procs : q # p => state'[q] = state[q]
    <2>1. Idle.at = "none" /\ [at |-> "exit"].at = "exit"
      BY DEF Idle
    <2>2. QED
      BY <1>0, <1>1, <2>1 DEF FileTypes
  <1>5. FileTypes'
    BY <1>0, <1>1, <1>2, <1>3, <1>4 DEF FileTypes
  <1>6. NotCounted' /\ OpenListExact' /\ InodeAlive'
    BY <1>0, <1>1 DEF NotCounted, OpenListExact, InodeAlive
  <1>7. PipesOnly'
    <2>1. \A g \in Slots : Holders(fd_table', g) = Holders(fd_table, g)
      BY <1>2 DEF Holders
    <2>2. use = "pipes" => \A g \in Slots : PipeSlot(g)'
      BY <1>0, <1>1, <2>1 DEF PipesOnly, PipeSlot, is_pipe
    <2>3. QED
      BY <1>0, <1>1, <1>2, <1>4, <2>2 DEF PipesOnly
  <1>8. QED
    BY <1>5, <1>6, <1>7 DEF FileInv

-----------------------------------------------------------------------------
(* Pipes and fork.                                                         *)

\* sys_pipe: the free slot has no descriptors yet, and gets two at most.
LEMMA PipeKeeps ==
  ASSUME FileTableAssumption, FileInv, NEW p \in Procs, sys_pipe(p)
  PROVE  FileInv'
  <1> DEFINE entry == [inode |-> Page, flag |-> "pipe", pos |-> 2]
  <1>0. FileTypes /\ NotCounted /\ OpenListExact /\ PipesOnly /\ InodeAlive
    BY DEF FileInv
  <1>1. PICK g \in Slots : g = get_free_slot_in_global /\ file_table[g].inode = Null
    BY FreeSlot DEF sys_pipe
  <1>2. g \in Int /\ g # -1
    <2>1. Slots \subseteq Nat
      BY FileFacts
    <2>2. QED
      BY <2>1
  <1>3. PICK mid \in FdTables :
           /\ mid = pcb_fd_install(fd_table, p, g)
           /\ \E fd \in Int : \A q \in Procs, x \in Fds :
                \/ mid[q][x] = fd_table[q][x]
                \/ q = p /\ x = fd /\ fd_table[q][x] = -1 /\ mid[q][x] = g
    <2>1. fd_table \in FdTables
      BY <1>0 DEF FileTypes
    <2>2. QED
      BY <1>2, <2>1, InstallFacts
  <1>4. /\ state[p] = Run
        /\ file_table' = [file_table EXCEPT ![g] = entry]
        /\ fd_table' = pcb_fd_install(mid, p, g)
        /\ UNCHANGED <<inode, open_inodes, state, panic, use>>
    BY <1>1, <1>3 DEF sys_pipe, CanRun
  <1>5. /\ fd_table' \in FdTables
        /\ \E fd \in Int : \A q \in Procs, x \in Fds :
             \/ fd_table'[q][x] = mid[q][x]
             \/ q = p /\ x = fd /\ mid[q][x] = -1 /\ fd_table'[q][x] = g
    <2>1. Installed(mid, pcb_fd_install(mid, p, g), p, g)
      BY <1>2, Installs
    <2>2. QED
      BY <1>4, <2>1 DEF Installed
  <1>6. PICK a \in Int : \A q \in Procs, x \in Fds :
           \/ mid[q][x] = fd_table[q][x]
           \/ q = p /\ x = a /\ fd_table[q][x] = -1 /\ mid[q][x] = g
    BY <1>3
  <1>7. PICK b \in Int : \A q \in Procs, x \in Fds :
           \/ fd_table'[q][x] = mid[q][x]
           \/ q = p /\ x = b /\ mid[q][x] = -1 /\ fd_table'[q][x] = g
    BY <1>5
  <1>8. \A q \in Procs, x \in Fds :
          \/ fd_table'[q][x] = fd_table[q][x]
          \/ q = p /\ x \in {a, b} /\ fd_table[q][x] = -1 /\ fd_table'[q][x] = g
    BY <1>2, <1>6, <1>7
  <1>9. /\ file_table' \in [Slots -> Slot] /\ file_table'[g] = entry
        /\ \A h \in Slots : h # g => file_table'[h] = file_table[h]
    <2>1. entry \in Slot /\ file_table \in [Slots -> Slot]
      BY <1>0 DEF FileTypes, Slot
    <2>2. QED
      BY <1>4, <1>1, <2>1
  <1>10. FileTypes'
    <2>1. \A q \in Procs, x \in Fds : fd_table'[q][x] \in Slots \cup {-1}
      BY <1>0, <1>1, <1>8 DEF FileTypes
    <2>2. QED
      BY <1>0, <1>4, <1>5, <1>9, <2>1 DEF FileTypes
  <1>11. NotCounted' /\ OpenListExact'
    BY <1>0, <1>4 DEF NotCounted, OpenListExact
  <1>12. InodeAlive'
    <2>1. ASSUME NEW x \in Mem PROVE Cardinality(On(file_table', x)) <= inode[x].cnts
      <3>1. On(file_table', x) = On(file_table, x)
        BY <1>1, <1>9, FileFacts DEF On
      <3>2. QED
        BY <1>0, <3>1 DEF InodeAlive, On
    <2>2. QED
      BY <1>4, <2>1 DEF InodeAlive, On
  <1>13. ASSUME use = "pipes" PROVE PipesOnly'
    <2>1. \A q \in Procs, x \in Fds : fd_table[q][x] # g
      BY <1>0, <1>1, <1>2, <1>13, FileFacts DEF PipesOnly
    <2>2. Cardinality(Holders(fd_table', g)) <= 2
      <3>1. Holders(fd_table', g) \subseteq {<<p, a>>, <<p, b>>}
        BY <1>8, <2>1 DEF Holders
      <3>2. IsFiniteSet({<<p, a>>}) /\ Cardinality({<<p, a>>}) = 1
        BY FS_Singleton
      <3>3. /\ IsFiniteSet({<<p, a>>} \cup {<<p, b>>})
            /\ Cardinality({<<p, a>>} \cup {<<p, b>>}) <= 2
        <4>1. /\ IsFiniteSet({<<p, a>>} \cup {<<p, b>>})
              /\ Cardinality({<<p, a>>} \cup {<<p, b>>}) =
                   IF <<p, b>> \in {<<p, a>>} THEN 1 ELSE 1 + 1
          BY <3>2, FS_AddElement
        <4>2. QED
          BY <4>1
      <3>4. {<<p, a>>} \cup {<<p, b>>} = {<<p, a>>, <<p, b>>}
        OBVIOUS
      <3>5. IsFiniteSet({<<p, a>>, <<p, b>>}) /\ Cardinality({<<p, a>>, <<p, b>>}) <= 2
        BY <3>3, <3>4
      <3>6. /\ Cardinality({<<p, a>>, <<p, b>>}) \in Nat
            /\ Cardinality(Holders(fd_table', g)) <= Cardinality({<<p, a>>, <<p, b>>})
        BY <3>1, <3>5, FS_Subset, FS_CardinalityType
      <3>7. Cardinality(Holders(fd_table', g)) \in Nat
        BY HoldersFacts
      <3>8. QED
        BY <3>5, <3>6, <3>7
    <2>3. \A h \in Slots : h # g => Holders(fd_table', h) = Holders(fd_table, h)
      BY <1>8, FileFacts DEF Holders
    <2>4. \A h \in Slots : PipeSlot(h)'
      <3>1. ASSUME NEW h \in Slots, h # g PROVE PipeSlot(h)'
        BY <1>0, <1>9, <1>13, <2>3, <3>1 DEF PipesOnly, PipeSlot, is_pipe
      <3>2. PipeSlot(g)'
        BY <1>9, <2>2 DEF PipeSlot, is_pipe
      <3>3. QED
        BY <3>1, <3>2
    <2>5. ASSUME NEW q \in Procs, NEW x \in Fds, fd_table'[q][x] # -1
          PROVE  file_table'[fd_table'[q][x]].inode = Page
      <3>1. CASE fd_table'[q][x] = g
        BY <1>9, <3>1
      <3>2. CASE fd_table'[q][x] # g
        <4>1. fd_table'[q][x] = fd_table[q][x] /\ fd_table[q][x] \in Slots
          BY <1>0, <1>8, <2>5, <3>2 DEF FileTypes
        <4>2. QED
          BY <1>0, <1>9, <1>13, <2>5, <3>2, <4>1 DEF PipesOnly
      <3>3. QED
        BY <3>1, <3>2
    <2>6. ASSUME NEW q \in Procs PROVE state'[q].at # "open" /\ (state'[q] = Idle => \A x \in Fds : fd_table'[q][x] = -1)
      <3>1. state'[q] = state[q] /\ (state[q] = Idle => q # p)
        BY <1>4 DEF Idle, Run
      <3>2. QED
        BY <1>0, <1>8, <1>13, <3>1 DEF PipesOnly
    <2>7. QED
      BY <2>4, <2>5, <2>6 DEF PipesOnly
  <1>14. PipesOnly'
    BY <1>4, <1>13 DEF PipesOnly
  <1>15. QED
    BY <1>10, <1>11, <1>12, <1>14 DEF FileInv

\* Redirecting stdin or stdout leaves the other descriptors alone.
LEMMA RedirectKeeps ==
  ASSUME FileTableAssumption, FileInv, NEW p \in Procs, NEW old \in Std, NEW new \in Std \cup Fds,
         sys_fd_redirect(p, old, new)
  PROVE  FileInv'
  <1> DEFINE to == IF new < 3 THEN new ELSE fd_table[p][new]
  <1>0. FileTypes /\ NotCounted /\ OpenListExact /\ PipesOnly /\ InodeAlive
    BY DEF FileInv
  <1>1. /\ fd_table' = [fd_table EXCEPT ![p][old] = to]
        /\ UNCHANGED <<file_table, inode, open_inodes, state, panic, use>>
    BY DEF sys_fd_redirect
  <1>2. fd_table \in FdTables /\ fd_table[p] \in [Fds \cup Std -> Int]
    BY <1>0 DEF FileTypes, FdTables
  <1>3. to \in Int
    <2>1. fd_table[p][new] \in Int
      BY <1>2
    <2>2. Fds \subseteq Nat /\ Std \subseteq {0, 1}
      BY FileFacts
    <2>3. new \in Int
      BY <2>2
    <2>4. QED
      BY <2>1, <2>3
  <1> HIDE DEF to
  <1>4. [fd_table[p] EXCEPT ![old] = to] \in [Fds \cup Std -> Int]
    BY <1>2, <1>3
  <1>5. fd_table' = [fd_table EXCEPT ![p] = [fd_table[p] EXCEPT ![old] = to]]
    BY <1>1
  <1>6. fd_table' \in FdTables
    BY <1>2, <1>4, <1>5 DEF FdTables
  <1>7. \A q \in Procs, fd \in Fds : fd_table'[q][fd] = fd_table[q][fd]
    <2>1. \A fd \in Fds : fd # old
      BY FileFacts
    <2>2. QED
      BY <1>2, <1>5, <2>1 DEF FdTables
  <1>8. FileTypes'
    BY <1>0, <1>1, <1>6, <1>7 DEF FileTypes
  <1>9. NotCounted' /\ OpenListExact' /\ InodeAlive'
    BY <1>0, <1>1 DEF NotCounted, OpenListExact, InodeAlive
  <1>10. PipesOnly'
    <2>1. \A g \in Slots : Holders(fd_table', g) = Holders(fd_table, g)
      BY <1>7 DEF Holders
    <2>2. use = "pipes" => \A g \in Slots : PipeSlot(g)'
      BY <1>0, <1>1, <2>1 DEF PipesOnly, PipeSlot, is_pipe
    <2>3. QED
      BY <1>0, <1>1, <1>7, <2>2 DEF PipesOnly
  <1>11. QED
    BY <1>8, <1>9, <1>10 DEF FileInv

\* What fork adds to the count of an inode, and to the count of a pipe.
Held(p) == {fd \in Fds : fd_table[p][fd] # -1 /\ ~is_pipe(fd_table[p][fd])}
Gain(p, m) == Cardinality({fd \in Held(p) : file_table[fd_table[p][fd]].inode = m})

LEMMA ForkKeeps ==
  ASSUME FileTableAssumption, FileInv, NEW p \in Procs, NEW c \in Procs, sys_fork(p, c)
  PROVE  FileInv'
  <1>0. FileTypes /\ NotCounted /\ OpenListExact /\ PipesOnly /\ InodeAlive
    BY DEF FileInv
  <1>1. /\ state[p] = Run /\ state[c] = Idle
        /\ fd_table' = [fd_table EXCEPT ![c] = fd_table[p]]
        /\ file_table' = [g \in Slots |-> IF is_pipe(g)
                             THEN [file_table[g] EXCEPT !.pos = @ + Refs(p, g)]
                             ELSE file_table[g]]
        /\ inode' = [m \in Mem |-> [inode[m] EXCEPT !.cnts = @ + Gain(p, m)]]
        /\ state' = [state EXCEPT ![c] = Run]
        /\ UNCHANGED <<open_inodes, use>>
    BY DEF sys_fork, CanRun, Inherited, Gain, Held
  <1>2. p # c
    BY <1>1 DEF Idle, Run
  <1>3. /\ \A m \in Mem : Gain(p, m) \in Nat
        /\ \A g \in Slots : Refs(p, g) \in Nat
    <2>1. \A m \in Mem : IsFiniteSet({fd \in Held(p) : file_table[fd_table[p][fd]].inode = m})
      BY FileFacts, FS_Subset DEF Held
    <2>2. \A g \in Slots : IsFiniteSet({fd \in Fds : fd_table[p][fd] = g})
      BY FileFacts, FS_Subset
    <2>3. QED
      BY <2>1, <2>2, FS_CardinalityType DEF Gain, Refs
  <1>4. /\ fd_table' \in FdTables
        /\ \A q \in Procs : fd_table'[q] = (IF q = c THEN fd_table[p] ELSE fd_table[q])
    BY <1>0, <1>1 DEF FileTypes, FdTables
  <1>5. \A g \in Slots :
          /\ file_table'[g] \in Slot /\ file_table'[g].inode = file_table[g].inode
          /\ file_table'[g].flag = file_table[g].flag
          /\ is_pipe(g) => file_table'[g].pos = file_table[g].pos + Refs(p, g)
    <2>1. SUFFICES ASSUME NEW g \in Slots
                   PROVE  /\ file_table'[g] \in Slot /\ file_table'[g].inode = file_table[g].inode
                          /\ file_table'[g].flag = file_table[g].flag
                          /\ is_pipe(g) => file_table'[g].pos = file_table[g].pos + Refs(p, g)
      OBVIOUS
    <2>2. file_table[g] \in Slot /\ Refs(p, g) \in Nat
      BY <1>0, <1>3 DEF FileTypes
    <2>3. CASE is_pipe(g)
      <3>1. file_table'[g] = [file_table[g] EXCEPT !.pos = @ + Refs(p, g)]
        BY <1>1, <2>3
      <3>2. QED
        BY <2>2, <3>1 DEF Slot
    <2>4. CASE ~is_pipe(g)
      BY <1>1, <2>2, <2>4
    <2>5. QED
      BY <2>3, <2>4
  <1>6. \A m \in Mem : /\ inode'[m] \in Inode /\ inode'[m].i_no = inode[m].i_no
                       /\ inode[m].cnts \in Int /\ inode'[m].cnts = inode[m].cnts + Gain(p, m)
    <2>1. \A m \in Mem : inode[m] \in Inode /\ inode'[m] = [inode[m] EXCEPT !.cnts = @ + Gain(p, m)]
      BY <1>0, <1>1 DEF FileTypes
    <2>2. ASSUME NEW m \in Mem
          PROVE  /\ inode'[m] \in Inode /\ inode'[m].i_no = inode[m].i_no
                 /\ inode[m].cnts \in Int /\ inode'[m].cnts = inode[m].cnts + Gain(p, m)
      <3>1. PICK n \in Nat : n = Gain(p, m)
        BY <1>3
      <3>2. inode[m] \in Inode /\ inode'[m] = [inode[m] EXCEPT !.cnts = @ + n]
        BY <2>1, <3>1
      <3>3. QED
        BY <3>1, <3>2 DEF Inode
    <2>3. QED
      BY <2>2
  <1>7. state' \in [Procs -> {Idle, Run, [at |-> "exit"]} \cup Opening]
    BY <1>0, <1>1 DEF FileTypes
  <1>8. FileTypes'
    <2>1. file_table' \in [Slots -> Slot] /\ inode' \in [Mem -> Inode]
      BY <1>1, <1>5, <1>6
    <2>2. \A q \in Procs, fd \in Fds : fd_table'[q][fd] \in Slots \cup {-1}
      BY <1>0, <1>4 DEF FileTypes
    <2>3. QED
      BY <1>0, <1>1, <1>4, <1>7, <2>1, <2>2 DEF FileTypes
  <1>9. \A m \in Mem : On(file_table', m) = On(file_table, m) /\ Cardinality(On(file_table, m)) \in Nat
    <2>1. \A m \in Mem : IsFiniteSet(On(file_table, m))
      BY FileFacts, FS_Subset DEF On
    <2>2. QED
      BY <1>5, <2>1, FS_CardinalityType DEF On
  <1>10. InodeAlive'
    <2>1. ASSUME NEW m \in Mem PROVE Cardinality(On(file_table', m)) <= inode'[m].cnts
      <3>1. Cardinality(On(file_table, m)) <= inode[m].cnts
        BY <1>0 DEF InodeAlive, On
      <3>2. QED
        BY <1>3, <1>6, <1>9, <3>1
    <2>2. QED
      BY <2>1 DEF InodeAlive, On
  \* A descriptor of the parent is on no inode that is not in memory.
  <1>11. NotCounted'
    <2>1. ASSUME NEW m \in Mem, inode[m].i_no = Null PROVE Gain(p, m) = 0
      <3>1. inode[m].cnts = 0 /\ Cardinality(On(file_table, m)) <= inode[m].cnts
        BY <1>0, <2>1 DEF NotCounted, InodeAlive, On
      <3>2. Cardinality(On(file_table, m)) = 0
        BY <1>9, <3>1
      <3>3. IsFiniteSet(On(file_table, m))
        BY FileFacts, FS_Subset DEF On
      <3>4. On(file_table, m) = {}
        BY <3>2, <3>3, FS_EmptySet
      <3>5. {fd \in Held(p) : file_table[fd_table[p][fd]].inode = m} = {}
        BY <1>0, <3>4 DEF Held, On, FileTypes
      <3>6. QED
        BY <3>5, FS_EmptySet DEF Gain
    <2>2. QED
      BY <1>0, <1>6, <2>1 DEF NotCounted
  <1>12. OpenListExact'
    BY <1>0, <1>1, <1>6 DEF OpenListExact
  \* The child's descriptors are counted one by one.
  <1>13. ASSUME use = "pipes" PROVE PipesOnly'
    <2>1. \A fd \in Fds : fd_table[c][fd] = -1
      BY <1>0, <1>1, <1>13 DEF PipesOnly
    <2>2. ASSUME NEW g \in Slots
          PROVE  Cardinality(Holders(fd_table', g)) <= Cardinality(Holders(fd_table, g)) + Refs(p, g)
      <3> DEFINE D == {fd \in Fds : fd_table[p][fd] = g}
                 E == {x \in {c} \X Fds : fd_table[p][x[2]] = g}
      <3>1. Holders(fd_table', g) \subseteq Holders(fd_table, g) \cup E
        BY <1>4 DEF Holders
      <3>2. IsFiniteSet(D) /\ Cardinality(D) = Refs(p, g)
        BY FileFacts, FS_Subset DEF Refs
      <3>3. IsFiniteSet(E) /\ Cardinality(E) <= Cardinality(D)
        <4> DEFINE f == [fd \in D |-> <<c, fd>>]
        <4>1. f \in [D -> E] /\ \A e \in E : \E d \in D : f[d] = e
          <5>1. ASSUME NEW d \in D PROVE <<c, d>> \in E
            OBVIOUS
          <5>2. ASSUME NEW e \in E PROVE e[2] \in D /\ <<c, e[2]>> = e
            OBVIOUS
          <5>3. QED
            BY <5>1, <5>2
        <4>2. f \in Surjection(D, E)
          BY <4>1 DEF Surjection
        <4>3. QED
          BY <3>2, <4>2, FS_Surjection
      <3> HIDE DEF D, E
      <3>4. IsFiniteSet(Holders(fd_table, g)) /\ IsFiniteSet(Holders(fd_table', g))
        BY HoldersFacts
      <3>5. /\ IsFiniteSet(Holders(fd_table, g) \cup E) /\ IsFiniteSet(Holders(fd_table, g) \cap E)
            /\ Cardinality(Holders(fd_table, g) \cup E) =
                 Cardinality(Holders(fd_table, g)) + Cardinality(E) - Cardinality(Holders(fd_table, g) \cap E)
        BY <3>3, <3>4, FS_Union, FS_Subset
      <3>6. Cardinality(Holders(fd_table', g)) <= Cardinality(Holders(fd_table, g) \cup E)
        BY <3>1, <3>5, FS_Subset
      <3>7. /\ Cardinality(Holders(fd_table, g)) \in Nat /\ Cardinality(Holders(fd_table', g)) \in Nat
            /\ Cardinality(E) \in Nat /\ Cardinality(Holders(fd_table, g) \cap E) \in Nat
        BY <3>3, <3>4, <3>5, FS_CardinalityType
      <3>8. QED
        BY <1>3, <3>2, <3>3, <3>5, <3>6, <3>7
    <2>3. \A g \in Slots : PipeSlot(g)'
      <3>1. ASSUME NEW g \in Slots PROVE PipeSlot(g)'
        <4>1. PipeSlot(g) /\ file_table[g].pos \in Int
          BY <1>0, <1>13 DEF PipesOnly, FileTypes, Slot
        <4>2. file_table'[g].inode = file_table[g].inode /\ (is_pipe(g)' <=> is_pipe(g))
          BY <1>5 DEF is_pipe
        <4>3. ASSUME file_table[g].inode = Page
              PROVE  Cardinality(Holders(fd_table', g)) <= file_table'[g].pos
          <5>1. /\ file_table'[g].pos = file_table[g].pos + Refs(p, g)
                /\ Cardinality(Holders(fd_table, g)) <= file_table[g].pos
            BY <1>5, <4>1, <4>3 DEF PipeSlot
          <5>2. Cardinality(Holders(fd_table, g)) \in Nat /\ Cardinality(Holders(fd_table', g)) \in Nat
            BY HoldersFacts
          <5>3. Refs(p, g) \in Nat
            BY <1>3
          <5>4. QED
            BY <2>2, <4>1, <5>1, <5>2, <5>3
        <4>4. QED
          BY <4>1, <4>2, <4>3 DEF PipeSlot
      <3>2. QED
        BY <3>1
    <2>4. ASSUME NEW q \in Procs, NEW x \in Fds, fd_table'[q][x] # -1
          PROVE  file_table'[fd_table'[q][x]].inode = Page
      <3>1. PICK r \in Procs : fd_table'[q][x] = fd_table[r][x]
        BY <1>4
      <3>2. fd_table[r][x] \in Slots /\ file_table[fd_table[r][x]].inode = Page
        BY <1>0, <1>13, <2>4, <3>1 DEF PipesOnly, FileTypes
      <3>3. QED
        BY <1>5, <3>1, <3>2
    <2>5. ASSUME NEW q \in Procs
          PROVE  state'[q].at # "open" /\ (state'[q] = Idle => \A x \in Fds : fd_table'[q][x] = -1)
      <3>1. CASE q = c
        <4>1. state'[q] = Run
          BY <1>0, <1>1, <3>1 DEF FileTypes
        <4>2. QED
          BY <4>1 DEF Run, Idle
      <3>2. CASE q # c
        <4>1. state'[q] = state[q] /\ fd_table'[q] = fd_table[q]
          BY <1>0, <1>1, <1>4, <3>2 DEF FileTypes
        <4>2. QED
          BY <1>0, <1>13, <4>1 DEF PipesOnly
      <3>3. QED
        BY <3>1, <3>2
    <2>6. QED
      BY <2>3, <2>4, <2>5 DEF PipesOnly
  <1>14. PipesOnly'
    BY <1>1, <1>13 DEF PipesOnly
  <1>15. QED
    BY <1>8, <1>10, <1>11, <1>12, <1>14 DEF FileInv

-----------------------------------------------------------------------------
(* The theorems.                                                           *)

\* The initial state.
LEMMA FileInitial ==
  ASSUME FileTableAssumption, Init
  PROVE  FileInv
  <1>1. /\ file_table = [g \in Slots |-> [inode |-> Null, flag |-> "r", pos |-> 0]]
        /\ fd_table = [p \in Procs |-> NoneOpen]
        /\ inode = [m \in Mem |-> [i_no |-> Null, cnts |-> 0, deny |-> FALSE]]
        /\ open_inodes = << >>
        /\ state = [p \in Procs |-> IF p = First THEN Run ELSE Idle]
    BY DEF Init
  <1>2. \A p \in Procs, fd \in Fds : fd_table[p][fd] = -1
    BY <1>1, FileFacts DEF NoneOpen
  <1>3. FileTypes
    <2>1. [inode |-> Null, flag |-> "r", pos |-> 0] \in Slot /\ [i_no |-> Null, cnts |-> 0, deny |-> FALSE] \in Inode
      BY DEF Slot, Inode
    <2>2. file_table \in [Slots -> Slot] /\ inode \in [Mem -> Inode]
      BY <1>1, <2>1
    <2>3. NoneOpen \in [Fds \cup Std -> Int]
      <3>1. Std \subseteq {0, 1}
        BY FileFacts
      <3>2. \A fd \in Std : fd \in Int
        BY <3>1
      <3>3. ASSUME NEW fd \in Fds \cup Std PROVE (IF fd \in Std THEN fd ELSE -1) \in Int
        <4>1. CASE fd \in Std
          BY <3>2, <4>1
        <4>2. CASE fd \notin Std
          BY <4>2
        <4>3. QED
          BY <4>1, <4>2
      <3>4. QED
        BY <3>3 DEF NoneOpen
    <2>4. fd_table \in FdTables
      BY <1>1, <2>3 DEF FdTables
    <2>5. open_inodes \in Seq(Mem)
      BY <1>1
    <2>6. state \in [Procs -> {Idle, Run, [at |-> "exit"]} \cup Opening]
      BY <1>1
    <2>7. QED
      BY <1>2, <2>2, <2>4, <2>5, <2>6 DEF FileTypes
  <1>4. NotCounted
    BY <1>1 DEF NotCounted
  <1>5. InodeAlive
    <2>1. ASSUME NEW m \in Mem PROVE {g \in Slots : file_table[g].inode = m} = {} /\ inode[m].cnts = 0
      BY <1>1, FileFacts
    <2>2. Cardinality({}) = 0
      BY FS_EmptySet
    <2>3. \A m \in Mem : Cardinality({g \in Slots : file_table[g].inode = m}) = 0
      BY <2>1, <2>2
    <2>4. QED
      BY <2>1, <2>3 DEF InodeAlive
  <1>6. OpenListExact
    BY <1>1, EmptyFacts DEF OpenListExact
  <1>7. PipesOnly
    <2>1. \A g \in Slots : file_table[g].inode = Null
      BY <1>1
    <2>2. \A g \in Slots : PipeSlot(g)
      BY <2>1, FileFacts DEF PipeSlot
    <2>3. \A p \in Procs : state[p].at # "open"
      BY <1>1 DEF Run, Idle
    <2>4. QED
      BY <1>2, <2>2, <2>3 DEF PipesOnly
  <1>8. QED
    BY <1>3, <1>4, <1>5, <1>6, <1>7 DEF FileInv

\* Every step keeps it.
LEMMA FileInvStep ==
  ASSUME FileTableAssumption, FileInv, [Next]_vars
  PROVE  FileInv'
  <1>1. ASSUME UNCHANGED <<file_table, fd_table, inode, open_inodes, state, use>> PROVE FileInv'
    <2>1. FileTypes' /\ NotCounted' /\ InodeAlive' /\ OpenListExact'
      BY <1>1 DEF FileInv, FileTypes, NotCounted, InodeAlive, OpenListExact
    <2>2. PipesOnly'
      BY <1>1 DEF FileInv, PipesOnly, PipeSlot, Holders, is_pipe
    <2>3. QED
      BY <2>1, <2>2 DEF FileInv
  <1>2. CASE UNCHANGED vars
    BY <1>1, <1>2 DEF vars
  <1>3. ASSUME NEW p \in Procs, NEW f \in Files, NEW flag \in {"r", "w"},
               file_open(p, f, flag) \/ file_open_cached(p, f, flag)
        PROVE  FileInv'
    BY <1>3, OpenKeeps, CachedKeeps
  <1>4. ASSUME NEW p \in Procs, NEW m \in Mem, inode_open(p, m) PROVE FileInv'
    BY <1>4, ReadKeeps
  <1>5. ASSUME NEW p \in Procs, NEW fd \in Fds, sys_close(p, fd) PROVE FileInv'
    BY <1>5, CloseKeeps DEF sys_close
  <1>6. ASSUME NEW p \in Procs,
               sys_exit(p) \/ exit_close(p) \/ exit_done(p) \/ sys_pipe(p) \/ sys_pipe_overrun(p)
        PROVE  FileInv'
    <2>1. CASE sys_pipe_overrun(p)
      BY <1>1, <2>1 DEF sys_pipe_overrun
    <2>2. QED
      BY <1>6, <2>1, ExitKeeps, ExitCloseKeeps, PipeKeeps
  <1>7. ASSUME NEW p \in Procs, NEW old \in Std, NEW new \in Std \cup Fds, sys_fd_redirect(p, old, new)
        PROVE  FileInv'
    BY <1>7, RedirectKeeps
  <1>8. ASSUME NEW p \in Procs, NEW c \in Procs, sys_fork(p, c) PROVE FileInv'
    BY <1>8, ForkKeeps
  <1>9. QED
    BY <1>2, <1>3, <1>4, <1>5, <1>6, <1>7, <1>8 DEF Next

\* The invariant of slots, descriptors, inodes and pipes.
THEOREM FileInvariant == Spec => []FileInv
  <1>1. Init => FileInv
    BY FileInitial, FileTableAssumption
  <1>2. FileInv /\ [Next]_vars => FileInv'
    BY FileInvStep, FileTableAssumption
  <1>3. QED
    BY <1>1, <1>2, PTL DEF Spec

\* No slot points to an inode that was freed, and open_cnts never falls below
\* the number of slots on the inode (inode.c:77, 106, 115; fork.c:98; file.c:180).
THEOREM InodesStayAlive == Spec => []InodeAlive
  <1>1. FileInv => InodeAlive
    BY DEF FileInv
  <1>2. QED
    BY <1>1, FileInvariant, PTL

\* open_inodes holds the inodes in memory, each once (inode.c:105, 115-123).
THEOREM OpenListAlwaysExact == Spec => []OpenListExact
  <1>1. FileInv => OpenListExact
    BY DEF FileInv
  <1>2. QED
    BY <1>1, FileInvariant, PTL

\* The queue of a pipe is there as long as a descriptor leads to it, and the
\* count in fd_pos never falls below the number of these descriptors
\* (pipe.c:22, fs.c:390-395, fork.c:95-96, wait_exit.c:51-56).
THEOREM PipesStayAlive == Spec => []PipeAlive
  <1>1. FileInv => PipeAlive
    <2>1. SUFFICES ASSUME FileInv, NEW g \in Slots, use = "pipes", is_pipe(g)
                   PROVE  /\ \A p \in Procs : Refs(p, g) > 0 => file_table[g].inode = Page
                          /\ file_table[g].inode = Page =>
                               Cardinality({x \in Procs \X Fds : fd_table[x[1]][x[2]] = g})
                                 <= file_table[g].pos
      BY DEF PipeAlive
    <2>2. ASSUME NEW p \in Procs, Refs(p, g) > 0 PROVE file_table[g].inode = Page
      <3>1. {fd \in Fds : fd_table[p][fd] = g} # {}
        BY <2>2, FS_EmptySet DEF Refs
      <3>2. PICK fd \in Fds : fd_table[p][fd] = g
        BY <3>1
      <3>3. g # -1
        BY FileFacts, FileTableAssumption
      <3>4. QED
        BY <2>1, <3>2, <3>3 DEF FileInv, PipesOnly
    <2>3. QED
      BY <2>1, <2>2 DEF FileInv, PipesOnly, PipeSlot, Holders
  <1>2. QED
    BY <1>1, FileInvariant, PTL

-----------------------------------------------------------------------------
(* The line.                                                               *)

St(k, q) == [kb |-> k, queue |-> q]
Flags(sh, ct, al, ca, ex) == [shift |-> sh, ctrl |-> ct, alt |-> al, caps |-> ca, ext |-> ex]
Code(key, up) == [key |-> key, up |-> up]

\* Truth values as values: the provers keep formulas and values apart.
Yes == TRUE
No == FALSE
Not(b) == ~b

\* The flags of the handler are the keys that are down.
Down(S) == held \cap S # {}
KeysOK ==
  /\ kb = Flags(Down(Shifts), Down(Ctrls), Down(Alts), lock, No)
  /\ held = {} \/ \E k \in Modifiers : held = {k}

\* Characters, and what the buffer holds where there is none.
Chars == {"a", "A", "l", "L", "u", "U", "\\", "|", "CR", "BS", "^L", "^U", ""}

\* The line has no backspace in it.
LineOK(ln) ==
  /\ ln \in [buf : [0..LineLen -> Chars], pos : 0..LineLen, over : BOOLEAN]
  /\ \A i \in 0..(ln.pos - 1) : ln.buf[i] # "BS"

\* Enter is the last character.
QueueOK ==
  /\ queue \in Seq(Chars) /\ Len(queue) <= QueueLen
  /\ \A i \in 1..Len(queue) : queue[i] = "CR" => i = Len(queue)

InputInv == KeysOK /\ LineOK(line) /\ QueueOK /\ LineAsTyped

\* A record of the fields is a line.
LEMMA LineMade ==
  ASSUME LineLen \in Nat, NEW buf \in [0..LineLen -> Chars], NEW pos \in 0..LineLen,
         NEW over \in BOOLEAN, \A i \in 0..(pos - 1) : buf[i] # "BS",
         NEW x, x = [buf |-> buf, pos |-> pos, over |-> over]
  PROVE  LineOK(x) /\ x.buf = buf /\ x.pos = pos /\ x.over = over
  <1>1. x.buf = buf /\ x.pos = pos /\ x.over = over
    OBVIOUS
  <1>2. x \in [buf : [0..LineLen -> Chars], pos : 0..LineLen, over : BOOLEAN]
    OBVIOUS
  <1>3. QED
    BY <1>1, <1>2 DEF LineOK

\* The buffer cut at pos.
LEMMA CutFacts ==
  ASSUME LineLen \in Nat, NEW b \in [0..LineLen -> Chars], NEW pos \in 0..LineLen
  PROVE  LET buf == [i \in DOMAIN b |-> IF i < pos THEN b[i] ELSE ""]
         IN buf \in [0..LineLen -> Chars] /\ \A i \in 0..(pos - 1) : buf[i] = b[i]
  <1> DEFINE buf == [i \in DOMAIN b |-> IF i < pos THEN b[i] ELSE ""]
  <1>1. DOMAIN b = 0..LineLen
    OBVIOUS
  <1>2. \A i \in 0..LineLen : (IF i < pos THEN b[i] ELSE "") \in Chars
    <2>1. "" \in Chars
      BY DEF Chars
    <2>2. \A i \in 0..LineLen : b[i] \in Chars
      OBVIOUS
    <2>3. QED
      BY <2>1, <2>2, Zenon
  <1>3. buf \in [0..LineLen -> Chars]
    BY <1>1, <1>2, Zenon
  <1>4. \A i \in 0..(pos - 1) : i \in 0..LineLen /\ i < pos
    OBVIOUS
  <1>5. \A i \in 0..(pos - 1) : buf[i] = b[i]
    BY <1>1, <1>4
  <1>6. QED
    BY <1>3, <1>5

\* The string of a line.
LEMMA StringFacts ==
  ASSUME LineLen \in Nat, NEW ln, LineOK(ln)
  PROVE  /\ String(ln) \in Seq(Chars) /\ Len(String(ln)) = ln.pos
         /\ \A i \in 1..ln.pos : String(ln)[i] = ln.buf[i - 1]
  <1>1. ln.pos \in 0..LineLen /\ ln.buf \in [0..LineLen -> Chars]
    BY DEF LineOK
  <1>2. \A i \in 1..ln.pos : i - 1 \in 0..LineLen
    BY <1>1
  <1>3. \A i \in 1..ln.pos : ln.buf[i - 1] \in Chars
    BY <1>1, <1>2
  <1>4. String(ln) \in [1..ln.pos -> Chars]
    BY <1>3 DEF String
  <1>5. ln.pos \in Nat
    BY <1>1
  <1>6. String(ln) \in Seq(Chars)
    BY <1>4, <1>5
  <1>7. Len(String(ln)) = ln.pos
    BY <1>4, <1>5, <1>6
  <1>8. QED
    BY <1>6, <1>7 DEF String

\* readline makes of the buffer what the user expects.
LEMMA ReadlineStep ==
  ASSUME InputAssumption, NEW ln, LineOK(ln), NEW c \in Chars
  PROVE  /\ LineOK(readline_step(ln, c))
         /\ ln.over => readline_step(ln, c).over
         /\ ~readline_step(ln, c).over =>
              /\ ~ln.over /\ ln.pos < LineLen
              /\ String(readline_step(ln, c)) = Edited(String(ln), c)
  <1>0. /\ LineLen \in Nat \ {0}
        /\ ln \in [buf : [0..LineLen -> Chars], pos : 0..LineLen, over : BOOLEAN]
    BY DEF InputAssumption, LineOK
  <1>1. CASE ~(ln.pos < LineLen)
    <2>1. /\ readline_step(ln, c) = [buf |-> [i \in 0..LineLen |-> ""], pos |-> 0, over |-> TRUE]
      BY <1>1 DEF readline_step, EmptyLine
    <2>2. [i \in 0..LineLen |-> ""] \in [0..LineLen -> Chars]
      BY DEF Chars
    <2>3. LineOK(readline_step(ln, c)) /\ readline_step(ln, c).over
      <3> DEFINE z == readline_step(ln, c)
                 e == [i \in 0..LineLen |-> ""]
      <3>1. 0 \in 0..LineLen /\ \A i \in 0..(0 - 1) : e[i] # "BS"
        BY <1>0
      <3>2. z = [buf |-> e, pos |-> 0, over |-> TRUE] /\ e \in [0..LineLen -> Chars]
        BY <2>1, <2>2
      <3> HIDE DEF z, e
      <3>3. z.buf = e /\ z.pos = 0 /\ z.over
        BY <3>2
      <3>6. z \in [buf : [0..LineLen -> Chars], pos : 0..LineLen, over : BOOLEAN]
        BY <3>1, <3>2
      <3>4. LineOK(z) /\ z.over
        BY <3>1, <3>3, <3>6 DEF LineOK
      <3>5. QED
        BY <3>4 DEF z
    <2>4. QED
      BY <2>3
  <1>2. CASE ln.pos < LineLen
    <2> DEFINE b == [ln.buf EXCEPT ![ln.pos] = c]
               pos == CASE c = "BS" -> IF b[0] # "BS" THEN ln.pos - 1 ELSE ln.pos
                        [] c = "^U" -> 0
                        [] c \in {"^L", "CR"} -> ln.pos
                        [] OTHER -> ln.pos + 1
               buf == [i \in DOMAIN b |-> IF i < pos THEN b[i] ELSE ""]
               x == readline_step(ln, c)
    <2>1. x = [buf |-> buf, pos |-> pos, over |-> ln.over]
      BY <1>0, <1>2 DEF readline_step, readline_char
    <2>2. b \in [0..LineLen -> Chars] /\ b[ln.pos] = c
          /\ \A i \in 0..LineLen : i # ln.pos => b[i] = ln.buf[i]
      BY <1>0
    <2>3. b[0] = "BS" /\ c = "BS" => ln.pos = 0
      BY <1>0, <2>2 DEF LineOK
    <2>4. ln.pos = 0 /\ c = "BS" => b[0] = "BS"
      BY <2>2
    <2>5. pos \in 0..LineLen
      BY <1>0, <1>2, <2>3, <2>4
    <2>6. buf \in [0..LineLen -> Chars] /\ \A i \in 0..(pos - 1) : buf[i] = b[i]
      <3> HIDE DEF pos, b
      <3>1. QED
        BY <1>0, <2>2, <2>5, CutFacts
    <2>7. \A i \in 0..(pos - 1) : b[i] # "BS" /\ (i # ln.pos => b[i] = ln.buf[i])
      <3>1. ASSUME NEW i \in 0..(pos - 1) PROVE i \in 0..LineLen /\ i <= ln.pos
        BY <1>0, <1>2, <2>5, <2>3
      <3>2. ASSUME NEW i \in 0..(pos - 1), i = ln.pos PROVE c # "BS"
        BY <1>0, <2>3, <2>4, <3>2
      <3> HIDE DEF pos, b
      <3>3. ASSUME NEW i \in 0..(pos - 1)
            PROVE  b[i] # "BS" /\ (i # ln.pos => b[i] = ln.buf[i])
        <4>1. CASE i = ln.pos
          BY <2>2, <3>2, <4>1
        <4>2. CASE i # ln.pos
          <5>1. i \in 0..(ln.pos - 1)
            BY <1>0, <3>1, <4>2
          <5>2. QED
            BY <2>2, <3>1, <4>2, <5>1 DEF LineOK
        <4>3. QED
          BY <4>1, <4>2
      <3>4. QED
        BY <3>3
    <2>8. LineOK(x)
      <3>1. ln.over \in BOOLEAN /\ LineLen \in Nat
        BY <1>0
      <3>2. \A i \in 0..(pos - 1) : buf[i] # "BS"
        BY <2>6, <2>7
      <3> HIDE DEF x, pos, buf
      <3>3. QED
        BY <2>1, <2>5, <2>6, <3>1, <3>2, LineMade
    <2>9. String(x) = Edited(String(ln), c)
      <3>0. x.pos = pos /\ x.buf = buf
        <4> HIDE DEF x, pos, buf
        <4>1. QED
          BY <2>1
      <3>s. String(ln) = [i \in 1..ln.pos |-> ln.buf[i - 1]] /\ String(x) = [i \in 1..pos |-> b[i - 1]]
        <4>1. \A i \in 1..pos : i - 1 \in 0..(pos - 1)
          BY <2>5
        <4> HIDE DEF pos, b, buf
        <4>2. QED
          BY <2>6, <3>0, <4>1 DEF String
      <3>l. String(ln) \in Seq(Chars) /\ Len(String(ln)) = ln.pos
        BY <1>0, StringFacts
      <3>1. CASE c = "BS"
        <4>1. CASE ln.pos = 0
          BY <2>3, <2>4, <3>1, <3>s, <4>1, <3>l DEF Edited
        <4>2. CASE ln.pos # 0
          <5>1. pos = ln.pos - 1 /\ \A i \in 1..pos : b[i - 1] = ln.buf[i - 1]
            BY <1>0, <2>2, <2>3, <3>1, <4>2
          <5>2. Edited(String(ln), c) = SubSeq(String(ln), 1, ln.pos - 1)
            BY <3>1, <3>l, <4>2 DEF Edited, Front
          <5> HIDE DEF pos, b
          <5>3. SubSeq(String(ln), 1, ln.pos - 1) = [i \in 1..(ln.pos - 1) |-> ln.buf[i - 1]]
            BY <1>0, <3>s, <3>l, <4>2
          <5>4. QED
            BY ZenonT(40), <3>s, <5>1, <5>2, <5>3
        <4>3. QED
          BY <4>1, <4>2
      <3>2. CASE c = "^U"
        BY <3>2, <3>s DEF Edited
      <3>3. CASE c \in {"^L", "CR"}
        <4>1. pos = ln.pos /\ \A i \in 1..pos : b[i - 1] = ln.buf[i - 1]
          BY <1>0, <2>2, <3>3
        <4> HIDE DEF pos, b
        <4>2. QED
          BY <3>s, <3>3, <4>1 DEF Edited
      <3>4. CASE c \notin {"BS", "^U", "^L", "CR"}
        <4>1. /\ pos = ln.pos + 1 /\ b[pos - 1] = c
              /\ \A i \in 1..ln.pos : b[i - 1] = ln.buf[i - 1]
          BY <1>0, <2>2, <3>4
        <4> HIDE DEF pos, b
        <4>2. Edited(String(ln), c) = Append(String(ln), c)
          BY <3>4 DEF Edited
        <4> DEFINE s == String(ln)
                   t == Append(s, c)
                   u == [i \in 1..pos |-> b[i - 1]]
        <4> HIDE DEF s
        <4>3. /\ t \in Seq(Chars) /\ Len(t) = ln.pos + 1 /\ t[ln.pos + 1] = c
              /\ \A i \in 1..ln.pos : t[i] = s[i]
          <5>1. s \in Seq(Chars) /\ Len(s) = ln.pos
            BY <3>l DEF s
          <5>2. QED
            BY <1>0, <5>1, AppendProperties
        <4> HIDE DEF t
        <4>4. \A i \in 1..pos : t[i] = b[i - 1]
          <5>1. ASSUME NEW i \in 1..pos, i # pos PROVE t[i] = b[i - 1]
            <6>1. i \in 1..ln.pos
              BY <1>0, <4>1, <5>1
            <6>2. s[i] = ln.buf[i - 1]
              BY <1>0, <6>1, StringFacts DEF s
            <6>3. QED
              BY <4>1, <4>3, <6>1, <6>2
          <5>2. QED
            BY <4>1, <4>3, <5>1
        <4>5. t = u
          <5>1. pos \in Nat /\ DOMAIN t = 1..pos /\ t = [i \in DOMAIN t |-> t[i]]
            BY <2>5, <4>1, <4>3
          <5>2. QED
            BY <4>4, <5>1
        <4>6. QED
          BY <3>s, <4>2, <4>5 DEF t, s
      <3>5. QED
        BY <3>1, <3>2, <3>3, <3>4
    <2>10. x.over = ln.over
      <3> HIDE DEF x, pos, buf
      <3>1. QED
        BY <2>1
    <2> HIDE DEF x
    <2>11. QED
      BY <1>2, <2>8, <2>9, <2>10 DEF x
  <1>3. QED
    BY <1>1, <1>2
-----------------------------------------------------------------------------
(* Loops: the turns of a recursive function.                               *)

\* Two loops that start alike and go on alike end alike.
LEMMA SameTurns ==
  ASSUME NEW n \in Nat, NEW f, NEW g, f[0] = g[0],
         \A k \in 1..n : f[k - 1] = g[k - 1] => f[k] = g[k]
  PROVE  \A k \in 0..n : f[k] = g[k]
  <1> DEFINE T == {k \in Nat : k > n \/ f[k] = g[k]}
  <1>1. 0 \in T
    OBVIOUS
  <1>2. ASSUME NEW k \in T PROVE k + 1 \in T
    <2>1. SUFFICES ASSUME k + 1 <= n PROVE f[k + 1] = g[k + 1]
      OBVIOUS
    <2>2. k + 1 \in 1..n /\ (k + 1) - 1 = k /\ f[k] = g[k]
      BY <2>1
    <2>3. QED
      BY <2>2
  <1>3. T = Nat
    BY <1>1, <1>2, Inductive
  <1>4. QED
    BY <1>3

\* f is what readline makes of ln, character by character of q.
Turns(f, q) == \A k \in 1..Len(q) : f[k] = readline_step(f[k - 1], q[k])
IsRead(f, ln, q) == f = [k \in 0..Len(q) |-> IF k = 0 THEN ln ELSE readline_step(f[k - 1], q[k])]

LEMMA IsReadExists ==
  ASSUME NEW ln, NEW q \in Seq(Chars)
  PROVE  \E f : IsRead(f, ln, q)
  <1> DEFINE R(f, n) == f = [k \in 0..n |-> IF k = 0 THEN ln ELSE readline_step(f[k - 1], q[k])]
             T == {i \in Nat : \E f : R(f, i)}
  <1>1. 0 \in T
    <2>1. R([k \in 0..0 |-> ln], 0)
      OBVIOUS
    <2>2. QED
      BY <2>1
  <1>2. ASSUME NEW i \in T PROVE i + 1 \in T
    <2>1. PICK f : R(f, i)
      OBVIOUS
    <2> DEFINE g == [k \in 0..(i + 1) |-> IF k = 0 THEN ln ELSE readline_step(f[k - 1], q[k])]
    <2>2. ASSUME NEW k \in 0..(i + 1), k # 0 PROVE g[k - 1] = f[k - 1]
      <3>1. k - 1 \in 0..i /\ k - 1 \in 0..(i + 1)
        BY <2>2
      <3>2. QED
        BY <3>1, <2>1
    <2>3. R(g, i + 1)
      BY <2>2
    <2> HIDE DEF g
    <2>4. QED
      BY <2>3
  <1>3. T = Nat
    BY <1>1, <1>2, Inductive
  <1>4. QED
    BY <1>3 DEF IsRead

\* ReadAll is the end of any such loop, and there is one.
LEMMA ReadAllIs ==
  ASSUME NEW ln, NEW q \in Seq(Chars), NEW f, f[0] = ln, Turns(f, q)
  PROVE  ReadAll(ln, q) = f[Len(q)]
  <1> DEFINE at == CHOOSE g : IsRead(g, ln, q)
  <1>1. IsRead(at, ln, q)
    BY IsReadExists
  <1>2. ReadAll(ln, q) = at[Len(q)]
    BY DEF ReadAll, IsRead
  <1> HIDE DEF at
  <1>3. Len(q) \in Nat
    OBVIOUS
  <1>4. at[0] = ln /\ \A k \in 1..Len(q) : at[k] = readline_step(at[k - 1], q[k])
    BY <1>1, <1>3 DEF IsRead
  <1>5. \A k \in 1..Len(q) : f[k - 1] = at[k - 1] => f[k] = at[k]
    BY <1>4 DEF Turns
  <1>6. \A k \in 0..Len(q) : f[k] = at[k]
    <2> DEFINE n == Len(q)
    <2>1. n \in Nat /\ f[0] = at[0] /\ \A k \in 1..n : f[k - 1] = at[k - 1] => f[k] = at[k]
      BY <1>3, <1>4, <1>5
    <2> HIDE DEF n
    <2>2. \A k \in 0..n : f[k] = at[k]
      BY SMTT(30), <2>1, SameTurns
    <2>3. QED
      BY <2>2 DEF n
  <1>7. QED
    BY <1>2, <1>3, <1>6

LEMMA ReadAllTurns ==
  ASSUME NEW ln, NEW q \in Seq(Chars)
  PROVE  \E f : f[0] = ln /\ Turns(f, q) /\ ReadAll(ln, q) = f[Len(q)]
  <1>1. PICK f : IsRead(f, ln, q)
    BY IsReadExists
  <1>2. Len(q) \in Nat
    OBVIOUS
  <1>3. f[0] = ln /\ Turns(f, q)
    BY <1>1, <1>2 DEF IsRead, Turns
  <1>4. QED
    BY <1>3, ReadAllIs

\* Nothing to read; one more character at the end; the first one is read.
LEMMA ReadAllFacts ==
  ASSUME NEW ln, NEW q \in Seq(Chars)
  PROVE  /\ q = << >> => ReadAll(ln, q) = ln
         /\ \A c \in Chars : ReadAll(ln, Append(q, c)) = readline_step(ReadAll(ln, q), c)
         /\ q # << >> => ReadAll(readline_step(ln, Head(q)), Tail(q)) = ReadAll(ln, q)
  <1>1. ASSUME q = << >> PROVE ReadAll(ln, q) = ln
    <2>1. PICK f : f[0] = ln /\ Turns(f, q) /\ ReadAll(ln, q) = f[Len(q)]
      BY ReadAllTurns
    <2>2. Len(q) = 0
      BY <1>1
    <2>3. QED
      BY <2>1, <2>2
  <1>2. ASSUME NEW c \in Chars
        PROVE  ReadAll(ln, Append(q, c)) = readline_step(ReadAll(ln, q), c)
    <2> DEFINE r == Append(q, c)
    <2>1. /\ r \in Seq(Chars) /\ Len(r) = Len(q) + 1 /\ r[Len(q) + 1] = c
          /\ \A k \in 1..Len(q) : r[k] = q[k]
      BY AppendProperties
    <2> HIDE DEF r
    <2>2. PICK f : f[0] = ln /\ Turns(f, r) /\ ReadAll(ln, r) = f[Len(r)]
      BY <2>1, ReadAllTurns
    <2>3. Len(q) \in Nat
      OBVIOUS
    <2>4. Turns(f, q)
      <3>1. \A k \in 1..Len(q) : k \in 1..Len(r)
        BY <2>1, <2>3
      <3>2. QED
        BY <2>1, <2>2, <3>1 DEF Turns
    <2>5. ReadAll(ln, q) = f[Len(q)]
      BY <2>2, <2>4, ReadAllIs
    <2>6. f[Len(r)] = readline_step(f[Len(q)], c)
      <3>1. Len(r) \in 1..Len(r) /\ Len(r) - 1 = Len(q)
        BY <2>1, <2>3
      <3>2. QED
        BY <2>1, <2>2, <3>1 DEF Turns
    <2>7. QED
      BY <2>2, <2>5, <2>6 DEF r
  <1>3. ASSUME q # << >>
        PROVE  ReadAll(readline_step(ln, Head(q)), Tail(q)) = ReadAll(ln, q)
    <2> DEFINE t == Tail(q)
               n == Len(q)
    <2>1. /\ t \in Seq(Chars) /\ Len(t) = n - 1 /\ Head(q) = q[1] /\ n \in Nat \ {0}
          /\ \A k \in 1..(n - 1) : t[k] = q[k + 1]
      BY <1>3, HeadTailProperties, EmptySeq
    <2> HIDE DEF t, n
    <2>2. PICK f : f[0] = ln /\ Turns(f, q) /\ ReadAll(ln, q) = f[n]
      BY ReadAllTurns DEF n
    <2> DEFINE g == [k \in 0..(n - 1) |-> f[k + 1]]
               ln1 == readline_step(ln, Head(q))
    <2>3. g[0] = ln1
      <3>1. 1 \in 1..n /\ 1 - 1 = 0 /\ 0 \in 0..(n - 1) /\ 0 + 1 = 1
        BY <2>1
      <3>2. f[1] = readline_step(f[0], q[1])
        BY <2>2, <3>1 DEF Turns, n
      <3>3. QED
        BY <2>1, <2>2, <3>1, <3>2
    <2>4. Turns(g, t)
      <3>1. SUFFICES ASSUME NEW k \in 1..(n - 1)
                     PROVE  g[k] = readline_step(g[k - 1], t[k])
        BY <2>1 DEF Turns
      <3>2. k \in 0..(n - 1) /\ k - 1 \in 0..(n - 1) /\ k + 1 \in 1..n /\ (k + 1) - 1 = k
            /\ (k - 1) + 1 = k
        BY <2>1
      <3>3. g[k] = f[k + 1] /\ g[k - 1] = f[k]
        BY <3>2
      <3>4. f[k + 1] = readline_step(f[k], q[k + 1])
        BY <2>2, <3>2 DEF Turns, n
      <3>5. QED
        BY <2>1, <3>3, <3>4
    <2>5. g[n - 1] = f[n]
      <3>1. n - 1 \in 0..(n - 1) /\ (n - 1) + 1 = n
        BY <2>1
      <3>2. QED
        BY <3>1
    <2> HIDE DEF g, ln1
    <2>6. ReadAll(ln1, t) = g[n - 1]
      BY <2>1, <2>3, <2>4, ReadAllIs
    <2>7. QED
      BY <2>2, <2>5, <2>6 DEF t, ln1
  <1>4. QED
    BY <1>1, <1>2, <1>3

\* What has been read is a line, and stays over the end once it is.
LEMMA ReadAllLine ==
  ASSUME InputAssumption, NEW ln, LineOK(ln), NEW q \in Seq(Chars)
  PROVE  LineOK(ReadAll(ln, q)) /\ (ln.over => ReadAll(ln, q).over)
  <1>1. PICK f : f[0] = ln /\ Turns(f, q) /\ ReadAll(ln, q) = f[Len(q)]
    BY ReadAllTurns
  <1> DEFINE n == Len(q)
             T == {k \in Nat : k > n \/ (LineOK(f[k]) /\ (ln.over => f[k].over))}
  <1>2. n \in Nat /\ \A k \in 1..n : q[k] \in Chars
    OBVIOUS
  <1>3. 0 \in T
    BY <1>1
  <1>4. ASSUME NEW k \in T PROVE k + 1 \in T
    <2>1. SUFFICES ASSUME k + 1 <= n PROVE LineOK(f[k + 1]) /\ (ln.over => f[k + 1].over)
      OBVIOUS
    <2>2. k + 1 \in 1..n /\ (k + 1) - 1 = k /\ LineOK(f[k]) /\ (ln.over => f[k].over)
      BY <1>2, <2>1
    <2>3. f[k + 1] = readline_step(f[k], q[k + 1]) /\ q[k + 1] \in Chars
      BY <1>1, <1>2, <2>2 DEF Turns
    <2>4. QED
      BY <2>2, <2>3, ReadlineStep
  <1>5. T = Nat
    BY <1>3, <1>4, Inductive
  <1>6. QED
    BY <1>1, <1>2, <1>5
-----------------------------------------------------------------------------
(* The interrupts.                                                         *)

IsHandled(f, codes) ==
  f = [k \in 0..Len(codes) |-> IF k = 0 THEN [kb |-> kb, queue |-> queue]
                               ELSE intr_keyboard_handler(f[k - 1], codes[k])]

\* The interrupts of some codes end where any loop over these codes ends.
LEMMA HandledIs ==
  ASSUME NEW codes, Len(codes) \in Nat, Interrupts(codes), NEW f, IsHandled(f, codes)
  PROVE  kb' = f[Len(codes)].kb /\ queue' = f[Len(codes)].queue
  <1> DEFINE s == CHOOSE g : IsHandled(g, codes)
             n == Len(codes)
  <1>1. IsHandled(s, codes)
    OBVIOUS
  <1>2. kb' = s[n].kb /\ queue' = s[n].queue
    BY DEF Interrupts, IsHandled
  <1> HIDE DEF s
  <1>3. f[0] = s[0]
    BY <1>1 DEF IsHandled
  <1>4. ASSUME NEW k \in 1..n, f[k - 1] = s[k - 1] PROVE f[k] = s[k]
    <2>1. k \in 0..n /\ k # 0
      OBVIOUS
    <2>2. QED
      BY <1>1, <1>4, <2>1 DEF IsHandled
  <1> HIDE DEF n
  <1>5. \A k \in 0..n : f[k] = s[k]
    <2>1. n \in Nat
      BY DEF n
    <2>2. QED
      BY <1>3, <1>4, <2>1, SameTurns
  <1>6. QED
    BY <1>2, <1>5 DEF n

\* One, two and four codes.
LEMMA HandledOne ==
  ASSUME NEW c1, Interrupts(<<c1>>), NEW k1, NEW q1,
         intr_keyboard_handler(St(kb, queue), c1) = St(k1, q1)
  PROVE  kb' = k1 /\ queue' = q1
  <1> DEFINE s0 == St(kb, queue)
             s1 == St(k1, q1)
             f == [k \in 0..1 |-> IF k = 0 THEN s0 ELSE s1]
  <1>0. s0 = [kb |-> kb, queue |-> queue] /\ s1.kb = k1 /\ s1.queue = q1
    BY DEF St
  <1> HIDE DEF s0, s1
  <1>1. IsHandled(f, <<c1>>)
    BY <1>0 DEF IsHandled, s0, s1
  <1>2. Len(<<c1>>) = 1 /\ f[1] = s1
    OBVIOUS
  <1> HIDE DEF f
  <1>3. QED
    BY <1>0, <1>1, <1>2, HandledIs

LEMMA HandledTwo ==
  ASSUME NEW c1, NEW c2, Interrupts(<<c1, c2>>), NEW s1, NEW k2, NEW q2,
         intr_keyboard_handler(St(kb, queue), c1) = s1,
         intr_keyboard_handler(s1, c2) = St(k2, q2)
  PROVE  kb' = k2 /\ queue' = q2
  <1> DEFINE s0 == St(kb, queue)
             s2 == St(k2, q2)
             f == [k \in 0..2 |-> IF k = 0 THEN s0 ELSE IF k = 1 THEN s1 ELSE s2]
  <1>0. s0 = [kb |-> kb, queue |-> queue] /\ s2.kb = k2 /\ s2.queue = q2
    BY DEF St
  <1>h. intr_keyboard_handler(s0, c1) = s1 /\ intr_keyboard_handler(s1, c2) = s2
    OBVIOUS
  <1> HIDE DEF s0, s2
  <1>1. IsHandled(f, <<c1, c2>>)
    BY <1>0, <1>h DEF IsHandled
  <1>2. Len(<<c1, c2>>) = 2 /\ f[2] = s2
    OBVIOUS
  <1> HIDE DEF f
  <1>3. QED
    BY <1>0, <1>1, <1>2, HandledIs

LEMMA HandledFour ==
  ASSUME NEW c1, NEW c2, NEW c3, NEW c4, Interrupts(<<c1, c2, c3, c4>>),
         NEW s1, NEW s2, NEW s3, NEW k4, NEW q4,
         intr_keyboard_handler(St(kb, queue), c1) = s1,
         intr_keyboard_handler(s1, c2) = s2,
         intr_keyboard_handler(s2, c3) = s3,
         intr_keyboard_handler(s3, c4) = St(k4, q4)
  PROVE  kb' = k4 /\ queue' = q4
  <1> DEFINE s0 == St(kb, queue)
             s4 == St(k4, q4)
             f == [k \in 0..4 |-> IF k = 0 THEN s0 ELSE IF k = 1 THEN s1 ELSE
                                  IF k = 2 THEN s2 ELSE IF k = 3 THEN s3 ELSE s4]
  <1>0. s0 = [kb |-> kb, queue |-> queue] /\ s4.kb = k4 /\ s4.queue = q4
    BY DEF St
  <1>h. /\ intr_keyboard_handler(s0, c1) = s1 /\ intr_keyboard_handler(s1, c2) = s2
        /\ intr_keyboard_handler(s2, c3) = s3 /\ intr_keyboard_handler(s3, c4) = s4
    OBVIOUS
  <1> HIDE DEF s0, s4
  <1>1. IsHandled(f, <<c1, c2, c3, c4>>)
    BY <1>0, <1>h DEF IsHandled
  <1>2. Len(<<c1, c2, c3, c4>>) = 4 /\ f[4] = s4
    OBVIOUS
  <1> HIDE DEF f
  <1>3. QED
    BY <1>0, <1>1, <1>2, HandledIs

\* One interrupt that is not the prefix.
LEMMA HandlerIs ==
  ASSUME NEW k, NEW q, NEW x, x # "e0"
  PROVE  /\ intr_keyboard_handler(St(k, q), Code(x, Yes)) = St(Unprefixed(Break(k, x)), q)
         /\ intr_keyboard_handler(St(k, q), Code(x, No)) =
              IF k.ext /\ x \notin {"ctrl", "alt"} THEN St(Unprefixed(k), q)
              ELSE IF x \in DOMAIN keymap
                   THEN St(Unprefixed(k),
                           IF Len(q) < QueueLen THEN Append(q, Char(k, x)) ELSE q)
              ELSE St(Modify(Unprefixed(k), x), q)
  <1> DEFINE s == St(k, q)
  <1>1. s.kb = k /\ s.queue = q /\ \A k1 : [s EXCEPT !.kb = k1] = St(k1, q)
    BY DEF St
  <1>2. /\ Code(x, Yes) # E0 /\ Code(x, Yes).key = x /\ Code(x, Yes).up
        /\ Code(x, No) # E0 /\ Code(x, No).key = x /\ ~Code(x, No).up
    BY DEF Code, E0, Yes, No
  <1>3. \A r : [kb |-> Unprefixed(k), queue |-> r] = St(Unprefixed(k), r)
    BY DEF St
  <1> HIDE DEF s
  <1>4. intr_keyboard_handler(s, Code(x, Yes)) = St(Unprefixed(Break(k, x)), q)
    BY <1>1, <1>2 DEF intr_keyboard_handler
  <1>5. CASE k.ext /\ x \notin {"ctrl", "alt"}
    <2>1. intr_keyboard_handler(s, Code(x, No)) = St(Unprefixed(k), q)
      BY <1>1, <1>2, <1>5 DEF intr_keyboard_handler
    <2>2. QED
      BY <1>4, <1>5, <2>1 DEF s
  <1>6. CASE ~(k.ext /\ x \notin {"ctrl", "alt"})
    <2>1. CASE x \in DOMAIN keymap
      <3> DEFINE r == IF Len(q) < QueueLen THEN Append(q, Char(k, x)) ELSE q
      <3>1. intr_keyboard_handler(s, Code(x, No)) = [kb |-> Unprefixed(k), queue |-> r]
        BY <1>1, <1>2, <1>6, <2>1 DEF intr_keyboard_handler
      <3>2. QED
        BY <1>3, <1>4, <1>6, <2>1, <3>1 DEF s
    <2>2. CASE x \notin DOMAIN keymap
      <3>1. intr_keyboard_handler(s, Code(x, No)) = St(Modify(Unprefixed(k), x), q)
        BY <1>1, <1>2, <1>6, <2>2 DEF intr_keyboard_handler
      <3>2. QED
        BY <1>4, <1>6, <2>2, <3>1 DEF s
    <2>3. QED
      BY <2>1, <2>2
  <1>7. QED
    BY <1>5, <1>6

\* The flags.
LEMMA FlagFacts ==
  ASSUME NEW sh, NEW ct, NEW al, NEW ca,
         NEW ex
  PROVE  LET k == Flags(sh, ct, al, ca, ex)
         IN /\ (ex = No => ~k.ext) /\ (ex = Yes => k.ext)
            /\ Unprefixed(k) = Flags(sh, ct, al, ca, No)
            /\ Break(k, "ctrl") = Flags(sh, No, al, ca, ex)
            /\ Break(k, "alt") = Flags(sh, ct, No, ca, ex)
            /\ \A x \in Shifts : ex = No => Break(k, x) = Flags(No, ct, al, ca, ex)
            /\ \A x : x \notin Shifts \cup {"ctrl", "alt"} => Break(k, x) = k
            /\ Modify(k, "ctrl") = Flags(sh, Yes, al, ca, ex)
            /\ Modify(k, "alt") = Flags(sh, ct, Yes, ca, ex)
            /\ \A x \in Shifts : Modify(k, x) = Flags(Yes, ct, al, ca, ex)
            /\ Modify(k, "caps") = Flags(sh, ct, al, Not(ca), ex)
  <1> DEFINE k == Flags(sh, ct, al, ca, ex)
  <1>0. (ex = No => ~k.ext) /\ (ex = Yes => k.ext)
    BY DEF Flags, Yes, No
  <1>1. Unprefixed(k) = Flags(sh, ct, al, ca, No)
    <2>1. [k EXCEPT !.ext = No] = Flags(sh, ct, al, ca, No)
      BY DEF Flags
    <2>2. QED
      BY <2>1 DEF No, Unprefixed
  <1>s. /\ [k EXCEPT !.ctrl = No] = Flags(sh, No, al, ca, ex)
        /\ [k EXCEPT !.ctrl = Yes] = Flags(sh, Yes, al, ca, ex)
        /\ [k EXCEPT !.alt = No] = Flags(sh, ct, No, ca, ex)
        /\ [k EXCEPT !.alt = Yes] = Flags(sh, ct, Yes, ca, ex)
        /\ [k EXCEPT !.shift = No] = Flags(No, ct, al, ca, ex)
        /\ [k EXCEPT !.shift = Yes] = Flags(Yes, ct, al, ca, ex)
        /\ [k EXCEPT !.caps = Not(ca)] = Flags(sh, ct, al, Not(ca), ex)
        /\ k.caps = ca
    BY DEF Flags
  <1> HIDE DEF k
  <1>2. /\ Break(k, "ctrl") = Flags(sh, No, al, ca, ex)
        /\ Break(k, "alt") = Flags(sh, ct, No, ca, ex)
    <2>1. /\ Break(k, "ctrl") = [k EXCEPT !.ctrl = FALSE]
          /\ Break(k, "alt") = [k EXCEPT !.alt = FALSE]
      BY DEF Break, Shifts
    <2>2. QED
      BY <1>s, <2>1 DEF No
  <1>3. \A x \in Shifts : ex = No => Break(k, x) = Flags(No, ct, al, ca, ex)
    <2>1. \A x \in Shifts : ex = No => Break(k, x) = [k EXCEPT !.shift = FALSE]
      BY <1>0 DEF Break, Shifts
    <2>2. QED
      BY <1>s, <2>1 DEF No
  <1>4. \A x : x \notin Shifts \cup {"ctrl", "alt"} => Break(k, x) = k
    BY DEF Break
  <1>5. /\ Modify(k, "ctrl") = Flags(sh, Yes, al, ca, ex)
        /\ Modify(k, "alt") = Flags(sh, ct, Yes, ca, ex)
        /\ \A x \in Shifts : Modify(k, x) = Flags(Yes, ct, al, ca, ex)
    <2>1. /\ Modify(k, "ctrl") = [k EXCEPT !.ctrl = TRUE]
          /\ Modify(k, "alt") = [k EXCEPT !.alt = TRUE]
          /\ \A x \in Shifts : Modify(k, x) = [k EXCEPT !.shift = TRUE]
      BY DEF Modify, Shifts
    <2>2. QED
      BY <1>s, <2>1 DEF Yes
  <1>6. Modify(k, "caps") = Flags(sh, ct, al, Not(ca), ex)
    <2>1. Modify(k, "caps") = [k EXCEPT !.caps = ~k.caps]
      BY DEF Modify, Shifts
    <2>2. QED
      BY <1>s, <2>1 DEF Not
  <1>7. QED
    BY <1>0, <1>1, <1>2, <1>3, <1>4, <1>5, <1>6 DEF k

\* The prefix.
LEMMA PrefixIs ==
  ASSUME NEW sh, NEW ct, NEW al, NEW ca, NEW q
  PROVE  intr_keyboard_handler(St(Flags(sh, ct, al, ca, No), q), E0) =
           St(Flags(sh, ct, al, ca, Yes), q)
  <1> DEFINE k == Flags(sh, ct, al, ca, No)
  <1>1. [k EXCEPT !.ext = Yes] = Flags(sh, ct, al, ca, Yes)
    BY DEF Flags
  <1> HIDE DEF k
  <1>2. [St(k, q) EXCEPT !.kb.ext = Yes] = St([k EXCEPT !.ext = Yes], q)
    BY DEF St
  <1>3. intr_keyboard_handler(St(k, q), E0) = [St(k, q) EXCEPT !.kb.ext = TRUE]
    BY DEF intr_keyboard_handler
  <1>4. QED
    BY <1>1, <1>2, <1>3 DEF Yes, k

LEMMA CodeLists ==
  ASSUME NEW a, NEW b, NEW c, NEW d
  PROVE  <<a>> \o <<b>> = <<a, b>> /\ <<a, b>> \o <<c, d>> = <<a, b, c, d>>
  <1>1. <<a>> \o <<b>> = <<a, b>>
    <2> DEFINE S == {a, b}
               s == <<a>> \o <<b>>
               t == <<a, b>>
    <2>1. s \in Seq(S) /\ t \in Seq(S) /\ Len(s) = 2 /\ Len(t) = 2
      OBVIOUS
    <2>2. \A i \in 1..2 : s[i] = t[i]
      OBVIOUS
    <2> HIDE DEF s, t, S
    <2>3. s = t
      BY <2>1, <2>2, SeqEqual
    <2>4. QED
      BY <2>3 DEF s, t
  <1>2. <<a, b>> \o <<c, d>> = <<a, b, c, d>>
    <2> DEFINE S == {a, b, c, d}
               s == <<a, b>> \o <<c, d>>
               t == <<a, b, c, d>>
    <2>1. s \in Seq(S) /\ t \in Seq(S) /\ Len(s) = 4 /\ Len(t) = 4
      OBVIOUS
    <2>2. s[1] = a /\ s[2] = b /\ s[3] = c /\ s[4] = d
      OBVIOUS
    <2>3. \A i \in 1..4 : s[i] = t[i]
      BY <2>2
    <2> HIDE DEF s, t, S
    <2>4. s = t
      BY <2>1, <2>3, SeqEqual
    <2>5. QED
      BY <2>4 DEF s, t
  <1>3. QED
    BY <1>1, <1>2

\* The codes of the keys.
LEMMA CodesIs ==
  /\ \A key \in DOMAIN keymap \cup Shifts \cup {"caps"} : \A up :
       /\ Codes(key, up) = <<Code(key, up)>>
       /\ key \notin {"e0", "ctrl", "alt", "up"}
  /\ \A up :
       /\ Codes("lctrl", up) = <<Code("ctrl", up)>> /\ Codes("rctrl", up) = <<E0, Code("ctrl", up)>>
       /\ Codes("lalt", up) = <<Code("alt", up)>> /\ Codes("ralt", up) = <<E0, Code("alt", up)>>
       /\ Codes("up", up) = <<E0, Code("up", up)>>
  /\ {"lshift", "rshift", "lctrl", "rctrl", "lalt", "ralt", "up", "caps"} \cap DOMAIN keymap = {}
  <1>1. DOMAIN keymap = {"a", "l", "u", "bar", "enter", "back"}
    BY DEF keymap
  <1>2. ASSUME NEW key \in DOMAIN keymap \cup Shifts \cup {"caps"}, NEW up
        PROVE  Codes(key, up) = <<Code(key, up)>> /\ key \notin {"e0", "ctrl", "alt", "up"}
    <2>1. ~Prefixed(key) /\ Second(key) = key
      BY <1>1 DEF Prefixed, Second, Ctrls, Alts, Shifts
    <2>2. Codes(key, up) = << >> \o <<Code(key, up)>>
      BY <2>1 DEF Codes, Code
    <2>3. QED
      BY <1>1, <2>2 DEF Shifts
  <1>3. ASSUME NEW up
        PROVE  /\ Codes("lctrl", up) = <<Code("ctrl", up)>> /\ Codes("rctrl", up) = <<E0, Code("ctrl", up)>>
               /\ Codes("lalt", up) = <<Code("alt", up)>> /\ Codes("ralt", up) = <<E0, Code("alt", up)>>
               /\ Codes("up", up) = <<E0, Code("up", up)>>
    <2>1. /\ ~Prefixed("lctrl") /\ ~Prefixed("lalt") /\ Prefixed("rctrl") /\ Prefixed("ralt") /\ Prefixed("up")
          /\ Second("lctrl") = "ctrl" /\ Second("rctrl") = "ctrl" /\ Second("lalt") = "alt"
          /\ Second("ralt") = "alt" /\ Second("up") = "up"
      BY DEF Prefixed, Second, Ctrls, Alts
    <2>2. /\ Codes("lctrl", up) = << >> \o <<Code("ctrl", up)>> /\ Codes("rctrl", up) = <<E0>> \o <<Code("ctrl", up)>>
          /\ Codes("lalt", up) = << >> \o <<Code("alt", up)>> /\ Codes("ralt", up) = <<E0>> \o <<Code("alt", up)>>
          /\ Codes("up", up) = <<E0>> \o <<Code("up", up)>>
      BY <2>1 DEF Codes, Code
    <2>3. QED
      BY <2>2
  <1>4. QED
    BY <1>1, <1>2, <1>3

\* A stroke leaves the flags as they were and adds its character.
LEMMA StrokeIs ==
  ASSUME NEW sh, NEW ct, NEW al, NEW ca,
         kb = Flags(sh, ct, al, ca, No), NEW key \in DOMAIN keymap \cup {"up", "caps"},
         Interrupts(Codes(key, No) \o Codes(key, Yes))
  PROVE  /\ kb' = IF key = "caps" THEN Flags(sh, ct, al, Not(ca), No) ELSE kb
         /\ queue' = IF key \in DOMAIN keymap /\ Len(queue) < QueueLen
                     THEN Append(queue, Char(kb, key)) ELSE queue
  <1> DEFINE S(c) == St(Flags(sh, ct, al, c, No), queue)
             r == IF Len(queue) < QueueLen THEN Append(queue, Char(kb, key)) ELSE queue
  <1>1. CASE key \in DOMAIN keymap
    <2>1. Interrupts(<<Code(key, No), Code(key, Yes)>>) /\ key \notin {"e0", "ctrl", "alt", "up"} \cup Shifts \cup {"caps"}
      <3>0. Codes(key, No) = <<Code(key, No)>> /\ Codes(key, Yes) = <<Code(key, Yes)>>
        BY <1>1, CodesIs
      <3>1. Codes(key, No) \o Codes(key, Yes) = <<Code(key, No), Code(key, Yes)>>
        BY <3>0, CodeLists, Zenon
      <3>2. QED
        BY <1>1, <3>1, CodesIs DEF Shifts
    <2>2. intr_keyboard_handler(St(kb, queue), Code(key, No)) = St(kb, r)
      BY <1>1, <2>1, HandlerIs, FlagFacts
    <2>3. intr_keyboard_handler(St(kb, r), Code(key, Yes)) = St(kb, r)
      BY <2>1, HandlerIs, FlagFacts
    <2>5. kb' = kb /\ queue' = r
      <3> HIDE DEF r
      <3>1. QED
        BY <2>1, <2>2, <2>3, HandledTwo
    <2>6. QED
      BY <1>1, <2>1, <2>5
  <1>2. CASE key = "up"
    <2>1. Interrupts(<<E0, Code("up", No), E0, Code("up", Yes)>>)
      <3>1. Codes(key, No) \o Codes(key, Yes) = <<E0, Code("up", No), E0, Code("up", Yes)>>
        <4>1. Codes(key, No) = <<E0, Code("up", No)>> /\ Codes(key, Yes) = <<E0, Code("up", Yes)>>
          BY <1>2, CodesIs
        <4>2. QED
          BY <4>1, CodeLists, ZenonT(40)
      <3>2. QED
        BY <3>1
    <2> DEFINE k1 == Flags(sh, ct, al, ca, Yes)
    <2>2. intr_keyboard_handler(St(kb, queue), E0) = St(k1, queue)
      BY PrefixIs
    <2>3. intr_keyboard_handler(St(k1, queue), Code("up", No)) = St(kb, queue)
      BY SMTT(30), HandlerIs, FlagFacts
    <2>4. intr_keyboard_handler(St(k1, queue), Code("up", Yes)) = St(kb, queue)
      <3>1. "up" \notin Shifts \cup {"ctrl", "alt"}
        BY DEF Shifts
      <3>2. QED
        BY <3>1, HandlerIs, FlagFacts
    <2>5. kb' = kb /\ queue' = queue
      BY <2>1, <2>2, <2>3, <2>4, HandledFour
    <2>6. QED
      BY <1>2, <2>5, CodesIs
  <1>3. CASE key = "caps"
    <2>1. Interrupts(<<Code(key, No), Code(key, Yes)>>) /\ key \notin {"e0", "ctrl", "alt"} \cup Shifts
      <3>0. Codes(key, No) = <<Code(key, No)>> /\ Codes(key, Yes) = <<Code(key, Yes)>>
        BY <1>3, CodesIs
      <3>1. Codes(key, No) \o Codes(key, Yes) = <<Code(key, No), Code(key, Yes)>>
        BY <3>0, CodeLists, Zenon
      <3>2. QED
        BY <1>3, <3>1 DEF Shifts
    <2> DEFINE k1 == Flags(sh, ct, al, Not(ca), No)
    <2>2. intr_keyboard_handler(St(kb, queue), Code("caps", No)) = St(k1, queue)
      BY CodesIs, HandlerIs, FlagFacts
    <2>3. intr_keyboard_handler(St(k1, queue), Code("caps", Yes)) = St(k1, queue)
      BY <1>3, <2>1, HandlerIs, FlagFacts
    <2>4. kb' = k1 /\ queue' = queue
      BY <1>3, <2>1, <2>2, <2>3, HandledTwo
    <2>5. QED
      BY <1>3, <2>4, CodesIs
  <1>4. QED
    BY <1>1, <1>2, <1>3

\* A modifier sets its flag and clears it.
LEMMA ModifierIs ==
  ASSUME NEW sh, NEW ct, NEW al, NEW ca, kb = Flags(sh, ct, al, ca, No),
         NEW key \in Modifiers, NEW up \in {Yes, No}, Interrupts(Codes(key, up))
  PROVE  LET f == IF up = Yes THEN No ELSE Yes
         IN /\ kb' = Flags(IF key \in Shifts THEN f ELSE sh, IF key \in Ctrls THEN f ELSE ct,
                           IF key \in Alts THEN f ELSE al, ca, No)
            /\ queue' = queue
  <1> DEFINE f == IF up = Yes THEN No ELSE Yes
  <1>0. /\ Yes # No
        /\ \A x \in Shifts : x \notin Ctrls /\ x \notin Alts /\ x \notin DOMAIN keymap
        /\ {"ctrl", "alt"} \cap (DOMAIN keymap \cup Shifts) = {}
        /\ {"lctrl", "rctrl"} \cap (Shifts \cup Alts) = {} /\ {"lalt", "ralt"} \cap (Shifts \cup Ctrls) = {}
        /\ Ctrls = {"lctrl", "rctrl"} /\ Alts = {"lalt", "ralt"}
    BY DEF Yes, No, Shifts, Ctrls, Alts, keymap
  <1>1. CASE key \in Shifts
    <2>1. Interrupts(<<Code(key, up)>>) /\ key \notin {"e0", "ctrl", "alt"} /\ key \notin DOMAIN keymap
      <3>1. Codes(key, up) = <<Code(key, up)>> /\ key \notin {"e0", "ctrl", "alt"}
        BY <1>1, CodesIs
      <3>2. QED
        BY <1>0, <1>1, <3>1
    <2>2. intr_keyboard_handler(St(kb, queue), Code(key, up)) = St(Flags(f, ct, al, ca, No), queue)
      <3>1. CASE up = Yes
        BY <1>0, <1>1, <2>1, <3>1, HandlerIs, FlagFacts
      <3>2. CASE up = No
        BY SMTT(30), <1>0, <1>1, <2>1, <3>2, HandlerIs, FlagFacts
      <3>3. QED
        BY <3>1, <3>2
    <2>3. kb' = Flags(f, ct, al, ca, No) /\ queue' = queue
      BY <2>1, <2>2, HandledOne
    <2>4. QED
      BY <1>0, <1>1, <2>3
  <1>2. CASE key \in Ctrls
    <2>1. kb' = Flags(sh, f, al, ca, No) /\ queue' = queue
      <3> DEFINE k1 == Flags(sh, ct, al, ca, Yes)
      <3>1. intr_keyboard_handler(St(kb, queue), E0) = St(k1, queue)
        BY PrefixIs
      <3>2. /\ intr_keyboard_handler(St(kb, queue), Code("ctrl", up)) = St(Flags(sh, f, al, ca, No), queue)
            /\ intr_keyboard_handler(St(k1, queue), Code("ctrl", up)) = St(Flags(sh, f, al, ca, No), queue)
        BY <1>0, HandlerIs, FlagFacts
      <3> HIDE DEF k1, f
      <3>3. CASE key = "lctrl"
        BY <3>2, <3>3, CodesIs, HandledOne
      <3>4. CASE key = "rctrl"
        BY <3>1, <3>2, <3>4, CodesIs, HandledTwo
      <3>5. QED
        BY <1>0, <1>2, <3>3, <3>4
    <2>2. QED
      BY <1>0, <1>2, <2>1
  <1>3. CASE key \in Alts
    <2>1. kb' = Flags(sh, ct, f, ca, No) /\ queue' = queue
      <3> DEFINE k1 == Flags(sh, ct, al, ca, Yes)
      <3>1. intr_keyboard_handler(St(kb, queue), E0) = St(k1, queue)
        BY PrefixIs
      <3>2. /\ intr_keyboard_handler(St(kb, queue), Code("alt", up)) = St(Flags(sh, ct, f, ca, No), queue)
            /\ intr_keyboard_handler(St(k1, queue), Code("alt", up)) = St(Flags(sh, ct, f, ca, No), queue)
        BY <1>0, HandlerIs, FlagFacts
      <3> HIDE DEF k1, f
      <3>3. CASE key = "lalt"
        BY <3>2, <3>3, CodesIs, HandledOne
      <3>4. CASE key = "ralt"
        BY <3>1, <3>2, <3>4, CodesIs, HandledTwo
      <3>5. QED
        BY <1>0, <1>3, <3>3, <3>4
    <2>2. QED
      BY <1>0, <1>3, <2>1
  <1>4. QED
    BY <1>1, <1>2, <1>3 DEF Modifiers

-----------------------------------------------------------------------------
(* What the user does.                                                     *)

LEMMA CharFacts ==
  ASSUME KeysOK, NEW key \in DOMAIN keymap
  PROVE  Char(kb, key) = Meant(key) /\ Meant(key) \in Chars
  <1> DEFINE m == [shift |-> held \cap Shifts # {}, ctrl |-> held \cap Ctrls # {}, caps |-> lock]
  <1>1. kb.shift = m.shift /\ kb.ctrl = m.ctrl /\ kb.caps = m.caps
    BY Zenon DEF KeysOK, Flags, Down
  <1>2. Meant(key) = Char(m, key)
    BY DEF Meant
  <1> HIDE DEF m
  <1>3. Char(kb, key) = Char(m, key)
    BY <1>1 DEF Char
  <1>4. Char(m, key) \in Chars
    <2>1. \A i \in {1, 2} : keymap[key][i] \in Chars
      <3>1. key \in {"a", "l", "u", "bar", "enter", "back"}
        BY DEF keymap
      <3>2. /\ keymap["a"] = <<"a", "A">> /\ keymap["l"] = <<"l", "L">>
            /\ keymap["u"] = <<"u", "U">> /\ keymap["bar"] = <<"\\", "|">>
            /\ keymap["enter"] = <<"CR", "CR">> /\ keymap["back"] = <<"BS", "BS">>
        BY DEF keymap
      <3>3. /\ \A i \in {1, 2} : <<"a", "A">>[i] \in Chars /\ <<"l", "L">>[i] \in Chars
            /\ \A i \in {1, 2} : <<"u", "U">>[i] \in Chars /\ <<"\\", "|">>[i] \in Chars
            /\ \A i \in {1, 2} : <<"CR", "CR">>[i] \in Chars /\ <<"BS", "BS">>[i] \in Chars
        BY DEF Chars
      <3>4. QED
        BY <3>1, <3>2, <3>3, Zenon
    <2>2. "^L" \in Chars /\ "^U" \in Chars
      BY DEF Chars
    <2>3. QED
      BY <2>1, <2>2 DEF Char
  <1>5. QED
    BY <1>2, <1>3, <1>4

\* A line that is not touched, and a queue that is not touched.
LEMMA SameLine ==
  ASSUME UNCHANGED <<line, queue, typed>>, LineOK(line), QueueOK, LineAsTyped
  PROVE  LineOK(line)' /\ QueueOK' /\ LineAsTyped'
  <1>1. LineOK(line)' /\ QueueOK'
    BY DEF LineOK, QueueOK
  <1>2. ReadAll(line, queue)' = ReadAll(line, queue)
    BY DEF ReadAll, readline_step, readline_char, EmptyLine
  <1>3. LineAsTyped'
    BY <1>2 DEF LineAsTyped, String
  <1>4. QED
    BY <1>1, <1>3

LEMMA StrikeKeeps ==
  ASSUME InputAssumption, InputInv, NEW key, Strike(key)
  PROVE  InputInv'
  <1>0. /\ KeysOK /\ LineOK(line) /\ QueueOK /\ LineAsTyped
        /\ key \in DOMAIN keymap \cup {"up"} /\ "CR" \notin Range(queue)
        /\ Interrupts(Codes(key, FALSE) \o Codes(key, TRUE)) /\ UNCHANGED <<line, held, lock>>
        /\ typed' = IF key = "up" \/ Len(queue) = QueueLen THEN typed ELSE Edited(typed, Meant(key))
    BY DEF InputInv, Strike
  <1>1. /\ kb' = kb
        /\ queue' = IF key \in DOMAIN keymap /\ Len(queue) < QueueLen
                    THEN Append(queue, Char(kb, key)) ELSE queue
        /\ key # "caps" /\ (key = "up" => key \notin DOMAIN keymap)
    <2>1. Interrupts(Codes(key, No) \o Codes(key, Yes)) /\ key # "caps" /\ (key = "up" => key \notin DOMAIN keymap)
      BY <1>0, CodesIs DEF Yes, No
    <2>2. kb = Flags(Down(Shifts), Down(Ctrls), Down(Alts), lock, No)
      BY <1>0 DEF KeysOK
    <2>3. QED
      BY <1>0, <2>1, <2>2, StrokeIs
  <1>2. KeysOK'
    BY <1>0, <1>1 DEF KeysOK, Down
  <1>3. CASE key = "up" \/ ~(Len(queue) < QueueLen)
    <2>1. UNCHANGED <<line, queue, typed>>
      <3>1. Len(queue) \in Nat /\ QueueLen \in Nat
        BY <1>0 DEF QueueOK, InputAssumption
      <3>2. QED
        BY <1>0, <1>1, <1>3, <3>1 DEF QueueOK
    <2>2. QED
      BY <1>0, <1>2, <2>1, SameLine DEF InputInv
  <1>4. CASE key # "up" /\ Len(queue) < QueueLen
    <2> DEFINE c == Meant(key)
               x == ReadAll(line, queue)
    <2>1. c \in Chars /\ queue' = Append(queue, c) /\ typed' = Edited(typed, c)
      <3>1. Len(queue) \in Nat /\ QueueLen \in Nat
        BY <1>0 DEF QueueOK, InputAssumption
      <3>2. QED
        BY <1>0, <1>1, <1>4, <3>1, CharFacts
    <2> HIDE DEF c
    <2>2. queue \in Seq(Chars) /\ \A i \in 1..Len(queue) : queue[i] # "CR"
      <3>1. queue \in Seq(Chars) /\ DOMAIN queue = 1..Len(queue)
        BY <1>0 DEF QueueOK
      <3>2. QED
        BY <1>0, <3>1 DEF Range
    <2>3. QueueOK'
      <3>1. /\ queue' \in Seq(Chars) /\ Len(queue') = Len(queue) + 1
            /\ \A i \in 1..Len(queue) : queue'[i] = queue[i]
        BY <2>1, <2>2, AppendProperties
      <3>2. Len(queue) \in Nat /\ QueueLen \in Nat
        BY <2>2 DEF InputAssumption
      <3>3. ASSUME NEW i \in 1..Len(queue'), queue'[i] = "CR" PROVE i = Len(queue')
        BY <2>2, <3>1, <3>2, <3>3
      <3>4. QED
        BY <1>4, <3>1, <3>2, <3>3 DEF QueueOK
    <2>4. ReadAll(line, queue)' = readline_step(x, c)
      <3>1. ReadAll(line, queue)' = ReadAll(line, queue')
        BY <1>0 DEF ReadAll, readline_step, readline_char, EmptyLine
      <3>2. QED
        BY <2>1, <2>2, <3>1, ReadAllFacts
    <2>5. LineOK(x)
      BY <1>0, <2>2, ReadAllLine
    <2>6. LineAsTyped'
      <3> HIDE DEF x
      <3>1. ~x.over => String(x) = typed
        BY <1>0 DEF LineAsTyped, x
      <3>2. SUFFICES ASSUME ~readline_step(x, c).over
                     PROVE  String(readline_step(x, c)) = Edited(typed, c)
        BY <2>1, <2>4 DEF LineAsTyped, String
      <3>3. QED
        BY <2>1, <2>5, <3>1, <3>2, ReadlineStep
    <2>7. LineOK(line)'
      BY <1>0 DEF LineOK
    <2>8. QED
      BY <1>2, <2>3, <2>6, <2>7 DEF InputInv
  <1>5. QED
    BY <1>3, <1>4

\* Down, when no or one modifier is.
LEMMA DownFacts ==
  ASSUME NEW S
  PROVE  /\ held = {} => Down(S) = No
         /\ \A k : held = {k} => Down(S) = (IF k \in S THEN Yes ELSE No)
  BY DEF Down, Yes, No

LEMMA PressKeeps ==
  ASSUME InputAssumption, InputInv, NEW key, Press(key) \/ Release(key)
  PROVE  InputInv'
  <1>0. /\ KeysOK /\ LineOK(line) /\ QueueOK /\ LineAsTyped
        /\ kb = Flags(Down(Shifts), Down(Ctrls), Down(Alts), lock, No)
        /\ UNCHANGED <<line, lock, typed>>
    BY DEF InputInv, Press, Release, KeysOK
  <1>1. CASE Press(key)
    <2>1. key \in Modifiers /\ held = {} /\ held' = {key} /\ Interrupts(Codes(key, No))
      BY <1>1 DEF Press, No
    <2>2. \A S : Down(S) = No
      BY <2>1, DownFacts
    <2>3. \A S : Down(S)' = (IF key \in S THEN Yes ELSE No)
      BY <2>1 DEF Down, Yes, No
    <2>4. /\ kb' = Flags(IF key \in Shifts THEN Yes ELSE No, IF key \in Ctrls THEN Yes ELSE No,
                         IF key \in Alts THEN Yes ELSE No, lock, No)
          /\ queue' = queue
      <3>1. No # Yes
        BY DEF Yes, No
      <3>2. QED
        BY <1>0, <2>1, <2>2, <3>1, ModifierIs
    <2>5. KeysOK'
      BY <1>0, <2>1, <2>3, <2>4 DEF KeysOK
    <2>6. QED
      BY <1>0, <2>4, <2>5, SameLine DEF InputInv
  <1>2. CASE Release(key)
    <2>1. key \in Modifiers /\ held = {key} /\ held' = {} /\ Interrupts(Codes(key, Yes))
      BY <1>0, <1>2 DEF Release, Yes, KeysOK
    <2>2. \A S : Down(S) = (IF key \in S THEN Yes ELSE No)
      BY <2>1, DownFacts
    <2>3. \A S : Down(S)' = No
      BY <2>1 DEF Down, Yes, No
    <2>4. kb' = Flags(No, No, No, lock, No) /\ queue' = queue
      BY <1>0, <2>1, <2>2, ModifierIs
    <2>5. KeysOK'
      BY <1>0, <2>1, <2>3, <2>4 DEF KeysOK
    <2>6. QED
      BY <1>0, <2>4, <2>5, SameLine DEF InputInv
  <1>3. QED
    BY <1>1, <1>2

LEMMA CapsLockKeeps ==
  ASSUME InputAssumption, InputInv, CapsLock
  PROVE  InputInv'
  <1>0. /\ KeysOK /\ LineOK(line) /\ QueueOK /\ LineAsTyped
        /\ kb = Flags(Down(Shifts), Down(Ctrls), Down(Alts), lock, No)
        /\ UNCHANGED <<line, held, typed>> /\ lock' = Not(lock)
        /\ Interrupts(Codes("caps", No) \o Codes("caps", Yes))
    BY DEF InputInv, CapsLock, KeysOK, Not, Yes, No
  <1>1. "caps" \notin DOMAIN keymap
    BY CodesIs
  <1>2. kb' = Flags(Down(Shifts), Down(Ctrls), Down(Alts), Not(lock), No) /\ queue' = queue
    BY <1>0, <1>1, StrokeIs
  <1>3. KeysOK'
    BY <1>0, <1>2 DEF KeysOK, Down
  <1>4. QED
    BY <1>0, <1>2, <1>3, SameLine DEF InputInv

\* The empty line.
LEMMA EmptyLineFacts ==
  ASSUME InputAssumption
  PROVE  LineOK(EmptyLine) /\ ~EmptyLine.over /\ EmptyLine.pos = 0 /\ String(EmptyLine) = << >>
  <1> DEFINE e == [i \in 0..LineLen |-> ""]
  <1>1. LineLen \in Nat /\ e \in [0..LineLen -> Chars] /\ 0 \in 0..LineLen
    BY DEF InputAssumption, Chars
  <1>2. EmptyLine = [buf |-> e, pos |-> 0, over |-> FALSE]
    BY DEF EmptyLine
  <1> HIDE DEF e
  <1>3. EmptyLine.pos = 0 /\ ~EmptyLine.over
    BY <1>2
  <1>4. EmptyLine \in [buf : [0..LineLen -> Chars], pos : 0..LineLen, over : BOOLEAN]
    BY <1>1, <1>2
  <1>5. String(EmptyLine) = << >>
    BY <1>3 DEF String
  <1>6. QED
    BY <1>3, <1>4, <1>5 DEF LineOK

LEMMA ReadlineKeeps ==
  ASSUME InputAssumption, InputInv, NEW p, readline(p)
  PROVE  InputInv'
  <1> DEFINE c == Head(queue)
             ends == c = "CR" /\ line.pos < LineLen
  <1>0. /\ KeysOK /\ LineOK(line) /\ QueueOK /\ LineAsTyped /\ queue \in Seq(Chars)
        /\ queue # << >> /\ queue' = Tail(queue) /\ UNCHANGED <<kb, held, lock>>
        /\ line' = (IF ends THEN EmptyLine ELSE readline_step(line, c))
        /\ typed' = IF ends \/ line'.over THEN << >> ELSE typed
    BY DEF InputInv, readline, QueueOK
  <1>1. /\ Tail(queue) \in Seq(Chars) /\ Len(Tail(queue)) = Len(queue) - 1
        /\ c \in Chars /\ c = queue[1] /\ Len(queue) \in Nat \ {0}
        /\ \A i \in 1..(Len(queue) - 1) : Tail(queue)[i] = queue[i + 1]
    BY <1>0, HeadTailProperties, EmptySeq
  <1>2. QueueOK'
    <2>0. queue' \in Seq(Chars) /\ Len(queue') = Len(queue) - 1 /\ Len(queue) \in Nat \ {0}
      BY <1>0, <1>1
    <2>1. Len(queue) <= QueueLen /\ QueueLen \in Nat
      BY <1>0 DEF QueueOK, InputAssumption
    <2>2. ASSUME NEW i \in 1..Len(queue'), queue'[i] = "CR" PROVE i = Len(queue')
      <3>1. i + 1 \in 1..Len(queue) /\ queue[i + 1] = "CR" /\ i \in Nat
        BY <1>0, <1>1, <2>2
      <3>2. i + 1 = Len(queue)
        BY <1>0, <3>1 DEF QueueOK
      <3>3. QED
        BY <2>0, <3>1, <3>2
    <2>3. Len(queue') <= QueueLen
      BY <2>0, <2>1
    <2>4. QED
      BY <2>0, <2>2, <2>3 DEF QueueOK
  <1>3. KeysOK'
    BY <1>0 DEF KeysOK, Down
  <1>4. ReadAll(line, queue)' = ReadAll(line', queue')
    BY DEF ReadAll, readline_step, readline_char, EmptyLine
  <1>5. CASE ends
    <2>1. line' = EmptyLine /\ typed' = << >>
      BY <1>0, <1>5
    <2>2. queue' = << >>
      <3>1. 1 \in 1..Len(queue) /\ queue[1] = "CR"
        BY <1>1, <1>5
      <3>2. Len(queue) = 1
        BY <1>0, <3>1 DEF QueueOK
      <3>3. QED
        BY <1>0, <1>1, <3>2, EmptySeq
    <2>3. ReadAll(line, queue)' = EmptyLine
      BY <1>0, <1>1, <1>4, <2>1, <2>2, ReadAllFacts
    <2>4. LineAsTyped'
      <3>1. String(EmptyLine) = << >>
        BY EmptyLineFacts
      <3>2. QED
        BY <2>1, <2>3, <3>1 DEF LineAsTyped, String
    <2>5. LineOK(line)'
      BY <2>1, EmptyLineFacts DEF LineOK
    <2>6. QED
      BY <1>2, <1>3, <2>4, <2>5 DEF InputInv
  <1>6. CASE ~ends
    <2>1. line' = readline_step(line, c) /\ typed' = IF line'.over THEN << >> ELSE typed
      BY <1>0, <1>6
    <2>2. LineOK(readline_step(line, c))
      BY <1>0, <1>1, ReadlineStep
    <2>3. ReadAll(line, queue)' = ReadAll(line, queue)
      BY <1>0, <1>4, <2>1, ReadAllFacts
    <2>4. line'.over => ReadAll(line', queue').over
      BY <1>0, <1>1, <2>1, <2>2, ReadAllLine
    <2>5. LineAsTyped'
      <3> DEFINE x == ReadAll(line, queue)
      <3>1. ~x.over => String(x) = typed
        BY <1>0 DEF LineAsTyped
      <3>2. ~x.over => ~line'.over
        BY <1>4, <2>3, <2>4
      <3> HIDE DEF x
      <3>3. ReadAll(line, queue)' = x
        BY <2>3 DEF x
      <3>4. QED
        BY <2>1, <3>1, <3>2, <3>3 DEF LineAsTyped, String
    <2>6. LineOK(line)'
      BY <2>1, <2>2 DEF LineOK
    <2>7. QED
      BY <1>2, <1>3, <2>5, <2>6 DEF InputInv
  <1>7. QED
    BY <1>5, <1>6

\* Steps that leave the input alone.
LEMMA InputStays ==
  ASSUME InputInv, UNCHANGED inputVars
  PROVE  InputInv'
  <1>1. UNCHANGED <<line, queue, typed>> /\ UNCHANGED <<kb, held, lock>>
    BY DEF inputVars
  <1>2. KeysOK'
    BY <1>1 DEF InputInv, KeysOK, Down
  <1>3. QED
    BY <1>1, <1>2, SameLine DEF InputInv

LEMMA InputInitOK ==
  ASSUME InputAssumption, InputInit
  PROVE  InputInv
  <1>1. queue = << >> /\ line = EmptyLine /\ typed = << >> /\ held = {}
    BY DEF InputInit
  <1>2. queue \in Seq(Chars) /\ Len(queue) = 0 /\ QueueLen \in Nat
    BY <1>1 DEF InputAssumption
  <1>3. QueueOK
    BY <1>2 DEF QueueOK
  <1>4. ReadAll(line, queue) = EmptyLine
    BY <1>1, <1>2, ReadAllFacts
  <1>5. LineAsTyped /\ LineOK(line)
    BY <1>1, <1>4, EmptyLineFacts DEF LineAsTyped
  <1>6. KeysOK
    <2>1. \A S : Down(S) = No
      BY <1>1, DownFacts
    <2>2. kb = Flags(No, No, No, lock, No)
      BY DEF InputInit, Flags, No
    <2>3. QED
      BY <1>1, <2>1, <2>2 DEF KeysOK
  <1>7. QED
    BY <1>3, <1>5, <1>6 DEF InputInv

\* The keyboard, the driver and readline keep it, and no other step of the shell touches it.
LEMMA InputStep ==
  ASSUME InputAssumption, InputInv, [ShellNext]_shellVars
  PROVE  InputInv'
  <1>1. CASE User
    <2>1. PICK key : Strike(key) \/ Press(key) \/ Release(key) \/ CapsLock
      BY <1>1 DEF User
    <2>2. QED
      BY <2>1, StrikeKeeps, PressKeeps, CapsLockKeeps
  <1>2. CASE \E p \in Procs : Step(p) \/ \E fd \in Fds : ProgramCloses(p, fd)
    <2>1. PICK p \in Procs : Step(p) \/ \E fd \in Fds : ProgramCloses(p, fd)
      BY <1>2
    <2>2. readline(p) \/ UNCHANGED inputVars
      BY <2>1 DEF Step, DoPipe, DoRedirect, DoClose, ExecHere, Fork, ForkFails, Wait, NoSuchFile,
                  Execv, ExecvFails, ProgramCloses, ProgramExits, Exiting
    <2>3. QED
      BY <2>2, ReadlineKeeps, InputStays
  <1>3. CASE UNCHANGED shellVars
    BY <1>3, InputStays DEF shellVars
  <1>4. QED
    BY <1>1, <1>2, <1>3 DEF ShellNext

\* The line that readline has made, and will make of the characters in the
\* queue, is the line that was typed, for every length of the line and of the
\* queue (keyboard.c:101-178, shell.c:55-91).
THEOREM LineAsTypedHolds == ShellSpec => []LineAsTyped
  <1>1. ShellInit => InputInv
    BY InputAssumption, InputInitOK DEF ShellInit
  <1>2. InputInv /\ [ShellNext]_shellVars => InputInv'
    BY InputAssumption, InputStep
  <1>3. InputInv => LineAsTyped
    BY DEF InputInv
  <1>4. QED
    BY <1>1, <1>2, <1>3, PTL DEF ShellSpec

-----------------------------------------------------------------------------
(* The jobs.                                                               *)

Instr ==
  {<<"pipe">>, <<"wait">>, <<"load">>, <<"redirect", 1, 2>>, <<"redirect", 0, 1>>,
   <<"restore", 0>>, <<"restore", 1>>, <<"close", 1>>, <<"close", 2>>,
   <<"exec", "blank">>, <<"exec", "builtin">>, <<"exec", "program">>}

JobType == [what : {"none", "shell", "spin", "program"}, todo : Seq(Instr),
            fd : [1..2 -> Int], child : Procs \cup {Null}]

\* x is in t, after position i.
After(t, i, x) == \E j \in 1..Len(t) : j > i /\ t[j] = x

\* The order of a script: pipe, wait and load stand at its head; what is redirected is
\* restored later, the ends of the pipe are closed later, and once.
Ordered(t) ==
  \A i \in 1..Len(t) :
    /\ t[i] \in {<<"pipe">>, <<"wait">>, <<"load">>} => i = 1
    /\ t[i] \in {<<"pipe">>, <<"redirect", 1, 2>>, <<"redirect", 0, 1>>} =>
         After(t, i, <<"close", 1>>) /\ After(t, i, <<"close", 2>>)
    /\ t[i] = <<"redirect", 1, 2>> => After(t, i, <<"restore", 1>>)
    /\ t[i] = <<"redirect", 0, 1>> => After(t, i, <<"restore", 0>>)
    /\ \A k \in {1, 2} : t[i] = <<"close", k>> => ~After(t, i, <<"close", k>>)

\* A descriptor is open that a later instruction closes, stdin or stdout redirected if a later
\* instruction restores it.
Linked(tab, j) ==
  IF j.todo # << >> /\ j.todo[1] = <<"pipe">> THEN tab = NoneOpen
  ELSE /\ \A k \in {1, 2} : After(j.todo, 0, <<"close", k>>) => j.fd[k] \in Fds /\ tab[j.fd[k]] # -1
       /\ After(j.todo, 0, <<"close", 1>>) /\ After(j.todo, 0, <<"close", 2>>) => j.fd[1] # j.fd[2]
       /\ \A fd \in Fds : tab[fd] # -1 =>
            \E k \in {1, 2} : After(j.todo, 0, <<"close", k>>) /\ fd = j.fd[k]
       /\ \A n \in {0, 1} : tab[n] = n \/ After(j.todo, 0, <<"restore", n>>)

Waits(p) == Does(p, "wait")
Awake(p) == state[p] # Idle /\ (Waits(p) => state[job[p].child] = Idle)

JobsOK ==
  /\ job \in [Procs -> JobType]
  /\ \A p \in Procs : job[p].what # "none" <=> state[p] = Run
  /\ \A p \in Procs : job[p].what = "shell" => Ordered(job[p].todo) /\ Linked(fd_table[p], job[p])

\* A chain of shells, each waiting for the next: one process is awake.
OneAwake ==
  /\ \A p \in Procs : Waits(p) => job[p].child \in Procs \ {p}
  /\ \A p, q \in Procs : Waits(p) /\ Waits(q) /\ job[p].child = job[q].child => p = q
  /\ \A p, q \in Procs : Awake(p) /\ Awake(q) => p = q

PipesExact ==
  \A g \in Slots : file_table[g].inode = Page =>
    file_table[g].pos > 0 /\ file_table[g].pos = Cardinality(Holders(fd_table, g))

ShellInv == FileInv /\ use = "pipes" /\ JobsOK /\ OneAwake /\ PipesExact

-----------------------------------------------------------------------------
(* Scripts.                                                                *)

\* The instructions are known by their first word.
LEMMA InstrFacts ==
  ASSUME NEW x \in Instr
  PROVE  /\ x[1] = "pipe" => x = <<"pipe">>
         /\ x[1] = "wait" => x = <<"wait">>
         /\ x[1] = "load" => x = <<"load">>
         /\ x[1] = "redirect" => \/ x = <<"redirect", 1, 2>> /\ x[2] = 1 /\ x[3] = 2
                                 \/ x = <<"redirect", 0, 1>> /\ x[2] = 0 /\ x[3] = 1
         /\ x[1] = "restore" => \/ x = <<"restore", 0>> /\ x[2] = 0
                                \/ x = <<"restore", 1>> /\ x[2] = 1
         /\ x[1] = "close" => \/ x = <<"close", 1>> /\ x[2] = 1
                              \/ x = <<"close", 2>> /\ x[2] = 2
  BY DEF Instr

\* The words and the numbers of the instructions.
LEMMA InstrWords ==
  /\ <<"pipe">>[1] = "pipe" /\ <<"wait">>[1] = "wait" /\ <<"load">>[1] = "load"
  /\ <<"redirect", 1, 2>>[1] = "redirect" /\ <<"redirect", 0, 1>>[1] = "redirect"
  /\ <<"restore", 0>>[1] = "restore" /\ <<"restore", 1>>[1] = "restore"
  /\ <<"close", 1>>[1] = "close" /\ <<"close", 2>>[1] = "close"
  /\ \A c : <<"exec", c>>[1] = "exec"
  /\ <<"redirect", 1, 2>>[2] = 1 /\ <<"redirect", 0, 1>>[2] = 0
  /\ <<"restore", 0>>[2] = 0 /\ <<"restore", 1>>[2] = 1
  /\ <<"close", 1>>[2] = 1 /\ <<"close", 2>>[2] = 2
  OBVIOUS

\* Without its head a script is still in order.
LEMMA TailOrdered ==
  ASSUME NEW t \in Seq(Instr), t # << >>, Ordered(t)
  PROVE  /\ Tail(t) \in Seq(Instr) /\ Ordered(Tail(t)) /\ t[1] \in Instr
         /\ \A x : After(t, 0, x) <=> t[1] = x \/ After(Tail(t), 0, x)
         /\ \A x : After(t, 1, x) <=> After(Tail(t), 0, x)
         /\ Tail(t) # << >> => Tail(t)[1] \notin {<<"pipe">>, <<"wait">>, <<"load">>}
  <1> DEFINE u == Tail(t)
             n == Len(t)
  <1>1. /\ u \in Seq(Instr) /\ Len(u) = n - 1 /\ n \in Nat \ {0} /\ t[1] \in Instr
        /\ \A i \in 1..(n - 1) : u[i] = t[i + 1]
    BY HeadTailProperties, EmptySeq
  <1> HIDE DEF u, n
  <1>2. ASSUME NEW i \in Nat, NEW x PROVE After(u, i, x) <=> After(t, i + 1, x)
    <2>1. ASSUME After(u, i, x) PROVE After(t, i + 1, x)
      <3>1. PICK j \in 1..(n - 1) : j > i /\ u[j] = x
        BY <1>1, <2>1 DEF After
      <3>2. j + 1 \in 1..n /\ j + 1 > i + 1 /\ t[j + 1] = x
        BY <1>1, <3>1
      <3>3. QED
        BY <3>2 DEF After, n
    <2>2. ASSUME After(t, i + 1, x) PROVE After(u, i, x)
      <3>1. PICK j \in 1..n : j > i + 1 /\ t[j] = x
        BY <2>2 DEF After, n
      <3>2. j - 1 \in 1..(n - 1) /\ j - 1 > i /\ (j - 1) + 1 = j
        BY <1>1, <3>1
      <3>3. u[j - 1] = x
        BY <1>1, <3>1, <3>2
      <3>4. QED
        BY <1>1, <3>2, <3>3 DEF After
    <2>3. QED
      BY <2>1, <2>2
  <1>3. ASSUME NEW x PROVE After(t, 1, x) <=> After(u, 0, x)
    BY <1>2
  <1>4. ASSUME NEW x PROVE After(t, 0, x) <=> t[1] = x \/ After(t, 1, x)
    <2>1. 1 \in 1..n /\ 1 > 0 /\ \A j \in 1..n : j > 0 /\ (j > 1 \/ j = 1)
      BY <1>1
    <2>2. QED
      BY <2>1 DEF After, n
  <1>5. Ordered(u)
    <2>1. SUFFICES ASSUME NEW i \in 1..(n - 1)
          PROVE  /\ u[i] \in {<<"pipe">>, <<"wait">>, <<"load">>} => i = 1
                 /\ u[i] \in {<<"pipe">>, <<"redirect", 1, 2>>, <<"redirect", 0, 1>>} =>
                      After(u, i, <<"close", 1>>) /\ After(u, i, <<"close", 2>>)
                 /\ u[i] = <<"redirect", 1, 2>> => After(u, i, <<"restore", 1>>)
                 /\ u[i] = <<"redirect", 0, 1>> => After(u, i, <<"restore", 0>>)
                 /\ \A k \in {1, 2} : u[i] = <<"close", k>> => ~After(u, i, <<"close", k>>)
      BY <1>1 DEF Ordered
    <2>2. i + 1 \in 1..n /\ i \in Nat /\ u[i] = t[i + 1] /\ i + 1 # 1
      BY <1>1
    <2>3. \A x : After(u, i, x) <=> After(t, i + 1, x)
      BY <1>2, <2>2
    <2>4. QED
      BY <2>2, <2>3 DEF Ordered, n
  <1>6. u # << >> => u[1] \notin {<<"pipe">>, <<"wait">>, <<"load">>}
    <2>1. SUFFICES ASSUME u # << >> PROVE u[1] \notin {<<"pipe">>, <<"wait">>, <<"load">>}
      OBVIOUS
    <2>2. Len(u) # 0
      BY <1>1, <2>1, EmptySeq
    <2>3. 1 \in 1..(n - 1) /\ 2 \in 1..n /\ u[1] = t[2]
      BY <1>1, <2>2
    <2>4. QED
      BY <2>3 DEF Ordered, n
  <1>7. QED
    BY <1>1, <1>3, <1>4, <1>5, <1>6 DEF u

\* Nor does it matter what a command is replaced by.
LEMMA SwapOrdered ==
  ASSUME NEW t \in Seq(Instr), t # << >>, Ordered(t), NEW x \in {<<"wait">>, <<"load">>}
  PROVE  LET u == <<x>> \o Tail(t)
         IN /\ u \in Seq(Instr) /\ u # << >> /\ u[1] = x /\ Head(u) = x /\ Tail(u) = Tail(t)
            /\ Ordered(u)
            /\ \A y : y # x => (After(u, 0, y) <=> After(Tail(t), 0, y))
  <1> DEFINE r == Tail(t)
             u == <<x>> \o r
             n == Len(t)
  <1>0. x \in Instr
    BY DEF Instr
  <1>1. /\ r \in Seq(Instr) /\ Len(r) = n - 1 /\ n \in Nat \ {0}
        /\ \A i \in 1..(n - 1) : r[i] = t[i + 1]
    BY HeadTailProperties, EmptySeq
  <1> HIDE DEF r, n
  <1>2. u \in Seq(Instr) /\ Len(u) = n /\ u[1] = x /\ \A i \in 1..(n - 1) : u[i + 1] = r[i]
    <2>1. <<x>> \in Seq(Instr) /\ Len(<<x>>) = 1
      BY <1>0
    <2>2. u \in Seq(Instr) /\ Len(u) = 1 + (n - 1)
          /\ \A i \in 1..(1 + (n - 1)) : u[i] = IF i <= 1 THEN <<x>>[i] ELSE r[i - 1]
      BY <1>1, <2>1, ConcatProperties
    <2> HIDE DEF u
    <2>3. Len(u) = n
      BY <1>1, <2>2
    <2>4. u[1] = x
      <3>1. 1 \in 1..(1 + (n - 1))
        BY <1>1
      <3>2. QED
        BY <2>2, <3>1
    <2>5. ASSUME NEW i \in 1..(n - 1) PROVE u[i + 1] = r[i]
      <3>1. i + 1 \in 1..(1 + (n - 1)) /\ ~(i + 1 <= 1) /\ (i + 1) - 1 = i
        BY <1>1
      <3>2. QED
        BY <2>2, <3>1
    <2>6. QED
      BY <2>2, <2>3, <2>4, <2>5
  <1> HIDE DEF u
  <1>3. u # << >> /\ Head(u) = x
    <2>1. u # << >>
      BY <1>1, <1>2
    <2>2. QED
      BY <1>2, <2>1
  <1>4. Tail(u) = r
    <2>1. Tail(u) \in Seq(Instr) /\ Len(Tail(u)) = n - 1 /\ \A i \in 1..(n - 1) : Tail(u)[i] = u[i + 1]
      BY <1>2, <1>3, HeadTailProperties
    <2>2. QED
      BY <1>1, <1>2, <2>1, SeqEqual
  <1>5. \A i \in 1..n : i # 1 => u[i] = t[i]
    <2>1. ASSUME NEW i \in 1..n, i # 1 PROVE u[i] = t[i]
      <3>1. i - 1 \in 1..(n - 1) /\ (i - 1) + 1 = i
        BY <1>1, <2>1
      <3>2. QED
        BY <1>1, <1>2, <3>1
    <2>2. QED
      BY <2>1
  <1>6. ASSUME NEW i \in 1..n, NEW y PROVE After(u, i, y) <=> After(t, i, y)
    <2>1. \A j \in 1..n : j > i => u[j] = t[j]
      BY <1>1, <1>5
    <2>2. QED
      BY <1>2, <2>1 DEF After, n
  <1>7. Ordered(u)
    <2>1. SUFFICES ASSUME NEW i \in 1..n
          PROVE  /\ u[i] \in {<<"pipe">>, <<"wait">>, <<"load">>} => i = 1
                 /\ u[i] \in {<<"pipe">>, <<"redirect", 1, 2>>, <<"redirect", 0, 1>>} =>
                      After(u, i, <<"close", 1>>) /\ After(u, i, <<"close", 2>>)
                 /\ u[i] = <<"redirect", 1, 2>> => After(u, i, <<"restore", 1>>)
                 /\ u[i] = <<"redirect", 0, 1>> => After(u, i, <<"restore", 0>>)
                 /\ \A k \in {1, 2} : u[i] = <<"close", k>> => ~After(u, i, <<"close", k>>)
      BY <1>2 DEF Ordered
    <2>2. CASE i = 1
      BY <1>2, <2>2
    <2>3. CASE i # 1
      <3>1. u[i] = t[i] /\ \A y : After(u, i, y) <=> After(t, i, y)
        BY <1>5, <1>6, <2>3
      <3>2. QED
        BY <2>3, <3>1 DEF Ordered, n
    <2>4. QED
      BY <2>2, <2>3
  <1>8. \A y : y # x => (After(u, 0, y) <=> After(r, 0, y))
    BY <1>2, <1>3, <1>4, <1>7, TailOrdered
  <1>9. QED
    BY <1>2, <1>3, <1>4, <1>7, <1>8 DEF u, r

\* The commands of a line: at least one.
Cmds == {"blank", "builtin", "program"}
IsScan(f, s) == f = [k \in 0..Len(s) |-> IF k = 0 THEN <<"blank">> ELSE Scanned(f[k - 1], s[k])]

LEMMA ScannedFacts ==
  ASSUME NEW m \in Seq(Cmds), m # << >>, NEW c
  PROVE  Scanned(m, c) \in Seq(Cmds) /\ Scanned(m, c) # << >>
  <1>0. Len(m) \in 1..Len(m) /\ "blank" \in Cmds /\ "builtin" \in Cmds /\ "program" \in Cmds
    BY EmptySeq DEF Cmds
  <1>1. CASE c = "|"
    <2>1. Scanned(m, c) = Append(m, "blank")
      BY <1>1 DEF Scanned
    <2>2. QED
      BY <1>0, <2>1, AppendProperties
  <1>2. CASE c # "|" /\ m[Len(m)] = "blank"
    <2> DEFINE e == IF c \in {"a", "l", "u"} THEN "builtin" ELSE "program"
               n == Len(m)
    <2>1. Scanned(m, c) = [m EXCEPT ![n] = e]
      BY <1>2 DEF Scanned
    <2>2. e \in Cmds
      BY <1>0
    <2>3. n \in 1..Len(m)
      BY <1>0
    <2> HIDE DEF e, n
    <2>4. [m EXCEPT ![n] = e] \in Seq(Cmds) /\ Len([m EXCEPT ![n] = e]) = Len(m)
      BY <2>2, <2>3, ExceptSeq
    <2>5. Len(m) # 0
      BY EmptySeq
    <2>6. [m EXCEPT ![n] = e] # << >>
      BY <2>4, <2>5
    <2>7. QED
      BY <2>1, <2>4, <2>6
  <1>3. CASE c # "|" /\ m[Len(m)] # "blank"
    <2>1. Scanned(m, c) = m
      BY <1>3 DEF Scanned
    <2>2. QED
      BY <2>1
  <1>4. QED
    BY <1>1, <1>2, <1>3

LEMMA CommandsFacts ==
  ASSUME NEW s \in Seq(Chars)
  PROVE  Commands(s) \in Seq(Cmds) /\ Len(Commands(s)) \in Nat \ {0}
  <1> DEFINE b == <<"blank">>
             R(f, n) == f = [k \in 0..n |-> IF k = 0 THEN b ELSE Scanned(f[k - 1], s[k])]
             T == {i \in Nat : \E f : R(f, i)}
             to == CHOOSE f : IsScan(f, s)
             U == {i \in Nat : i > Len(s) \/ (to[i] \in Seq(Cmds) /\ to[i] # << >>)}
  <1>b. b \in Seq(Cmds) /\ b # << >>
    BY DEF Cmds
  <1>s. /\ Len(s) \in Nat
        /\ \A f : IsScan(f, s) <=> R(f, Len(s))
        /\ Commands(s) = to[Len(s)]
    BY DEF IsScan, Commands
  <1> HIDE DEF b
  <1>1. 0 \in T
    <2>1. R([k \in 0..0 |-> b], 0)
      OBVIOUS
    <2>2. QED
      BY <2>1
  <1>2. ASSUME NEW i \in T PROVE i + 1 \in T
    <2>1. PICK f : R(f, i)
      OBVIOUS
    <2> DEFINE g == [k \in 0..(i + 1) |-> IF k = 0 THEN b ELSE Scanned(f[k - 1], s[k])]
    <2>2. ASSUME NEW k \in 0..(i + 1), k # 0 PROVE g[k - 1] = f[k - 1]
      <3>1. k - 1 \in 0..i /\ k - 1 \in 0..(i + 1)
        BY <2>2
      <3>2. QED
        BY <3>1, <2>1
    <2>3. R(g, i + 1)
      BY <2>2
    <2> HIDE DEF g
    <2>4. QED
      BY <2>3
  <1>3. T = Nat
    BY <1>1, <1>2, Inductive
  <1>4. R(to, Len(s))
    <2>1. PICK f : R(f, Len(s))
      BY <1>3, <1>s
    <2>2. QED
      BY <1>s, <2>1
  <1> HIDE DEF to, T
  <1>7. to[0] = b /\ \A k \in 1..Len(s) : to[k] = Scanned(to[k - 1], s[k])
    BY SMTT(30), <1>4, <1>s
  <1>8. 0 \in U
    BY <1>7, <1>b
  <1>9. ASSUME NEW i \in U PROVE i + 1 \in U
    <2>1. SUFFICES ASSUME i + 1 <= Len(s) PROVE to[i + 1] \in Seq(Cmds) /\ to[i + 1] # << >>
      OBVIOUS
    <2>2. i + 1 \in 1..Len(s) /\ (i + 1) - 1 = i /\ to[i] \in Seq(Cmds) /\ to[i] # << >>
      BY <1>s, <2>1
    <2>3. to[i + 1] = Scanned(to[i], s[i + 1])
      BY <1>7, <2>2
    <2>4. QED
      BY <2>2, <2>3, ScannedFacts
  <1>10. U = Nat
    BY <1>8, <1>9, Inductive
  <1>11. Commands(s) \in Seq(Cmds) /\ Commands(s) # << >>
    BY <1>s, <1>10
  <1>12. QED
    BY <1>11, EmptySeq

\* What my_shell does with them.
LEMMA ScriptFacts ==
  ASSUME NEW m \in Seq(Cmds), Len(m) \in Nat \ {0}
  PROVE  LET t == Script(m)
         IN /\ t \in Seq(Instr) /\ t # << >> /\ Ordered(t) /\ t[1] \notin {<<"wait">>, <<"load">>}
            /\ t[1] # <<"pipe">> => \A k \in {1, 2} : ~After(t, 0, <<"close", k>>)
  <1> DEFINE n == Len(m)
             t == Script(m)
  <1>0. \A i \in 1..n : Exec(m[i]) \in {<<"exec", "blank">>, <<"exec", "builtin">>, <<"exec", "program">>}
    <2>1. ASSUME NEW c \in Cmds
          PROVE  Exec(c) \in {<<"exec", "blank">>, <<"exec", "builtin">>, <<"exec", "program">>}
      BY DEF Cmds, Exec
    <2>2. \A i \in 1..n : m[i] \in Cmds
      OBVIOUS
    <2>3. QED
      BY <2>1, <2>2
  <1>1. CASE n = 1
    <2> DEFINE x == Exec(m[1])
    <2>1. t = <<x>>
      BY <1>1 DEF Script
    <2>2. x \in {<<"exec", "blank">>, <<"exec", "builtin">>, <<"exec", "program">>}
      BY <1>0, <1>1
    <2>3. x \in Instr
      BY <2>2 DEF Instr
    <2>4. x[1] = "exec"
      BY <2>2
    <2> HIDE DEF x, t
    <2>5. t \in Seq(Instr) /\ Len(t) = 1 /\ t[1] = x /\ t # << >>
      BY <2>1, <2>3
    <2>6. x \notin {<<"pipe">>, <<"wait">>, <<"load">>, <<"redirect", 1, 2>>, <<"redirect", 0, 1>>,
                    <<"close", 1>>, <<"close", 2>>}
      BY <2>4
    <2>i. \A i \in 1..Len(t) : i = 1 /\ t[i] = x
      BY <2>5
    <2>k. \A k \in {1, 2} : x # <<"close", k>>
      BY <2>6
    <2>7. Ordered(t)
      BY <2>6, <2>i, <2>k DEF Ordered
    <2>8. \A k \in {1, 2} : ~After(t, 0, <<"close", k>>)
      BY <2>i, <2>k DEF After
    <2>9. QED
      BY <2>5, <2>6, <2>7, <2>8 DEF t
  <1>2. CASE n # 1
    <2> DEFINE A == << <<"pipe">>, <<"redirect", 1, 2>>, Exec(m[1]), <<"redirect", 0, 1>> >>
               B == [i \in 1..(n - 2) |-> Exec(m[i + 1])]
               C == << <<"restore", 1>>, Exec(m[n])>>
    <2>1. t = A \o B \o C \o Cleanup
      BY <1>2 DEF Script
    <2> DEFINE E == {<<"exec", "blank">>, <<"exec", "builtin">>, <<"exec", "program">>}
               P == <<"pipe">>
               R12 == <<"redirect", 1, 2>>
               R01 == <<"redirect", 0, 1>>
               S0 == <<"restore", 0>>
               S1 == <<"restore", 1>>
               C1 == <<"close", 1>>
               C2 == <<"close", 2>>
               e1 == Exec(m[1])
               en == Exec(m[n])
    <2>2. n \in Nat /\ n >= 2
      BY SMTT(30), <1>2
    <2>3. e1 \in E /\ en \in E /\ \A i \in 1..(n - 2) : Exec(m[i + 1]) \in E
      <3>1. 1 \in 1..n /\ n \in 1..n /\ \A i \in 1..(n - 2) : i + 1 \in 1..n
        BY <2>2
      <3>2. QED
        BY <1>0, <3>1
    <2>4. /\ \A x \in E : x \in Instr /\ x \notin {P, R12, R01, S0, S1, C1, C2, <<"wait">>, <<"load">>}
          /\ {P, R12, R01, S0, S1, C1, C2} \subseteq Instr
      BY DEF Instr
    <2>5. /\ P \notin {R12, R01, S0, S1, C1, C2, <<"wait">>, <<"load">>}
          /\ R12 \notin {P, R01, S0, S1, C1, C2, <<"wait">>, <<"load">>}
          /\ R01 \notin {P, R12, S0, S1, C1, C2, <<"wait">>, <<"load">>}
          /\ S0 \notin {P, R12, R01, S1, C1, C2, <<"wait">>, <<"load">>}
          /\ S1 \notin {P, R12, R01, S0, C1, C2, <<"wait">>, <<"load">>}
          /\ C1 \notin {P, R12, R01, S0, S1, C2, <<"wait">>, <<"load">>}
          /\ C2 \notin {P, R12, R01, S0, S1, C1, <<"wait">>, <<"load">>}
      OBVIOUS
    <2>6. \A k \in {1, 2} : <<"close", k>> \in {C1, C2} /\ (<<"close", k>> = C1 <=> k = 1)
      OBVIOUS
    <2>d. Cleanup = <<S0, C1, C2>>
      BY DEF Cleanup
    <2> HIDE DEF E, P, R12, R01, S0, S1, C1, C2, e1, en, n
    <2>7. /\ A \in Seq(Instr) /\ Len(A) = 4 /\ A[1] = P /\ A[2] = R12 /\ A[3] = e1 /\ A[4] = R01
          /\ C \in Seq(Instr) /\ Len(C) = 2 /\ C[1] = S1 /\ C[2] = en
          /\ Cleanup \in Seq(Instr) /\ Len(Cleanup) = 3
          /\ Cleanup[1] = S0 /\ Cleanup[2] = C1 /\ Cleanup[3] = C2
      <3>1. A = <<P, R12, e1, R01>> /\ C = <<S1, en>>
        BY DEF P, R12, e1, R01, S1, en
      <3>2. P \in Instr /\ R12 \in Instr /\ R01 \in Instr /\ S0 \in Instr /\ S1 \in Instr
            /\ C1 \in Instr /\ C2 \in Instr /\ e1 \in Instr /\ en \in Instr
        BY <2>3, <2>4
      <3> HIDE DEF A, C
      <3>3. A \in Seq(Instr) /\ Len(A) = 4 /\ A[1] = P /\ A[2] = R12 /\ A[3] = e1 /\ A[4] = R01
        BY <3>1, <3>2
      <3>4. C \in Seq(Instr) /\ Len(C) = 2 /\ C[1] = S1 /\ C[2] = en
        BY <3>1, <3>2
      <3>5. /\ Cleanup \in Seq(Instr) /\ Len(Cleanup) = 3
            /\ Cleanup[1] = S0 /\ Cleanup[2] = C1 /\ Cleanup[3] = C2
        BY <2>d, <3>2
      <3>6. QED
        BY <3>3, <3>4, <3>5
    <2>8. B \in Seq(Instr) /\ Len(B) = n - 2 /\ \A i \in 1..(n - 2) : B[i] \in E
      <3>1. \A i \in 1..(n - 2) : Exec(m[i + 1]) \in Instr
        BY <2>3, <2>4
      <3>2. n - 2 \in Nat
        BY <2>2
      <3>3. B \in [1..(n - 2) -> Instr]
        BY <3>1
      <3>4. QED
        BY <2>3, <3>2, <3>3
    <2> HIDE DEF A, B, C, t
    <2> DEFINE AB == A \o B
               ABC == AB \o C
    <2>9. /\ AB \in Seq(Instr) /\ Len(AB) = 4 + (n - 2)
          /\ \A i \in 1..(4 + (n - 2)) : AB[i] = IF i <= 4 THEN A[i] ELSE B[i - 4]
      <3>1. /\ AB \in Seq(Instr) /\ Len(AB) = Len(A) + Len(B)
            /\ \A i \in 1..(Len(A) + Len(B)) : AB[i] = IF i <= Len(A) THEN A[i] ELSE B[i - Len(A)]
        BY <2>7, <2>8, ConcatProperties
      <3> HIDE DEF AB
      <3>2. QED
        BY <2>7, <2>8, <3>1, Zenon
    <2> HIDE DEF AB
    <2>10. /\ ABC \in Seq(Instr) /\ Len(ABC) = (4 + (n - 2)) + 2
           /\ \A i \in 1..((4 + (n - 2)) + 2) :
                ABC[i] = IF i <= 4 + (n - 2) THEN AB[i] ELSE C[i - (4 + (n - 2))]
      <3>1. /\ ABC \in Seq(Instr) /\ Len(ABC) = Len(AB) + Len(C)
            /\ \A i \in 1..(Len(AB) + Len(C)) : ABC[i] = IF i <= Len(AB) THEN AB[i] ELSE C[i - Len(AB)]
        BY <2>7, <2>9, ConcatProperties
      <3> HIDE DEF ABC
      <3>2. QED
        BY <2>7, <2>9, <3>1, Zenon
    <2> HIDE DEF ABC
    <2>11. /\ t \in Seq(Instr) /\ Len(t) = ((4 + (n - 2)) + 2) + 3
           /\ \A i \in 1..(((4 + (n - 2)) + 2) + 3) :
                t[i] = IF i <= (4 + (n - 2)) + 2 THEN ABC[i] ELSE Cleanup[i - ((4 + (n - 2)) + 2)]
      <3>1. t = ABC \o Cleanup
        BY <2>1 DEF ABC, AB
      <3>2. /\ t \in Seq(Instr) /\ Len(t) = Len(ABC) + Len(Cleanup)
            /\ \A i \in 1..(Len(ABC) + Len(Cleanup)) :
                 t[i] = IF i <= Len(ABC) THEN ABC[i] ELSE Cleanup[i - Len(ABC)]
        BY <2>7, <2>10, <3>1, ConcatProperties
      <3>3. QED
        BY <2>7, <2>10, <3>2, Zenon
    <2>12. Len(t) = n + 7
      BY <2>2, <2>11
    <2>13. t[1] = P /\ t[2] = R12 /\ t[3] = e1 /\ t[4] = R01
      <3>1. ASSUME NEW i \in 1..4 PROVE t[i] = A[i]
        <4>1. /\ i \in 1..(((4 + (n - 2)) + 2) + 3) /\ i <= (4 + (n - 2)) + 2
              /\ i \in 1..((4 + (n - 2)) + 2) /\ i <= 4 + (n - 2)
              /\ i \in 1..(4 + (n - 2)) /\ i <= 4
          BY <2>2
        <4>2. QED
          BY <2>9, <2>10, <2>11, <4>1
      <3>2. QED
        BY <2>7, <3>1
    <2>14. \A i \in 5..(n + 2) : t[i] \in E
      <3>1. ASSUME NEW i \in 5..(n + 2) PROVE t[i] \in E
        <4>1. /\ i \in 1..(((4 + (n - 2)) + 2) + 3) /\ i <= (4 + (n - 2)) + 2
              /\ i \in 1..((4 + (n - 2)) + 2) /\ i <= 4 + (n - 2)
              /\ i \in 1..(4 + (n - 2)) /\ ~(i <= 4) /\ i - 4 \in 1..(n - 2)
          BY <2>2
        <4>2. QED
          BY <2>8, <2>9, <2>10, <2>11, <4>1
      <3>2. QED
        BY <3>1
    <2>15. t[n + 3] = S1 /\ t[n + 4] = en
      <3>1. ASSUME NEW i \in 1..2 PROVE t[n + 2 + i] = C[i]
        <4>1. /\ n + 2 + i \in 1..(((4 + (n - 2)) + 2) + 3) /\ n + 2 + i <= (4 + (n - 2)) + 2
              /\ n + 2 + i \in 1..((4 + (n - 2)) + 2) /\ ~(n + 2 + i <= 4 + (n - 2))
              /\ (n + 2 + i) - (4 + (n - 2)) = i
          BY <2>2
        <4>2. QED
          BY <2>10, <2>11, <4>1
      <3>2. n + 2 + 1 = n + 3 /\ n + 2 + 2 = n + 4
        BY <2>2
      <3>3. QED
        BY <2>7, <3>1, <3>2
    <2>16. t[n + 5] = S0 /\ t[n + 6] = C1 /\ t[n + 7] = C2
      <3>1. ASSUME NEW i \in 1..3 PROVE t[n + 4 + i] = Cleanup[i]
        <4>1. /\ n + 4 + i \in 1..(((4 + (n - 2)) + 2) + 3) /\ ~(n + 4 + i <= (4 + (n - 2)) + 2)
              /\ (n + 4 + i) - ((4 + (n - 2)) + 2) = i
          BY <2>2
        <4>2. QED
          BY <2>11, <4>1
      <3>2. n + 4 + 1 = n + 5 /\ n + 4 + 2 = n + 6 /\ n + 4 + 3 = n + 7
        BY <2>2
      <3>3. QED
        BY <2>7, <3>1, <3>2
    <2>17. ASSUME NEW i \in 1..(n + 7)
           PROVE  \/ t[i] \in E
                  \/ i = 1 /\ t[i] = P
                  \/ i = 2 /\ t[i] = R12
                  \/ i = 4 /\ t[i] = R01
                  \/ t[i] \in {S0, S1}
                  \/ i = n + 6 /\ t[i] = C1
                  \/ i = n + 7 /\ t[i] = C2
      <3>1. i \in {1, 2, 3, 4} \/ i \in 5..(n + 2) \/ i \in {n + 3, n + 4, n + 5, n + 6, n + 7}
        BY <2>2
      <3>2. QED
        <4>1. CASE i \in {1, 2, 3, 4}
          BY <2>3, <2>13, <4>1
        <4>2. CASE i \in 5..(n + 2)
          BY <2>14, <4>2
        <4>3. CASE i \in {n + 3, n + 4, n + 5, n + 6, n + 7}
          BY <2>3, <2>15, <2>16, <4>3, Zenon
        <4>4. QED
          BY <3>1, <4>1, <4>2, <4>3
    <2>18. ASSUME NEW i \in 1..(n + 5)
           PROVE  After(t, i, C1) /\ After(t, i, C2) /\ (i <= 4 => After(t, i, S0) /\ After(t, i, S1))
      <3>1. /\ n + 6 \in 1..Len(t) /\ n + 6 > i /\ n + 7 \in 1..Len(t) /\ n + 7 > i
            /\ i <= 4 => n + 5 \in 1..Len(t) /\ n + 5 > i /\ n + 3 \in 1..Len(t) /\ n + 3 > i
        BY <2>2, <2>12
      <3>2. QED
        BY <2>15, <2>16, <3>1 DEF After
    <2>19. ~After(t, n + 6, C1) /\ ~After(t, n + 7, C2)
      <3>1. \A j \in 1..(n + 7) : (j > n + 6 => j = n + 7) /\ ~(j > n + 7)
        BY <2>2
      <3>2. QED
        BY <2>5, <2>12, <2>16, <3>1 DEF After
    <2>20. Ordered(t)
      <3>1. SUFFICES ASSUME NEW i \in 1..(n + 7)
            PROVE  /\ t[i] \in {P, <<"wait">>, <<"load">>} => i = 1
                   /\ t[i] \in {P, R12, R01} => After(t, i, C1) /\ After(t, i, C2)
                   /\ t[i] = R12 => After(t, i, S1)
                   /\ t[i] = R01 => After(t, i, S0)
                   /\ \A k \in {1, 2} : t[i] = <<"close", k>> => ~After(t, i, <<"close", k>>)
        BY <2>12 DEF Ordered, P, R12, R01, S0, S1, C1, C2
      <3>2. 1 \in 1..(n + 5) /\ 2 \in 1..(n + 5) /\ 4 \in 1..(n + 5)
        BY <2>2
      <3>3. CASE t[i] \in E
        <4>1. t[i] \notin {P, R12, R01, S0, S1, C1, C2, <<"wait">>, <<"load">>}
          BY <2>4, <3>3
        <4>2. QED
          BY <2>6, <4>1
      <3>4. CASE i = 1 /\ t[i] = P
        BY <2>5, <2>6, <2>18, <3>2, <3>4
      <3>5. CASE i = 2 /\ t[i] = R12
        BY <2>5, <2>6, <2>18, <3>2, <3>5
      <3>6. CASE i = 4 /\ t[i] = R01
        BY SMTT(30), <2>5, <2>6, <2>18, <3>2, <3>6
      <3>7. CASE t[i] \in {S0, S1}
        BY <2>5, <2>6, <3>7
      <3>8. CASE i = n + 6 /\ t[i] = C1
        BY <2>5, <2>6, <2>19, <3>8
      <3>9. CASE i = n + 7 /\ t[i] = C2
        BY <2>5, <2>6, <2>19, <3>9
      <3>10. QED
        BY <2>17, <3>3, <3>4, <3>5, <3>6, <3>7, <3>8, <3>9
    <2>21. t # << >> /\ t[1] = <<"pipe">> /\ t[1] \notin {<<"wait">>, <<"load">>}
      <3>1. Len(t) # 0
        BY <2>2, <2>12
      <3>2. t # << >>
        BY <3>1
      <3>3. QED
        BY <2>5, <2>13, <3>2 DEF P
    <2>22. QED
      BY <2>11, <2>20, <2>21 DEF t
  <1>3. QED
    BY <1>1, <1>2

-----------------------------------------------------------------------------
(* Descriptors and instructions.                                           *)

\* stdin, stdout and the other descriptors.
LEMMA StdFacts ==
  ASSUME FileTableAssumption, ShellAssumption
  PROVE  /\ Std = {0, 1} /\ Fds \cap {0, 1} = {} /\ 3 \in Fds /\ 4 \in Fds /\ MaxFds \in Nat
         /\ NoneOpen \in [Fds \cup Std -> Int]
         /\ NoneOpen[0] = 0 /\ NoneOpen[1] = 1 /\ \A fd \in Fds : NoneOpen[fd] = -1
  <1>1. Std = {0, 1} /\ MaxFds >= 5 /\ MaxFds \in Nat
    BY DEF FileTableAssumption, ShellAssumption
  <1>2. Fds \cap {0, 1} = {} /\ 3 \in Fds /\ 4 \in Fds
    BY <1>1 DEF Fds
  <1>3. NoneOpen[0] = 0 /\ NoneOpen[1] = 1 /\ \A fd \in Fds : NoneOpen[fd] = -1
    BY <1>1, <1>2 DEF NoneOpen
  <1>4. NoneOpen \in [Fds \cup Std -> Int]
    BY <1>1 DEF NoneOpen
  <1>5. QED
    BY <1>1, <1>2, <1>3, <1>4

\* With nothing left to do nothing is open.
LEMMA LinkedDone ==
  ASSUME FileTableAssumption, ShellAssumption, NEW tab \in [Fds \cup Std -> Int],
         NEW j, j.todo = << >>, Linked(tab, j)
  PROVE  tab = NoneOpen
  <1>1. \A x : ~After(j.todo, 0, x)
    BY DEF After
  <1>2. (\A fd \in Fds : tab[fd] = -1) /\ tab[0] = 0 /\ tab[1] = 1
    BY <1>1 DEF Linked
  <1>3. Std = {0, 1} /\ NoneOpen \in [Fds \cup Std -> Int]
        /\ NoneOpen[0] = 0 /\ NoneOpen[1] = 1 /\ \A fd \in Fds : NoneOpen[fd] = -1
    BY StdFacts
  <1>4. \A x \in Fds \cup Std : tab[x] = NoneOpen[x]
    BY <1>2, <1>3
  <1>5. QED
    BY <1>3, <1>4

\* The instructions that Linked looks for.
Links == {<<"close", 1>>, <<"close", 2>>, <<"restore", 0>>, <<"restore", 1>>}

IsPiping(j) == j.todo # << >> /\ j.todo[1] = <<"pipe">>

LEMMA LinkedIs ==
  ASSUME NEW tab, NEW j, ~IsPiping(j)
  PROVE  Linked(tab, j) <=>
           /\ \A k \in {1, 2} : After(j.todo, 0, <<"close", k>>) => j.fd[k] \in Fds /\ tab[j.fd[k]] # -1
           /\ After(j.todo, 0, <<"close", 1>>) /\ After(j.todo, 0, <<"close", 2>>) => j.fd[1] # j.fd[2]
           /\ \A fd \in Fds : tab[fd] # -1 =>
                \E k \in {1, 2} : After(j.todo, 0, <<"close", k>>) /\ fd = j.fd[k]
           /\ \A n \in {0, 1} : tab[n] = n \/ After(j.todo, 0, <<"restore", n>>)
  BY DEF Linked, IsPiping

\* A step that touches neither descriptors nor what is to be closed and restored.
LEMMA LinkedSame ==
  ASSUME NEW tab, NEW i, NEW j, ~IsPiping(i), ~IsPiping(j), j.fd = i.fd,
         \A x \in Links : After(j.todo, 0, x) <=> After(i.todo, 0, x), Linked(tab, i)
  PROVE  Linked(tab, j)
  <1>1. /\ \A k \in {1, 2} : After(j.todo, 0, <<"close", k>>) <=> After(i.todo, 0, <<"close", k>>)
        /\ \A n \in {0, 1} : After(j.todo, 0, <<"restore", n>>) <=> After(i.todo, 0, <<"restore", n>>)
    BY DEF Links
  <1>2. /\ \A m \in {1, 2} : After(i.todo, 0, <<"close", m>>) => i.fd[m] \in Fds /\ tab[i.fd[m]] # -1
        /\ After(i.todo, 0, <<"close", 1>>) /\ After(i.todo, 0, <<"close", 2>>) => i.fd[1] # i.fd[2]
        /\ \A fd \in Fds : tab[fd] # -1 =>
             \E m \in {1, 2} : After(i.todo, 0, <<"close", m>>) /\ fd = i.fd[m]
        /\ \A n \in {0, 1} : tab[n] = n \/ After(i.todo, 0, <<"restore", n>>)
    BY LinkedIs
  <1>3. /\ \A m \in {1, 2} : After(j.todo, 0, <<"close", m>>) => j.fd[m] \in Fds /\ tab[j.fd[m]] # -1
        /\ After(j.todo, 0, <<"close", 1>>) /\ After(j.todo, 0, <<"close", 2>>) => j.fd[1] # j.fd[2]
    BY <1>1, <1>2
  <1>4. ASSUME NEW fd \in Fds, tab[fd] # -1
        PROVE  \E m \in {1, 2} : After(j.todo, 0, <<"close", m>>) /\ fd = j.fd[m]
    <2>1. PICK m \in {1, 2} : After(i.todo, 0, <<"close", m>>) /\ fd = i.fd[m]
      BY <1>2, <1>4
    <2>2. QED
      BY <1>1, <2>1
  <1>5. \A n \in {0, 1} : tab[n] = n \/ After(j.todo, 0, <<"restore", n>>)
    <2>1. ASSUME NEW n \in {0, 1} PROVE tab[n] = n \/ After(j.todo, 0, <<"restore", n>>)
      BY <1>1, <1>2
    <2>2. QED
      BY <2>1
  <1>6. QED
    BY <1>3, <1>4, <1>5, LinkedIs

\* fd_redirect to something else: to be restored.  fd_redirect to itself: restored.
LEMMA LinkedRedirect ==
  ASSUME FileTableAssumption, ShellAssumption, NEW tab \in [Fds \cup Std -> Int], NEW i, NEW j, NEW n \in {0, 1}, NEW v \in Int,
         ~IsPiping(i), ~IsPiping(j), j.fd = i.fd,
         \A x \in Links : x # <<"restore", n>> => (After(j.todo, 0, x) <=> After(i.todo, 0, x)),
         v = n \/ After(j.todo, 0, <<"restore", n>>), Linked(tab, i)
  PROVE  Linked([tab EXCEPT ![n] = v], j)
  <1> DEFINE new == [tab EXCEPT ![n] = v]
  <1>0. Std = {0, 1} /\ Fds \cap {0, 1} = {}
    BY StdFacts
  <1>1. /\ \A k \in {1, 2} : After(j.todo, 0, <<"close", k>>) <=> After(i.todo, 0, <<"close", k>>)
        /\ \A m \in {0, 1} : m # n => (After(j.todo, 0, <<"restore", m>>) <=> After(i.todo, 0, <<"restore", m>>))
    BY DEF Links
  <1>2. new[n] = v /\ (\A fd \in Fds : new[fd] = tab[fd]) /\ (\A m \in {0, 1} : m # n => new[m] = tab[m])
    BY <1>0
  <1> HIDE DEF new
  <1>a. /\ \A m \in {1, 2} : After(i.todo, 0, <<"close", m>>) => i.fd[m] \in Fds /\ tab[i.fd[m]] # -1
        /\ After(i.todo, 0, <<"close", 1>>) /\ After(i.todo, 0, <<"close", 2>>) => i.fd[1] # i.fd[2]
        /\ \A fd \in Fds : tab[fd] # -1 =>
             \E m \in {1, 2} : After(i.todo, 0, <<"close", m>>) /\ fd = i.fd[m]
        /\ \A m \in {0, 1} : tab[m] = m \/ After(i.todo, 0, <<"restore", m>>)
    BY LinkedIs
  <1>3. \A k \in {1, 2} : After(j.todo, 0, <<"close", k>>) => j.fd[k] \in Fds /\ new[j.fd[k]] # -1
    BY <1>1, <1>2, <1>a
  <1>4. After(j.todo, 0, <<"close", 1>>) /\ After(j.todo, 0, <<"close", 2>>) => j.fd[1] # j.fd[2]
    BY <1>1, <1>a
  <1>5. ASSUME NEW fd \in Fds, new[fd] # -1
        PROVE  \E m \in {1, 2} : After(j.todo, 0, <<"close", m>>) /\ fd = j.fd[m]
    <2>1. PICK m \in {1, 2} : After(i.todo, 0, <<"close", m>>) /\ fd = i.fd[m]
      BY <1>2, <1>5, <1>a
    <2>2. QED
      BY <1>1, <2>1
  <1>6. \A m \in {0, 1} : new[m] = m \/ After(j.todo, 0, <<"restore", m>>)
    <2>1. ASSUME NEW m \in {0, 1} PROVE new[m] = m \/ After(j.todo, 0, <<"restore", m>>)
      <3>1. CASE m = n
        BY <1>2, <3>1
      <3>2. CASE m # n
        <4>1. new[m] = tab[m] /\ (After(j.todo, 0, <<"restore", m>>) <=> After(i.todo, 0, <<"restore", m>>))
          BY <1>1, <1>2, <3>2
        <4>2. QED
          BY <1>a, <4>1
      <3>3. QED
        BY <3>1, <3>2
    <2>2. QED
      BY <2>1
  <1>7. Linked(new, j)
    BY <1>3, <1>4, <1>5, <1>6, LinkedIs
  <1>8. QED
    BY <1>7 DEF new

\* One end of the pipe is closed.
LEMMA LinkedClose ==
  ASSUME FileTableAssumption, ShellAssumption, NEW tab \in [Fds \cup Std -> Int], NEW i, NEW j, NEW k \in {1, 2},
         i.fd \in [1..2 -> Int], j.fd = [i.fd EXCEPT ![k] = -1], ~IsPiping(i), ~IsPiping(j),
         \A x \in Links : x # <<"close", k>> => (After(j.todo, 0, x) <=> After(i.todo, 0, x)),
         After(i.todo, 0, <<"close", k>>), ~After(j.todo, 0, <<"close", k>>), Linked(tab, i)
  PROVE  /\ i.fd[k] \in Fds /\ tab[i.fd[k]] # -1
         /\ Linked([tab EXCEPT ![i.fd[k]] = -1], j)
  <1> DEFINE f == i.fd[k]
             new == [tab EXCEPT ![f] = -1]
  <1>0. Std = {0, 1} /\ Fds \cap {0, 1} = {}
    BY StdFacts
  <1>1. /\ \A m \in {1, 2} : m # k => (After(j.todo, 0, <<"close", m>>) <=> After(i.todo, 0, <<"close", m>>))
        /\ \A m \in {0, 1} : After(j.todo, 0, <<"restore", m>>) <=> After(i.todo, 0, <<"restore", m>>)
    BY DEF Links
  <1>2. /\ \A m \in {1, 2} : After(i.todo, 0, <<"close", m>>) => i.fd[m] \in Fds /\ tab[i.fd[m]] # -1
        /\ After(i.todo, 0, <<"close", 1>>) /\ After(i.todo, 0, <<"close", 2>>) => i.fd[1] # i.fd[2]
        /\ \A fd \in Fds : tab[fd] # -1 =>
             \E m \in {1, 2} : After(i.todo, 0, <<"close", m>>) /\ fd = i.fd[m]
        /\ \A n \in {0, 1} : tab[n] = n \/ After(i.todo, 0, <<"restore", n>>)
    BY LinkedIs
  <1>3. f \in Fds /\ tab[f] # -1
    BY <1>2
  <1>4. /\ new[f] = -1 /\ (\A fd \in Fds : fd # f => new[fd] = tab[fd])
        /\ \A m \in {0, 1} : new[m] = tab[m]
    BY <1>0, <1>3
  <1>5. \A m \in {1, 2} : m # k => j.fd[m] = i.fd[m]
    BY Z3
  <1>6. \A m \in {1, 2} : m # k /\ After(i.todo, 0, <<"close", m>>) => i.fd[m] # f
    <2>1. (k = 1 /\ \A m \in {1, 2} : m # k => m = 2) \/ (k = 2 /\ \A m \in {1, 2} : m # k => m = 1)
      OBVIOUS
    <2>2. QED
      BY <1>2, <2>1
  <1> HIDE DEF new, f
  <1>7. \A m \in {1, 2} : After(j.todo, 0, <<"close", m>>) => j.fd[m] \in Fds /\ new[j.fd[m]] # -1
    BY <1>1, <1>2, <1>4, <1>5, <1>6
  <1>8. After(j.todo, 0, <<"close", 1>>) /\ After(j.todo, 0, <<"close", 2>>) => j.fd[1] # j.fd[2]
    OBVIOUS
  <1>9. ASSUME NEW fd \in Fds, new[fd] # -1
        PROVE  \E m \in {1, 2} : After(j.todo, 0, <<"close", m>>) /\ fd = j.fd[m]
    <2>1. fd # f /\ tab[fd] # -1
      BY <1>4, <1>9
    <2>2. PICK m \in {1, 2} : After(i.todo, 0, <<"close", m>>) /\ fd = i.fd[m]
      BY <1>2, <2>1
    <2>3. m # k
      BY <2>1, <2>2 DEF f
    <2>4. QED
      BY <1>1, <1>5, <2>2, <2>3
  <1>10. \A n \in {0, 1} : new[n] = n \/ After(j.todo, 0, <<"restore", n>>)
    <2>1. ASSUME NEW n \in {0, 1} PROVE new[n] = n \/ After(j.todo, 0, <<"restore", n>>)
      BY <1>1, <1>2, <1>4
    <2>2. QED
      BY <2>1
  <1>11. Linked(new, j)
    BY <1>7, <1>8, <1>9, <1>10, LinkedIs
  <1>12. QED
    BY <1>3, <1>11 DEF new, f

\* The pipe is made.
LEMMA LinkedPipe ==
  ASSUME FileTableAssumption, ShellAssumption, NEW tab, NEW j, NEW a \in Fds, NEW b \in Fds, NEW g, a # b, g # -1,
         ~IsPiping(j), j.fd = <<a, b>>, tab[a] = g, tab[b] = g,
         \A fd \in Fds : fd \notin {a, b} => tab[fd] = -1, tab[0] = 0, tab[1] = 1,
         After(j.todo, 0, <<"close", 1>>), After(j.todo, 0, <<"close", 2>>)
  PROVE  Linked(tab, j)
  <1>1. j.fd[1] = a /\ j.fd[2] = b
    OBVIOUS
  <1>2. \A fd \in Fds : tab[fd] # -1 =>
             \E m \in {1, 2} : After(j.todo, 0, <<"close", m>>) /\ fd = j.fd[m]
    <2>1. ASSUME NEW fd \in Fds, tab[fd] # -1
          PROVE  \E m \in {1, 2} : After(j.todo, 0, <<"close", m>>) /\ fd = j.fd[m]
      <3>1. CASE fd = a
        BY <1>1, <3>1
      <3>2. CASE fd = b
        BY <1>1, <3>2
      <3>3. QED
        BY <2>1, <3>1, <3>2
    <2>2. QED
      BY <2>1
  <1>3. \A m \in {1, 2} : j.fd[m] \in Fds /\ tab[j.fd[m]] # -1
    BY <1>1
  <1>4. \A n \in {0, 1} : tab[n] = n
    OBVIOUS
  <1>5. j.fd[1] # j.fd[2]
    BY <1>1
  <1>6. QED
    BY <1>2, <1>3, <1>4, <1>5, LinkedIs, Zenon

\* A line is read.
LEMMA LinkedScript ==
  ASSUME FileTableAssumption, ShellAssumption, NEW j,
         ~IsPiping(j) => \A k \in {1, 2} : ~After(j.todo, 0, <<"close", k>>)
  PROVE  Linked(NoneOpen, j)
  <1>1. CASE IsPiping(j)
    BY <1>1 DEF IsPiping, Linked
  <1>2. CASE ~IsPiping(j)
    <2>1. NoneOpen[0] = 0 /\ NoneOpen[1] = 1 /\ \A fd \in Fds : NoneOpen[fd] = -1
      BY StdFacts
    <2>2. (\A k \in {1, 2} : ~After(j.todo, 0, <<"close", k>>)) /\ ~After(j.todo, 0, <<"close", 1>>)
      BY <1>2
    <2>3. \A n \in {0, 1} : NoneOpen[n] = n
      BY <2>1
    <2>4. QED
      BY <1>2, <2>1, <2>2, <2>3, LinkedIs, Zenon
  <1>3. QED
    BY <1>1, <1>2

-----------------------------------------------------------------------------
(* Who runs, and what it does.                                             *)

\* The instruction a shell has come to.
LEMMA HeadFacts ==
  ASSUME JobsOK, NEW p \in Procs, NEW w, Does(p, w)
  PROVE  LET t == job[p].todo
         IN /\ job[p] \in JobType /\ job[p].what = "shell" /\ state[p] = Run
            /\ t \in Seq(Instr) /\ t # << >> /\ Next1(p) = t[1] /\ t[1] \in Instr /\ t[1][1] = w
            /\ Ordered(t) /\ Linked(fd_table[p], job[p])
            /\ Tail(t) \in Seq(Instr) /\ Ordered(Tail(t))
            /\ \A x : After(t, 0, x) <=> t[1] = x \/ After(Tail(t), 0, x)
            /\ \A x : After(t, 1, x) <=> After(Tail(t), 0, x)
            /\ Tail(t) # << >> => Tail(t)[1] \notin {<<"pipe">>, <<"wait">>, <<"load">>}
  <1> DEFINE t == job[p].todo
  <1>1. /\ job[p] \in JobType /\ job[p].what = "shell" /\ t # << >> /\ Next1(p)[1] = w
        /\ Ordered(t) /\ Linked(fd_table[p], job[p])
    BY DEF Does, JobsOK
  <1>2. state[p] = Run
    BY <1>1 DEF JobsOK
  <1>3. t \in Seq(Instr)
    BY <1>1 DEF JobType
  <1>4. Next1(p) = t[1]
    BY <1>1, <1>3 DEF Next1
  <1> HIDE DEF t
  <1>5. /\ Tail(t) \in Seq(Instr) /\ Ordered(Tail(t)) /\ t[1] \in Instr
        /\ \A x : After(t, 0, x) <=> t[1] = x \/ After(Tail(t), 0, x)
        /\ \A x : After(t, 1, x) <=> After(Tail(t), 0, x)
        /\ Tail(t) # << >> => Tail(t)[1] \notin {<<"pipe">>, <<"wait">>, <<"load">>}
    BY <1>1, <1>3, TailOrdered
  <1>6. QED
    BY <1>1, <1>2, <1>3, <1>4, <1>5 DEF t

LEMMA WaitsSame ==
  ASSUME NEW q, job'[q] = job[q]
  PROVE  Waits(q)' <=> Waits(q)
  BY DEF Waits, Does, Next1

\* A process waits only while it runs.
LEMMA WaitsRuns ==
  ASSUME JobsOK, NEW q \in Procs, Waits(q)
  PROVE  state[q] = Run /\ state[q] # Idle
  <1>1. state[q] = Run
    BY DEF Waits, Does, JobsOK
  <1>2. QED
    BY <1>1 DEF Run, Idle

\* Who does something else than wait is awake.
LEMMA DoesAwake ==
  ASSUME NEW p \in Procs, state[p] # Idle, ~Waits(p)
  PROVE  Awake(p)
  BY DEF Awake

\* The job of one process changes.
LEMMA JobsKept ==
  ASSUME JobsOK, NEW p \in Procs, NEW j \in JobType, job' = [job EXCEPT ![p] = j],
         \A q \in Procs : q # p => state'[q] = state[q] /\ fd_table'[q] = fd_table[q],
         j.what # "none" <=> state'[p] = Run,
         j.what = "shell" => Ordered(j.todo) /\ Linked(fd_table'[p], j)
  PROVE  JobsOK' /\ job'[p] = j /\ \A q \in Procs : q # p => job'[q] = job[q]
  <1>1. job' \in [Procs -> JobType] /\ job'[p] = j /\ \A q \in Procs : q # p => job'[q] = job[q]
    BY DEF JobsOK
  <1>2. ASSUME NEW q \in Procs
        PROVE  /\ job'[q].what # "none" <=> state'[q] = Run
               /\ job'[q].what = "shell" => Ordered(job'[q].todo) /\ Linked(fd_table'[q], job'[q])
    <2>1. CASE q = p
      BY <1>1, <2>1
    <2>2. CASE q # p
      BY <1>1, <2>2 DEF JobsOK
    <2>3. QED
      BY <2>1, <2>2
  <1>3. JobsOK'
    <2>1. \A q \in Procs : job'[q].what # "none" <=> state'[q] = Run
      BY <1>2
    <2>2. \A q \in Procs : job'[q].what = "shell" => Ordered(job'[q].todo) /\ Linked(fd_table'[q], job'[q])
      BY <1>2
    <2>3. JobsOK' <=> /\ job' \in [Procs -> JobType]
                      /\ \A q \in Procs : job'[q].what # "none" <=> state'[q] = Run
                      /\ \A q \in Procs : job'[q].what = "shell" =>
                           Ordered(job'[q].todo) /\ Linked(fd_table'[q], job'[q])
      BY DEF JobsOK
    <2>4. QED
      BY <1>1, <2>1, <2>2, <2>3
  <1>4. QED
    BY <1>1, <1>3

\* The step of a process that is awake, and does not wait afterwards.
LEMMA RunnerKeeps ==
  ASSUME JobsOK, OneAwake, NEW p \in Procs, Awake(p), state'[p] # Idle, ~Waits(p)',
         \A q \in Procs : q # p => job'[q] = job[q] /\ state'[q] = state[q]
  PROVE  OneAwake'
  <1>1. \A q \in Procs : Waits(q)' => q # p /\ Waits(q) /\ job'[q] = job[q]
    BY WaitsSame
  <1>2. \A q \in Procs : Waits(q)' => job'[q].child \in Procs \ {q}
    BY <1>1 DEF OneAwake
  <1>3. \A a, b \in Procs : Waits(a)' /\ Waits(b)' /\ job'[a].child = job'[b].child => a = b
    BY <1>1 DEF OneAwake
  <1>4. ASSUME NEW a \in Procs, Awake(a)' PROVE a = p
    <2>1. SUFFICES ASSUME a # p PROVE Awake(a)
      BY DEF OneAwake
    <2>2. state[a] # Idle /\ (Waits(a) => state'[job[a].child] = Idle)
      BY <1>4, <2>1, WaitsSame DEF Awake
    <2>3. ASSUME Waits(a) PROVE state[job[a].child] = Idle
      <3>1. job[a].child \in Procs /\ state'[job[a].child] = Idle
        BY <2>2, <2>3 DEF OneAwake
      <3>2. job[a].child # p
        BY <3>1
      <3>3. QED
        BY <3>1, <3>2
    <2>4. QED
      BY <2>2, <2>3 DEF Awake
  <1>5. QED
    BY <1>2, <1>3, <1>4 DEF OneAwake

\* Slots and descriptors, stdin and stdout aside, stay as they are.
LEMMA PipesSame ==
  ASSUME FileTableAssumption, PipesExact, \A g \in Slots : file_table'[g] = file_table[g],
         \A q \in Procs, fd \in Fds : fd_table'[q][fd] = fd_table[q][fd]
  PROVE  PipesExact'
  <1>1. \A g \in Slots : Holders(fd_table', g) = Holders(fd_table, g)
    BY DEF Holders
  <1>2. QED
    BY <1>1 DEF PipesExact

-----------------------------------------------------------------------------
(* The count of a pipe.                                                    *)

\* A descriptor is closed.
LEMMA CloseExact ==
  ASSUME FileTableAssumption, FileInv, use = "pipes", PipesExact, NEW p \in Procs, NEW fd \in Fds,
         fd_table[p][fd] # -1, Close(p, fd)
  PROVE  PipesExact' /\ fd_table' = [fd_table EXCEPT ![p] = [fd_table[p] EXCEPT ![fd] = -1]]
  <1>0. FileTypes /\ PipesOnly
    BY DEF FileInv
  <1>1. PICK g \in Slots : fd_table[p][fd] = g
    BY <1>0 DEF FileTypes
  <1>2. file_table[g].inode = Page /\ is_pipe(g)
    BY <1>0, <1>1, FileFacts DEF PipesOnly, PipeSlot
  <1>3. fd_table' = [fd_table EXCEPT ![p][fd] = -1] /\ pipe_close(g)
    BY <1>1, <1>2 DEF Close
  <1>4. fd_table' = [fd_table EXCEPT ![p] = [fd_table[p] EXCEPT ![fd] = -1]]
    BY <1>3
  <1>5. /\ fd_table'[p][fd] = -1
        /\ \A q \in Procs, x \in Fds : q # p \/ x # fd => fd_table'[q][x] = fd_table[q][x]
    <2>1. fd_table \in FdTables /\ fd_table[p] \in [Fds \cup Std -> Int]
      BY <1>0 DEF FileTypes, FdTables
    <2>2. fd_table'[p] = [fd_table[p] EXCEPT ![fd] = -1] /\ \A q \in Procs : q # p => fd_table'[q] = fd_table[q]
      BY <1>4, <2>1 DEF FdTables
    <2>3. QED
      BY <2>1, <2>2
  <1>6. /\ \A h \in Slots : h # g => file_table'[h] = file_table[h]
        /\ file_table'[g].pos = file_table[g].pos - 1
        /\ file_table'[g].inode = (IF file_table[g].pos = 1 THEN Null ELSE file_table[g].inode)
    BY <1>3, PipeCloseKeeps
  <1>7. Cardinality(Holders(fd_table', g)) = Cardinality(Holders(fd_table, g)) - 1
    <2>1. Holders(fd_table', g) = Holders(fd_table, g) \ {<<p, fd>>}
      BY <1>1, <1>5, FileFacts DEF Holders
    <2>2. <<p, fd>> \in Holders(fd_table, g) /\ IsFiniteSet(Holders(fd_table, g))
      <3>1. <<p, fd>> \in Procs \X Fds /\ <<p, fd>>[1] = p /\ <<p, fd>>[2] = fd
        OBVIOUS
      <3>2. <<p, fd>> \in Holders(fd_table, g)
        BY <1>1, <3>1 DEF Holders
      <3>3. QED
        BY <3>2, HoldersFacts
    <2>3. QED
      BY ZenonT(40), <2>1, <2>2, FS_RemoveElement
  <1>8. \A h \in Slots : h # g => Holders(fd_table', h) = Holders(fd_table, h)
    BY <1>1, <1>5, FileFacts DEF Holders
  <1>9. file_table[g].pos > 0 /\ file_table[g].pos = Cardinality(Holders(fd_table, g))
        /\ file_table[g].pos \in Int
    BY <1>0, <1>2 DEF PipesExact, FileTypes, Slot
  <1>10. ASSUME NEW h \in Slots, file_table'[h].inode = Page
         PROVE  file_table'[h].pos > 0 /\ file_table'[h].pos = Cardinality(Holders(fd_table', h))
    <2>1. CASE h = g
      <3>1. file_table[g].pos # 1
        BY <1>6, <1>10, <2>1, FileFacts
      <3>2. QED
        BY <1>6, <1>7, <1>9, <2>1, <3>1
    <2>2. CASE h # g
      <3>1. file_table'[h] = file_table[h] /\ Holders(fd_table', h) = Holders(fd_table, h)
        BY <1>6, <1>8, <2>2
      <3>2. QED
        BY <1>10, <3>1 DEF PipesExact
    <2>3. QED
      BY <2>1, <2>2
  <1>11. PipesExact'
    BY <1>10 DEF PipesExact
  <1>12. QED
    BY <1>4, <1>11

\* sys_fork counts the descriptors of the child, who had none.
LEMMA ForkExact ==
  ASSUME FileTableAssumption, FileInv, use = "pipes", PipesExact, NEW p \in Procs, NEW c \in Procs,
         sys_fork(p, c)
  PROVE  PipesExact'
  <1>0. FileTypes /\ PipesOnly
    BY DEF FileInv
  <1>1. /\ state[p] = Run /\ state[c] = Idle
        /\ fd_table' = [fd_table EXCEPT ![c] = fd_table[p]]
        /\ file_table' = [g \in Slots |-> IF is_pipe(g)
                             THEN [file_table[g] EXCEPT !.pos = @ + Refs(p, g)]
                             ELSE file_table[g]]
    BY DEF sys_fork, CanRun, Inherited
  <1>2. p # c
    BY <1>1 DEF Idle, Run
  <1>3. \A q \in Procs : fd_table'[q] = (IF q = c THEN fd_table[p] ELSE fd_table[q])
    BY <1>0, <1>1 DEF FileTypes, FdTables
  <1>4. \A fd \in Fds : fd_table[c][fd] = -1
    BY <1>0, <1>1 DEF PipesOnly
  <1>5. ASSUME NEW g \in Slots, file_table'[g].inode = Page
        PROVE  file_table'[g].pos > 0 /\ file_table'[g].pos = Cardinality(Holders(fd_table', g))
    <2>0. file_table[g] \in Slot
      BY <1>0 DEF FileTypes
    <2>1. Refs(p, g) \in Nat
      <3>1. IsFiniteSet({fd \in Fds : fd_table[p][fd] = g})
        BY FileFacts, FS_Subset
      <3>2. QED
        BY <3>1, FS_CardinalityType DEF Refs
    <2>2. file_table[g].inode = Page /\ is_pipe(g)
      <3>1. file_table[g].inode = Page
        <4>1. CASE is_pipe(g)
          <5>1. file_table'[g] = [file_table[g] EXCEPT !.pos = @ + Refs(p, g)]
            BY <1>1, <4>1
          <5>2. QED
            BY <1>5, <2>0, <2>1, <5>1 DEF Slot
        <4>2. CASE ~is_pipe(g)
          BY <1>1, <1>5, <4>2
        <4>3. QED
          BY <4>1, <4>2
      <3>2. QED
        BY <1>0, <3>1 DEF PipesOnly, PipeSlot
    <2>3. file_table[g].pos \in Int /\ file_table'[g].pos = file_table[g].pos + Refs(p, g)
      <3>1. file_table'[g] = [file_table[g] EXCEPT !.pos = @ + Refs(p, g)]
        BY <1>1, <2>2
      <3>2. QED
        BY <2>0, <2>1, <3>1 DEF Slot
    <2> DEFINE D == {fd \in Fds : fd_table[p][fd] = g}
               E == {x \in {c} \X Fds : fd_table[p][x[2]] = g}
    <2>4. Holders(fd_table', g) = Holders(fd_table, g) \cup E
      <3>1. ASSUME NEW x \in Procs \X Fds
            PROVE  x \in Holders(fd_table', g) <=> x \in Holders(fd_table, g) \cup E
        <4>1. CASE x[1] = c
          <5>1. fd_table'[x[1]][x[2]] = fd_table[p][x[2]] /\ fd_table[x[1]][x[2]] = -1 /\ g # -1
            BY <1>3, <1>4, <4>1, FileFacts
          <5>2. x \in E <=> fd_table[p][x[2]] = g
            BY <4>1
          <5>3. QED
            BY <5>1, <5>2 DEF Holders
        <4>2. CASE x[1] # c
          <5>1. fd_table'[x[1]][x[2]] = fd_table[x[1]][x[2]] /\ x \notin E
            BY <1>3, <4>2
          <5>2. QED
            BY <5>1 DEF Holders
        <4>3. QED
          BY <4>1, <4>2
      <3>2. Holders(fd_table', g) \subseteq Procs \X Fds /\ Holders(fd_table, g) \cup E \subseteq Procs \X Fds
        BY DEF Holders
      <3>3. QED
        BY <3>1, <3>2
    <2>5. Holders(fd_table, g) \cap E = {}
      BY <1>4, FileFacts DEF Holders
    <2>6. IsFiniteSet(D) /\ Cardinality(D) = Refs(p, g)
      BY FileFacts, FS_Subset DEF Refs
    <2>7. IsFiniteSet(E) /\ Cardinality(E) = Cardinality(D)
      <3> DEFINE f == [fd \in D |-> <<c, fd>>]
      <3>1. f \in [D -> E] /\ \A e \in E : \E d \in D : f[d] = e
        <4>1. ASSUME NEW d \in D PROVE <<c, d>> \in E
          OBVIOUS
        <4>2. ASSUME NEW e \in E PROVE e[2] \in D /\ <<c, e[2]>> = e
          OBVIOUS
        <4>3. QED
          BY <4>1, <4>2
      <3>2. \A a, b \in D : f[a] = f[b] => a = b
        OBVIOUS
      <3> HIDE DEF f
      <3>3. f \in Bijection(D, E)
        BY <3>1, <3>2 DEF Bijection, Surjection, Injection, IsInjective
      <3>4. ExistsBijection(D, E)
        BY <3>3 DEF ExistsBijection
      <3>5. QED
        BY <2>6, <3>4, FS_Bijection
    <2> HIDE DEF D, E
    <2>8. Cardinality(Holders(fd_table', g)) = Cardinality(Holders(fd_table, g)) + Refs(p, g)
      <3>1. IsFiniteSet(Holders(fd_table, g))
        BY HoldersFacts
      <3>2. Cardinality(Holders(fd_table, g) \cup E) =
              Cardinality(Holders(fd_table, g)) + Cardinality(E) - Cardinality(Holders(fd_table, g) \cap E)
        BY <2>7, <3>1, FS_Union
      <3>3. Cardinality(Holders(fd_table, g) \cap E) = 0
        BY <2>5, FS_EmptySet
      <3>4. Cardinality(Holders(fd_table, g)) \in Nat
        BY <3>1, FS_CardinalityType
      <3>5. QED
        BY <2>1, <2>4, <2>6, <2>7, <3>2, <3>3, <3>4
    <2>9. file_table[g].pos > 0 /\ file_table[g].pos = Cardinality(Holders(fd_table, g))
      BY <2>2 DEF PipesExact
    <2>10. QED
      BY <2>1, <2>3, <2>8, <2>9
  <1>6. QED
    BY <1>5 DEF PipesExact

\* The loop for a free descriptor finds one where there is one.
LEMMA LeastIn ==
  ASSUME NEW S \in SUBSET Nat, S # {}
  PROVE  Least(S) \in S /\ Least(S) # -1
  <1>1. \E n \in S : \A m \in S : n <= m
    BY LeastNat
  <1>2. Least(S) \in S
    BY <1>1 DEF Least
  <1>3. QED
    BY <1>2

\* sys_pipe of a shell that has nothing open: two descriptors, and a count of two.
LEMMA PipeExact ==
  ASSUME FileTableAssumption, ShellAssumption, FileInv, use = "pipes", PipesExact, NEW p \in Procs,
         fd_table[p] = NoneOpen, sys_pipe(p)
  PROVE  LET free == {fd \in Fds : fd_table[p][fd] = -1}
             a == Least(free)
             b == Least(free \ {a})
         IN /\ a \in Fds /\ b \in Fds /\ a # b /\ PipesExact'
            /\ fd_table' = [fd_table EXCEPT ![p] = fd_table'[p]]
            /\ \E g \in Slots : /\ fd_table'[p][a] = g /\ fd_table'[p][b] = g
                                /\ \A fd \in Fds : fd \notin {a, b} => fd_table'[p][fd] = -1
            /\ fd_table'[p][0] = 0 /\ fd_table'[p][1] = 1
  <1> DEFINE free == {fd \in Fds : fd_table[p][fd] = -1}
             a == Least(free)
             b == Least(free \ {a})
  <1>0. FileTypes /\ PipesOnly
    BY DEF FileInv
  <1>1. PICK g \in Slots : g = get_free_slot_in_global /\ file_table[g].inode = Null
    BY FreeSlot DEF sys_pipe
  <1>2. g \in Int /\ g # -1
    <2>1. Slots \subseteq Nat
      BY FileFacts
    <2>2. QED
      BY <2>1
  <1>3. /\ Std = {0, 1} /\ Fds \cap {0, 1} = {} /\ 3 \in Fds /\ 4 \in Fds
        /\ NoneOpen \in [Fds \cup Std -> Int] /\ Fds \subseteq Nat
        /\ NoneOpen[0] = 0 /\ NoneOpen[1] = 1 /\ \A fd \in Fds : NoneOpen[fd] = -1
    BY StdFacts, FileFacts
  <1>4. free = Fds
    BY <1>3
  <1>5. a \in Fds /\ a # -1
    <2>1. Fds \in SUBSET Nat /\ Fds # {}
      BY <1>3
    <2>2. QED
      BY <1>4, <2>1, LeastIn
  <1>6. b \in Fds /\ b # a /\ b # -1
    <2> HIDE DEF a
    <2>0. 3 \in Fds \ {a} \/ 4 \in Fds \ {a}
      <3>1. 3 \in Fds /\ 4 \in Fds /\ 3 # 4
        BY <1>3
      <3>2. QED
        BY <3>1
    <2>1. Fds \ {a} \in SUBSET Nat /\ Fds \ {a} # {}
      <3>1. Fds \ {a} \in SUBSET Nat
        BY <1>3
      <3>2. QED
        BY <2>0, <3>1
    <2>2. Least(Fds \ {a}) \in Fds \ {a} /\ Least(Fds \ {a}) # -1
      BY <2>1, LeastIn
    <2>3. QED
      BY <1>4, <2>2
  <1>7. pcb_fd_install(fd_table, p, g) = [fd_table EXCEPT ![p][a] = g]
    BY <1>5 DEF pcb_fd_install
  <1> DEFINE mid == [fd_table EXCEPT ![p][a] = g]
             u == [NoneOpen EXCEPT ![a] = g]
             v == [u EXCEPT ![b] = g]
  <1>8. fd_table \in FdTables
    BY <1>0 DEF FileTypes
  <1>9. mid = [fd_table EXCEPT ![p] = u] /\ u \in [Fds \cup Std -> Int] /\ mid[p] = u
    BY <1>2, <1>3, <1>8 DEF FdTables
  <1>10. {x \in Fds : mid[p][x] = -1} = free \ {a}
    <2>1. u[a] = g /\ \A x \in Fds : x # a => u[x] = -1
      BY <1>3, <1>5
    <2>2. QED
      BY <1>2, <1>4, <1>9, <2>1
  <1> HIDE DEF mid
  <1>11. pcb_fd_install(mid, p, g) = [mid EXCEPT ![p][b] = g]
    BY <1>6, <1>10 DEF pcb_fd_install
  <1>12. fd_table' = [mid EXCEPT ![p][b] = g]
         /\ file_table' = [file_table EXCEPT ![g] = [inode |-> Page, flag |-> "pipe", pos |-> 2]]
    BY <1>1, <1>7, <1>11 DEF sys_pipe, mid
  <1> HIDE DEF a, b, free
  <1>13. fd_table' = [fd_table EXCEPT ![p] = v] /\ fd_table'[p] = v
    <2>1. fd_table' = [mid EXCEPT ![p] = v]
      BY <1>9, <1>12
    <2>2. QED
      BY <1>8, <1>9, <2>1 DEF FdTables
  <1>14. v[a] = g /\ v[b] = g /\ v[0] = 0 /\ v[1] = 1 /\ \A fd \in Fds : fd \notin {a, b} => v[fd] = -1
    BY <1>3, <1>5, <1>6, <1>9
  <1> HIDE DEF u, v
  <1>15. \A q \in Procs : q # p => fd_table'[q] = fd_table[q]
    BY <1>8, <1>13 DEF FdTables
  <1>16. \A q \in Procs, fd \in Fds : fd_table[q][fd] # g
    BY <1>0, <1>1, <1>2, FileFacts DEF PipesOnly
  <1>17. Holders(fd_table', g) = {<<p, a>>} \cup {<<p, b>>}
    <2>1. ASSUME NEW x \in Procs \X Fds
          PROVE  fd_table'[x[1]][x[2]] = g <=> (x = <<p, a>> \/ x = <<p, b>>)
      <3>1. x = <<x[1], x[2]>> /\ x[1] \in Procs /\ x[2] \in Fds
        OBVIOUS
      <3>2. CASE x[1] # p
        BY <1>15, <1>16, <3>1, <3>2
      <3>3. CASE x[1] = p
        BY <1>2, <1>13, <1>14, <3>1, <3>3
      <3>4. QED
        BY <3>2, <3>3
    <2>2. <<p, a>> \in Procs \X Fds /\ <<p, b>> \in Procs \X Fds
      BY <1>5, <1>6
    <2>3. QED
      BY <2>1, <2>2 DEF Holders
  <1>18. Cardinality(Holders(fd_table', g)) = 2
    <2>1. IsFiniteSet({<<p, a>>}) /\ Cardinality({<<p, a>>}) = 1
      BY FS_Singleton
    <2>2. <<p, b>> \notin {<<p, a>>}
      BY <1>6
    <2>3. Cardinality({<<p, a>>} \cup {<<p, b>>}) = Cardinality({<<p, a>>}) + 1
      BY <2>1, <2>2, FS_AddElement
    <2>4. QED
      BY <1>17, <2>1, <2>3
  <1>19. \A h \in Slots : h # g => Holders(fd_table', h) = Holders(fd_table, h)
    <2>1. ASSUME NEW h \in Slots, h # g, NEW x \in Procs \X Fds
          PROVE  fd_table'[x[1]][x[2]] = h <=> fd_table[x[1]][x[2]] = h
      <3>1. CASE x[1] # p
        BY <1>15, <3>1
      <3>2. CASE x[1] = p
        <4>1. h # -1
          BY FileFacts
        <4>2. fd_table'[p][x[2]] \in {g, -1} /\ fd_table[p][x[2]] = -1
          BY <1>3, <1>13, <1>14
        <4>3. QED
          BY <2>1, <3>2, <4>1, <4>2
      <3>3. QED
        BY <3>1, <3>2
    <2>2. QED
      BY <2>1 DEF Holders
  <1>20. /\ file_table'[g].pos = 2
         /\ \A h \in Slots : h # g => file_table'[h] = file_table[h]
    BY <1>0, <1>12 DEF FileTypes
  <1>21. ASSUME NEW h \in Slots, file_table'[h].inode = Page
         PROVE  file_table'[h].pos > 0 /\ file_table'[h].pos = Cardinality(Holders(fd_table', h))
    <2>1. CASE h = g
      BY <1>18, <1>20, <2>1
    <2>2. CASE h # g
      <3>1. file_table'[h] = file_table[h] /\ Holders(fd_table', h) = Holders(fd_table, h)
        BY <1>19, <1>20, <2>2
      <3>2. QED
        BY <1>21, <3>1 DEF PipesExact
    <2>3. QED
      BY <2>1, <2>2
  <1>22. PipesExact'
    BY <1>21 DEF PipesExact
  <1>23. QED
    BY <1>5, <1>6, <1>13, <1>14, <1>22 DEF a, b, free

-----------------------------------------------------------------------------
(* The steps.                                                              *)

\* The fields of a job.
LEMMA JobTodo ==
  ASSUME NEW j \in JobType, NEW u \in Seq(Instr)
  PROVE  /\ [j EXCEPT !.todo = u] \in JobType /\ [j EXCEPT !.todo = u].todo = u
         /\ [j EXCEPT !.todo = u].fd = j.fd /\ [j EXCEPT !.todo = u].what = j.what
  BY DEF JobType

LEMMA NoJobFacts ==
  /\ NoJob \in JobType /\ NoJob.what = "none"
  /\ \A w \in {"spin", "program"} : [NoJob EXCEPT !.what = w] \in JobType /\ [NoJob EXCEPT !.what = w].what = w
  <1>1. << -1, -1>> \in [1..2 -> Int] /\ << >> \in Seq(Instr)
    OBVIOUS
  <1>2. QED
    BY <1>1 DEF NoJob, JobType

\* A process that is awake changes its job, and of the files its own descriptors at most.
LEMMA MoveKeeps ==
  ASSUME FileTableAssumption, ShellInv, [Next]_vars, UNCHANGED <<state, use>>, NEW p \in Procs,
         state[p] = Run, Awake(p), NEW j \in JobType, job' = [job EXCEPT ![p] = j],
         \A q \in Procs : q # p => fd_table'[q] = fd_table[q], PipesExact',
         j.what # "none",
         j.what = "shell" => /\ Ordered(j.todo) /\ Linked(fd_table'[p], j)
                             /\ j.todo # << >> => Head(j.todo)[1] # "wait"
  PROVE  ShellInv'
  <1>1. FileInv' /\ use' = "pipes"
    BY FileInvStep DEF ShellInv
  <1>2. JobsOK' /\ job'[p] = j /\ \A q \in Procs : q # p => job'[q] = job[q]
    BY JobsKept DEF ShellInv
  <1>3. ~Waits(p)'
    BY <1>2 DEF Waits, Does, Next1
  <1>4. OneAwake'
    <2>1. state'[p] # Idle
      BY DEF Run, Idle
    <2>2. QED
      BY <1>2, <1>3, <2>1, RunnerKeeps DEF ShellInv
  <1>5. QED
    BY <1>1, <1>2, <1>4 DEF ShellInv

\* No file is touched.
LEMMA QuietKeeps ==
  ASSUME FileTableAssumption, ShellInv, UNCHANGED vars, NEW p \in Procs,
         state[p] = Run, Awake(p), NEW j \in JobType, job' = [job EXCEPT ![p] = j],
         j.what # "none",
         j.what = "shell" => /\ Ordered(j.todo) /\ Linked(fd_table[p], j)
                             /\ j.todo # << >> => Head(j.todo)[1] # "wait"
  PROVE  ShellInv'
  <1>1. UNCHANGED <<state, use, fd_table, file_table>>
    BY DEF vars
  <1>2. PipesExact'
    BY <1>1, PipesSame DEF ShellInv
  <1>3. [Next]_vars /\ Linked(fd_table'[p], j) = Linked(fd_table[p], j)
    BY <1>1
  <1>4. QED
    BY <1>1, <1>2, <1>3, MoveKeeps

\* Nothing changes that the invariant speaks of.
LEMMA ShellStays ==
  ASSUME FileTableAssumption, ShellInv, [Next]_vars, UNCHANGED <<file_table, fd_table, state, use, job>>
  PROVE  ShellInv'
  <1>1. FileInv' /\ use' = "pipes"
    BY FileInvStep DEF ShellInv
  <1>2. PipesExact'
    BY PipesSame DEF ShellInv
  <1>3. JobsOK'
    <2>1. JobsOK
      BY DEF ShellInv
    <2>2. JobsOK' <=> /\ job' \in [Procs -> JobType]
                      /\ \A q \in Procs : job'[q].what # "none" <=> state'[q] = Run
                      /\ \A q \in Procs : job'[q].what = "shell" =>
                           Ordered(job'[q].todo) /\ Linked(fd_table'[q], job'[q])
      BY DEF JobsOK
    <2>3. QED
      BY <2>1, <2>2 DEF JobsOK
  <1>4. OneAwake'
    BY WaitsSame DEF OneAwake, Awake, ShellInv
  <1>5. QED
    BY <1>1, <1>2, <1>3, <1>4 DEF ShellInv

\* What is left after an instruction.
LEMMA RestFacts ==
  ASSUME JobsOK, NEW p \in Procs, NEW w, Does(p, w)
  PROVE  LET u == Tail(job[p].todo)
         IN /\ u # << >> => Head(u)[1] # "wait"
            /\ u # << >> => u[1] # <<"pipe">>
  <1> DEFINE u == Tail(job[p].todo)
  <1>1. u \in Seq(Instr) /\ (u # << >> => u[1] \notin {<<"pipe">>, <<"wait">>, <<"load">>})
    BY HeadFacts
  <1> HIDE DEF u
  <1>2. u # << >> => Head(u) = u[1] /\ u[1] \in Instr
    BY <1>1
  <1>3. u # << >> => Head(u)[1] # "wait"
    BY <1>1, <1>2, InstrFacts
  <1>4. QED
    BY <1>1, <1>3 DEF u

\* A command: exec, wait and load change no link.
LEMMA PlainFacts ==
  ASSUME JobsOK, NEW p \in Procs, NEW w \in {"exec", "wait", "load"}, Does(p, w), NEW j,
         j.todo = Tail(job[p].todo), j.fd = job[p].fd
  PROVE  Linked(fd_table[p], j) /\ Ordered(j.todo) /\ (j.todo # << >> => Head(j.todo)[1] # "wait")
  <1> DEFINE t == job[p].todo
  <1>1. /\ t[1] \in Instr /\ t[1][1] = w /\ t # << >> /\ Linked(fd_table[p], job[p]) /\ Ordered(Tail(t))
        /\ \A x : After(t, 0, x) <=> t[1] = x \/ After(Tail(t), 0, x)
    BY HeadFacts
  <1> HIDE DEF t
  <1>2. \A x \in Links : t[1] # x
    BY <1>1, InstrWords DEF Links
  <1>3. t[1] # <<"pipe">>
    BY <1>1, InstrWords
  <1>4. ~IsPiping(job[p]) /\ ~IsPiping(j)
    BY <1>3, RestFacts DEF IsPiping, t
  <1>5. \A x \in Links : After(j.todo, 0, x) <=> After(job[p].todo, 0, x)
    BY <1>1, <1>2 DEF t
  <1>6. Linked(fd_table[p], j)
    BY <1>1, <1>4, <1>5, LinkedSame
  <1>7. QED
    BY <1>1, <1>6, RestFacts DEF t

\* A shell that runs and does not wait is awake.
LEMMA RunsAwake ==
  ASSUME NEW p \in Procs, state[p] = Run, ~Waits(p)
  PROVE  Awake(p)
  BY DEF Awake, Run, Idle

\* At the prompt: a line leads to a script.
LEMMA LineKeeps ==
  ASSUME FileTableAssumption, ShellAssumption, InputAssumption, InputInv, ShellInv, NEW p \in Procs,
         readline(p)
  PROVE  ShellInv'
  <1>1. /\ AtPrompt(p) /\ state[p] = Run /\ UNCHANGED vars
        /\ \/ job' = job
           \/ job' = [job EXCEPT ![p].todo = Script(Commands(String(line)))]
    BY DEF readline, CanRun
  <1>2. JobsOK /\ FileInv
    BY DEF ShellInv
  <1>3. CASE job' = job
    <2>1. UNCHANGED <<file_table, fd_table, state, use, job>> /\ [Next]_vars
      BY <1>1, <1>3 DEF vars
    <2>2. QED
      BY <2>1, ShellStays
  <1>4. CASE job' = [job EXCEPT ![p].todo = Script(Commands(String(line)))]
    <2> DEFINE t == Script(Commands(String(line)))
               j == [job[p] EXCEPT !.todo = t]
    <2>1. String(line) \in Seq(Chars)
      BY StringFacts DEF InputAssumption, InputInv
    <2>2. Commands(String(line)) \in Seq(Cmds) /\ Len(Commands(String(line))) \in Nat \ {0}
      BY <2>1, CommandsFacts
    <2>3. /\ t \in Seq(Instr) /\ t # << >> /\ Ordered(t) /\ t[1] \notin {<<"wait">>, <<"load">>}
          /\ t[1] # <<"pipe">> => \A k \in {1, 2} : ~After(t, 0, <<"close", k>>)
      BY <2>2, ScriptFacts
    <2> HIDE DEF t
    <2>4. Head(t) = t[1] /\ t[1] \in Instr
      BY <2>3
    <2>5. Head(t)[1] # "wait"
      BY <2>3, <2>4, InstrFacts
    <2>6. job[p] \in JobType /\ job[p].what = "shell" /\ job[p].todo = << >> /\ Linked(fd_table[p], job[p])
      BY <1>1, <1>2 DEF AtPrompt, JobsOK
    <2>7. j \in JobType /\ j.todo = t /\ j.fd = job[p].fd /\ j.what = "shell"
      BY <2>3, <2>6, JobTodo
    <2>8. job' = [job EXCEPT ![p] = j]
      BY <1>4 DEF t
    <2> HIDE DEF j
    <2>9. fd_table[p] = NoneOpen
      <3>1. fd_table[p] \in [Fds \cup Std -> Int]
        BY <1>2 DEF FileInv, FileTypes, FdTables
      <3>2. QED
        BY <2>6, <3>1, LinkedDone
    <2>10. Linked(fd_table[p], j)
      <3>1. ~IsPiping(j) => \A k \in {1, 2} : ~After(j.todo, 0, <<"close", k>>)
        BY <2>3, <2>7 DEF IsPiping
      <3>2. QED
        BY <2>9, <3>1, LinkedScript
    <2>11. Awake(p)
      <3>1. ~Waits(p)
        BY <2>6 DEF Waits, Does
      <3>2. QED
        BY <1>1, <3>1, RunsAwake
    <2>12. QED
      BY <1>1, <2>3, <2>5, <2>7, <2>8, <2>10, <2>11, QuietKeeps
  <1>5. QED
    BY <1>1, <1>3, <1>4

\* Does(p, w) with another word is not to wait.
LEMMA DoesOther ==
  ASSUME NEW p \in Procs, NEW w, Does(p, w), w # "wait"
  PROVE  ~Waits(p)
  BY DEF Waits, Does

\* exec, wait and load, with nothing but the next instruction to come.
LEMMA PlainKeeps ==
  ASSUME FileTableAssumption, ShellInv, NEW p \in Procs, NEW w \in {"exec", "wait", "load"}, Does(p, w),
         Awake(p), UNCHANGED vars,
         \/ job' = [job EXCEPT ![p] = [job[p] EXCEPT !.todo = Tail(job[p].todo)]]
         \/ job' = [job EXCEPT ![p] = [job[p] EXCEPT !.todo = Tail(job[p].todo), !.child = Null]]
  PROVE  ShellInv'
  <1>0. JobsOK
    BY DEF ShellInv
  <1>1. job[p] \in JobType /\ job[p].what = "shell" /\ state[p] = Run /\ Tail(job[p].todo) \in Seq(Instr)
    BY <1>0, HeadFacts
  <1> DEFINE u == Tail(job[p].todo)
             a == [job[p] EXCEPT !.todo = u]
             b == [job[p] EXCEPT !.todo = u, !.child = Null]
  <1>2. /\ a \in JobType /\ a.todo = u /\ a.fd = job[p].fd /\ a.what = "shell"
        /\ b \in JobType /\ b.todo = u /\ b.fd = job[p].fd /\ b.what = "shell"
    <2>0. u \in Seq(Instr)
      BY <1>1
    <2> HIDE DEF u
    <2>1. a \in JobType /\ a.todo = u /\ a.fd = job[p].fd /\ a.what = "shell"
      BY <1>1, <2>0, JobTodo
    <2>2. b \in JobType /\ b.todo = u /\ b.fd = job[p].fd /\ b.what = "shell"
      BY <1>1, <2>0 DEF JobType
    <2>3. QED
      BY <2>1, <2>2
  <1>3. PICK j \in {a, b} : job' = [job EXCEPT ![p] = j]
    OBVIOUS
  <1> HIDE DEF a, b
  <1>4. j \in JobType /\ j.todo = u /\ j.fd = job[p].fd /\ j.what = "shell"
    BY <1>2
  <1>5. Linked(fd_table[p], j) /\ Ordered(j.todo) /\ (j.todo # << >> => Head(j.todo)[1] # "wait")
    BY <1>0, <1>4, PlainFacts
  <1>6. QED
    BY <1>1, <1>3, <1>4, <1>5, QuietKeeps

\* A command is carried out by the shell itself, or cannot be.
LEMMA ExecKeeps ==
  ASSUME FileTableAssumption, ShellInv, NEW p \in Procs, ExecHere(p) \/ ForkFails(p)
  PROVE  ShellInv'
  <1>0. JobsOK
    BY DEF ShellInv
  <1>1. Does(p, "exec") /\ UNCHANGED vars
        /\ \/ job' = [job EXCEPT ![p].what = "spin"]
           \/ job' = [job EXCEPT ![p].todo = Tail(@)]
    BY DEF ExecHere, ForkFails, Advance
  <1>2. job[p] \in JobType /\ state[p] = Run
    BY <1>0, <1>1, HeadFacts
  <1>3. Awake(p)
    BY <1>1, <1>2, DoesOther, RunsAwake
  <1>4. CASE job' = [job EXCEPT ![p].what = "spin"]
    <2> DEFINE j == [job[p] EXCEPT !.what = "spin"]
    <2>1. j \in JobType /\ j.what = "spin" /\ job' = [job EXCEPT ![p] = j]
      BY <1>2, <1>4 DEF JobType
    <2> HIDE DEF j
    <2>2. QED
      BY <1>1, <1>2, <1>3, <2>1, QuietKeeps
  <1>5. CASE job' = [job EXCEPT ![p].todo = Tail(@)]
    <2>1. job' = [job EXCEPT ![p] = [job[p] EXCEPT !.todo = Tail(job[p].todo)]]
      BY <1>5
    <2>2. QED
      BY <1>1, <1>3, <2>1, PlainKeeps
  <1>6. QED
    BY <1>1, <1>4, <1>5

\* The child has exited, or sys_execv returns, or it does not.
LEMMA LoadKeeps ==
  ASSUME FileTableAssumption, ShellInv, NEW p \in Procs, Wait(p) \/ Execv(p) \/ ExecvFails(p)
  PROVE  ShellInv'
  <1>0. JobsOK
    BY DEF ShellInv
  <1>1. CASE Wait(p)
    <2>1. Does(p, "wait") /\ UNCHANGED vars /\ state[p] = Run /\ state[job[p].child] = Idle
          /\ job' = [job EXCEPT ![p].todo = Tail(@), ![p].child = Null]
      BY <1>1 DEF Wait, CanRun
    <2>2. Awake(p)
      BY <2>1 DEF Awake, Run, Idle
    <2>3. job' = [job EXCEPT ![p] = [job[p] EXCEPT !.todo = Tail(job[p].todo), !.child = Null]]
      BY <1>0, <2>1 DEF JobsOK
    <2>4. QED
      BY <2>1, <2>2, <2>3, PlainKeeps
  <1>2. CASE Execv(p) \/ ExecvFails(p)
    <2>1. Does(p, "load") /\ UNCHANGED vars
      BY <1>2 DEF Execv, ExecvFails
    <2>2. state[p] = Run
      BY <1>0, <2>1, HeadFacts
    <2>3. Awake(p)
      BY <2>1, <2>2, DoesOther, RunsAwake
    <2>4. CASE Execv(p)
      <3> DEFINE j == [NoJob EXCEPT !.what = "program"]
      <3>1. j \in JobType /\ j.what = "program" /\ job' = [job EXCEPT ![p] = j]
        BY <2>4, NoJobFacts DEF Execv
      <3> HIDE DEF j
      <3>2. QED
        BY <2>1, <2>2, <2>3, <3>1, QuietKeeps
    <2>5. CASE ExecvFails(p)
      <3>1. job' = [job EXCEPT ![p] = [job[p] EXCEPT !.todo = Tail(job[p].todo)]]
        BY <2>5 DEF ExecvFails, Advance
      <3>2. QED
        BY <2>1, <2>3, <3>1, PlainKeeps
    <2>6. QED
      BY <1>2, <2>4, <2>5
  <1>3. QED
    BY <1>1, <1>2

\* The pipe.
LEMMA DoPipeKeeps ==
  ASSUME FileTableAssumption, ShellAssumption, ShellInv, NEW p \in Procs, DoPipe(p)
  PROVE  ShellInv'
  <1>0. JobsOK /\ FileInv /\ use = "pipes" /\ PipesExact
    BY DEF ShellInv
  <1>1. Does(p, "pipe")
    BY DEF DoPipe
  <1> DEFINE t == job[p].todo
             free == {fd \in Fds : fd_table[p][fd] = -1}
             a == Least(free)
             b == Least(free \ {a})
  <1>2. CASE sys_pipe_overrun(p) /\ UNCHANGED job
    <2>1. Next /\ UNCHANGED <<file_table, fd_table, state, use, job>>
      BY <1>2 DEF Next, sys_pipe_overrun
    <2>2. QED
      BY <2>1, ShellStays
  <1>3. CASE sys_pipe(p) /\ job' = [job EXCEPT ![p].todo = Tail(@), ![p].fd = <<a, b>>]
    <2>1. /\ job[p] \in JobType /\ job[p].what = "shell" /\ state[p] = Run
          /\ t # << >> /\ t[1] \in Instr /\ t[1][1] = "pipe" /\ t \in Seq(Instr)
          /\ Ordered(t) /\ Linked(fd_table[p], job[p]) /\ Tail(t) \in Seq(Instr) /\ Ordered(Tail(t))
          /\ \A x : After(t, 1, x) <=> After(Tail(t), 0, x)
      BY <1>0, <1>1, HeadFacts
    <2>2. t[1] = <<"pipe">>
      BY <2>1, InstrFacts
    <2>3. fd_table[p] = NoneOpen
      BY <2>1, <2>2 DEF Linked
    <2>4. After(Tail(t), 0, <<"close", 1>>) /\ After(Tail(t), 0, <<"close", 2>>)
      <3> HIDE DEF t
      <3>1. 1 \in 1..Len(t)
        BY <2>1, EmptySeq
      <3>2. QED
        BY <2>1, <2>2, <3>1 DEF Ordered
    <2>5. Next /\ UNCHANGED <<state, use>>
      BY <1>3 DEF Next, sys_pipe
    <2>6. /\ a \in Fds /\ b \in Fds /\ a # b /\ PipesExact'
          /\ fd_table' = [fd_table EXCEPT ![p] = fd_table'[p]]
          /\ \E g \in Slots : /\ fd_table'[p][a] = g /\ fd_table'[p][b] = g
                              /\ \A fd \in Fds : fd \notin {a, b} => fd_table'[p][fd] = -1
          /\ fd_table'[p][0] = 0 /\ fd_table'[p][1] = 1
      BY <1>0, <1>3, <2>3, PipeExact
    <2> DEFINE u == Tail(t)
               j == [job[p] EXCEPT !.todo = u, !.fd = <<a, b>>]
    <2>u. u \in Seq(Instr)
      BY <2>1
    <2> HIDE DEF a, b, u
    <2>7. <<a, b>> \in [1..2 -> Int]
      BY <2>6, FileFacts
    <2>8. job' = [job EXCEPT ![p] = j]
      BY <1>0, <1>3, <2>1 DEF JobsOK, u
    <2>9. j \in JobType /\ j.todo = u /\ j.fd = <<a, b>> /\ j.what = "shell"
      <3>1. PICK f \in [1..2 -> Int] : f = <<a, b>>
        BY <2>7
      <3>2. j = [job[p] EXCEPT !.todo = u, !.fd = f]
        BY <3>1
      <3>3. QED
        BY <2>1, <2>u, <3>1, <3>2 DEF JobType
    <2> HIDE DEF j
    <2>10. ~IsPiping(j) /\ (j.todo # << >> => Head(j.todo)[1] # "wait")
      BY <1>0, <1>1, <2>9, RestFacts DEF IsPiping, u
    <2>11. Linked(fd_table'[p], j)
      <3>1. PICK g \in Slots : /\ fd_table'[p][a] = g /\ fd_table'[p][b] = g
                               /\ \A fd \in Fds : fd \notin {a, b} => fd_table'[p][fd] = -1
        BY <2>6
      <3>2. g # -1
        BY FileFacts
      <3>3. After(j.todo, 0, <<"close", 1>>) /\ After(j.todo, 0, <<"close", 2>>)
        BY <2>4, <2>9 DEF u
      <3>4. QED
        BY <2>6, <2>9, <2>10, <3>1, <3>2, <3>3, LinkedPipe
    <2>12. \A q \in Procs : q # p => fd_table'[q] = fd_table[q]
      BY <1>0, <2>6 DEF FileInv, FileTypes, FdTables
    <2>13. Awake(p)
      BY <1>1, <2>1, DoesOther, RunsAwake
    <2>14. Ordered(j.todo)
      BY <2>1, <2>9 DEF u
    <2>15. QED
      BY <2>1, <2>5, <2>6, <2>8, <2>9, <2>10, <2>11, <2>12, <2>13, <2>14, MoveKeeps
  <1>4. QED
    BY <1>2, <1>3 DEF DoPipe

\* fd_redirect(n, new), to be undone unless it is the end of a redirection.
LEMMA RedirectMoves ==
  ASSUME FileTableAssumption, ShellAssumption, ShellInv, NEW p \in Procs, NEW w, w # "wait", Does(p, w),
         NEW n \in {0, 1}, NEW new \in {0, 1} \cup Fds, sys_fd_redirect(p, n, new), Advance(p),
         job[p].todo[1] # <<"pipe">>, \A x \in Links : x # <<"restore", n>> => job[p].todo[1] # x,
         new = n \/ After(Tail(job[p].todo), 0, <<"restore", n>>)
  PROVE  ShellInv'
  <1>0. JobsOK /\ FileInv /\ PipesExact
    BY DEF ShellInv
  <1> DEFINE t == job[p].todo
             u == Tail(t)
             v == IF new < 3 THEN new ELSE fd_table[p][new]
             j == [job[p] EXCEPT !.todo = u]
  <1>1. /\ job[p] \in JobType /\ job[p].what = "shell" /\ state[p] = Run
        /\ Linked(fd_table[p], job[p]) /\ u \in Seq(Instr) /\ Ordered(u)
        /\ \A x : After(t, 0, x) <=> t[1] = x \/ After(u, 0, x)
    BY <1>0, HeadFacts
  <1>2. Std = {0, 1} /\ Fds \cap {0, 1} = {} /\ Fds \subseteq Nat
    BY StdFacts, FileFacts
  <1>3. Next /\ UNCHANGED <<state, use, file_table>> /\ fd_table' = [fd_table EXCEPT ![p][n] = v]
    BY <1>2 DEF Next, sys_fd_redirect
  <1>4. fd_table \in FdTables /\ fd_table[p] \in [Fds \cup Std -> Int]
    BY <1>0 DEF FileInv, FileTypes, FdTables
  <1>5. v \in Int /\ (new = n => v = n)
    <2>1. new \in Int /\ new \in Fds \cup Std
      BY <1>2
    <2>2. fd_table[p][new] \in Int
      BY <1>4, <2>1
    <2>3. QED
      BY <2>1, <2>2
  <1> HIDE DEF v
  <1>6. fd_table'[p] = [fd_table[p] EXCEPT ![n] = v] /\ \A q \in Procs : q # p => fd_table'[q] = fd_table[q]
    BY <1>3, <1>4 DEF FdTables
  <1>7. PipesExact'
    <2>1. \A q \in Procs, fd \in Fds : fd_table'[q][fd] = fd_table[q][fd]
      <3>1. \A fd \in Fds : [fd_table[p] EXCEPT ![n] = v][fd] = fd_table[p][fd]
        BY <1>2, <1>4
      <3>2. QED
        BY <1>6, <3>1
    <2>2. QED
      BY <1>0, <1>3, <2>1, PipesSame
  <1>8. job' = [job EXCEPT ![p] = j]
    BY DEF Advance
  <1>u. u \in Seq(Instr)
    BY <1>1
  <1> HIDE DEF u
  <1>9. j \in JobType /\ j.todo = u /\ j.fd = job[p].fd /\ j.what = "shell"
    BY <1>1, <1>u, JobTodo
  <1> HIDE DEF j
  <1>10. ~IsPiping(j) /\ (j.todo # << >> => Head(j.todo)[1] # "wait")
    BY <1>0, <1>9, RestFacts DEF IsPiping, u
  <1>11. ~IsPiping(job[p])
    BY DEF IsPiping
  <1>12. Linked(fd_table'[p], j)
    <2>1. \A x \in Links : x # <<"restore", n>> => (After(j.todo, 0, x) <=> After(job[p].todo, 0, x))
      BY <1>1, <1>9
    <2>2. v = n \/ After(j.todo, 0, <<"restore", n>>)
      BY <1>5, <1>9 DEF u
    <2>3. Linked([fd_table[p] EXCEPT ![n] = v], j)
      BY <1>1, <1>4, <1>5, <1>9, <1>10, <1>11, <2>1, <2>2, LinkedRedirect
    <2>4. QED
      BY <1>6, <2>3
  <1>13. Awake(p)
    BY <1>1, DoesOther, RunsAwake
  <1>14. Ordered(j.todo)
    BY <1>1, <1>9 DEF u
  <1>15. QED
    BY <1>1, <1>3, <1>6, <1>7, <1>8, <1>9, <1>10, <1>12, <1>13, <1>14, MoveKeeps

LEMMA DoRedirectKeeps ==
  ASSUME FileTableAssumption, ShellAssumption, ShellInv, NEW p \in Procs, DoRedirect(p)
  PROVE  ShellInv'
  <1>0. JobsOK
    BY DEF ShellInv
  <1> DEFINE t == job[p].todo
  <1>1. CASE Does(p, "redirect") /\ sys_fd_redirect(p, Next1(p)[2], job[p].fd[Next1(p)[3]])
    <2>1. /\ Next1(p) = t[1] /\ t[1] \in Instr /\ t[1][1] = "redirect" /\ t # << >> /\ t \in Seq(Instr)
          /\ Ordered(t) /\ Linked(fd_table[p], job[p])
          /\ \A x : After(t, 0, x) <=> t[1] = x \/ After(Tail(t), 0, x)
          /\ \A x : After(t, 1, x) <=> After(Tail(t), 0, x)
      BY <1>0, <1>1, HeadFacts
    <2>2. t[1] # <<"pipe">> /\ \A x \in Links : t[1] # x
      BY <2>1, InstrWords DEF Links
    <2>3. 1 \in 1..Len(t)
      <3> HIDE DEF t
      <3>1. QED
        BY <2>1, EmptySeq
    <2>4. \/ t[1] = <<"redirect", 1, 2>> /\ t[1][2] = 1 /\ t[1][3] = 2
          \/ t[1] = <<"redirect", 0, 1>> /\ t[1][2] = 0 /\ t[1][3] = 1
      BY <2>1, InstrFacts
    <2>5. PICK n \in {0, 1}, k \in {1, 2} :
             /\ t[1][2] = n /\ t[1][3] = k /\ After(t, 1, <<"close", k>>) /\ After(t, 1, <<"restore", n>>)
      <3> HIDE DEF t
      <3>1. CASE t[1] = <<"redirect", 1, 2>> /\ t[1][2] = 1 /\ t[1][3] = 2
        BY <2>3, <2>1, <3>1 DEF Ordered
      <3>2. CASE t[1] = <<"redirect", 0, 1>> /\ t[1][2] = 0 /\ t[1][3] = 1
        BY <2>3, <2>1, <3>2 DEF Ordered
      <3>3. QED
        BY <2>4, <3>1, <3>2
    <2>6. job[p].fd[k] \in Fds
      <3>1. After(t, 0, <<"close", k>>)
        BY <2>1, <2>5
      <3>2. ~IsPiping(job[p])
        BY <2>2 DEF IsPiping
      <3>3. QED
        BY <2>1, <3>1, <3>2, LinkedIs
    <2>7. sys_fd_redirect(p, n, job[p].fd[k]) /\ Advance(p) /\ After(Tail(t), 0, <<"restore", n>>)
      BY <1>1, <2>1, <2>5 DEF DoRedirect
    <2>8. PICK new \in {0, 1} \cup Fds : new = job[p].fd[k]
      BY <2>6
    <2>9. QED
      BY <1>1, <2>2, <2>7, <2>8, RedirectMoves
  <1>2. CASE Does(p, "restore") /\ sys_fd_redirect(p, Next1(p)[2], Next1(p)[2])
    <2>1. /\ Next1(p) = t[1] /\ t[1] \in Instr /\ t[1][1] = "restore"
      BY <1>0, <1>2, HeadFacts
    <2>2. PICK n \in {0, 1} : t[1] = <<"restore", n>> /\ t[1][2] = n
      BY <2>1, InstrFacts
    <2>3. t[1] # <<"pipe">> /\ \A x \in Links : x # <<"restore", n>> => t[1] # x
      BY <2>1, <2>2, InstrWords
    <2>4. sys_fd_redirect(p, n, n) /\ Advance(p)
      BY <1>2, <2>1, <2>2 DEF DoRedirect
    <2>5. QED
      BY <1>2, <2>3, <2>4, RedirectMoves
  <1>3. QED
    BY <1>1, <1>2 DEF DoRedirect

\* An end of the pipe is closed, by the shell ...
LEMMA DoCloseKeeps ==
  ASSUME FileTableAssumption, ShellAssumption, ShellInv, NEW p \in Procs, DoClose(p)
  PROVE  ShellInv'
  <1>0. JobsOK /\ FileInv /\ PipesExact /\ use = "pipes"
    BY DEF ShellInv
  <1> DEFINE t == job[p].todo
             u == Tail(t)
  <1>1. /\ Does(p, "close") /\ sys_close(p, job[p].fd[Next1(p)[2]])
        /\ job' = [job EXCEPT ![p].todo = Tail(@), ![p].fd[Next1(p)[2]] = -1]
    BY DEF DoClose
  <1>2. /\ Next1(p) = t[1] /\ t[1] \in Instr /\ t[1][1] = "close" /\ t # << >> /\ t \in Seq(Instr)
        /\ job[p] \in JobType /\ job[p].what = "shell" /\ state[p] = Run
        /\ Ordered(t) /\ Linked(fd_table[p], job[p]) /\ u \in Seq(Instr) /\ Ordered(u)
        /\ \A x : After(t, 0, x) <=> t[1] = x \/ After(u, 0, x)
        /\ \A x : After(t, 1, x) <=> After(u, 0, x)
    BY <1>0, <1>1, HeadFacts
  <1>3. PICK k \in {1, 2} : t[1] = <<"close", k>> /\ t[1][2] = k
    BY <1>2, InstrFacts
  <1>4. sys_close(p, job[p].fd[k]) /\ job' = [job EXCEPT ![p].todo = u, ![p].fd[k] = -1]
    BY <1>1, <1>2, <1>3
  <1>5. job[p].fd \in [1..2 -> Int] /\ job \in [Procs -> JobType]
    BY <1>0, <1>2 DEF JobType, JobsOK
  <1> DEFINE e == [job[p].fd EXCEPT ![k] = -1]
             j == [job[p] EXCEPT !.todo = u, !.fd = e]
  <1>6. e \in [1..2 -> Int]
    BY <1>5
  <1>u. u \in Seq(Instr)
    BY <1>2
  <1> HIDE DEF u
  <1>7. job' = [job EXCEPT ![p] = j]
    BY <1>2, <1>4, <1>5 DEF JobType
  <1> HIDE DEF e
  <1>8. j \in JobType /\ j.todo = u /\ j.fd = e /\ j.what = "shell"
    BY <1>2, <1>6, <1>u DEF JobType
  <1> HIDE DEF j
  <1>9. ~IsPiping(j) /\ (j.todo # << >> => Head(j.todo)[1] # "wait")
    BY <1>0, <1>1, <1>8, RestFacts DEF IsPiping, u
  <1>10. t[1] # <<"pipe">> /\ ~IsPiping(job[p])
    BY <1>2, InstrWords DEF IsPiping
  <1>11. \A x \in Links : x # <<"close", k>> => (After(j.todo, 0, x) <=> After(job[p].todo, 0, x))
    BY <1>2, <1>3, <1>8
  <1>12. After(t, 0, <<"close", k>>) /\ ~After(j.todo, 0, <<"close", k>>)
    <2>1. 1 \in 1..Len(t)
      <3> HIDE DEF t
      <3>1. QED
        BY <1>2, EmptySeq
    <2>2. ~After(t, 1, <<"close", k>>)
      <3> HIDE DEF t
      <3>1. QED
        BY <1>2, <1>3, <2>1 DEF Ordered
    <2>3. QED
      BY <1>2, <1>3, <1>8, <2>2
  <1>13. fd_table \in FdTables /\ fd_table[p] \in [Fds \cup Std -> Int]
    BY <1>0 DEF FileInv, FileTypes, FdTables
  <1>14. /\ job[p].fd[k] \in Fds /\ fd_table[p][job[p].fd[k]] # -1
         /\ Linked([fd_table[p] EXCEPT ![job[p].fd[k]] = -1], j)
    <2>1. j.fd = [job[p].fd EXCEPT ![k] = -1]
      BY <1>8 DEF e
    <2>2. PICK i : i = job[p]
      OBVIOUS
    <2>3. PICK tab \in [Fds \cup Std -> Int] : tab = fd_table[p]
      BY <1>13
    <2>4. /\ i.fd \in [1..2 -> Int] /\ j.fd = [i.fd EXCEPT ![k] = -1] /\ ~IsPiping(i) /\ ~IsPiping(j)
          /\ \A x \in Links : x # <<"close", k>> => (After(j.todo, 0, x) <=> After(i.todo, 0, x))
          /\ After(i.todo, 0, <<"close", k>>) /\ ~After(j.todo, 0, <<"close", k>>) /\ Linked(tab, i)
      BY <1>2, <1>5, <1>9, <1>10, <1>11, <1>12, <2>1, <2>2, <2>3
    <2>5. i.fd[k] \in Fds /\ tab[i.fd[k]] # -1 /\ Linked([tab EXCEPT ![i.fd[k]] = -1], j)
      BY <2>4, LinkedClose
    <2>6. QED
      BY <2>2, <2>3, <2>5
  <1>15. PICK fd \in Fds : fd = job[p].fd[k] /\ fd_table[p][fd] # -1
    BY <1>14
  <1>16. Close(p, fd) /\ UNCHANGED <<state, use>> /\ Next
    BY <1>4, <1>15 DEF sys_close, Next
  <1>17. PipesExact' /\ fd_table' = [fd_table EXCEPT ![p] = [fd_table[p] EXCEPT ![fd] = -1]]
    BY <1>0, <1>15, <1>16, CloseExact
  <1>18. /\ fd_table'[p] = [fd_table[p] EXCEPT ![fd] = -1]
         /\ \A q \in Procs : q # p => fd_table'[q] = fd_table[q]
    BY <1>13, <1>17 DEF FdTables
  <1>19. Linked(fd_table'[p], j)
    BY <1>14, <1>15, <1>18
  <1>20. Awake(p)
    BY <1>1, <1>2, DoesOther, RunsAwake
  <1>21. Ordered(j.todo)
    BY <1>2, <1>8 DEF u
  <1>22. QED
    BY <1>2, <1>7, <1>8, <1>9, <1>16, <1>17, <1>18, <1>19, <1>20, <1>21, MoveKeeps

\* ... or by a program that has inherited it.
LEMMA ProgramCloseKeeps ==
  ASSUME FileTableAssumption, ShellInv, NEW p \in Procs, NEW fd \in Fds, ProgramCloses(p, fd)
  PROVE  ShellInv'
  <1>0. JobsOK /\ FileInv /\ PipesExact /\ use = "pipes"
    BY DEF ShellInv
  <1>1. /\ job[p].what = "program" /\ job' = job /\ fd_table[p][fd] # -1
        /\ Close(p, fd) /\ UNCHANGED <<state, use>> /\ Next /\ state[p] = Run
    BY DEF ProgramCloses, sys_close, Next, CanRun
  <1>2. PipesExact' /\ fd_table' = [fd_table EXCEPT ![p] = [fd_table[p] EXCEPT ![fd] = -1]]
    BY <1>0, <1>1, CloseExact
  <1>3. \A q \in Procs : q # p => fd_table'[q] = fd_table[q]
    BY <1>0, <1>2 DEF FileInv, FileTypes, FdTables
  <1>4. job[p] \in JobType /\ job' = [job EXCEPT ![p] = job[p]]
    BY <1>0, <1>1 DEF JobsOK
  <1>5. Awake(p)
    <2>1. ~Waits(p)
      BY <1>1 DEF Waits, Does
    <2>2. QED
      BY <1>1, <2>1, RunsAwake
  <1>6. QED
    BY <1>1, <1>2, <1>3, <1>4, <1>5, MoveKeeps

\* sys_exit.
LEMMA ShellExitKeeps ==
  ASSUME FileTableAssumption, ShellInv, NEW p \in Procs, NoSuchFile(p) \/ ProgramExits(p)
  PROVE  ShellInv'
  <1>0. JobsOK /\ FileInv /\ PipesExact /\ OneAwake
    BY DEF ShellInv
  <1>1. sys_exit(p) /\ job' = [job EXCEPT ![p] = NoJob] /\ (Does(p, "load") \/ job[p].what = "program")
    BY DEF NoSuchFile, ProgramExits
  <1>2. /\ state[p] = Run /\ state' = [state EXCEPT ![p] = [at |-> "exit"]] /\ Next
        /\ UNCHANGED <<file_table, fd_table, use>>
    BY <1>1 DEF sys_exit, CanRun, Next
  <1>3. state'[p] = [at |-> "exit"] /\ \A q \in Procs : q # p => state'[q] = state[q]
    BY <1>0, <1>2 DEF FileInv, FileTypes
  <1>4. state'[p] # Run /\ state'[p] # Idle
    BY <1>3 DEF Run, Idle
  <1>5. NoJob \in JobType /\ NoJob.what = "none"
    BY NoJobFacts
  <1>6. JobsOK' /\ job'[p] = NoJob /\ \A q \in Procs : q # p => job'[q] = job[q]
    BY <1>0, <1>1, <1>2, <1>3, <1>4, <1>5, JobsKept
  <1>7. ~Waits(p) /\ ~Waits(p)'
    BY <1>1, <1>5, <1>6 DEF Waits, Does
  <1>8. OneAwake'
    BY <1>0, <1>2, <1>3, <1>4, <1>6, <1>7, RunsAwake, RunnerKeeps
  <1>9. PipesExact'
    BY <1>0, <1>2, PipesSame
  <1>10. FileInv' /\ use' = "pipes"
    BY <1>2, FileInvStep DEF ShellInv
  <1>11. QED
    BY <1>6, <1>8, <1>9, <1>10 DEF ShellInv

\* The descriptors of a process that exits are closed, and then it is gone: who waits for it is
\* the one that is awake.
LEMMA ExitingKeeps ==
  ASSUME FileTableAssumption, ShellAssumption, ShellInv, NEW p \in Procs, Exiting(p)
  PROVE  ShellInv'
  <1>0. JobsOK /\ FileInv /\ PipesExact /\ OneAwake /\ use = "pipes"
    BY DEF ShellInv
  <1>1. job' = job /\ state[p].at = "exit" /\ (exit_close(p) \/ exit_done(p)) /\ Next
    BY DEF Exiting, exit_close, exit_done, Next
  <1>2. state[p] # Run /\ state[p] # Idle
    BY <1>1 DEF Run, Idle
  <1>3. job[p] \in JobType /\ job[p].what = "none"
    BY <1>0, <1>2 DEF JobsOK
  <1>4. ~Waits(p) /\ ~Waits(p)'
    BY <1>1, <1>3 DEF Waits, Does
  <1>5. Awake(p)
    BY <1>2, <1>4, DoesAwake
  <1>6. FileInv' /\ job' = [job EXCEPT ![p] = job[p]]
    BY <1>0, <1>1, FileInvStep DEF JobsOK
  <1>7. CASE exit_close(p)
    <2> DEFINE open == {x \in Fds : fd_table[p][x] # -1}
    <2>1. Least(open) # -1 /\ Close(p, Least(open)) /\ UNCHANGED <<state, use>>
      BY <1>7 DEF exit_close
    <2>2. open \in SUBSET Nat
      BY FileFacts
    <2>3. Least(open) \in open
      BY <2>1, <2>2, LeastFacts
    <2>4. PICK fd \in Fds : fd = Least(open) /\ fd_table[p][fd] # -1
      BY <2>3
    <2> HIDE DEF open
    <2>5. PipesExact' /\ fd_table' = [fd_table EXCEPT ![p] = [fd_table[p] EXCEPT ![fd] = -1]]
      BY <1>0, <2>1, <2>4, CloseExact
    <2>6. \A q \in Procs : q # p => fd_table'[q] = fd_table[q]
      BY <1>0, <2>5 DEF FileInv, FileTypes, FdTables
    <2>7. JobsOK' /\ \A q \in Procs : q # p => job'[q] = job[q]
      BY ZenonT(40), <1>0, <1>2, <1>3, <1>6, <2>1, <2>6, JobsKept
    <2>8. OneAwake'
      BY <1>0, <1>2, <1>4, <1>5, <2>1, <2>7, RunnerKeeps
    <2>9. QED
      BY <1>0, <1>6, <2>1, <2>5, <2>7, <2>8 DEF ShellInv
  <1>8. CASE exit_done(p)
    <2>1. /\ \A fd \in Fds : fd_table[p][fd] = -1
          /\ state' = [state EXCEPT ![p] = Idle]
          /\ fd_table' = [fd_table EXCEPT ![p] = NoneOpen]
          /\ UNCHANGED <<file_table, use>>
      BY <1>8 DEF exit_done
    <2>2. /\ state'[p] = Idle /\ \A q \in Procs : q # p => state'[q] = state[q]
          /\ fd_table'[p] = NoneOpen /\ \A q \in Procs : q # p => fd_table'[q] = fd_table[q]
      BY <1>0, <2>1 DEF FileInv, FileTypes, FdTables
    <2>3. PipesExact'
      <3>1. \A fd \in Fds : NoneOpen[fd] = -1
        BY StdFacts
      <3>2. \A q \in Procs, fd \in Fds : fd_table'[q][fd] = fd_table[q][fd]
        BY <2>1, <2>2, <3>1
      <3>3. QED
        BY <1>0, <2>1, <3>2, PipesSame
    <2>4. state'[p] # Run
      BY <2>2 DEF Run, Idle
    <2>5. JobsOK'
      BY <1>0, <1>3, <1>6, <2>2, <2>4, JobsKept
    <2>6. \A q \in Procs : Waits(q)' <=> Waits(q)
      BY <1>1, WaitsSame
    <2>7. ASSUME NEW a \in Procs, Awake(a)' PROVE a # p /\ Waits(a) /\ job[a].child = p
      <3>1. state'[a] # Idle /\ (Waits(a) => state'[job[a].child] = Idle)
        BY <1>1, <2>6, <2>7 DEF Awake
      <3>2. a # p /\ state[a] # Idle
        BY <2>2, <3>1
      <3>3. ~Awake(a)
        BY <1>0, <1>5, <3>2 DEF OneAwake
      <3>4. Waits(a) /\ state[job[a].child] # Idle
        BY <3>2, <3>3 DEF Awake
      <3>5. job[a].child \in Procs
        BY <1>0, <3>4 DEF OneAwake
      <3>6. QED
        BY <2>2, <3>1, <3>2, <3>4, <3>5
    <2>8. ASSUME NEW a \in Procs, NEW b \in Procs, Awake(a)', Awake(b)' PROVE a = b
      BY <1>0, <2>7, <2>8 DEF OneAwake
    <2>9. OneAwake'
      BY <1>0, <1>1, <2>6, <2>8 DEF OneAwake
    <2>10. QED
      BY <1>0, <1>6, <2>1, <2>3, <2>5, <2>9 DEF ShellInv
  <1>9. QED
    BY <1>1, <1>7, <1>8

\* cmd_execute forks: the child is awake, and the shell waits for it.
LEMMA ShellForkKeeps ==
  ASSUME FileTableAssumption, ShellAssumption, ShellInv, NEW p \in Procs, NEW c \in Procs, Fork(p, c)
  PROVE  ShellInv'
  <1>0. JobsOK /\ FileInv /\ PipesExact /\ OneAwake /\ use = "pipes"
    BY DEF ShellInv
  <1> DEFINE t == job[p].todo
             u == Tail(t)
             up == << <<"wait">> >> \o u
             uc == << <<"load">> >> \o u
             jp == [job[p] EXCEPT !.todo = up, !.child = c]
             jc == [job[p] EXCEPT !.todo = uc]
  <1>1. /\ Does(p, "exec") /\ sys_fork(p, c)
        /\ job' = [job EXCEPT ![p].todo = up, ![p].child = c, ![c] = jc]
    BY DEF Fork, ParentTodo, ChildTodo
  <1>2. /\ state[p] = Run /\ state[c] = Idle /\ state' = [state EXCEPT ![c] = Run]
        /\ fd_table' = [fd_table EXCEPT ![c] = fd_table[p]] /\ Next /\ use' = use
    BY <1>1 DEF sys_fork, CanRun, Next
  <1>3. p # c
    BY <1>2 DEF Run, Idle
  <1>4. /\ job[p] \in JobType /\ job[p].what = "shell"
        /\ t \in Seq(Instr) /\ t # << >> /\ t[1] \in Instr /\ t[1][1] = "exec"
        /\ Ordered(t) /\ Linked(fd_table[p], job[p]) /\ u \in Seq(Instr)
        /\ \A x : After(t, 0, x) <=> t[1] = x \/ After(u, 0, x)
    BY <1>0, <1>1, HeadFacts
  <1>5. /\ up \in Seq(Instr) /\ up # << >> /\ up[1] = <<"wait">> /\ Head(up) = <<"wait">> /\ Ordered(up)
        /\ \A y : y # <<"wait">> => (After(up, 0, y) <=> After(u, 0, y))
    BY <1>4, SwapOrdered
  <1>6. /\ uc \in Seq(Instr) /\ uc # << >> /\ uc[1] = <<"load">> /\ Head(uc) = <<"load">> /\ Ordered(uc)
        /\ \A y : y # <<"load">> => (After(uc, 0, y) <=> After(u, 0, y))
    BY <1>4, SwapOrdered
  <1> HIDE DEF up, uc
  <1>7. job' = [job EXCEPT ![p] = jp, ![c] = jc]
    BY <1>0, <1>1, <1>3 DEF JobsOK
  <1>8. /\ jp \in JobType /\ jp.todo = up /\ jp.fd = job[p].fd /\ jp.what = "shell" /\ jp.child = c
        /\ jc \in JobType /\ jc.todo = uc /\ jc.fd = job[p].fd /\ jc.what = "shell"
    <2> HIDE DEF t, u
    <2>1. jp \in JobType /\ jp.todo = up /\ jp.fd = job[p].fd /\ jp.what = "shell" /\ jp.child = c
      BY <1>4, <1>5 DEF JobType
    <2>2. jc \in JobType /\ jc.todo = uc /\ jc.fd = job[p].fd /\ jc.what = "shell"
      BY <1>4, <1>6 DEF JobType
    <2>3. QED
      BY <2>1, <2>2
  <1> HIDE DEF jp, jc
  <1>9. /\ job' \in [Procs -> JobType] /\ job'[p] = jp /\ job'[c] = jc
        /\ \A q \in Procs : q \notin {p, c} => job'[q] = job[q]
    BY <1>0, <1>3, <1>7, <1>8 DEF JobsOK
  <1>10. /\ state'[c] = Run /\ state'[p] = Run /\ fd_table'[c] = fd_table[p] /\ fd_table'[p] = fd_table[p]
         /\ \A q \in Procs : q # c => state'[q] = state[q] /\ fd_table'[q] = fd_table[q]
    BY <1>0, <1>2, <1>3 DEF FileInv, FileTypes, FdTables
  <1>11. Linked(fd_table[p], jp) /\ Linked(fd_table[p], jc)
    <2>1. \A x \in Links : x # <<"wait">> /\ x # <<"load">> /\ x # t[1]
      BY <1>4, InstrWords DEF Links
    <2>2. \A x \in Links : /\ After(jp.todo, 0, x) <=> After(job[p].todo, 0, x)
                           /\ After(jc.todo, 0, x) <=> After(job[p].todo, 0, x)
      BY <1>4, <1>5, <1>6, <1>8, <2>1
    <2>3. ~IsPiping(job[p]) /\ ~IsPiping(jp) /\ ~IsPiping(jc)
      BY <1>4, <1>5, <1>6, <1>8, InstrWords DEF IsPiping
    <2>4. QED
      BY <1>4, <1>8, <2>2, <2>3, LinkedSame
  <1>12. JobsOK'
    <2>1. ASSUME NEW q \in Procs
          PROVE  /\ job'[q].what # "none" <=> state'[q] = Run
                 /\ job'[q].what = "shell" => Ordered(job'[q].todo) /\ Linked(fd_table'[q], job'[q])
      <3>1. CASE q = p
        BY <1>5, <1>8, <1>9, <1>10, <1>11, <3>1
      <3>2. CASE q = c
        BY <1>6, <1>8, <1>9, <1>10, <1>11, <3>2
      <3>3. CASE q \notin {p, c}
        BY <1>0, <1>9, <1>10, <3>3 DEF JobsOK
      <3>4. QED
        BY <3>1, <3>2, <3>3
    <2>2. JobsOK' <=> /\ job' \in [Procs -> JobType]
                      /\ \A q \in Procs : job'[q].what # "none" <=> state'[q] = Run
                      /\ \A q \in Procs : job'[q].what = "shell" =>
                           Ordered(job'[q].todo) /\ Linked(fd_table'[q], job'[q])
      BY DEF JobsOK
    <2>3. QED
      BY <1>9, <2>1, <2>2
  <1>13. Awake(p)
    BY <1>1, <1>2, DoesOther, RunsAwake
  <1>14. ~Waits(c) /\ ~Waits(c)' /\ Waits(p)'
    <2>1. ~Waits(c)
      BY <1>0, <1>2, WaitsRuns
    <2>2. ~Waits(c)'
      BY <1>6, <1>8, <1>9, InstrWords DEF Waits, Does, Next1
    <2>3. Waits(p)'
      BY <1>5, <1>8, <1>9, InstrWords DEF Waits, Does, Next1
    <2>4. QED
      BY <2>1, <2>2, <2>3
  <1>15. ASSUME NEW q \in Procs, Waits(q)', q # p
         PROVE  q # c /\ Waits(q) /\ job'[q] = job[q] /\ job[q].child \in Procs \ {q} /\ job[q].child # c
    <2>1. q # c /\ job'[q] = job[q] /\ Waits(q)
      BY <1>9, <1>14, <1>15, WaitsSame
    <2>2. job[q].child \in Procs \ {q}
      BY <1>0, <2>1 DEF OneAwake
    <2>3. ASSUME job[q].child = c PROVE FALSE
      <3>1. Awake(q)
        BY <1>0, <1>2, <2>1, <2>3, WaitsRuns DEF Awake
      <3>2. QED
        BY <1>0, <1>13, <1>15, <3>1 DEF OneAwake
    <2>4. QED
      BY <2>1, <2>2, <2>3
  <1>16. \A q \in Procs : Waits(q)' => job'[q].child \in Procs \ {q}
    BY <1>3, <1>8, <1>9, <1>15
  <1>17. \A a, b \in Procs : Waits(a)' /\ Waits(b)' /\ job'[a].child = job'[b].child => a = b
    <2>1. ASSUME NEW a \in Procs, NEW b \in Procs, Waits(a)', Waits(b)', job'[a].child = job'[b].child
          PROVE  a = b
      <3>1. CASE a = p
        BY <1>8, <1>9, <1>15, <2>1, <3>1
      <3>2. CASE b = p
        BY <1>8, <1>9, <1>15, <2>1, <3>2
      <3>3. CASE a # p /\ b # p
        BY <1>0, <1>15, <2>1, <3>3 DEF OneAwake
      <3>4. QED
        BY <3>1, <3>2, <3>3
    <2>2. QED
      BY <2>1
  <1>18. ASSUME NEW a \in Procs, Awake(a)' PROVE a = c
    <2>1. state'[a] # Idle /\ (Waits(a)' => state'[job'[a].child] = Idle)
      BY <1>18 DEF Awake
    <2>2. Run # Idle
      BY DEF Run, Idle
    <2>3. a # p
      BY <1>8, <1>9, <1>10, <1>14, <2>1, <2>2
    <2>4. SUFFICES ASSUME a # c PROVE FALSE
      OBVIOUS
    <2>5. job'[a] = job[a] /\ state[a] # Idle /\ (Waits(a)' <=> Waits(a))
      BY <1>9, <1>10, <2>1, <2>3, <2>4, WaitsSame
    <2>6. ~Awake(a)
      BY <1>0, <1>13, <2>3 DEF OneAwake
    <2>7. Waits(a) /\ state[job[a].child] # Idle
      BY <2>5, <2>6 DEF Awake
    <2>8. job[a].child \in Procs /\ job[a].child # c
      BY <1>15, <2>3, <2>5, <2>7
    <2>9. QED
      BY <1>10, <2>1, <2>5, <2>7, <2>8
  <1>19. OneAwake'
    BY <1>16, <1>17, <1>18 DEF OneAwake
  <1>20. PipesExact'
    BY <1>0, <1>1, ForkExact
  <1>21. FileInv'
    BY <1>0, <1>2, FileInvStep
  <1>22. QED
    BY <1>0, <1>2, <1>12, <1>19, <1>20, <1>21 DEF ShellInv

-----------------------------------------------------------------------------
(* The prompt.                                                             *)

LEMMA ShellInitial ==
  ASSUME FileTableAssumption, ShellAssumption, ShellInit
  PROVE  ShellInv
  <1>1. /\ Init /\ job = [p \in Procs |-> IF p = First THEN [NoJob EXCEPT !.what = "shell"] ELSE NoJob]
    BY DEF ShellInit
  <1>2. FileInv
    BY <1>1, FileInitial
  <1>3. /\ use = "pipes" /\ state = [p \in Procs |-> IF p = First THEN Run ELSE Idle]
        /\ fd_table = [p \in Procs |-> NoneOpen]
        /\ \A g \in Slots : file_table[g].inode = Null
    BY <1>1 DEF Init, ShellAssumption
  <1> DEFINE s == [NoJob EXCEPT !.what = "shell"]
  <1>4. NoJob \in JobType /\ NoJob.what = "none" /\ s \in JobType /\ s.what = "shell" /\ s.todo = << >>
    <2>1. << -1, -1>> \in [1..2 -> Int] /\ << >> \in Seq(Instr)
      OBVIOUS
    <2>2. QED
      BY <2>1 DEF NoJob, JobType
  <1> HIDE DEF s
  <1>5. Run # Idle
    BY DEF Run, Idle
  <1>6. JobsOK
    <2>1. job \in [Procs -> JobType]
      BY <1>1, <1>4 DEF s
    <2>2. \A p \in Procs : job[p].what # "none" <=> state[p] = Run
      BY <1>1, <1>3, <1>4, <1>5 DEF s
    <2>3. ASSUME NEW p \in Procs, job[p].what = "shell"
          PROVE  Ordered(job[p].todo) /\ Linked(fd_table[p], job[p])
      <3>1. job[p].todo = << >> /\ fd_table[p] = NoneOpen
        BY <1>1, <1>3, <1>4, <2>3 DEF s
      <3>2. ~IsPiping(job[p]) /\ \A k \in {1, 2} : ~After(job[p].todo, 0, <<"close", k>>)
        BY <3>1 DEF IsPiping, After
      <3>3. Ordered(job[p].todo)
        BY <3>1 DEF Ordered
      <3>4. QED
        BY <3>1, <3>2, <3>3, LinkedScript
    <2>4. QED
      BY <2>1, <2>2, <2>3 DEF JobsOK
  <1>7. OneAwake
    <2>1. \A p \in Procs : ~Waits(p)
      BY <1>1, <1>4 DEF Waits, Does, s
    <2>2. \A p \in Procs : Awake(p) => p = First
      BY <1>3 DEF Awake
    <2>3. QED
      BY <2>1, <2>2 DEF OneAwake
  <1>8. PipesExact
    BY <1>3, FileFacts DEF PipesExact
  <1>9. QED
    BY <1>2, <1>3, <1>6, <1>7, <1>8 DEF ShellInv

LEMMA ShellInvStep ==
  ASSUME FileTableAssumption, ShellAssumption, InputAssumption, InputInv, ShellInv, [ShellNext]_shellVars
  PROVE  ShellInv'
  <1>1. ASSUME UNCHANGED <<vars, job>> PROVE ShellInv'
    <2>1. [Next]_vars /\ UNCHANGED <<file_table, fd_table, state, use, job>>
      BY <1>1 DEF vars
    <2>2. QED
      BY <2>1, ShellStays
  <1>2. CASE User \/ UNCHANGED shellVars
    BY <1>1, <1>2 DEF User, shellVars
  <1>3. ASSUME NEW p \in Procs, Step(p) PROVE ShellInv'
    BY <1>3, LineKeeps, DoPipeKeeps, DoRedirectKeeps, DoCloseKeeps, ExecKeeps, LoadKeeps, ShellForkKeeps,
       ShellExitKeeps, ExitingKeeps DEF Step
  <1>4. ASSUME NEW p \in Procs, NEW fd \in Fds, ProgramCloses(p, fd) PROVE ShellInv'
    BY <1>4, ProgramCloseKeeps
  <1>5. QED
    BY <1>2, <1>3, <1>4 DEF ShellNext

\* The shell at the prompt is the one that is awake; whoever else holds a pipe waits.
LEMMA ShellInvClean ==
  ASSUME FileTableAssumption, ShellAssumption, ShellInv
  PROVE  PromptClean
  <1>0. JobsOK /\ FileInv /\ PipesExact /\ OneAwake /\ use = "pipes"
    BY DEF ShellInv
  <1>1. SUFFICES ASSUME NEW p \in Procs, AtPrompt(p)
                 PROVE  /\ fd_table[p] = NoneOpen
                        /\ \A g \in Slots : file_table[g].inode = Page =>
                             /\ \E q \in Procs : Refs(q, g) > 0 /\ Does(q, "wait")
                             /\ file_table[g].pos =
                                  Cardinality({x \in Procs \X Fds : fd_table[x[1]][x[2]] = g})
    BY DEF PromptClean
  <1>2. /\ job[p].todo = << >> /\ job[p].what = "shell" /\ state[p] = Run /\ Linked(fd_table[p], job[p])
        /\ ~Waits(p)
    BY <1>0, <1>1 DEF AtPrompt, JobsOK, Waits, Does
  <1>3. fd_table[p] = NoneOpen
    <2>1. fd_table[p] \in [Fds \cup Std -> Int]
      BY <1>0 DEF FileInv, FileTypes, FdTables
    <2>2. QED
      BY <1>2, <2>1, LinkedDone
  <1>4. Awake(p)
    BY <1>2, RunsAwake
  <1>5. ASSUME NEW g \in Slots, file_table[g].inode = Page
        PROVE  /\ \E q \in Procs : Refs(q, g) > 0 /\ Does(q, "wait")
               /\ file_table[g].pos = Cardinality({x \in Procs \X Fds : fd_table[x[1]][x[2]] = g})
    <2>1. file_table[g].pos > 0 /\ file_table[g].pos = Cardinality(Holders(fd_table, g))
      BY <1>0, <1>5 DEF PipesExact
    <2>2. Holders(fd_table, g) # {}
      <3>1. Cardinality({}) = 0
        BY FS_EmptySet
      <3>2. QED
        BY <2>1, <3>1
    <2>3. PICK q \in Procs, fd \in Fds : fd_table[q][fd] = g
      BY <2>2, HoldersFacts
    <2>4. g # -1
      BY FileFacts
    <2>5. q # p
      <3>1. NoneOpen[fd] = -1
        BY StdFacts
      <3>2. QED
        BY <1>3, <2>3, <2>4, <3>1
    <2>6. state[q] # Idle
      BY <1>0, <2>3, <2>4 DEF FileInv, PipesOnly
    <2>7. ~Awake(q)
      BY <1>0, <1>4, <2>5 DEF OneAwake
    <2>8. Does(q, "wait")
      BY <2>6, <2>7 DEF Awake, Waits
    <2>9. Refs(q, g) > 0
      <3> DEFINE D == {x \in Fds : fd_table[q][x] = g}
      <3>1. IsFiniteSet(D) /\ D # {}
        BY <2>3, FileFacts, FS_Subset
      <3> HIDE DEF D
      <3>2. Cardinality(D) \in Nat /\ Cardinality(D) # 0
        BY <3>1, FS_CardinalityType, FS_EmptySet
      <3>3. QED
        BY <3>2 DEF Refs, D
    <2>10. QED
      BY <2>1, <2>8, <2>9 DEF Holders
  <1>6. QED
    BY <1>3, <1>5

\* A shell at the prompt has the keyboard, the console and nothing else open, and every pipe
\* that is left belongs to a shell that waits and counts exactly its descriptors
\* (shell.c:155-180, fs.c:390-395, fork.c:95, wait_exit.c:48-61).
THEOREM PromptIsClean == ShellSpec => []PromptClean
  <1>1. ShellInit => InputInv /\ ShellInv
    BY InputAssumption, FileTableAssumption, ShellAssumption, InputInitOK, ShellInitial DEF ShellInit
  <1>2. InputInv /\ ShellInv /\ [ShellNext]_shellVars => InputInv' /\ ShellInv'
    BY InputAssumption, FileTableAssumption, ShellAssumption, InputStep, ShellInvStep
  <1>3. InputInv /\ ShellInv => PromptClean
    BY FileTableAssumption, ShellAssumption, ShellInvClean
  <1>4. QED
    BY <1>1, <1>2, <1>3, PTL DEF ShellSpec
=============================================================================
