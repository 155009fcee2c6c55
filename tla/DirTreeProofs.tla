--------------------------- MODULE DirTreeProofs ---------------------------
(***************************************************************************)
(* An open file is not removed: OpenFileKept of DirTree holds for every    *)
(* number of names, inodes, blocks and slots.                              *)
(***************************************************************************)
EXTENDS DirTree, Integers, FiniteSetTheorems, NaturalsInduction, WellFoundedInduction, TLAPS

Secs   == [0..Direct -> 0..NBlocks]
Words  == Names \cup {"", ".", ".."}
Types  == {"unknown", "file", "dir"}
DirEntries == [name : Words, ino : Inodes, type : Types]
FsSet ==
  [ibits : SUBSET Inodes, bbits : SUBSET Blocks,
   itab : [Inodes -> [size : Int, sec : Secs]],
   dirb : [Blocks -> [1..PerBlock -> DirEntries]],
   tabb : [Blocks -> [1..Indirect -> 0..NBlocks]],
   mem : [Inodes -> [cnt : Nat, deny : BOOLEAN, size : Int, sec : Secs]],
   leaked : SUBSET Blocks, bad : {"no", "full", "assert"}]

TreeTypes ==
  /\ fs \in FsSet /\ fs.bad = "no"
  /\ slots \in [1..NSlots -> [ino : Inodes \cup {Free}, write : BOOLEAN]]
  /\ handle \in Inodes \cup {Free} /\ stale \in BOOLEAN
  /\ panic \in {"no", "full", "assert"}

\* An entry that names a file or a directory below.
Real(e) == e # NoEntry /\ ~IsDot(e)

\* Who has inode n open for longer than a call.
SlotsOf(n) == {i \in 1..NSlots : slots[i].ino = n}
Holds(n) == IF handle = n THEN 1 ELSE 0
\* Each is counted.
HeldOpen == \A n \in Inodes : Cardinality(SlotsOf(n)) + Holds(n) <= fs.mem[n].cnt

SlotsUsed == panic = "no" => \A s \in 1..NSlots : slots[s].ino # Free => slots[s].ino \in fs.ibits

\* The root and the inodes with an entry are in use.
EntriesIn(f) ==
  /\ 0 \in f.ibits
  /\ \A b \in Blocks, i \in 1..PerBlock :
       Real(f.dirb[b][i]) => f.dirb[b][i].ino \in f.ibits \ {0}

\* No two entries name the same inode.
EntriesDiffer(f) ==
  \A b, c \in Blocks, i, j \in 1..PerBlock :
    Real(f.dirb[b][i]) /\ Real(f.dirb[c][j]) /\ f.dirb[b][i].ino = f.dirb[c][j].ino
      => b = c /\ i = j

\* An open file's entry says that it is a file.
FilesAreFiles(f, table) ==
  \A b \in Blocks, i \in 1..PerBlock, s \in 1..NSlots :
    Real(f.dirb[b][i]) /\ table[s].ino = f.dirb[b][i].ino => f.dirb[b][i].type = "file"

EntriesUsed ==
  OK => /\ handle \in fs.ibits \cup {Free}
        /\ EntriesIn(fs) /\ EntriesDiffer(fs) /\ FilesAreFiles(fs, slots)

KeptInv == TreeTypes /\ HeldOpen /\ SlotsUsed /\ EntriesUsed

-----------------------------------------------------------------------------
(* Numbers and types.                                                      *)

\* A set of numbers that is not empty has a least element.
LEMMA LeastNat ==
  ASSUME NEW S \in SUBSET Nat, S # {}
  PROVE  Min(S) \in S
  <1>1. PICK n \in S : \A m \in S : ~(<<m, n>> \in OpToRel(<, Nat))
    BY NatLessThanWellFounded, WFMin
  <1>2. \A m \in S : ~(m < n)
    BY <1>1 DEF OpToRel
  <1>3. \A m \in S : n <= m
    BY <1>2
  <1>4. QED
    BY <1>3 DEF Min

LEMMA Sizes ==
  /\ NInodes \in Nat \ {0} /\ NBlocks \in Nat \ {0} /\ Direct \in Nat \ {0}
  /\ Indirect \in Nat \ {0} /\ ByteValues \in Nat \ {0} /\ NSlots \in Nat \ {0}
  /\ PerBlock \in Nat /\ PerBlock >= 2
  /\ Total \in Nat /\ Total = Direct + Indirect
  /\ Inodes \subseteq Nat /\ 0 \in Inodes /\ Blocks \subseteq Nat /\ 1 \in Blocks
  /\ Free \notin Inodes /\ 0 \notin Blocks /\ 0..NBlocks = Blocks \cup {0}
  BY DirTreeAssumption DEF Total, Inodes, Blocks, Free

LEMMA Empties ==
  /\ NoEntry \in DirEntries /\ EmptyBlock \in [1..PerBlock -> DirEntries]
  /\ EmptyTable \in [1..Indirect -> 0..NBlocks] /\ NoBlocks \in Secs
  /\ \A i \in 1..PerBlock : EmptyBlock[i] = NoEntry
  BY Sizes DEF NoEntry, DirEntries, Words, Types, EmptyBlock, EmptyTable, NoBlocks, Secs

\* The fields of a file system.
LEMMA FsFields ==
  ASSUME NEW f \in FsSet
  PROVE  /\ f.ibits \in SUBSET Inodes /\ f.bbits \in SUBSET Blocks /\ f.leaked \in SUBSET Blocks
         /\ f.itab \in [Inodes -> [size : Int, sec : Secs]]
         /\ f.dirb \in [Blocks -> [1..PerBlock -> DirEntries]]
         /\ f.tabb \in [Blocks -> [1..Indirect -> 0..NBlocks]]
         /\ f.mem \in [Inodes -> [cnt : Nat, deny : BOOLEAN, size : Int, sec : Secs]]
         /\ f.bad \in {"no", "full", "assert"}
  BY DEF FsSet

LEMMA DotsFacts ==
  ASSUME NEW self \in Inodes, NEW parent \in Inodes
  PROVE  /\ Dots(self, parent) \in [1..PerBlock -> DirEntries]
         /\ \A i \in 1..PerBlock : ~Real(Dots(self, parent)[i])
  <1> DEFINE d == [name |-> ".", ino |-> self, type |-> "dir"]
             e == [name |-> "..", ino |-> parent, type |-> "dir"]
  <1>1. d \in DirEntries /\ e \in DirEntries /\ ~Real(d) /\ ~Real(e) /\ ~Real(NoEntry)
    BY DEF DirEntries, Words, Types, Real, IsDot
  <1>2. Dots(self, parent) = [i \in 1..PerBlock |-> IF i = 2 THEN e ELSE IF i = 1 THEN d ELSE NoEntry]
    BY Sizes DEF Dots, EmptyBlock
  <1> HIDE DEF d, e
  <1>3. QED
    BY <1>1, <1>2, Empties

LEMMA InitFs == Init => fs \in FsSet
  <1> SUFFICES ASSUME Init PROVE fs \in FsSet
    OBVIOUS
  <1>1. Root \in [size : Int, sec : Secs] /\ ZeroInode \in [size : Int, sec : Secs]
    BY Empties, Sizes DEF Root, ZeroInode, Secs, NoBlocks, Blocks
  <1>2. /\ Opened(Root) \in [cnt : Nat, deny : BOOLEAN, size : Int, sec : Secs]
        /\ NoMem \in [cnt : Nat, deny : BOOLEAN, size : Int, sec : Secs]
    BY <1>1, Empties DEF Opened, NoMem
  <1>3. Dots(0, 0) \in [1..PerBlock -> DirEntries]
    BY DotsFacts, Sizes
  <1>4. QED
    BY <1>1, <1>2, <1>3, Empties, Sizes DEF Init, FsSet

-----------------------------------------------------------------------------
(* The operations of inode.c, and the bitmaps.                             *)

MemInodes == [cnt : Nat, deny : BOOLEAN, size : Int, sec : Secs]

\* All but the inodes.
SameDirs(g, f) ==
  /\ g.ibits = f.ibits /\ g.bbits = f.bbits /\ g.dirb = f.dirb /\ g.tabb = f.tabb
  /\ g.leaked = f.leaked /\ g.bad = f.bad

LEMMA SetMem ==
  ASSUME NEW f \in FsSet, NEW no \in Inodes, NEW m \in MemInodes
  PROVE  /\ [f EXCEPT !.mem[no] = m] \in FsSet
         /\ SameDirs([f EXCEPT !.mem[no] = m], f)
         /\ [f EXCEPT !.mem[no] = m].itab = f.itab
         /\ \A n \in Inodes : [f EXCEPT !.mem[no] = m].mem[n] = IF n = no THEN m ELSE f.mem[n]
  BY DEF FsSet, SameDirs, MemInodes

LEMMA OpenFacts ==
  ASSUME NEW f \in FsSet, NEW no \in Inodes
  PROVE  LET g == inode_open(f, no)
         IN /\ g \in FsSet /\ SameDirs(g, f) /\ g.itab = f.itab
            /\ \A n \in Inodes : n # no => g.mem[n] = f.mem[n]
            /\ g.mem[no].cnt = f.mem[no].cnt + 1 /\ g.mem[no].sec = Sec(f, no)
  <1>1. f.mem[no] \in MemInodes /\ f.itab[no] \in [size : Int, sec : Secs]
    BY FsFields DEF MemInodes
  <1>2. CASE IsOpen(f, no)
    <2> DEFINE m == [f.mem[no] EXCEPT !.cnt = f.mem[no].cnt + 1]
    <2>1. m \in MemInodes /\ m.cnt = f.mem[no].cnt + 1 /\ m.sec = f.mem[no].sec
      BY <1>1 DEF MemInodes
    <2>2. inode_open(f, no) = [f EXCEPT !.mem[no] = m]
      BY <1>2 DEF inode_open
    <2> HIDE DEF m
    <2>3. QED
      BY <1>2, <2>1, <2>2, SetMem DEF Sec
  <1>3. CASE ~IsOpen(f, no)
    <2> DEFINE m == Opened(f.itab[no])
    <2>1. m \in MemInodes /\ m.cnt = 1 /\ m.sec = f.itab[no].sec
      BY <1>1 DEF MemInodes, Opened
    <2>2. inode_open(f, no) = [f EXCEPT !.mem[no] = m]
      BY <1>3 DEF inode_open
    <2>3. f.mem[no].cnt = 0
      BY <1>1, <1>3 DEF IsOpen, MemInodes
    <2> HIDE DEF m
    <2>4. QED
      BY <1>3, <2>1, <2>2, <2>3, SetMem DEF Sec
  <1>4. QED
    BY <1>2, <1>3

LEMMA CloseFacts ==
  ASSUME NEW f \in FsSet, NEW no \in Inodes
  PROVE  LET g == inode_close(f, no)
         IN /\ g \in FsSet /\ SameDirs(g, f) /\ g.itab = f.itab
            /\ \A n \in Inodes : n # no => g.mem[n] = f.mem[n]
            /\ f.mem[no].cnt > 0 => g.mem[no].cnt = f.mem[no].cnt - 1
  <1>1. f.mem[no] \in MemInodes
    BY FsFields DEF MemInodes
  <1>2. CASE f.mem[no].cnt > 1
    <2> DEFINE m == [f.mem[no] EXCEPT !.cnt = f.mem[no].cnt - 1]
    <2>1. m \in MemInodes /\ m.cnt = f.mem[no].cnt - 1
      BY <1>1, <1>2 DEF MemInodes
    <2>2. inode_close(f, no) = [f EXCEPT !.mem[no] = m]
      BY <1>2 DEF inode_close
    <2> HIDE DEF m
    <2>3. QED
      BY <1>2, <2>1, <2>2, SetMem
  <1>3. CASE ~(f.mem[no].cnt > 1)
    <2>1. NoMem \in MemInodes /\ NoMem.cnt = 0
      BY Empties DEF MemInodes, NoMem
    <2>2. inode_close(f, no) = [f EXCEPT !.mem[no] = NoMem]
      BY <1>3 DEF inode_close
    <2>3. f.mem[no].cnt > 0 => f.mem[no].cnt = 1
      BY <1>1, <1>3 DEF MemInodes
    <2>4. QED
      BY <2>1, <2>2, <2>3, SetMem
  <1>4. QED
    BY <1>2, <1>3

LEMMA SyncedFacts ==
  ASSUME NEW f \in FsSet, NEW no \in Inodes, NEW size \in Int, NEW sec \in Secs
  PROVE  /\ Synced(f, no, size, sec) \in FsSet /\ SameDirs(Synced(f, no, size, sec), f)
         /\ Synced(f, no, size, sec).mem = f.mem
  BY DEF FsSet, SameDirs, Synced

LEMMA SyncFacts ==
  ASSUME NEW f \in FsSet, NEW no \in Inodes
  PROVE  /\ inode_sync(f, no) \in FsSet /\ SameDirs(inode_sync(f, no), f)
         /\ inode_sync(f, no).mem = f.mem
  <1>1. f.mem[no].size \in Int /\ f.mem[no].sec \in Secs
    BY FsFields
  <1>2. QED
    BY <1>1, SyncedFacts DEF inode_sync

Failed(g, f) ==
  /\ g \in FsSet /\ g.bad # "no" /\ g.ibits = f.ibits /\ g.bbits = f.bbits
  /\ g.dirb = f.dirb /\ g.mem = f.mem /\ g.tabb = f.tabb

LEMMA FailFacts ==
  ASSUME NEW f \in FsSet
  PROVE  Failed(Fail(f, "full"), f) /\ Failed(Fail(f, "assert"), f)
  BY DEF FsSet, Fail, Failed

LEMMA SetBbits ==
  ASSUME NEW f \in FsSet, NEW bb \in SUBSET Blocks
  PROVE  LET g == [f EXCEPT !.bbits = bb]
         IN /\ g \in FsSet /\ g.bbits = bb /\ g.ibits = f.ibits /\ g.dirb = f.dirb
            /\ g.mem = f.mem /\ g.tabb = f.tabb /\ g.bad = f.bad
            /\ g.itab = f.itab /\ g.leaked = f.leaked
  BY DEF FsSet

LEMMA SetIbits ==
  ASSUME NEW f \in FsSet, NEW ib \in SUBSET Inodes
  PROVE  LET g == [f EXCEPT !.ibits = ib]
         IN /\ g \in FsSet /\ g.ibits = ib /\ g.bbits = f.bbits /\ g.dirb = f.dirb
            /\ g.mem = f.mem /\ g.tabb = f.tabb /\ g.bad = f.bad
            /\ g.itab = f.itab /\ g.leaked = f.leaked
  BY DEF FsSet

LEMMA SetItab ==
  ASSUME NEW f \in FsSet, NEW no \in Inodes, NEW x \in [size : Int, sec : Secs]
  PROVE  LET g == [f EXCEPT !.itab[no] = x]
         IN g \in FsSet /\ SameDirs(g, f) /\ g.mem = f.mem
  BY DEF FsSet, SameDirs

LEMMA SetDirb ==
  ASSUME NEW f \in FsSet, NEW b \in Blocks, NEW x \in [1..PerBlock -> DirEntries]
  PROVE  LET g == [f EXCEPT !.dirb[b] = x]
         IN /\ g \in FsSet /\ g.ibits = f.ibits /\ g.bbits = f.bbits /\ g.mem = f.mem
            /\ g.tabb = f.tabb /\ g.bad = f.bad /\ g.itab = f.itab /\ g.leaked = f.leaked
            /\ g.dirb = [f.dirb EXCEPT ![b] = x]
            /\ \A c \in Blocks : g.dirb[c] = IF c = b THEN x ELSE f.dirb[c]
  BY DEF FsSet

LEMMA SetTabb ==
  ASSUME NEW f \in FsSet, NEW t \in [Blocks -> [1..Indirect -> 0..NBlocks]]
  PROVE  LET g == [f EXCEPT !.tabb = t]
         IN /\ g \in FsSet /\ g.ibits = f.ibits /\ g.bbits = f.bbits /\ g.mem = f.mem
            /\ g.tabb = t /\ g.bad = f.bad /\ g.itab = f.itab /\ g.leaked = f.leaked
            /\ g.dirb = f.dirb
  BY DEF FsSet

LEMMA SetLeaked ==
  ASSUME NEW f \in FsSet, NEW l \in SUBSET Blocks
  PROVE  LET g == [f EXCEPT !.leaked = l]
         IN /\ g \in FsSet /\ g.ibits = f.ibits /\ g.bbits = f.bbits /\ g.mem = f.mem
            /\ g.tabb = f.tabb /\ g.bad = f.bad /\ g.itab = f.itab /\ g.leaked = l
            /\ g.dirb = f.dirb
  BY DEF FsSet

\* A block from the bitmap.
LEMMA BlockFacts ==
  ASSUME NEW f \in FsSet
  PROVE  LET g == block_bitmap_alloc(f)
         IN /\ g \in FsSet /\ g.ibits = f.ibits /\ g.dirb = f.dirb /\ g.mem = f.mem
            /\ g.tabb = f.tabb
            /\ g.bad = "no" => f.bad = "no" /\ NextBlock(f) \in Blocks
  <1>1. CASE f.bad # "no" \/ Blocks \subseteq f.bbits
    <2>1. block_bitmap_alloc(f) = Fail(f, "full")
      BY <1>1 DEF block_bitmap_alloc
    <2>2. QED
      BY <2>1, FailFacts DEF Failed
  <1>2. CASE f.bad = "no" /\ ~(Blocks \subseteq f.bbits)
    <2>1. NextBlock(f) \in Blocks
      BY <1>2, Sizes, LeastNat DEF NextBlock
    <2>2. block_bitmap_alloc(f) = [f EXCEPT !.bbits = f.bbits \cup {NextBlock(f)}]
      BY <1>2 DEF block_bitmap_alloc
    <2>3. f.bbits \cup {NextBlock(f)} \in SUBSET Blocks
      BY <2>1, FsFields
    <2>4. QED
      BY <1>2, <2>1, <2>2, <2>3, SetBbits
  <1>3. QED
    BY <1>1, <1>2

\* An inode from the bitmap.
LEMMA InodeFacts ==
  ASSUME NEW f \in FsSet, f.bad = "no"
  PROVE  LET g == inode_bitmap_alloc(f)
         IN /\ g \in FsSet /\ g.dirb = f.dirb /\ g.mem = f.mem /\ g.bbits = f.bbits
            /\ g.bad = "no" => /\ NextInode(f) \in Inodes \ f.ibits
                               /\ g.ibits = f.ibits \cup {NextInode(f)}
  <1>1. CASE Inodes \subseteq f.ibits
    <2>1. inode_bitmap_alloc(f) = Fail(f, "full")
      BY <1>1 DEF inode_bitmap_alloc
    <2>2. QED
      BY <2>1, FailFacts DEF Failed
  <1>2. CASE ~(Inodes \subseteq f.ibits)
    <2>1. NextInode(f) \in Inodes \ f.ibits
      BY <1>2, Sizes, LeastNat DEF NextInode
    <2>2. inode_bitmap_alloc(f) = [f EXCEPT !.ibits = f.ibits \cup {NextInode(f)}]
      BY <1>2 DEF inode_bitmap_alloc
    <2>3. f.ibits \cup {NextInode(f)} \in SUBSET Inodes
      BY <2>1, FsFields
    <2>4. QED
      BY <2>1, <2>2, <2>3, SetIbits
  <1>3. QED
    BY <1>1, <1>2

\* The blocks of an inode.
LEMMA AllFacts ==
  ASSUME NEW f \in FsSet, NEW sec \in Secs
  PROVE  /\ all_blocks(f, sec) \in [0..(Total - 1) -> 0..NBlocks]
         /\ DOMAIN all_blocks(f, sec) = 0..(Total - 1)
  <1>1. f.tabb \in [Blocks -> [1..Indirect -> 0..NBlocks]]
    BY FsFields
  <1>2. ASSUME NEW k \in 0..(Total - 1)
        PROVE  (IF k < Direct THEN sec[k] ELSE IF sec[Direct] = 0 THEN 0
                ELSE f.tabb[sec[Direct]][k - Direct + 1]) \in 0..NBlocks
    <2>1. sec[Direct] \in 0..NBlocks /\ (k < Direct => sec[k] \in 0..NBlocks)
      BY <1>2, Sizes DEF Secs
    <2>2. sec[Direct] # 0 => sec[Direct] \in Blocks
      BY <2>1, Sizes
    <2>3. ~(k < Direct) => k - Direct + 1 \in 1..Indirect
      BY <1>2, Sizes
    <2>4. QED
      BY <1>1, <2>1, <2>2, <2>3, Sizes
  <1>3. QED
    BY <1>2 DEF all_blocks

\* The inode goes, its blocks are free, and who had it open still has.
LEMMA ReleaseFacts ==
  ASSUME NEW f \in FsSet, NEW no \in Inodes
  PROVE  LET g == inode_release(f, no)
         IN /\ g \in FsSet /\ g.ibits = f.ibits \ {no} /\ g.bbits \subseteq f.bbits
            /\ g.dirb = f.dirb /\ g.bad = f.bad
            /\ \A n \in Inodes : g.mem[n].cnt = f.mem[n].cnt
  <1> DEFINE f1 == inode_open(f, no)
             f2 == [f1 EXCEPT !.bbits = f1.bbits \ Released(f1, f1.mem[no].sec)]
             f3 == [f2 EXCEPT !.ibits = f2.ibits \ {no}]
             f4 == [f3 EXCEPT !.itab[no] = ZeroInode]
  <1>1. /\ f1 \in FsSet /\ SameDirs(f1, f) /\ f1.mem[no].cnt = f.mem[no].cnt + 1
        /\ \A n \in Inodes : n # no => f1.mem[n] = f.mem[n]
    BY OpenFacts
  <1>2. inode_release(f, no) = inode_close(f4, no)
    <2>1. f4 = [f1 EXCEPT !.bbits = @ \ Released(f1, f1.mem[no].sec),
                          !.ibits = @ \ {no}, !.itab[no] = ZeroInode]
      BY <1>1 DEF FsSet
    <2>2. QED
      BY <2>1 DEF inode_release
  <1> HIDE DEF f1
  <1>3. /\ f2 \in FsSet /\ f2.ibits = f1.ibits /\ f2.bbits \subseteq f1.bbits
        /\ f2.dirb = f1.dirb /\ f2.bad = f1.bad /\ f2.mem = f1.mem
    <2>1. f1.bbits \ Released(f1, f1.mem[no].sec) \in SUBSET Blocks
      BY <1>1, FsFields
    <2>2. QED
      BY <1>1, <2>1, SetBbits
  <1> HIDE DEF f2
  <1>4. /\ f3 \in FsSet /\ f3.ibits = f2.ibits \ {no} /\ f3.bbits = f2.bbits
        /\ f3.dirb = f2.dirb /\ f3.bad = f2.bad /\ f3.mem = f2.mem
    <2>1. f2.ibits \ {no} \in SUBSET Inodes
      BY <1>3, FsFields
    <2>2. QED
      BY <1>3, <2>1, SetIbits
  <1> HIDE DEF f3
  <1>5. f4 \in FsSet /\ SameDirs(f4, f3) /\ f4.mem = f3.mem
    <2>1. ZeroInode \in [size : Int, sec : Secs]
      BY Empties DEF ZeroInode
    <2>2. QED
      BY <1>4, <2>1, SetItab
  <1> HIDE DEF f4
  <1>6. /\ inode_close(f4, no) \in FsSet /\ SameDirs(inode_close(f4, no), f4)
        /\ \A n \in Inodes : n # no => inode_close(f4, no).mem[n] = f4.mem[n]
        /\ f4.mem[no].cnt > 0 => inode_close(f4, no).mem[no].cnt = f4.mem[no].cnt - 1
    BY <1>5, CloseFacts
  <1>7. f.mem[no].cnt \in Nat
    BY FsFields
  <1>8. inode_close(f4, no).mem[no].cnt = f.mem[no].cnt
    BY <1>1, <1>3, <1>4, <1>5, <1>6, <1>7
  <1>9. QED
    BY <1>1, <1>2, <1>3, <1>4, <1>5, <1>6, <1>8 DEF SameDirs

-----------------------------------------------------------------------------
(* A search by path.                                                       *)

\* Place k, i of directory p has an entry for inode no, of this type.
EntryAt(f, p, k, i, no, type) ==
  LET b == all_blocks(f, Sec(f, p))[k]
  IN b # 0 /\ Real(f.dirb[b][i]) /\ f.dirb[b][i].ino = no /\ f.dirb[b][i].type = type

IsFound(f, r) ==
  r.type \in {"file", "dir"} =>
    \E k \in 0..(Total - 1), i \in 1..PerBlock : EntryAt(f, r.parent, k, i, r.ino, r.type)

\* One name of the path.
SearchRound(f, r, name, k) ==
  LET found == search_dir_entry(f, r.ino, name)
  IN IF r.type # "dir" THEN r
     ELSE IF found = {} THEN [ino |-> 0, type |-> "none", parent |-> r.ino, depth |-> k]
     ELSE LET e == CHOOSE x \in found : TRUE
          IN [ino |-> e.ino, type |-> e.type, parent |-> r.ino, depth |-> k]

AtRoot == [ino |-> 0, type |-> "dir", parent |-> 0, depth |-> 0]

IsSearch(go, f, path) ==
  go = [k \in 0..Len(path) |-> IF k = 0 THEN AtRoot ELSE SearchRound(f, go[k - 1], path[k], k)]

LEMMA PathFacts ==
  ASSUME NEW path \in Paths
  PROVE  /\ Len(path) \in {1, 2} /\ path[1] \in Names /\ path[Len(path)] \in Names
         /\ Len(path) = 2 => path[2] \in Names
  BY DEF Paths

LEMMA SearchTwo ==
  ASSUME NEW f, NEW path \in Paths
  PROVE  search_file(f, path) =
           LET r == SearchRound(f, AtRoot, path[1], 1)
           IN IF Len(path) = 1 THEN r ELSE SearchRound(f, r, path[2], 2)
  <1> DEFINE go == CHOOSE g : IsSearch(g, f, path)
             n  == Len(path)
             r1 == SearchRound(f, AtRoot, path[1], 1)
             r2 == SearchRound(f, r1, path[2], 2)
  <1>1. search_file(f, path) = go[n]
    BY DEF search_file, IsSearch, SearchRound, AtRoot
  <1>2. IsSearch(go, f, path)
    <2> DEFINE h == [k \in 0..n |-> IF k = 0 THEN AtRoot ELSE IF k = 1 THEN r1 ELSE r2]
    <2>1. n = 1 \/ n = 2
      BY PathFacts
    <2>2. h[0] = AtRoot /\ h[1] = r1
      BY <2>1
    <2>3. \A k \in 0..n : h[k] = IF k = 0 THEN AtRoot ELSE SearchRound(f, h[k - 1], path[k], k)
      <3> TAKE k \in 0..n
      <3>1. k = 0 \/ k = 1 \/ (k = 2 /\ 2 \in 0..n)
        <4>1. CASE n = 1
          BY <4>1
        <4>2. CASE n = 2
          BY <4>2
        <4>3. QED
          BY <2>1, <4>1, <4>2
      <3>2. CASE k = 0
        <4> HIDE DEF h
        <4>1. QED
          BY <2>2, <3>2
      <3>3. CASE k = 1
        <4>1. k - 1 = 0
          BY <3>3
        <4> HIDE DEF h
        <4>2. QED
          BY <2>2, <3>3, <4>1
      <3>4. CASE k = 2
        <4>1. k - 1 = 1 /\ h[2] = r2
          BY <3>1, <3>4
        <4> HIDE DEF h
        <4>2. QED
          BY <2>2, <3>4, <4>1
      <3>5. QED
        BY <3>1, <3>2, <3>3, <3>4
    <2>4. h = [k \in 0..n |-> h[k]]
      OBVIOUS
    <2> HIDE DEF h
    <2>5. IsSearch(h, f, path)
      BY <2>3, <2>4 DEF IsSearch
    <2>6. QED
      BY <2>5
  <1> HIDE DEF go
  <1>3. \A k \in 0..n : go[k] = IF k = 0 THEN AtRoot ELSE SearchRound(f, go[k - 1], path[k], k)
    BY <1>2 DEF IsSearch
  <1>4. n = 1 \/ n = 2
    BY PathFacts
  <1>5. go[0] = AtRoot
    BY <1>3, <1>4
  <1>6. go[1] = r1
    <2>1. 1 \in 0..n /\ 1 - 1 = 0
      BY <1>4
    <2>2. QED
      BY <1>3, <1>5, <2>1
  <1>7. n = 2 => go[2] = r2
    <2> SUFFICES ASSUME n = 2 PROVE go[2] = r2
      OBVIOUS
    <2>1. 2 \in 0..n /\ 2 - 1 = 1
      OBVIOUS
    <2>2. QED
      BY <1>3, <1>6, <2>1
  <1>8. QED
    BY <1>1, <1>4, <1>6, <1>7

\* What a round finds is an entry of the directory it looks in.
LEMMA RoundFacts ==
  ASSUME NEW f \in FsSet, EntriesIn(f), NEW name \in Names, NEW k,
         NEW r, r.ino \in f.ibits, r.type = "dir"
  PROVE  LET q == SearchRound(f, r, name, k)
         IN q.ino \in f.ibits /\ q.parent \in f.ibits /\ IsFound(f, q)
  <1> DEFINE found == search_dir_entry(f, r.ino, name)
             all == all_blocks(f, Sec(f, r.ino))
  <1>1. CASE found = {}
    BY <1>1 DEF SearchRound, EntriesIn, IsFound
  <1>2. CASE found # {}
    <2>1. PICK e : e = (CHOOSE x \in found : TRUE) /\ e \in found
      BY <1>2
    <2>2. SearchRound(f, r, name, k) = [ino |-> e.ino, type |-> e.type, parent |-> r.ino, depth |-> k]
      BY <1>2, <2>1 DEF SearchRound
    <2>3. PICK j \in DOMAIN all, i \in 1..PerBlock : all[j] # 0 /\ e = f.dirb[all[j]][i]
      BY <2>1 DEF search_dir_entry, Entries
    <2>4. e # NoEntry /\ e.name = name
      BY <2>1 DEF search_dir_entry, Entries
    <2>5. Real(e)
      BY <2>4, DirTreeAssumption DEF Real, IsDot
    <2>6. Sec(f, r.ino) \in Secs
      BY FsFields DEF Sec
    <2>7. j \in 0..(Total - 1) /\ all[j] \in Blocks
      BY <2>3, <2>6, AllFacts, Sizes
    <2>8. e.ino \in f.ibits
      BY <2>3, <2>5, <2>7 DEF EntriesIn
    <2>9. EntryAt(f, r.ino, j, i, e.ino, e.type)
      BY <2>3, <2>5 DEF EntryAt
    <2> HIDE DEF found, all
    <2>10. QED
      BY <2>2, <2>7, <2>8, <2>9 DEF IsFound
  <1>3. QED
    BY <1>1, <1>2

LEMMA SearchFacts ==
  ASSUME NEW f \in FsSet, EntriesIn(f), NEW path \in Paths
  PROVE  LET r == search_file(f, path)
         IN r.ino \in f.ibits /\ r.parent \in f.ibits /\ IsFound(f, r)
  <1> DEFINE r1 == SearchRound(f, AtRoot, path[1], 1)
  <1>1. path[1] \in Names /\ (Len(path) # 1 => path[2] \in Names)
    BY PathFacts
  <1>2. AtRoot.ino \in f.ibits /\ AtRoot.type = "dir"
    BY DEF AtRoot, EntriesIn
  <1>3. r1.ino \in f.ibits /\ r1.parent \in f.ibits /\ IsFound(f, r1)
    BY <1>1, <1>2, RoundFacts
  <1> HIDE DEF r1
  <1>4. CASE Len(path) = 1
    BY <1>3, <1>4, SearchTwo DEF r1
  <1>5. CASE Len(path) # 1
    <2>1. search_file(f, path) = SearchRound(f, r1, path[2], 2)
      BY <1>5, SearchTwo DEF r1
    <2>2. CASE r1.type = "dir"
      BY <1>1, <1>3, <1>5, <2>1, <2>2, RoundFacts
    <2>3. CASE r1.type # "dir"
      <3>1. SearchRound(f, r1, path[2], 2) = r1
        BY <2>3 DEF SearchRound
      <3>2. QED
        BY <1>3, <2>1, <3>1
    <2>4. QED
      BY <2>2, <2>3
  <1>6. QED
    BY <1>4, <1>5

-----------------------------------------------------------------------------
(* An entry is written.                                                    *)

\* A step inside a call that gives no inode out and takes none back, and writes
\* no entry.
Inner(g, f) ==
  /\ g \in FsSet /\ g.ibits = f.ibits /\ g.dirb = f.dirb
  /\ \A n \in Inodes : g.mem[n].cnt = f.mem[n].cnt

SameBits(g, f) == g.bad = f.bad /\ g.bbits = f.bbits

\* At most e has come.
Adds(g, f, e) ==
  /\ g \in FsSet /\ g.ibits = f.ibits
  /\ \A n \in Inodes : g.mem[n].cnt = f.mem[n].cnt
  /\ \E c \in Blocks, j \in 1..PerBlock : \A b \in Blocks, i \in 1..PerBlock :
       Real(g.dirb[b][i]) => \/ b = c /\ i = j /\ g.dirb[b][i] = e
                             \/ g.dirb[b][i] = f.dirb[b][i]

LEMMA SetSec ==
  ASSUME NEW f \in FsSet, NEW p \in Inodes, NEW k, NEW b \in 0..NBlocks
  PROVE  /\ Inner([f EXCEPT !.mem[p].sec[k] = b], f)
         /\ SameBits([f EXCEPT !.mem[p].sec[k] = b], f)
  <1> DEFINE m == [f.mem[p] EXCEPT !.sec[k] = b]
  <1>1. f.mem[p] \in MemInodes
    BY FsFields DEF MemInodes
  <1>2. m \in MemInodes /\ m.cnt = f.mem[p].cnt
    BY <1>1 DEF MemInodes, Secs
  <1>3. [f EXCEPT !.mem[p].sec[k] = b] = [f EXCEPT !.mem[p] = m]
    OBVIOUS
  <1> HIDE DEF m
  <1>4. QED
    BY <1>2, <1>3, SetMem DEF SameDirs, Inner, SameBits

LEMMA SetSizeTo ==
  ASSUME NEW f \in FsSet, NEW p \in Inodes, NEW s \in Int
  PROVE  /\ Inner([f EXCEPT !.mem[p].size = s], f)
         /\ SameBits([f EXCEPT !.mem[p].size = s], f)
  <1> DEFINE m == [f.mem[p] EXCEPT !.size = s]
  <1>1. f.mem[p] \in MemInodes
    BY FsFields DEF MemInodes
  <1>2. m \in MemInodes /\ m.cnt = f.mem[p].cnt
    BY <1>1 DEF MemInodes
  <1>3. [f EXCEPT !.mem[p].size = s] = [f EXCEPT !.mem[p] = m]
    OBVIOUS
  <1> HIDE DEF m
  <1>4. QED
    BY <1>2, <1>3, SetMem DEF SameDirs, Inner, SameBits

LEMMA SetSize ==
  ASSUME NEW f \in FsSet, NEW p \in Inodes
  PROVE  /\ Inner([f EXCEPT !.mem[p].size = @ + 1], f)
         /\ SameBits([f EXCEPT !.mem[p].size = @ + 1], f)
         /\ Inner([f EXCEPT !.mem[p].size = @ - 1], f)
         /\ SameBits([f EXCEPT !.mem[p].size = @ - 1], f)
  <1>1. f.mem[p].size + 1 \in Int /\ f.mem[p].size - 1 \in Int
    BY FsFields
  <1>2. QED
    BY <1>1, SetSizeTo

LEMMA SetPlace ==
  ASSUME NEW f \in FsSet, NEW t \in 0..NBlocks, NEW j, NEW b \in 0..NBlocks
  PROVE  /\ Inner([f EXCEPT !.tabb[t][j] = b], f)
         /\ SameBits([f EXCEPT !.tabb[t][j] = b], f)
  <1> DEFINE u == [f.tabb EXCEPT ![t][j] = b]
  <1>1. f.tabb \in [Blocks -> [1..Indirect -> 0..NBlocks]]
    BY FsFields
  <1>2. u \in [Blocks -> [1..Indirect -> 0..NBlocks]]
    <2>1. ASSUME NEW c \in Blocks PROVE u[c] \in [1..Indirect -> 0..NBlocks]
      <3>1. CASE c = t
        <4>1. u[c] = [f.tabb[c] EXCEPT ![j] = b]
          BY <1>1, <3>1
        <4>2. f.tabb[c] \in [1..Indirect -> 0..NBlocks]
          BY <1>1
        <4>3. QED
          BY <4>1, <4>2
      <3>2. CASE c # t
        BY <1>1, <3>2
      <3>3. QED
        BY <3>1, <3>2
    <2>2. u = [c \in Blocks |-> u[c]]
      BY <1>1
    <2> HIDE DEF u
    <2>3. QED
      BY <2>1, <2>2
  <1>3. [f EXCEPT !.tabb[t][j] = b] = [f EXCEPT !.tabb = u]
    OBVIOUS
  <1> HIDE DEF u
  <1>4. QED
    BY <1>2, <1>3, SetTabb DEF Inner, SameBits

\* The entry in a block of its own.
LEMMA PutBlock ==
  ASSUME NEW f \in FsSet, NEW p \in Inodes, NEW c \in Blocks, NEW e \in DirEntries
  PROVE  Adds([f EXCEPT !.dirb[c] = [EmptyBlock EXCEPT ![1] = e], !.mem[p].size = @ + 1], f, e)
  <1> DEFINE blk == [EmptyBlock EXCEPT ![1] = e]
             f1 == [f EXCEPT !.dirb[c] = blk]
             f2 == [f1 EXCEPT !.mem[p].size = @ + 1]
  <1>1. /\ blk \in [1..PerBlock -> DirEntries] /\ 1 \in 1..PerBlock /\ blk[1] = e
        /\ \A i \in 1..PerBlock : i # 1 => ~Real(blk[i])
    BY Empties, Sizes DEF Real, EmptyBlock
  <1>2. [f EXCEPT !.dirb[c] = blk, !.mem[p].size = @ + 1] = f2
    BY DEF FsSet
  <1> HIDE DEF blk
  <1>3. /\ f1 \in FsSet /\ f1.ibits = f.ibits /\ f1.mem = f.mem
        /\ \A b \in Blocks : f1.dirb[b] = IF b = c THEN blk ELSE f.dirb[b]
    BY <1>1, SetDirb
  <1> HIDE DEF f1
  <1>4. Inner(f2, f1)
    BY <1>3, SetSize
  <1> HIDE DEF f2
  <1>5. \A b \in Blocks, i \in 1..PerBlock :
          Real(f2.dirb[b][i]) => \/ b = c /\ i = 1 /\ f2.dirb[b][i] = e
                                 \/ f2.dirb[b][i] = f.dirb[b][i]
    BY <1>1, <1>3, <1>4 DEF Inner
  <1>6. Adds(f2, f, e)
    BY <1>1, <1>3, <1>4, <1>5 DEF Inner, Adds
  <1>7. QED
    BY <1>2, <1>6 DEF blk

\* The entry in a block that has room.
LEMMA PutEntry ==
  ASSUME NEW f \in FsSet, NEW p \in Inodes, NEW c \in Blocks, NEW i \in 1..PerBlock,
         NEW e \in DirEntries
  PROVE  Adds([f EXCEPT !.dirb[c][i] = e, !.mem[p].size = @ + 1], f, e)
  <1> DEFINE blk == [f.dirb[c] EXCEPT ![i] = e]
             f1 == [f EXCEPT !.dirb[c] = blk]
             f2 == [f1 EXCEPT !.mem[p].size = @ + 1]
  <1>1. /\ blk \in [1..PerBlock -> DirEntries] /\ blk[i] = e
        /\ \A j \in 1..PerBlock : j # i => blk[j] = f.dirb[c][j]
    BY FsFields
  <1>2. [f EXCEPT !.dirb[c][i] = e, !.mem[p].size = @ + 1] = f2
    BY DEF FsSet
  <1> HIDE DEF blk
  <1>3. /\ f1 \in FsSet /\ f1.ibits = f.ibits /\ f1.mem = f.mem
        /\ \A b \in Blocks : f1.dirb[b] = IF b = c THEN blk ELSE f.dirb[b]
    BY <1>1, SetDirb
  <1> HIDE DEF f1
  <1>4. Inner(f2, f1)
    BY <1>3, SetSize
  <1> HIDE DEF f2
  <1>5. \A b \in Blocks, j \in 1..PerBlock :
          Real(f2.dirb[b][j]) => \/ b = c /\ j = i /\ f2.dirb[b][j] = e
                                 \/ f2.dirb[b][j] = f.dirb[b][j]
    BY <1>1, <1>3, <1>4 DEF Inner
  <1>6. Adds(f2, f, e)
    BY <1>1, <1>3, <1>4, <1>5 DEF Inner, Adds
  <1>7. QED
    BY <1>2, <1>6 DEF blk

LEMMA InnerAdds ==
  ASSUME NEW f \in FsSet, NEW g, NEW e, Inner(g, f)
  PROVE  Adds(g, f, e) /\ \A h : Adds(h, g, e) => Adds(h, f, e)
  <1>1. 1 \in Blocks /\ 1 \in 1..PerBlock
    BY Sizes
  <1>2. QED
    BY <1>1 DEF Inner, Adds

LEMMA AllocInner ==
  ASSUME NEW f \in FsSet
  PROVE  Inner(block_bitmap_alloc(f), f)
  BY BlockFacts DEF Inner

LEMMA InnerTrans ==
  ASSUME NEW f, NEW g, NEW h, Inner(g, f), Inner(h, g)
  PROVE  Inner(h, f)
  BY DEF Inner

LEMMA NewDirBlockFacts ==
  ASSUME NEW f \in FsSet, NEW p \in Inodes, NEW k \in 0..(Total - 1), NEW e \in DirEntries
  PROVE  Adds(NewDirBlock(f, p, k, e), f, e)
  <1> DEFINE f1 == block_bitmap_alloc(f)
             b  == NextBlock(f)
             f2 == block_bitmap_alloc(f1)
             c  == NextBlock(f1)
             sec == f.mem[p].sec
             put(x, d) == [x EXCEPT !.dirb[d] = [EmptyBlock EXCEPT ![1] = e], !.mem[p].size = @ + 1]
             table == [j \in 1..Indirect |-> IF j = 1 THEN c ELSE all_blocks(f, sec)[Direct + j - 1]]
             g1 == [f1 EXCEPT !.mem[p].sec[k] = b]
             g2 == [f1 EXCEPT !.tabb[sec[Direct]][k - Direct + 1] = b]
             x1 == [f2 EXCEPT !.mem[p].sec[Direct] = b]
             x2 == [x1 EXCEPT !.tabb = [x1.tabb EXCEPT ![b] = table]]
             l  == x2.leaked \cup ({sec[Direct]} \ {0})
             x3 == [x2 EXCEPT !.leaked = l]
  <1>1. Inner(f1, f) /\ Inner(f2, f1) /\ f1 \in FsSet /\ f2 \in FsSet
    BY AllocInner DEF Inner
  <1>2. sec \in Secs /\ sec[Direct] \in 0..NBlocks
    <2>1. sec \in Secs
      BY FsFields
    <2>2. Direct \in 0..Direct
      BY Sizes
    <2> HIDE DEF sec
    <2>3. QED
      BY <2>1, <2>2 DEF Secs
  <1>3. NewDirBlock(f, p, k, e) =
          IF f1.bad # "no" THEN f1
          ELSE IF k < Direct THEN put(g1, b)
          ELSE IF k > Direct THEN put(g2, b)
          ELSE IF f2.bad # "no" THEN f2
          ELSE put(x3, c)
    <2>1. x3 = [f2 EXCEPT !.mem[p].sec[Direct] = b, !.tabb[b] = table,
                          !.leaked = @ \cup ({sec[Direct]} \ {0})]
      BY <1>1 DEF FsSet
    <2> HIDE DEF x3
    <2>2. QED
      BY <2>1 DEF NewDirBlock
  <1>4. (f1.bad = "no" => b \in Blocks) /\ (f2.bad = "no" => f1.bad = "no" /\ c \in Blocks)
    BY <1>1, BlockFacts
  <1>5. b \in Blocks => b \in 0..NBlocks
    BY Sizes
  <1> HIDE DEF f1, f2, b, c, sec
  <1>6. CASE f1.bad # "no"
    BY <1>1, <1>3, <1>6, InnerAdds
  <1>7. CASE f1.bad = "no" /\ k < Direct
    <2>1. Inner(g1, f)
      BY <1>1, <1>4, <1>5, <1>7, SetSec, InnerTrans
    <2> HIDE DEF g1
    <2>2. g1 \in FsSet
      BY <2>1 DEF Inner
    <2>3. Adds(put(g1, b), g1, e)
      BY <1>4, <1>7, <2>2, PutBlock
    <2>4. NewDirBlock(f, p, k, e) = put(g1, b)
      BY <1>3, <1>7
    <2> HIDE DEF put
    <2>5. QED
      BY <2>1, <2>3, <2>4, InnerAdds
  <1>8. CASE f1.bad = "no" /\ k > Direct
    <2>1. Inner(g2, f)
      BY <1>1, <1>2, <1>4, <1>5, <1>8, SetPlace, InnerTrans
    <2> HIDE DEF g2
    <2>2. g2 \in FsSet
      BY <2>1 DEF Inner
    <2>3. Adds(put(g2, b), g2, e)
      BY <1>4, <1>8, <2>2, PutBlock
    <2>4. NewDirBlock(f, p, k, e) = put(g2, b)
      BY <1>3, <1>8, Sizes
    <2> HIDE DEF put
    <2>5. QED
      BY <2>1, <2>3, <2>4, InnerAdds
  <1>9. CASE f1.bad = "no" /\ k = Direct /\ f2.bad # "no"
    <2>1. NewDirBlock(f, p, k, e) = f2
      BY <1>3, <1>9, Sizes
    <2>2. QED
      BY <1>1, <2>1, InnerTrans, InnerAdds
  <1>10. CASE f1.bad = "no" /\ k = Direct /\ f2.bad = "no"
    <2>1. NewDirBlock(f, p, k, e) = put(x3, c)
      BY <1>3, <1>10, Sizes
    <2>2. b \in Blocks /\ c \in Blocks /\ c \in 0..NBlocks /\ b \in 0..NBlocks
      BY <1>4, <1>10, Sizes
    <2>3. Inner(x1, f)
      BY <1>1, <2>2, SetSec, InnerTrans
    <2>4. table \in [1..Indirect -> 0..NBlocks]
      <3>1. \A j \in 1..Indirect : Direct + j - 1 \in 0..(Total - 1)
        BY Sizes
      <3>2. QED
        BY <1>2, <2>2, <3>1, AllFacts
    <2> HIDE DEF x1, table
    <2>5. x1 \in FsSet /\ [x1.tabb EXCEPT ![b] = table] \in [Blocks -> [1..Indirect -> 0..NBlocks]]
      <3>1. x1 \in FsSet
        BY <2>3 DEF Inner
      <3>2. QED
        BY <2>4, <3>1, FsFields
    <2>6. Inner(x2, x1)
      BY <2>5, SetTabb DEF Inner, SameBits
    <2> HIDE DEF x2
    <2>7. x2 \in FsSet /\ l \in SUBSET Blocks
      <3>1. x2 \in FsSet
        BY <2>6 DEF Inner
      <3>2. QED
        BY <1>2, <3>1, FsFields, Sizes
    <2> HIDE DEF l
    <2>8. Inner(x3, x2)
      BY <2>7, SetLeaked DEF Inner
    <2> HIDE DEF x3
    <2>9. Inner(x3, f) /\ x3 \in FsSet
      BY <2>3, <2>6, <2>8, InnerTrans DEF Inner
    <2>10. Adds(put(x3, c), x3, e)
      BY <2>2, <2>9, PutBlock
    <2> HIDE DEF put
    <2>11. QED
      BY <2>1, <2>9, <2>10, InnerAdds
  <1>11. QED
    BY <1>6, <1>7, <1>8, <1>9, <1>10, Sizes

\* A new entry is the only one that comes.
LEMMA SyncEntryFacts ==
  ASSUME NEW f \in FsSet, NEW p \in Inodes, NEW e \in DirEntries, ~DirFull(f, p)
  PROVE  Adds(sync_dir_entry(f, p, e), f, e)
  <1> DEFINE all == all_blocks(f, f.mem[p].sec)
             room == Room(f, all)
             k == Min(room)
             gaps == {j \in 1..PerBlock : f.dirb[all[k]][j] = NoEntry}
             i == Min(gaps)
  <1>1. all \in [0..(Total - 1) -> 0..NBlocks] /\ DOMAIN all = 0..(Total - 1)
    <2>1. f.mem[p].sec \in Secs
      BY FsFields
    <2>2. QED
      BY <2>1, AllFacts
  <1>2. sync_dir_entry(f, p, e) =
          IF all[k] = 0 THEN NewDirBlock(f, p, k, e)
          ELSE [f EXCEPT !.dirb[all[k]][i] = e, !.mem[p].size = @ + 1]
    BY DEF sync_dir_entry
  <1>3. room # {}
    BY DEF DirFull
  <1> HIDE DEF all
  <1>4. k \in 0..(Total - 1) /\ all[k] \in 0..NBlocks
        /\ (all[k] # 0 => NoEntry \in Range(f.dirb[all[k]]))
    <2>1. room \in SUBSET Nat
      BY <1>1, Sizes DEF Room
    <2>2. k \in room
      BY <1>3, <2>1, LeastNat
    <2>3. QED
      BY <1>1, <2>2 DEF Room
  <1> HIDE DEF room, k
  <1>5. CASE all[k] = 0
    BY <1>2, <1>4, <1>5, NewDirBlockFacts
  <1>6. CASE all[k] # 0
    <2>1. all[k] \in Blocks /\ f.dirb[all[k]] \in [1..PerBlock -> DirEntries]
      BY <1>4, <1>6, FsFields, Sizes
    <2>2. gaps # {} /\ gaps \in SUBSET Nat
      BY <1>4, <1>6, <2>1, Sizes DEF Range
    <2>3. i \in 1..PerBlock
      BY <2>2, LeastNat
    <2> HIDE DEF i, gaps
    <2>4. Adds([f EXCEPT !.dirb[all[k]][i] = e, !.mem[p].size = @ + 1], f, e)
      BY <2>1, <2>3, PutEntry
    <2>5. QED
      BY <1>2, <1>6, <2>4
  <1>7. QED
    BY <1>5, <1>6

-----------------------------------------------------------------------------
(* An entry is removed.                                                    *)

\* Nothing has come, and in the blocks in use no entry names no.
Gone(g, f, no) ==
  \A b \in Blocks, i \in 1..PerBlock : b \in g.bbits /\ Real(g.dirb[b][i]) =>
    g.dirb[b][i] = f.dirb[b][i] /\ g.dirb[b][i].ino # no

LEMMA DropFacts ==
  ASSUME NEW f \in FsSet, NEW p \in Inodes, NEW k \in 0..(Total - 1)
  PROVE  LET g == DropDirBlock(f, p, k)
         IN /\ Inner(g, f) /\ g.bad = f.bad /\ g.bbits \subseteq f.bbits
            /\ all_blocks(f, f.mem[p].sec)[k] \notin g.bbits
  <1> DEFINE sec == f.mem[p].sec
             all == all_blocks(f, sec)
             more == {j \in Direct..(Total - 1) : all[j] # 0} # {k}
             b1 == f.bbits \ {all[k]}
             b2 == f.bbits \ {all[k], sec[Direct]}
             x1 == [f EXCEPT !.bbits = b1]
             x2 == [f EXCEPT !.bbits = b2]
             y1 == [x1 EXCEPT !.mem[p].sec[k] = 0]
             y2 == [x1 EXCEPT !.tabb[sec[Direct]][k - Direct + 1] = 0]
             y3 == [x2 EXCEPT !.mem[p].sec[Direct] = 0]
  <1>1. DropDirBlock(f, p, k) = IF k < Direct THEN y1 ELSE IF more THEN y2 ELSE y3
    <2>1. y1 = [f EXCEPT !.bbits = @ \ {all[k]}, !.mem[p].sec[k] = 0]
      BY DEF FsSet
    <2>2. y2 = [f EXCEPT !.bbits = @ \ {all[k]}, !.tabb[sec[Direct]][k - Direct + 1] = 0]
      BY DEF FsSet
    <2>3. y3 = [f EXCEPT !.bbits = @ \ {all[k], sec[Direct]}, !.mem[p].sec[Direct] = 0]
      BY DEF FsSet
    <2> HIDE DEF y1, y2, y3
    <2>4. QED
      BY <2>1, <2>2, <2>3 DEF DropDirBlock
  <1>2. b1 \in SUBSET Blocks /\ b2 \in SUBSET Blocks
    BY FsFields
  <1>3. 0 \in 0..NBlocks /\ sec[Direct] \in 0..NBlocks
    <2>1. sec \in Secs
      BY FsFields
    <2>2. Direct \in 0..Direct
      BY Sizes
    <2> HIDE DEF sec
    <2>3. QED
      BY <2>1, <2>2, Sizes DEF Secs
  <1>4. all[k] \notin b1 /\ all[k] \notin b2 /\ b1 \subseteq f.bbits /\ b2 \subseteq f.bbits
    OBVIOUS
  <1> HIDE DEF sec, all, b1, b2, more
  <1>5. /\ Inner(x1, f) /\ x1.bad = f.bad /\ x1.bbits = b1 /\ x1 \in FsSet
        /\ Inner(x2, f) /\ x2.bad = f.bad /\ x2.bbits = b2 /\ x2 \in FsSet
    BY <1>2, SetBbits DEF Inner
  <1> HIDE DEF x1, x2
  <1>6. /\ Inner(y1, f) /\ y1.bad = f.bad /\ y1.bbits = b1
        /\ Inner(y2, f) /\ y2.bad = f.bad /\ y2.bbits = b1
        /\ Inner(y3, f) /\ y3.bad = f.bad /\ y3.bbits = b2
    <2>1. Inner(y1, x1) /\ SameBits(y1, x1)
      BY <1>3, <1>5, SetSec
    <2>2. Inner(y2, x1) /\ SameBits(y2, x1)
      BY <1>3, <1>5, SetPlace
    <2>3. Inner(y3, x2) /\ SameBits(y3, x2)
      BY <1>3, <1>5, SetSec
    <2> HIDE DEF y1, y2, y3
    <2>4. QED
      BY <1>5, <2>1, <2>2, <2>3, InnerTrans DEF SameBits
  <1> HIDE DEF y1, y2, y3
  <1> DEFINE g == DropDirBlock(f, p, k)
  <1>7. Inner(g, f) /\ g.bad = f.bad /\ (g.bbits = b1 \/ g.bbits = b2)
    BY <1>1, <1>6
  <1> HIDE DEF g
  <1>8. Inner(g, f) /\ g.bad = f.bad /\ g.bbits \subseteq f.bbits /\ all[k] \notin g.bbits
    BY <1>4, <1>7
  <1>9. QED
    BY <1>8 DEF g, all, sec

\* The entry at c, i is gone.
Cleared(g, f, c, i) ==
  /\ g \in FsSet /\ g.ibits = f.ibits /\ g.mem = f.mem /\ SameBits(g, f)
  /\ \A b \in Blocks, j \in 1..PerBlock :
       Real(g.dirb[b][j]) => g.dirb[b][j] = f.dirb[b][j] /\ ~(b = c /\ j = i)

LEMMA ClearEntry ==
  ASSUME NEW f \in FsSet, NEW c \in Blocks, NEW i \in 1..PerBlock
  PROVE  Cleared([f EXCEPT !.dirb[c][i] = NoEntry], f, c, i)
  <1> DEFINE blk == [f.dirb[c] EXCEPT ![i] = NoEntry]
             g == [f EXCEPT !.dirb[c] = blk]
  <1>1. /\ blk \in [1..PerBlock -> DirEntries] /\ ~Real(blk[i])
        /\ \A j \in 1..PerBlock : j # i => blk[j] = f.dirb[c][j]
    BY FsFields, Empties DEF Real
  <1>2. [f EXCEPT !.dirb[c][i] = NoEntry] = g
    OBVIOUS
  <1> HIDE DEF blk
  <1>3. /\ g \in FsSet /\ g.ibits = f.ibits /\ g.mem = f.mem /\ g.bad = f.bad /\ g.bbits = f.bbits
        /\ \A b \in Blocks : g.dirb[b] = IF b = c THEN blk ELSE f.dirb[b]
    BY <1>1, SetDirb
  <1> HIDE DEF g
  <1>4. Cleared(g, f, c, i)
    BY <1>1, <1>3 DEF Cleared, SameBits
  <1>5. QED
    BY <1>2, <1>4

\* The open directory p has an entry for inode no.
Listed(f, p, no) ==
  \E k \in 0..(Total - 1), i \in 1..PerBlock :
    LET b == all_blocks(f, f.mem[p].sec)[k]
    IN b # 0 /\ Real(f.dirb[b][i]) /\ f.dirb[b][i].ino = no

\* The entry is gone.
LEMMA DeleteFacts ==
  ASSUME NEW f \in FsSet, NEW p \in Inodes, NEW no \in Inodes, EntriesDiffer(f), Listed(f, p, no)
  PROVE  LET g == delete_dir_entry(f, p, no)
         IN /\ g \in FsSet /\ g.ibits = f.ibits
            /\ \A n \in Inodes : g.mem[n].cnt = f.mem[n].cnt
            /\ g.bad = "no" => Gone(g, f, no)
  <1> DEFINE all == all_blocks(f, f.mem[p].sec)
             at(k) == {i \in 1..PerBlock : LET e == f.dirb[all[k]][i]
                                           IN e # NoEntry /\ ~IsDot(e) /\ e.ino = no}
             places == {k \in DOMAIN all : all[k] # 0 /\ at(k) # {}}
             k == Min(places)
             i == Min(at(k))
             f1 == IF Goes(f.dirb[all[k]]) THEN DropDirBlock(f, p, k)
                   ELSE [f EXCEPT !.dirb[all[k]][i] = NoEntry]
             f2 == [f1 EXCEPT !.mem[p].size = @ - 1]
             g == delete_dir_entry(f, p, no)
  <1>1. g = IF places = {} THEN f
            ELSE IF Cardinality(at(k)) > 1 THEN Fail(f, "assert")
            ELSE inode_sync(f2, p)
    BY DEF delete_dir_entry
  <1>2. all \in [0..(Total - 1) -> 0..NBlocks] /\ DOMAIN all = 0..(Total - 1)
    <2>1. f.mem[p].sec \in Secs
      BY FsFields
    <2>2. QED
      BY <2>1, AllFacts
  <1>0. PICK k0 \in 0..(Total - 1), i0 \in 1..PerBlock :
          all[k0] # 0 /\ Real(f.dirb[all[k0]][i0]) /\ f.dirb[all[k0]][i0].ino = no
    BY DEF Listed
  <1> HIDE DEF all, f1, f2, g
  <1>3. k0 \in places /\ places \in SUBSET Nat
    <2>1. i0 \in at(k0)
      BY <1>0 DEF Real
    <2>2. k0 \in places
      BY <1>0, <1>2, <2>1
    <2>3. \A x \in places : x \in Nat
      BY <1>2
    <2>4. QED
      BY <2>2, <2>3
  <1>4. k \in places
    <2> HIDE DEF places
    <2>1. QED
      BY <1>3, LeastNat
  <1>5. \A j \in 0..(Total - 1) : at(j) \in SUBSET (1..PerBlock) /\ at(j) \in SUBSET Nat
    OBVIOUS
  <1>6. i \in at(k) /\ k \in 0..(Total - 1) /\ i \in 1..PerBlock /\ all[k] \in Blocks
    <2>1. k \in 0..(Total - 1) /\ all[k] # 0 /\ at(k) # {}
      BY <1>2, <1>4
    <2>2. all[k] \in Blocks
      BY <1>2, <2>1, Sizes
    <2> HIDE DEF at, k
    <2>3. QED
      BY <1>5, <2>1, <2>2, LeastNat
  <1>7. Real(f.dirb[all[k]][i]) /\ f.dirb[all[k]][i].ino = no
    <2> HIDE DEF k, i
    <2>1. QED
      BY <1>6 DEF Real
  <1>8. places # {}
    BY <1>3
  <1> HIDE DEF k, i, places, at
  <1>9. CASE Cardinality(at(k)) > 1
    <2>1. g = Fail(f, "assert")
      BY <1>1, <1>8, <1>9
    <2>2. g \in FsSet /\ g.bad # "no" /\ g.ibits = f.ibits /\ g.mem = f.mem
      BY <2>1, FailFacts DEF Failed
    <2>3. QED
      BY <2>2 DEF g
  <1>10. CASE ~(Cardinality(at(k)) > 1)
    <2>1. g = inode_sync(f2, p)
      BY <1>1, <1>8, <1>10
    <2>2. /\ f1 \in FsSet /\ f1.ibits = f.ibits /\ \A n \in Inodes : f1.mem[n].cnt = f.mem[n].cnt
          /\ Gone(f1, f, no)
      <3>0. \A b \in Blocks, j \in 1..PerBlock :
              Real(f.dirb[b][j]) /\ f.dirb[b][j].ino = no => b = all[k] /\ j = i
        BY <1>6, <1>7 DEF EntriesDiffer
      <3>1. CASE Goes(f.dirb[all[k]])
        <4>1. f1 = DropDirBlock(f, p, k)
          BY <3>1 DEF f1
        <4>2. Inner(f1, f) /\ all[k] \notin f1.bbits
          BY <1>6, <4>1, DropFacts DEF all
        <4>3. Gone(f1, f, no)
          BY <3>0, <4>2 DEF Gone, Inner
        <4>4. QED
          BY <4>2, <4>3 DEF Inner
      <3>2. CASE ~Goes(f.dirb[all[k]])
        <4>1. f1 = [f EXCEPT !.dirb[all[k]][i] = NoEntry]
          BY <3>2 DEF f1
        <4>2. Cleared(f1, f, all[k], i)
          BY <1>6, <4>1, ClearEntry
        <4>3. Gone(f1, f, no)
          BY <3>0, <4>2 DEF Gone, Cleared
        <4>4. QED
          BY <4>2, <4>3 DEF Cleared
      <3>3. QED
        BY <3>1, <3>2
    <2>3. Inner(f2, f1) /\ f2.bbits = f1.bbits /\ f2 \in FsSet
      <3>1. Inner(f2, f1) /\ SameBits(f2, f1)
        BY <2>2, SetSize DEF f2
      <3>2. QED
        BY <3>1 DEF Inner, SameBits
    <2>4. g \in FsSet /\ SameDirs(g, f2) /\ g.mem = f2.mem
      BY <2>1, <2>3, SyncFacts
    <2>5. Gone(g, f, no)
      BY <2>2, <2>3, <2>4 DEF Gone, Inner, SameDirs
    <2>6. g.ibits = f.ibits /\ \A n \in Inodes : g.mem[n].cnt = f.mem[n].cnt
      BY <2>2, <2>3, <2>4 DEF Inner, SameDirs
    <2>7. QED
      BY <2>4, <2>5, <2>6 DEF g
  <1>11. QED
    BY <1>9, <1>10

LEMMA RemoveFacts ==
  ASSUME NEW f \in FsSet, NEW par \in Inodes, NEW p \in Inodes, EntriesDiffer(f),
         Listed(f, par, p)
  PROVE  LET g == dir_remove(f, par, p)
         IN /\ g \in FsSet
            /\ \A n \in Inodes : g.mem[n].cnt = f.mem[n].cnt
            /\ g.bad = "no" => Gone(g, f, p) /\ g.ibits = f.ibits \ {p}
  <1> DEFINE f1 == delete_dir_entry(f, par, p)
             g == dir_remove(f, par, p)
  <1>1. /\ f1 \in FsSet /\ f1.ibits = f.ibits
        /\ \A n \in Inodes : f1.mem[n].cnt = f.mem[n].cnt
        /\ f1.bad = "no" => Gone(f1, f, p)
    BY DeleteFacts
  <1>2. \/ g = Fail(f, "assert")
        \/ f1.bad # "no" /\ g = f1
        \/ f1.bad = "no" /\ g = inode_release(f1, p)
    BY DEF dir_remove
  <1> HIDE DEF f1, g
  <1>3. CASE g = Fail(f, "assert")
    <2>1. Failed(g, f)
      BY <1>3, FailFacts
    <2>2. QED
      BY <2>1 DEF Failed, g
  <1>4. CASE f1.bad # "no" /\ g = f1
    BY <1>1, <1>4 DEF g
  <1>5. CASE f1.bad = "no" /\ g = inode_release(f1, p)
    <2>1. /\ g \in FsSet /\ g.ibits = f1.ibits \ {p} /\ g.bbits \subseteq f1.bbits
          /\ g.dirb = f1.dirb
          /\ \A n \in Inodes : g.mem[n].cnt = f1.mem[n].cnt
      <3>1. f1 \in FsSet /\ g = inode_release(f1, p)
        BY <1>1, <1>5
      <3>2. QED
        BY <3>1, ReleaseFacts
    <2>2. Gone(g, f, p)
      BY <1>1, <1>5, <2>1 DEF Gone
    <2>3. QED
      BY <1>1, <2>1, <2>2 DEF g
  <1>6. QED
    BY <1>2, <1>3, <1>4, <1>5

-----------------------------------------------------------------------------
(* What a call leaves.                                                     *)

LEMMA ResultFacts ==
  ASSUME NEW g \in FsSet, Result(g)
  PROVE  /\ fs' \in FsSet /\ fs'.bad = "no" /\ panic' = g.bad
         /\ fs'.mem = g.mem /\ fs'.ibits = g.ibits
         /\ \A b \in Blocks, i \in 1..PerBlock :
              Real(fs'.dirb[b][i]) => b \in g.bbits /\ fs'.dirb[b][i] = g.dirb[b][i]
  <1> DEFINE d == [b \in Blocks |-> IF Kept(g, b) THEN g.dirb[b] ELSE EmptyBlock]
             t == [b \in Blocks |-> IF Kept(g, b) THEN g.tabb[b] ELSE EmptyTable]
  <1>1. d \in [Blocks -> [1..PerBlock -> DirEntries]]
    BY FsFields, Empties
  <1>2. t \in [Blocks -> [1..Indirect -> 0..NBlocks]]
    BY FsFields, Empties
  <1>3. \A b \in Blocks, i \in 1..PerBlock : Real(d[b][i]) => b \in g.bbits /\ d[b][i] = g.dirb[b][i]
    BY Empties DEF Real, Kept
  <1>4. fs' = [g EXCEPT !.bad = "no", !.dirb = d, !.tabb = t] /\ panic' = g.bad
    BY DEF Result
  <1> HIDE DEF d, t
  <1>5. fs' \in FsSet /\ fs'.bad = "no" /\ fs'.dirb = d /\ fs'.mem = g.mem /\ fs'.ibits = g.ibits
    BY <1>1, <1>2, <1>4 DEF FsSet
  <1>6. QED
    BY <1>3, <1>4, <1>5

\* Nothing has come.
Fewer(g, f) ==
  \A b \in Blocks, i \in 1..PerBlock : Real(g.dirb[b][i]) => g.dirb[b][i] = f.dirb[b][i]

LEMMA FewerGood ==
  ASSUME EntriesIn(fs), EntriesDiffer(fs), FilesAreFiles(fs, slots),
         NEW g \in FsSet, Result(g), Fewer(g, fs), fs.ibits \subseteq g.ibits, UNCHANGED slots
  PROVE  EntriesIn(fs') /\ EntriesDiffer(fs') /\ FilesAreFiles(fs', slots')
  <1>1. \A b \in Blocks, i \in 1..PerBlock : Real(fs'.dirb[b][i]) => fs'.dirb[b][i] = fs.dirb[b][i]
    BY ResultFacts DEF Fewer
  <1>2. fs.ibits \subseteq fs'.ibits
    BY ResultFacts
  <1>3. EntriesIn(fs')
    BY <1>1, <1>2 DEF EntriesIn
  <1>4. EntriesDiffer(fs')
    BY <1>1 DEF EntriesDiffer
  <1>5. FilesAreFiles(fs', slots')
    BY <1>1 DEF FilesAreFiles
  <1>6. QED
    BY <1>3, <1>4, <1>5

LEMMA GoneGood ==
  ASSUME EntriesIn(fs), EntriesDiffer(fs), FilesAreFiles(fs, slots), NEW no \in Inodes, no # 0,
         NEW g \in FsSet, Result(g), Gone(g, fs, no), g.ibits = fs.ibits \ {no}, UNCHANGED slots
  PROVE  EntriesIn(fs') /\ EntriesDiffer(fs') /\ FilesAreFiles(fs', slots')
  <1>1. \A b \in Blocks, i \in 1..PerBlock :
          Real(fs'.dirb[b][i]) => fs'.dirb[b][i] = fs.dirb[b][i] /\ fs'.dirb[b][i].ino # no
    BY ResultFacts DEF Gone
  <1>2. fs'.ibits = fs.ibits \ {no}
    BY ResultFacts
  <1>3. EntriesIn(fs')
    BY <1>1, <1>2 DEF EntriesIn
  <1>4. EntriesDiffer(fs')
    BY <1>1 DEF EntriesDiffer
  <1>5. FilesAreFiles(fs', slots')
    BY <1>1 DEF FilesAreFiles
  <1>6. QED
    BY <1>3, <1>4, <1>5

\* A new entry, and perhaps a slot for its inode.
LEMMA AddsGood ==
  ASSUME EntriesIn(fs), EntriesDiffer(fs), FilesAreFiles(fs, slots),
         NEW g \in FsSet, Result(g), NEW x, Fewer(x, fs), NEW y, NEW e, Adds(y, x, e),
         y.dirb = g.dirb, e.ino \in Inodes \ fs.ibits, g.ibits = fs.ibits \cup {e.ino},
         \A s \in 1..NSlots : slots'[s].ino # slots[s].ino => e.type = "file" /\ slots'[s].ino = e.ino,
         \A s \in 1..NSlots : slots[s].ino # e.ino
  PROVE  EntriesIn(fs') /\ EntriesDiffer(fs') /\ FilesAreFiles(fs', slots')
  <1>1. PICK c \in Blocks, j \in 1..PerBlock : \A b \in Blocks, i \in 1..PerBlock :
          Real(g.dirb[b][i]) => \/ b = c /\ i = j /\ g.dirb[b][i] = e
                                \/ g.dirb[b][i] = fs.dirb[b][i]
    <2>1. PICK c \in Blocks, j \in 1..PerBlock : \A b \in Blocks, i \in 1..PerBlock :
            Real(g.dirb[b][i]) => \/ b = c /\ i = j /\ g.dirb[b][i] = e
                                  \/ g.dirb[b][i] = x.dirb[b][i]
      BY DEF Adds
    <2>2. \A b \in Blocks, i \in 1..PerBlock :
            Real(g.dirb[b][i]) => \/ b = c /\ i = j /\ g.dirb[b][i] = e
                                  \/ g.dirb[b][i] = fs.dirb[b][i]
      BY <2>1 DEF Fewer
    <2>3. QED
      BY <2>2
  <1>2. \A b \in Blocks, i \in 1..PerBlock :
          Real(fs'.dirb[b][i]) => \/ b = c /\ i = j /\ fs'.dirb[b][i] = e
                                  \/ fs'.dirb[b][i] = fs.dirb[b][i] /\ fs.dirb[b][i].ino # e.ino
    <2> TAKE b \in Blocks, i \in 1..PerBlock
    <2> HAVE Real(fs'.dirb[b][i])
    <2>1. fs'.dirb[b][i] = g.dirb[b][i]
      BY ResultFacts
    <2>2. CASE g.dirb[b][i] = fs.dirb[b][i]
      <3>1. fs.dirb[b][i].ino \in fs.ibits
        BY <2>1, <2>2 DEF EntriesIn
      <3>2. QED
        BY <2>1, <2>2, <3>1
    <2>3. CASE g.dirb[b][i] # fs.dirb[b][i]
      BY <1>1, <2>1, <2>3
    <2>4. QED
      BY <2>2, <2>3
  <1>3. fs'.ibits = fs.ibits \cup {e.ino} /\ e.ino # 0
    BY ResultFacts DEF EntriesIn
  <1>4. EntriesIn(fs')
    BY <1>2, <1>3 DEF EntriesIn
  <1>5. EntriesDiffer(fs')
    BY <1>2 DEF EntriesDiffer
  <1>6. FilesAreFiles(fs', slots')
    BY <1>2 DEF FilesAreFiles
  <1>7. QED
    BY <1>4, <1>5, <1>6

-----------------------------------------------------------------------------
(* The slots, and the steps that take and give back none.                  *)

SlotSet == [ino : Inodes \cup {Free}, write : BOOLEAN]

LEMMA SlotsFinite ==
  ASSUME NEW n
  PROVE  IsFiniteSet(SlotsOf(n)) /\ Cardinality(SlotsOf(n)) \in Nat
  <1>1. IsFiniteSet(1..NSlots)
    BY FS_Interval, Sizes
  <1>2. SlotsOf(n) \subseteq 1..NSlots
    BY DEF SlotsOf
  <1>3. IsFiniteSet(SlotsOf(n))
    BY <1>1, <1>2, FS_Subset
  <1>4. QED
    BY <1>3, FS_CardinalityType

LEMMA TakeSlot ==
  ASSUME slots \in [1..NSlots -> SlotSet], NEW i \in 1..NSlots, slots[i].ino = Free,
         NEW no \in Inodes, NEW w \in BOOLEAN, slots' = [slots EXCEPT ![i] = [ino |-> no, write |-> w]]
  PROVE  /\ slots' \in [1..NSlots -> SlotSet]
         /\ slots'[i].ino = no /\ \A s \in 1..NSlots : s # i => slots'[s] = slots[s]
         /\ \A n \in Inodes : Cardinality(SlotsOf(n))' =
              Cardinality(SlotsOf(n)) + IF n = no THEN 1 ELSE 0
  <1>1. slots' \in [1..NSlots -> SlotSet]
    BY DEF SlotSet
  <1>2. slots'[i].ino = no /\ \A s \in 1..NSlots : s # i => slots'[s] = slots[s]
    OBVIOUS
  <1>3. ASSUME NEW n \in Inodes
        PROVE  Cardinality(SlotsOf(n))' = Cardinality(SlotsOf(n)) + IF n = no THEN 1 ELSE 0
    <2>1. i \notin SlotsOf(n)
      BY Sizes DEF SlotsOf
    <2>2. SlotsOf(n)' = IF n = no THEN SlotsOf(n) \cup {i} ELSE SlotsOf(n)
      BY <1>2, <2>1 DEF SlotsOf
    <2>3. Cardinality(SlotsOf(n) \cup {i}) = Cardinality(SlotsOf(n)) + 1
      BY <2>1, SlotsFinite, FS_AddElement
    <2>4. QED
      BY <2>2, <2>3, SlotsFinite
  <1>4. QED
    BY <1>1, <1>2, <1>3

LEMMA DropSlot ==
  ASSUME slots \in [1..NSlots -> SlotSet], NEW i \in 1..NSlots, slots[i].ino # Free,
         slots' = [slots EXCEPT ![i] = [ino |-> Free, write |-> FALSE]]
  PROVE  /\ slots' \in [1..NSlots -> SlotSet]
         /\ slots'[i].ino = Free /\ \A s \in 1..NSlots : s # i => slots'[s] = slots[s]
         /\ Cardinality(SlotsOf(slots[i].ino)) > 0
         /\ \A n \in Inodes : Cardinality(SlotsOf(n))' =
              Cardinality(SlotsOf(n)) - IF n = slots[i].ino THEN 1 ELSE 0
  <1>1. slots' \in [1..NSlots -> SlotSet]
    BY DEF SlotSet
  <1>2. slots'[i].ino = Free /\ \A s \in 1..NSlots : s # i => slots'[s] = slots[s]
    OBVIOUS
  <1>3. ASSUME NEW n \in Inodes
        PROVE  /\ Cardinality(SlotsOf(n))' =
                    Cardinality(SlotsOf(n)) - IF n = slots[i].ino THEN 1 ELSE 0
               /\ n = slots[i].ino => Cardinality(SlotsOf(n)) > 0
    <2>1. CASE n = slots[i].ino
      <3>1. i \in SlotsOf(n)
        BY <2>1 DEF SlotsOf
      <3>2. SlotsOf(n)' = SlotsOf(n) \ {i}
        BY <1>2, Sizes DEF SlotsOf
      <3>3. Cardinality(SlotsOf(n) \ {i}) = Cardinality(SlotsOf(n)) - 1
        BY <3>1, SlotsFinite, FS_RemoveElement
      <3>4. Cardinality(SlotsOf(n)) # 0
        BY <3>1, SlotsFinite, FS_EmptySet
      <3>5. QED
        BY <2>1, <3>2, <3>3, <3>4, SlotsFinite
    <2>2. CASE n # slots[i].ino
      <3>1. SlotsOf(n)' = SlotsOf(n)
        BY <1>2, <2>2, Sizes DEF SlotsOf
      <3>2. QED
        BY <2>2, <3>1, SlotsFinite
    <2>3. QED
      BY <2>1, <2>2
  <1>4. slots[i].ino \in Inodes
    BY DEF SlotSet
  <1>5. QED
    BY <1>1, <1>2, <1>3, <1>4

LEMMA Counts ==
  ASSUME KeptInv
  PROVE  \A n \in Inodes :
           /\ fs.mem[n].cnt \in Nat /\ Cardinality(SlotsOf(n)) \in Nat /\ Holds(n) \in {0, 1}
           /\ Cardinality(SlotsOf(n)) + Holds(n) <= fs.mem[n].cnt
  BY SlotsFinite, FsFields DEF KeptInv, TreeTypes, HeldOpen, Holds

\* Nobody has given anything back.
NoFewer(g) == \A n \in Inodes : fs.mem[n].cnt <= g.mem[n].cnt

LEMMA StillHeld ==
  ASSUME KeptInv, NEW g \in FsSet, Result(g), NoFewer(g), UNCHANGED <<slots, handle>>,
         stale' \in BOOLEAN
  PROVE  TreeTypes' /\ HeldOpen'
  <1>1. fs' \in FsSet /\ fs'.bad = "no" /\ panic' = g.bad /\ fs'.mem = g.mem
    BY ResultFacts
  <1>2. TreeTypes'
    BY <1>1, FsFields DEF KeptInv, TreeTypes
  <1>3. \A n \in Inodes : SlotsOf(n)' = SlotsOf(n) /\ Holds(n)' = Holds(n)
    BY DEF SlotsOf, Holds
  <1>4. ASSUME NEW n \in Inodes PROVE Cardinality(SlotsOf(n))' + Holds(n)' <= fs'.mem[n].cnt
    <2>1. fs.mem[n].cnt <= fs'.mem[n].cnt /\ fs'.mem[n].cnt \in Nat
      BY <1>1, FsFields DEF NoFewer
    <2>2. QED
      BY <1>3, <2>1, Counts
  <1>5. HeldOpen'
    BY <1>4 DEF HeldOpen
  <1>6. QED
    BY <1>2, <1>5

LEMMA PanicStep ==
  ASSUME KeptInv, NEW g \in FsSet, Result(g), g.bad # "no", NoFewer(g),
         UNCHANGED <<slots, handle>>, stale' \in BOOLEAN
  PROVE  KeptInv'
  <1>1. panic' # "no"
    BY ResultFacts
  <1>2. QED
    BY <1>1, StillHeld DEF KeptInv, SlotsUsed, EntriesUsed, OK

LEMMA CalmStep ==
  ASSUME KeptInv, OK, NEW g \in FsSet, Result(g), Fewer(g, fs), fs.ibits \subseteq g.ibits,
         NoFewer(g), UNCHANGED <<slots, handle, stale>>
  PROVE  KeptInv'
  <1>1. stale' \in BOOLEAN /\ EntriesIn(fs) /\ EntriesDiffer(fs) /\ FilesAreFiles(fs, slots)
        /\ handle \in fs.ibits \cup {Free}
    BY DEF KeptInv, TreeTypes, EntriesUsed
  <1>2. TreeTypes' /\ HeldOpen'
    BY <1>1, StillHeld
  <1>3. fs'.ibits = g.ibits
    BY ResultFacts
  <1>4. EntriesIn(fs') /\ EntriesDiffer(fs') /\ FilesAreFiles(fs', slots')
    BY <1>1, FewerGood
  <1>5. EntriesUsed'
    BY <1>1, <1>3, <1>4 DEF EntriesUsed
  <1>6. SlotsUsed'
    BY <1>3 DEF KeptInv, SlotsUsed, OK
  <1>7. QED
    BY <1>2, <1>5, <1>6 DEF KeptInv

-----------------------------------------------------------------------------
(* The calls.                                                              *)

LEMMA Running ==
  ASSUME KeptInv, Runs
  PROVE  /\ OK /\ fs \in FsSet /\ fs.bad = "no" /\ slots \in [1..NSlots -> SlotSet]
         /\ DOMAIN slots = 1..NSlots /\ stale \in BOOLEAN /\ stale = FALSE
         /\ EntriesIn(fs) /\ EntriesDiffer(fs) /\ FilesAreFiles(fs, slots)
         /\ handle \in fs.ibits \cup {Free} /\ fs.ibits \subseteq Inodes
         /\ \A s \in 1..NSlots : slots[s].ino # Free => slots[s].ino \in fs.ibits
  BY FsFields DEF KeptInv, TreeTypes, Runs, OK, SlotSet, EntriesUsed, SlotsUsed

\* An entry that was found is one of its directory when that is open.
LEMMA ListedOpen ==
  ASSUME NEW f \in FsSet, NEW p \in Inodes, NEW no,
         \E k \in 0..(Total - 1), i \in 1..PerBlock : \E type : EntryAt(f, p, k, i, no, type)
  PROVE  Listed(inode_open(f, p), p, no)
  <1> DEFINE g == inode_open(f, p)
  <1>1. g.dirb = f.dirb /\ g.tabb = f.tabb /\ g.mem[p].sec = Sec(f, p)
    BY OpenFacts DEF SameDirs
  <1> HIDE DEF g
  <1>2. all_blocks(g, g.mem[p].sec) = all_blocks(f, Sec(f, p))
    BY <1>1 DEF all_blocks
  <1>3. QED
    BY <1>1, <1>2 DEF Listed, EntryAt, g

\* And stays so when another is opened, or the same again.
LEMMA ListedAgain ==
  ASSUME NEW f \in FsSet, NEW p \in Inodes, NEW q \in Inodes, NEW no, Listed(f, p, no),
         f.mem[p].cnt > 0
  PROVE  Listed(inode_open(f, q), p, no)
  <1> DEFINE g == inode_open(f, q)
  <1>1. g.dirb = f.dirb /\ g.tabb = f.tabb /\ g.mem[p].sec = f.mem[p].sec
    BY OpenFacts DEF SameDirs, Sec, IsOpen
  <1> HIDE DEF g
  <1>2. all_blocks(g, g.mem[p].sec) = all_blocks(f, f.mem[p].sec)
    BY <1>1 DEF all_blocks
  <1>3. QED
    BY <1>1, <1>2 DEF Listed, g

LEMMA Searched ==
  ASSUME KeptInv, Runs, NEW path \in Paths
  PROVE  LET r == search_file(fs, path)
         IN /\ r.ino \in Inodes /\ r.parent \in Inodes /\ r.parent \in fs.ibits /\ r.ino \in fs.ibits
            /\ r.type \in {"file", "dir"} =>
                 /\ r.ino # 0
                 /\ \E b \in Blocks, i \in 1..PerBlock :
                      Real(fs.dirb[b][i]) /\ fs.dirb[b][i].ino = r.ino /\ fs.dirb[b][i].type = r.type
                 /\ Listed(inode_open(fs, r.parent), r.parent, r.ino)
  <1> DEFINE r == search_file(fs, path)
  <1>1. fs \in FsSet /\ EntriesIn(fs)
    BY Running
  <1>2. r.ino \in fs.ibits /\ r.parent \in fs.ibits /\ IsFound(fs, r)
    BY <1>1, SearchFacts
  <1> HIDE DEF r
  <1>3. r.ino \in Inodes /\ r.parent \in Inodes
    BY <1>1, <1>2, FsFields
  <1>4. ASSUME r.type \in {"file", "dir"}
        PROVE  /\ r.ino # 0
               /\ \E b \in Blocks, i \in 1..PerBlock :
                    Real(fs.dirb[b][i]) /\ fs.dirb[b][i].ino = r.ino /\ fs.dirb[b][i].type = r.type
               /\ Listed(inode_open(fs, r.parent), r.parent, r.ino)
    <2>1. PICK k \in 0..(Total - 1), i \in 1..PerBlock : EntryAt(fs, r.parent, k, i, r.ino, r.type)
      BY <1>2, <1>4 DEF IsFound
    <2>2. PICK b : b = all_blocks(fs, Sec(fs, r.parent))[k]
      OBVIOUS
    <2>3. b \in Blocks
      <3>1. Sec(fs, r.parent) \in Secs
        BY <1>1, <1>3, FsFields DEF Sec
      <3>2. b \in 0..NBlocks
        BY <1>1, <2>2, <3>1, AllFacts
      <3>3. QED
        BY <2>1, <2>2, <3>2, Sizes DEF EntryAt
    <2>4. Real(fs.dirb[b][i]) /\ fs.dirb[b][i].ino = r.ino /\ fs.dirb[b][i].type = r.type
      BY <2>1, <2>2 DEF EntryAt
    <2>5. Listed(inode_open(fs, r.parent), r.parent, r.ino)
      BY <1>1, <1>3, <2>1, ListedOpen
    <2>6. r.ino # 0
      BY <1>1, <2>3, <2>4 DEF EntriesIn
    <2>7. QED
      BY <2>3, <2>4, <2>5, <2>6
  <1>5. QED
    BY <1>2, <1>3, <1>4 DEF r

LEMMA OpenDir ==
  ASSUME KeptInv, NEW path \in Paths, sys_opendir(path)
  PROVE  KeptInv'
  <1> DEFINE no == search_file(fs, path).ino
             g == inode_open(fs, no)
  <1>1. Runs /\ handle = Free /\ Result(g) /\ handle' = no /\ UNCHANGED <<slots, stale>>
    BY DEF sys_opendir
  <1>2. no \in Inodes /\ no \in fs.ibits
    BY <1>1, Searched
  <1> HIDE DEF no
  <1>3. fs \in FsSet
    BY <1>1, Running
  <1>4. /\ g \in FsSet /\ SameDirs(g, fs) /\ g.mem[no].cnt = fs.mem[no].cnt + 1
        /\ \A n \in Inodes : n # no => g.mem[n] = fs.mem[n]
    BY <1>2, <1>3, OpenFacts
  <1> HIDE DEF g
  <1>5. /\ fs' \in FsSet /\ fs'.bad = "no" /\ panic' = g.bad /\ fs'.mem = g.mem
        /\ fs'.ibits = g.ibits
    BY <1>1, <1>4, ResultFacts
  <1>6. TreeTypes'
    BY <1>1, <1>2, <1>4, <1>5, FsFields DEF KeptInv, TreeTypes
  <1>7. HeldOpen'
    <2>1. ASSUME NEW n \in Inodes PROVE Cardinality(SlotsOf(n))' + Holds(n)' <= fs'.mem[n].cnt
      <3>1. Holds(n) = 0 /\ Holds(n)' = IF n = no THEN 1 ELSE 0
        BY <1>1, Sizes DEF Holds
      <3>2. SlotsOf(n)' = SlotsOf(n)
        BY <1>1 DEF SlotsOf
      <3>3. QED
        BY <1>4, <1>5, <3>1, <3>2, Counts
    <2>2. QED
      BY <2>1 DEF HeldOpen
  <1>8. SlotsUsed' /\ EntriesUsed'
    <2>1. Fewer(g, fs) /\ g.ibits = fs.ibits
      BY <1>4 DEF Fewer, SameDirs
    <2>2. EntriesIn(fs') /\ EntriesDiffer(fs') /\ FilesAreFiles(fs', slots')
      BY <1>1, <1>4, <2>1, Running, FewerGood
    <2>3. QED
      BY <1>1, <1>2, <1>5, <2>1, <2>2, Running DEF SlotsUsed, EntriesUsed
  <1>9. QED
    BY <1>6, <1>7, <1>8 DEF KeptInv

LEMMA CloseDir ==
  ASSUME KeptInv, sys_closedir
  PROVE  KeptInv'
  <1> DEFINE g == inode_close(fs, handle)
  <1>1. Runs /\ handle # Free /\ Result(g) /\ handle' = Free /\ UNCHANGED <<slots, stale>>
    BY DEF sys_closedir
  <1>2. fs \in FsSet /\ handle \in Inodes
    BY <1>1, Running
  <1>3. /\ g \in FsSet /\ SameDirs(g, fs)
        /\ fs.mem[handle].cnt > 0 => g.mem[handle].cnt = fs.mem[handle].cnt - 1
        /\ \A n \in Inodes : n # handle => g.mem[n] = fs.mem[n]
    BY <1>2, CloseFacts
  <1> HIDE DEF g
  <1>5. /\ fs' \in FsSet /\ fs'.bad = "no" /\ panic' = g.bad /\ fs'.mem = g.mem
        /\ fs'.ibits = g.ibits
    BY <1>1, <1>3, ResultFacts
  <1>6. TreeTypes'
    BY <1>1, <1>3, <1>5, FsFields DEF KeptInv, TreeTypes
  <1>7. HeldOpen'
    <2>1. ASSUME NEW n \in Inodes PROVE Cardinality(SlotsOf(n))' + Holds(n)' <= fs'.mem[n].cnt
      <3>1. Holds(n)' = 0 /\ Holds(n) = IF n = handle THEN 1 ELSE 0
        BY <1>1, Sizes DEF Holds
      <3>2. SlotsOf(n)' = SlotsOf(n)
        BY <1>1 DEF SlotsOf
      <3>3. QED
        BY <1>3, <1>5, <3>1, <3>2, Counts
    <2>2. QED
      BY <2>1 DEF HeldOpen
  <1>8. SlotsUsed' /\ EntriesUsed'
    <2>1. Fewer(g, fs) /\ g.ibits = fs.ibits
      BY <1>3 DEF Fewer, SameDirs
    <2>2. EntriesIn(fs') /\ EntriesDiffer(fs') /\ FilesAreFiles(fs', slots')
      BY <1>1, <1>3, <2>1, Running, FewerGood
    <2>3. QED
      BY <1>1, <1>5, <2>1, <2>2, Running DEF SlotsUsed, EntriesUsed
  <1>9. QED
    BY <1>6, <1>7, <1>8 DEF KeptInv

LEMMA SetDeny ==
  ASSUME NEW f \in FsSet, NEW p \in Inodes, NEW d \in BOOLEAN
  PROVE  Inner([f EXCEPT !.mem[p].deny = d], f) /\ SameBits([f EXCEPT !.mem[p].deny = d], f)
  <1> DEFINE m == [f.mem[p] EXCEPT !.deny = d]
  <1>1. f.mem[p] \in MemInodes
    BY FsFields DEF MemInodes
  <1>2. m \in MemInodes /\ m.cnt = f.mem[p].cnt
    BY <1>1 DEF MemInodes
  <1>3. [f EXCEPT !.mem[p].deny = d] = [f EXCEPT !.mem[p] = m]
    OBVIOUS
  <1> HIDE DEF m
  <1>4. QED
    BY <1>2, <1>3, SetMem DEF SameDirs, Inner, SameBits

\* A slot for inode no, which is open once more.
LEMMA TakeStep ==
  ASSUME KeptInv, Runs, NEW g \in FsSet, Result(g), FreeSlots # {}, NEW no \in Inodes,
         NEW w \in BOOLEAN, slots' = [slots EXCEPT ![Min(FreeSlots)] = [ino |-> no, write |-> w]],
         UNCHANGED <<handle, stale>>, fs.ibits \cup {no} \subseteq g.ibits,
         \A n \in Inodes : n # no => fs.mem[n].cnt <= g.mem[n].cnt,
         Cardinality(SlotsOf(no)) + Holds(no) + 1 <= g.mem[no].cnt,
         EntriesIn(fs') /\ EntriesDiffer(fs') /\ FilesAreFiles(fs', slots')
  PROVE  KeptInv'
  <1> DEFINE i == Min(FreeSlots)
  <1>1. /\ fs' \in FsSet /\ fs'.bad = "no" /\ panic' = g.bad /\ fs'.mem = g.mem
        /\ fs'.ibits = g.ibits
    BY ResultFacts
  <1>2. i \in 1..NSlots /\ slots[i].ino = Free
    <2>1. FreeSlots \in SUBSET Nat
      BY Running DEF FreeSlots
    <2>2. i \in FreeSlots
      BY <2>1, LeastNat
    <2>3. QED
      BY <2>2, Running DEF FreeSlots
  <1>3. slots' = [slots EXCEPT ![i] = [ino |-> no, write |-> w]]
    OBVIOUS
  <1> HIDE DEF i
  <1>4. /\ slots' \in [1..NSlots -> SlotSet]
        /\ slots'[i].ino = no /\ \A s \in 1..NSlots : s # i => slots'[s] = slots[s]
        /\ \A n \in Inodes : Cardinality(SlotsOf(n))' =
             Cardinality(SlotsOf(n)) + IF n = no THEN 1 ELSE 0
    BY <1>2, <1>3, Running, TakeSlot
  <1>5. TreeTypes'
    BY <1>1, <1>4, FsFields DEF KeptInv, TreeTypes, SlotSet
  <1>6. HeldOpen'
    <2>1. ASSUME NEW n \in Inodes PROVE Cardinality(SlotsOf(n))' + Holds(n)' <= fs'.mem[n].cnt
      <3>1. Holds(n)' = Holds(n)
        BY DEF Holds
      <3>2. fs'.mem[n].cnt \in Nat
        BY <1>1, FsFields
      <3>3. CASE n = no
        BY <1>1, <1>4, <3>1, <3>2, <3>3, Counts
      <3>4. CASE n # no
        <4>1. Cardinality(SlotsOf(n))' = Cardinality(SlotsOf(n))
          BY <1>4, <3>4, Counts
        <4>2. fs.mem[n].cnt <= fs'.mem[n].cnt
          BY <1>1, <3>4
        <4>3. QED
          BY <3>1, <3>2, <4>1, <4>2, Counts
      <3>5. QED
        BY <3>3, <3>4
    <2>2. QED
      BY <2>1 DEF HeldOpen
  <1>7. SlotsUsed'
    BY <1>1, <1>4, Running DEF SlotsUsed
  <1>8. EntriesUsed'
    BY <1>1, Running DEF EntriesUsed
  <1>9. QED
    BY <1>5, <1>6, <1>7, <1>8 DEF KeptInv

LEMMA OpenFile ==
  ASSUME KeptInv, NEW path \in Paths, NEW write \in BOOLEAN, sys_open(path, write)
  PROVE  KeptInv'
  <1> DEFINE r == search_file(fs, path)
             no == r.ino
             f == IF r.parent = 0 THEN fs ELSE inode_open(fs, r.parent)
             f1 == inode_open(f, no)
             d == f1.mem[no].deny \/ write
             f2 == [f1 EXCEPT !.mem[no].deny = d]
  <1>1. /\ Runs /\ r.type = "file" /\ file_open(f, no, write) /\ UNCHANGED <<handle, stale>>
    BY DEF sys_open
  <1>2. \/ FreeSlots = {} /\ Result(f) /\ UNCHANGED slots
        \/ FreeSlots # {} /\ Result(f1) /\ UNCHANGED slots
        \/ /\ FreeSlots # {} /\ Result(f2)
           /\ slots' = [slots EXCEPT ![Min(FreeSlots)] = [ino |-> no, write |-> write]]
    BY <1>1 DEF file_open
  <1>3. no \in Inodes /\ r.parent \in Inodes /\ no \in fs.ibits
    BY <1>1, Searched
  <1>4. PICK b \in Blocks, i \in 1..PerBlock :
          Real(fs.dirb[b][i]) /\ fs.dirb[b][i].ino = no /\ fs.dirb[b][i].type = "file"
    BY <1>1, Searched
  <1> HIDE DEF r, no
  <1>5. fs \in FsSet /\ OK
    BY <1>1, Running
  <1>6. f \in FsSet /\ SameDirs(f, fs) /\ \A n \in Inodes : fs.mem[n].cnt <= f.mem[n].cnt
    <2>1. CASE r.parent = 0
      <3>1. \A n \in Inodes : fs.mem[n].cnt \in Nat
        BY Counts
      <3>2. QED
        BY <1>5, <2>1, <3>1 DEF SameDirs
    <2>2. CASE r.parent # 0
      <3> DEFINE h == inode_open(fs, r.parent)
      <3>1. /\ h \in FsSet /\ SameDirs(h, fs)
            /\ \A n \in Inodes : n # r.parent => h.mem[n] = fs.mem[n]
            /\ h.mem[r.parent].cnt = fs.mem[r.parent].cnt + 1
        BY <1>3, <1>5, OpenFacts
      <3>2. f = h
        BY <2>2
      <3> HIDE DEF f, h
      <3>3. \A n \in Inodes : fs.mem[n].cnt <= h.mem[n].cnt
        BY <1>3, <3>1, Counts
      <3>4. QED
        BY <3>1, <3>2, <3>3
    <2>3. QED
      BY <2>1, <2>2
  <1> HIDE DEF f
  <1>7. /\ f1 \in FsSet /\ SameDirs(f1, f) /\ f1.mem[no].cnt = f.mem[no].cnt + 1
        /\ \A n \in Inodes : n # no => f1.mem[n] = f.mem[n]
    BY <1>3, <1>6, OpenFacts
  <1> HIDE DEF f1
  <1>8. /\ \A n \in Inodes : fs.mem[n].cnt <= f1.mem[n].cnt
        /\ fs.mem[no].cnt + 1 <= f1.mem[no].cnt
    <2>1. \A n \in Inodes : fs.mem[n].cnt \in Nat /\ f.mem[n].cnt \in Nat
      BY <1>6, Counts, FsFields
    <2>2. QED
      BY <1>3, <1>6, <1>7, <2>1
  <1>9. Inner(f2, f1) /\ SameBits(f2, f1)
    <2>1. d \in BOOLEAN
      BY <1>3, <1>7, FsFields
    <2> HIDE DEF d
    <2>2. QED
      BY <1>3, <1>7, <2>1, SetDeny
  <1> HIDE DEF f2
  <1>10. CASE Result(f) /\ UNCHANGED slots
    BY <1>1, <1>5, <1>6, <1>10, CalmStep DEF SameDirs, NoFewer, Fewer
  <1>11. CASE Result(f1) /\ UNCHANGED slots
    BY <1>1, <1>5, <1>6, <1>7, <1>8, <1>11, CalmStep DEF SameDirs, NoFewer, Fewer
  <1>12. CASE /\ FreeSlots # {} /\ Result(f2)
              /\ slots' = [slots EXCEPT ![Min(FreeSlots)] = [ino |-> no, write |-> write]]
    <2>1. f2 \in FsSet /\ f2.ibits = fs.ibits /\ f2.dirb = fs.dirb
      BY <1>6, <1>7, <1>9 DEF Inner, SameDirs
    <2>2. \A n \in Inodes : fs.mem[n].cnt <= f2.mem[n].cnt
      BY <1>8, <1>9 DEF Inner
    <2>3. Cardinality(SlotsOf(no)) + Holds(no) + 1 <= f2.mem[no].cnt
      <3>1. fs.mem[no].cnt + 1 <= f2.mem[no].cnt /\ f2.mem[no].cnt \in Nat
        BY <1>3, <1>8, <1>9, <2>1, FsFields DEF Inner
      <3>2. QED
        BY <1>3, <3>1, Counts
    <2>4. \A c \in Blocks, j \in 1..PerBlock :
            Real(fs'.dirb[c][j]) => fs'.dirb[c][j] = fs.dirb[c][j]
      BY <1>12, <2>1, ResultFacts
    <2>5. fs'.ibits = fs.ibits
      BY <1>12, <2>1, ResultFacts
    <2>6. EntriesIn(fs)  /\ EntriesDiffer(fs) /\ FilesAreFiles(fs, slots)
      BY <1>1, Running
    <2>7. EntriesIn(fs') /\ EntriesDiffer(fs')
      <3>1. EntriesIn(fs')
        BY <2>4, <2>5, <2>6 DEF EntriesIn
      <3>2. EntriesDiffer(fs')
        BY <2>4, <2>6 DEF EntriesDiffer
      <3>3. QED
        BY <3>1, <3>2
    <2>8. FilesAreFiles(fs', slots')
      <3>1. \A s \in 1..NSlots : slots'[s].ino = slots[s].ino \/ slots'[s].ino = no
        <4>1. slots \in [1..NSlots -> SlotSet]
          BY <1>1, Running
        <4>2. QED
          BY <1>12, <4>1
      <3>2. \A c \in Blocks, j \in 1..PerBlock :
              Real(fs.dirb[c][j]) /\ fs.dirb[c][j].ino = no => fs.dirb[c][j].type = "file"
        BY <1>4, <2>6 DEF EntriesDiffer
      <3>3. QED
        BY <2>4, <2>6, <3>1, <3>2 DEF FilesAreFiles
    <2>9. QED
      BY <1>1, <1>3, <1>12, <2>1, <2>2, <2>3, <2>7, <2>8, TakeStep
  <1>13. QED
    BY <1>2, <1>10, <1>11, <1>12

LEMMA CloseFile ==
  ASSUME KeptInv, NEW i \in DOMAIN slots, sys_close(i)
  PROVE  KeptInv'
  <1> DEFINE no == slots[i].ino
             f == [fs EXCEPT !.mem[no].deny = FALSE]
             g == inode_close(f, no)
  <1>1. /\ Runs /\ no # Free /\ Result(g) /\ UNCHANGED <<handle, stale>>
        /\ slots' = [slots EXCEPT ![i] = [ino |-> Free, write |-> FALSE]]
    BY DEF sys_close
  <1>2. fs \in FsSet /\ i \in 1..NSlots /\ no \in Inodes /\ slots \in [1..NSlots -> SlotSet]
    BY <1>1, Running
  <1>3. /\ slots' \in [1..NSlots -> SlotSet]
        /\ slots'[i].ino = Free /\ \A s \in 1..NSlots : s # i => slots'[s] = slots[s]
        /\ Cardinality(SlotsOf(no)) > 0
        /\ \A n \in Inodes : Cardinality(SlotsOf(n))' =
             Cardinality(SlotsOf(n)) - IF n = no THEN 1 ELSE 0
    BY <1>1, <1>2, DropSlot
  <1> HIDE DEF no
  <1>4. Inner(f, fs) /\ SameBits(f, fs) /\ f \in FsSet
    <2>1. Inner(f, fs) /\ SameBits(f, fs)
      BY <1>2, SetDeny
    <2> HIDE DEF f
    <2>2. QED
      BY <2>1 DEF Inner
  <1> HIDE DEF f
  <1>5. /\ g \in FsSet /\ SameDirs(g, f)
        /\ \A n \in Inodes : n # no => g.mem[n] = f.mem[n]
        /\ f.mem[no].cnt > 0 => g.mem[no].cnt = f.mem[no].cnt - 1
    BY <1>2, <1>4, CloseFacts
  <1> HIDE DEF g
  <1>6. /\ fs' \in FsSet /\ fs'.bad = "no" /\ panic' = g.bad /\ fs'.mem = g.mem
        /\ fs'.ibits = g.ibits
    BY <1>1, <1>5, ResultFacts
  <1>7. TreeTypes'
    BY <1>1, <1>3, <1>5, <1>6, FsFields DEF KeptInv, TreeTypes, SlotSet
  <1>8. HeldOpen'
    <2>1. ASSUME NEW n \in Inodes PROVE Cardinality(SlotsOf(n))' + Holds(n)' <= fs'.mem[n].cnt
      <3>1. Holds(n)' = Holds(n) /\ f.mem[n].cnt = fs.mem[n].cnt
        BY <1>1, <1>4 DEF Holds, Inner
      <3>2. CASE n = no
        <4>1. fs'.mem[n].cnt = fs.mem[n].cnt - 1
          BY <1>3, <1>5, <1>6, <3>1, <3>2, Counts
        <4>2. QED
          BY <1>3, <3>1, <3>2, <4>1, Counts
      <3>3. CASE n # no
        <4>1. fs'.mem[n].cnt = fs.mem[n].cnt
          BY <1>5, <1>6, <3>1, <3>3
        <4>2. Cardinality(SlotsOf(n))' = Cardinality(SlotsOf(n))
          BY <1>3, <3>3, Counts
        <4>3. QED
          BY <3>1, <4>1, <4>2, Counts
      <3>4. QED
        BY <3>2, <3>3
    <2>2. QED
      BY <2>1 DEF HeldOpen
  <1>9. g.ibits = fs.ibits /\ g.dirb = fs.dirb
    BY <1>4, <1>5 DEF Inner, SameDirs
  <1>10. SlotsUsed'
    BY <1>1, <1>3, <1>6, <1>9, Running DEF SlotsUsed
  <1>11. EntriesUsed'
    <2>1. \A c \in Blocks, j \in 1..PerBlock :
            Real(fs'.dirb[c][j]) => fs'.dirb[c][j] = fs.dirb[c][j]
      BY <1>1, <1>5, <1>9, ResultFacts
    <2>2. EntriesIn(fs)  /\ EntriesDiffer(fs) /\ FilesAreFiles(fs, slots)
      BY <1>1, Running
    <2>3. EntriesIn(fs')
      BY <1>6, <1>9, <2>1, <2>2 DEF EntriesIn
    <2>4. EntriesDiffer(fs')
      BY <2>1, <2>2 DEF EntriesDiffer
    <2>5. FilesAreFiles(fs', slots')
      <3>1. \A c \in Blocks, j \in 1..PerBlock : Real(fs'.dirb[c][j]) => fs'.dirb[c][j].ino # Free
        BY <1>6, <2>3, FsFields, Sizes DEF EntriesIn
      <3>2. QED
        BY <1>3, <2>1, <2>2, <3>1 DEF FilesAreFiles
    <2>6. QED
      BY <1>1, <1>6, <1>9, <2>3, <2>4, <2>5, Running DEF EntriesUsed
  <1>12. QED
    BY <1>7, <1>8, <1>10, <1>11 DEF KeptInv

LEMMA WriteFile ==
  ASSUME KeptInv, NEW i \in DOMAIN slots, sys_write(i)
  PROVE  KeptInv'
  <1> DEFINE p  == slots[i].ino
             f0 == block_bitmap_alloc(fs)
             a  == NextBlock(fs)
             x1 == [f0 EXCEPT !.mem[p].sec[0] = a]
             f1 == IF fs.mem[p].sec[0] # 0 THEN fs ELSE IF f0.bad # "no" THEN f0 ELSE x1
             k  == f1.mem[p].size + 1
             f2 == block_bitmap_alloc(f1)
             b  == NextBlock(f1)
             f3 == block_bitmap_alloc(f2)
             c  == NextBlock(f2)
             t  == [EmptyTable EXCEPT ![1] = c]
             y1 == [f2 EXCEPT !.mem[p].sec[k] = b]
             y2 == [f2 EXCEPT !.tabb[f2.mem[p].sec[Direct]][k - Direct + 1] = b]
             z  == [f3 EXCEPT !.mem[p].sec[Direct] = b]
             y3 == [z EXCEPT !.tabb = [f3.tabb EXCEPT ![b] = t]]
             grown == IF k < Direct THEN y1 ELSE IF k > Direct THEN y2 ELSE y3
             y  == [grown EXCEPT !.mem[p].size = @ + 1]
  <1>1. Runs /\ p # Free /\ UNCHANGED <<slots, handle, stale>>
    BY DEF sys_write
  <1>2. \/ Result(fs)
        \/ Result(Fail(f1, "assert"))
        \/ Result(f2)
        \/ Result(f3)
        \/ f2.bad = "no" /\ (k = Direct => f3.bad = "no") /\ Result(inode_sync(y, p))
    <2>1. file_write(i)
      BY DEF sys_write
    <2> DEFINE w == [f3 EXCEPT !.mem[p].sec[Direct] = b, !.tabb[b] = t]
               v == IF k < Direct THEN y1 ELSE IF k > Direct THEN y2 ELSE w
    <2>2. y3 = w
      <3> HIDE DEF f3, b
      <3>1. QED
        OBVIOUS
    <2>3. IF k > Total THEN Result(fs)
          ELSE IF f1.bad = "no" /\ k = Total THEN Result(Fail(f1, "assert"))
          ELSE IF f2.bad # "no" THEN Result(f2)
          ELSE IF k = Direct /\ f3.bad # "no" THEN Result(f3)
          ELSE Result(inode_sync([v EXCEPT !.mem[p].size = @ + 1], p))
      BY <2>1 DEF file_write
    <2>4. v = grown
      <3> HIDE DEF y1, y2, y3, w, k
      <3>1. QED
        BY <2>2
    <2> HIDE DEF v, grown, f1, f2, f3, k, p
    <2>5. QED
      BY <2>3, <2>4
  <1>3. fs \in FsSet /\ p \in Inodes /\ OK
    BY <1>1, Running
  <1> HIDE DEF p
  <1>4. Inner(f1, fs) /\ f1 \in FsSet
    <2>1. Inner(f0, fs) /\ f0 \in FsSet /\ Inner(fs, fs)
      BY <1>3, AllocInner DEF Inner
    <2>2. f0.bad = "no" => a \in Blocks /\ a \in 0..NBlocks
      BY <1>3, BlockFacts, Sizes
    <2> HIDE DEF f0, a
    <2>3. f0.bad = "no" => Inner(x1, fs)
      BY <1>3, <2>1, <2>2, SetSec, InnerTrans
    <2> HIDE DEF x1
    <2>4. Inner(f1, fs)
      BY <2>1, <2>3
    <2>5. QED
      BY <2>4 DEF Inner
  <1> HIDE DEF f1
  <1>5. Inner(f2, f1) /\ Inner(f3, f2) /\ f2 \in FsSet /\ f3 \in FsSet
    BY <1>4, AllocInner DEF Inner
  <1>6. /\ f2.bad = "no" => b \in Blocks /\ b \in 0..NBlocks
        /\ f3.bad = "no" => c \in Blocks /\ c \in 0..NBlocks
    BY <1>4, <1>5, BlockFacts, Sizes
  <1>7. Inner(f2, fs) /\ Inner(f3, fs)
    BY <1>4, <1>5, InnerTrans
  <1>8. f2.mem[p].sec[Direct] \in 0..NBlocks
    <2>1. f2.mem[p].sec \in Secs /\ Direct \in 0..Direct
      BY <1>3, <1>5, FsFields, Sizes
    <2> HIDE DEF f2
    <2>2. QED
      BY <2>1 DEF Secs
  <1>9. f1.mem[p].size \in Int /\ k \in Int
    <2>1. f1.mem[p].size \in Int
      BY <1>3, <1>4, FsFields
    <2>2. QED
      BY <2>1
  <1> HIDE DEF f2, f3, b, c, k
  <1>10. ASSUME f2.bad = "no", k = Direct => f3.bad = "no" PROVE Inner(inode_sync(y, p), fs)
    <2>1. Inner(grown, fs)
      <3>1. CASE k < Direct
        <4>1. Inner(y1, f2)
          BY <1>3, <1>5, <1>6, <1>10, SetSec
        <4>2. grown = y1
          BY <3>1
        <4> HIDE DEF y1, grown
        <4>3. QED
          BY <1>7, <4>1, <4>2, InnerTrans
      <3>2. CASE k > Direct
        <4>1. Inner(y2, f2)
          BY <1>5, <1>6, <1>8, <1>10, SetPlace
        <4>2. grown = y2
          BY <1>9, <3>2, Sizes
        <4> HIDE DEF y2, grown
        <4>3. QED
          BY <1>7, <4>1, <4>2, InnerTrans
      <3>3. CASE k = Direct
        <4>1. grown = y3
          BY <3>3, Sizes
        <4>2. Inner(z, f3)
          BY <1>3, <1>5, <1>6, <1>10, SetSec
        <4>3. t \in [1..Indirect -> 0..NBlocks]
          BY <1>6, <1>10, <3>3, Empties
        <4> HIDE DEF z, t
        <4>4. z \in FsSet
          BY <4>2 DEF Inner
        <4>5. [f3.tabb EXCEPT ![b] = t] \in [Blocks -> [1..Indirect -> 0..NBlocks]]
          BY <1>5, <4>3, FsFields
        <4>6. Inner(y3, z)
          BY <4>4, <4>5, SetTabb DEF Inner
        <4> HIDE DEF y3, grown
        <4>7. QED
          BY <1>7, <4>1, <4>2, <4>6, InnerTrans
      <3>4. QED
        BY <1>9, <3>1, <3>2, <3>3, Sizes
    <2> HIDE DEF grown
    <2>2. grown \in FsSet
      BY <2>1 DEF Inner
    <2>3. Inner(y, grown)
      BY <1>3, <2>2, SetSize
    <2> HIDE DEF y
    <2>4. Inner(y, fs) /\ y \in FsSet
      BY <2>1, <2>3, InnerTrans DEF Inner
    <2>5. Inner(inode_sync(y, p), y)
      BY <1>3, <2>4, SyncFacts DEF Inner, SameDirs
    <2>6. QED
      BY <2>4, <2>5, InnerTrans
  <1>11. \E g : Inner(g, fs) /\ Result(g)
    <2>1. Inner(fs, fs)
      BY <1>3 DEF Inner
    <2>2. Inner(Fail(f1, "assert"), fs)
      <3>1. Failed(Fail(f1, "assert"), f1)
        BY <1>4, FailFacts
      <3>2. Inner(Fail(f1, "assert"), f1)
        BY <3>1 DEF Failed, Inner
      <3>3. QED
        BY <1>4, <3>2, InnerTrans
    <2> HIDE DEF y
    <2>3. QED
      BY <1>2, <1>7, <1>10, <2>1, <2>2
  <1>12. PICK g : Inner(g, fs) /\ Result(g)
    BY <1>11
  <1>13. g \in FsSet /\ Fewer(g, fs) /\ fs.ibits \subseteq g.ibits /\ NoFewer(g)
    <2>1. g \in FsSet /\ Fewer(g, fs) /\ fs.ibits \subseteq g.ibits
      BY <1>12 DEF Inner, Fewer
    <2>2. NoFewer(g)
      BY <1>12, Counts DEF Inner, NoFewer
    <2>3. QED
      BY <2>1, <2>2
  <1>14. QED
    BY <1>1, <1>3, <1>12, <1>13, CalmStep

LEMMA OpenCounts ==
  ASSUME NEW f \in FsSet, NEW no \in Inodes
  PROVE  LET g == inode_open(f, no)
         IN /\ g \in FsSet /\ SameDirs(g, f)
            /\ \A n \in Inodes : /\ f.mem[n].cnt \in Nat
                                 /\ g.mem[n].cnt = f.mem[n].cnt + IF n = no THEN 1 ELSE 0
  <1> DEFINE g == inode_open(f, no)
  <1>1. /\ g \in FsSet /\ SameDirs(g, f) /\ g.mem[no].cnt = f.mem[no].cnt + 1
        /\ \A n \in Inodes : n # no => g.mem[n] = f.mem[n]
    BY OpenFacts
  <1> HIDE DEF g
  <1>2. \A n \in Inodes : f.mem[n].cnt \in Nat
    BY FsFields
  <1>3. \A n \in Inodes : g.mem[n].cnt = f.mem[n].cnt + IF n = no THEN 1 ELSE 0
    BY <1>1, <1>2
  <1>4. QED
    BY <1>1, <1>2, <1>3 DEF g

LEMMA CloseCounts ==
  ASSUME NEW f \in FsSet, NEW no \in Inodes, f.mem[no].cnt > 0
  PROVE  LET g == inode_close(f, no)
         IN /\ g \in FsSet /\ SameDirs(g, f)
            /\ \A n \in Inodes : /\ f.mem[n].cnt \in Nat
                                 /\ g.mem[n].cnt = f.mem[n].cnt - IF n = no THEN 1 ELSE 0
  <1> DEFINE g == inode_close(f, no)
  <1>1. /\ g \in FsSet /\ SameDirs(g, f) /\ g.mem[no].cnt = f.mem[no].cnt - 1
        /\ \A n \in Inodes : n # no => g.mem[n] = f.mem[n]
    BY CloseFacts
  <1> HIDE DEF g
  <1>2. \A n \in Inodes : f.mem[n].cnt \in Nat
    BY FsFields
  <1>3. \A n \in Inodes : g.mem[n].cnt = f.mem[n].cnt - IF n = no THEN 1 ELSE 0
    BY <1>1, <1>2
  <1>4. QED
    BY <1>1, <1>2, <1>3 DEF g

LEMMA CreateFile ==
  ASSUME KeptInv, NEW path \in Paths, sys_open_create(path)
  PROVE  KeptInv'
  <1> DEFINE p  == search_file(fs, path).parent
             f0 == inode_open(fs, p)
             f1 == inode_bitmap_alloc(f0)
             no == NextInode(fs)
             e  == [name |-> path[Len(path)], ino |-> no, type |-> "file"]
             f2 == sync_dir_entry(f1, p, e)
             h  == inode_sync(f2, p)
             f3 == Synced(h, no, 0, NoBlocks)
             m  == Opened(ZeroInode)
             f4 == [f3 EXCEPT !.mem[no] = m]
             g  == inode_close(f4, p)
  <1>1. Runs /\ UNCHANGED <<handle, stale>> /\ file_create(path)
    BY DEF sys_open_create
  <1>2. IF f1.bad # "no" THEN Result(f1) /\ UNCHANGED slots
        ELSE IF FreeSlots = {} \/ DirFull(f1, p) THEN Result(fs) /\ UNCHANGED slots
        ELSE IF f2.bad # "no" THEN Result(f2) /\ UNCHANGED slots
        ELSE /\ Result(g)
             /\ slots' = [slots EXCEPT ![Min(FreeSlots)] = [ino |-> no, write |-> TRUE]]
    BY <1>1 DEF file_create
  <1>3. p \in Inodes /\ p \in fs.ibits
    BY <1>1, Searched
  <1>4. fs \in FsSet /\ fs.bad = "no" /\ OK /\ stale \in BOOLEAN
    BY <1>1, Running
  <1> HIDE DEF p
  <1>5. /\ f0 \in FsSet /\ SameDirs(f0, fs)
        /\ \A n \in Inodes : /\ fs.mem[n].cnt \in Nat
                             /\ f0.mem[n].cnt = fs.mem[n].cnt + IF n = p THEN 1 ELSE 0
    BY <1>3, <1>4, OpenCounts
  <1>6. NextInode(f0) = no
    BY <1>5 DEF NextInode, SameDirs
  <1> HIDE DEF f0
  <1>7. /\ f1 \in FsSet /\ f1.dirb = fs.dirb /\ f1.mem = f0.mem
        /\ f1.bad = "no" => no \in Inodes \ fs.ibits /\ f1.ibits = fs.ibits \cup {no}
    <2>1. f0.bad = "no" /\ f0.ibits = fs.ibits /\ f0.dirb = fs.dirb
      BY <1>4, <1>5 DEF SameDirs
    <2> HIDE DEF no
    <2>2. QED
      BY <1>5, <1>6, <2>1, InodeFacts
  <1> HIDE DEF f1, no
  <1>8. NoFewer(f1)
    BY <1>5, <1>7 DEF NoFewer
  <1>9. CASE f1.bad # "no"
    BY <1>1, <1>2, <1>4, <1>7, <1>8, <1>9, PanicStep
  <1>10. CASE f1.bad = "no" /\ (FreeSlots = {} \/ DirFull(f1, p))
    <2>1. Result(fs) /\ UNCHANGED slots
      BY <1>2, <1>10
    <2>2. Fewer(fs, fs) /\ NoFewer(fs)
      BY <1>5 DEF Fewer, NoFewer
    <2>3. QED
      BY <1>1, <1>4, <2>1, <2>2, CalmStep
  <1>11. CASE f1.bad = "no" /\ FreeSlots # {} /\ ~DirFull(f1, p)
    <2>1. no \in Inodes \ fs.ibits /\ f1.ibits = fs.ibits \cup {no} /\ no # p /\ no \in Inodes
      BY <1>3, <1>7, <1>11
    <2>2. e \in DirEntries /\ e.ino = no /\ e.type = "file"
      BY <2>1, PathFacts DEF DirEntries, Words, Types
    <2> HIDE DEF e
    <2>3. Adds(f2, f1, e)
      BY <1>3, <1>7, <1>11, <2>2, SyncEntryFacts
    <2> HIDE DEF f2
    <2>4. f2 \in FsSet /\ f2.ibits = f1.ibits /\ \A n \in Inodes : f2.mem[n].cnt = f1.mem[n].cnt
      BY <2>3 DEF Adds
    <2>5. CASE f2.bad # "no"
      <3>1. NoFewer(f2)
        BY <1>8, <2>4 DEF NoFewer
      <3>2. Result(f2) /\ UNCHANGED slots
        BY <1>2, <1>11, <2>5
      <3>3. QED
        BY <1>1, <1>4, <2>4, <2>5, <3>1, <3>2, PanicStep
    <2>6. CASE f2.bad = "no"
      <3>1. Result(g) /\ slots' = [slots EXCEPT ![Min(FreeSlots)] = [ino |-> no, write |-> TRUE]]
        BY <1>2, <1>11, <2>6
      <3>2. h \in FsSet /\ SameDirs(h, f2) /\ h.mem = f2.mem
        BY <1>3, <2>4, SyncFacts
      <3> HIDE DEF h
      <3>3. f3 \in FsSet /\ SameDirs(f3, h) /\ f3.mem = h.mem
        BY <2>1, <3>2, SyncedFacts, Empties
      <3> HIDE DEF f3
      <3>4. m \in MemInodes /\ m.cnt = 1
        BY Empties DEF MemInodes, Opened, ZeroInode
      <3> HIDE DEF m
      <3>5. /\ f4 \in FsSet /\ SameDirs(f4, f3)
            /\ \A n \in Inodes : f4.mem[n] = IF n = no THEN m ELSE f3.mem[n]
        BY <2>1, <3>3, <3>4, SetMem
      <3> HIDE DEF f4
      <3>6. \A n \in Inodes : f4.mem[n].cnt = IF n = no THEN 1
                                              ELSE fs.mem[n].cnt + IF n = p THEN 1 ELSE 0
        BY <1>5, <1>7, <2>4, <3>2, <3>3, <3>4, <3>5
      <3>7. f4.mem[p].cnt > 0
        BY <1>3, <1>5, <2>1, <3>6
      <3>8. /\ g \in FsSet /\ SameDirs(g, f4)
            /\ \A n \in Inodes : /\ f4.mem[n].cnt \in Nat
                                 /\ g.mem[n].cnt = f4.mem[n].cnt - IF n = p THEN 1 ELSE 0
        BY <1>3, <3>5, <3>7, CloseCounts
      <3> HIDE DEF g
      <3>9. \A n \in Inodes : g.mem[n].cnt = IF n = no THEN 1 ELSE fs.mem[n].cnt
        BY <1>5, <2>1, <3>6, <3>8
      <3>10. g.dirb = f2.dirb /\ g.ibits = fs.ibits \cup {no}
        BY <2>1, <2>4, <3>2, <3>3, <3>5, <3>8 DEF SameDirs
      <3>11. \A s \in 1..NSlots : slots[s].ino # no
        BY <1>1, <2>1, Running, Sizes
      <3>12. Cardinality(SlotsOf(no)) = 0 /\ Holds(no) = 0
        <4>1. SlotsOf(no) = {}
          BY <3>11 DEF SlotsOf
        <4>2. handle # no
          BY <1>1, <2>1, Running, Sizes
        <4>3. QED
          BY <4>1, <4>2, FS_EmptySet DEF Holds
      <3>13. EntriesIn(fs') /\ EntriesDiffer(fs') /\ FilesAreFiles(fs', slots')
        <4>1. Fewer(f1, fs)
          BY <1>7 DEF Fewer
        <4>2. \A s \in 1..NSlots : slots'[s].ino # slots[s].ino => slots'[s].ino = no
          <5>1. slots \in [1..NSlots -> SlotSet]
            BY <1>1, Running
          <5>2. QED
            BY <3>1, <5>1
        <4>3. EntriesIn(fs) /\ EntriesDiffer(fs) /\ FilesAreFiles(fs, slots)
          BY <1>1, Running
        <4>4. QED
          BY <2>1, <2>2, <2>3, <3>1, <3>8, <3>10, <3>11, <4>1, <4>2, <4>3, AddsGood
      <3>14. /\ fs.ibits \cup {no} \subseteq g.ibits
             /\ \A n \in Inodes : n # no => fs.mem[n].cnt <= g.mem[n].cnt
             /\ Cardinality(SlotsOf(no)) + Holds(no) + 1 <= g.mem[no].cnt
        BY <1>5, <2>1, <3>9, <3>10, <3>12
      <3>15. QED
        BY <1>1, <1>11, <2>1, <3>1, <3>8, <3>13, <3>14, TakeStep
    <2>7. QED
      BY <2>5, <2>6
  <1>12. QED
    BY <1>9, <1>10, <1>11

LEMMA MakeDir ==
  ASSUME KeptInv, NEW path \in Paths, sys_mkdir(path)
  PROVE  KeptInv'
  <1> DEFINE p  == search_file(fs, path).parent
             no == NextInode(fs)
             b  == NextBlock(fs)
             f0 == inode_open(fs, p)
             h  == inode_bitmap_alloc(f0)
             f1 == block_bitmap_alloc(h)
             f2 == [f1 EXCEPT !.dirb[b] = Dots(no, p)]
             e  == [name |-> path[Len(path)], ino |-> no, type |-> "dir"]
             f3 == sync_dir_entry(f2, p, e)
             sec == [NoBlocks EXCEPT ![0] = b]
             s3 == inode_sync(f3, p)
             f4 == Synced(s3, no, 2, sec)
             x  == [f2 EXCEPT !.ibits = f2.ibits \ {no}]
             y  == [x EXCEPT !.leaked = f2.leaked \cup {b}]
  <1>1. /\ Runs /\ UNCHANGED <<slots, handle, stale>>
        /\ Result(IF f1.bad # "no" THEN f1
                  ELSE IF DirFull(f2, p) THEN inode_close(y, p)
                  ELSE IF f3.bad # "no" THEN f3 ELSE inode_close(f4, p))
    BY DEF sys_mkdir
  <1>3. p \in Inodes /\ p \in fs.ibits
    BY <1>1, Searched
  <1>4. fs \in FsSet /\ fs.bad = "no" /\ OK /\ stale \in BOOLEAN
    BY <1>1, Running
  <1> HIDE DEF p
  <1>5. /\ f0 \in FsSet /\ SameDirs(f0, fs)
        /\ \A n \in Inodes : /\ fs.mem[n].cnt \in Nat
                             /\ f0.mem[n].cnt = fs.mem[n].cnt + IF n = p THEN 1 ELSE 0
    BY <1>3, <1>4, OpenCounts
  <1>6. NextInode(f0) = no
    BY <1>5 DEF NextInode, SameDirs
  <1> HIDE DEF f0
  <1>7. /\ h \in FsSet /\ h.dirb = fs.dirb /\ h.mem = f0.mem /\ h.bbits = fs.bbits
        /\ h.bad = "no" => no \in Inodes \ fs.ibits /\ h.ibits = fs.ibits \cup {no}
    <2>1. f0.bad = "no" /\ f0.ibits = fs.ibits /\ f0.dirb = fs.dirb /\ f0.bbits = fs.bbits
      BY <1>4, <1>5 DEF SameDirs
    <2> HIDE DEF no
    <2>2. QED
      BY <1>5, <1>6, <2>1, InodeFacts
  <1>8. NextBlock(h) = b
    BY <1>7 DEF NextBlock
  <1> HIDE DEF h, no, b
  <1>9. /\ f1 \in FsSet /\ f1.dirb = fs.dirb /\ f1.mem = f0.mem /\ f1.ibits = h.ibits
        /\ f1.bad = "no" => h.bad = "no" /\ b \in Blocks
    BY <1>7, <1>8, BlockFacts
  <1> HIDE DEF f1
  <1>10. NoFewer(f1)
    BY <1>5, <1>9 DEF NoFewer
  <1>11. CASE f1.bad # "no"
    BY <1>1, <1>4, <1>9, <1>10, <1>11, PanicStep
  <1>12. CASE f1.bad = "no"
    <2>1. /\ no \in Inodes \ fs.ibits /\ f1.ibits = fs.ibits \cup {no} /\ no \in Inodes
          /\ b \in Blocks /\ b \in 0..NBlocks
      BY <1>7, <1>9, <1>12, Sizes
    <2>2. /\ Dots(no, p) \in [1..PerBlock -> DirEntries]
          /\ \A i \in 1..PerBlock : ~Real(Dots(no, p)[i])
      BY <1>3, <2>1, DotsFacts
    <2>3. /\ f2 \in FsSet /\ f2.ibits = f1.ibits /\ f2.mem = f1.mem
          /\ \A c \in Blocks : f2.dirb[c] = IF c = b THEN Dots(no, p) ELSE f1.dirb[c]
      BY <1>9, <2>1, <2>2, SetDirb
    <2> HIDE DEF f2
    <2>4. Fewer(f2, fs)
      BY <1>9, <2>2, <2>3 DEF Fewer
    <2>5. \A n \in Inodes : f2.mem[n].cnt = fs.mem[n].cnt + IF n = p THEN 1 ELSE 0
      BY <1>5, <1>9, <2>3
    <2>6. CASE DirFull(f2, p)
      <3>1. Result(inode_close(y, p))
        BY <1>1, <1>12, <2>6
      <3>2. x \in FsSet /\ x.ibits = f2.ibits \ {no} /\ x.dirb = f2.dirb /\ x.mem = f2.mem
        <4>1. f2.ibits \ {no} \in SUBSET Inodes
          BY <2>3, FsFields
        <4>2. QED
          BY <2>3, <4>1, SetIbits
      <3> HIDE DEF x
      <3>3. y \in FsSet /\ y.ibits = x.ibits /\ y.dirb = x.dirb /\ y.mem = x.mem
        <4>1. f2.leaked \cup {b} \in SUBSET Blocks
          BY <2>1, <2>3, FsFields
        <4>2. QED
          BY <3>2, <4>1, SetLeaked
      <3> HIDE DEF y
      <3> DEFINE g == inode_close(y, p)
      <3>4. y.mem[p].cnt > 0
        BY <1>3, <1>5, <2>5, <3>2, <3>3
      <3>5. /\ g \in FsSet /\ SameDirs(g, y)
            /\ \A n \in Inodes : /\ y.mem[n].cnt \in Nat
                                 /\ g.mem[n].cnt = y.mem[n].cnt - IF n = p THEN 1 ELSE 0
        BY <1>3, <3>3, <3>4, CloseCounts
      <3> HIDE DEF g
      <3>6. NoFewer(g)
        <4>1. \A n \in Inodes : g.mem[n].cnt = fs.mem[n].cnt
          BY <1>5, <2>5, <3>2, <3>3, <3>5
        <4>2. QED
          BY <1>5, <4>1 DEF NoFewer
      <3>7. fs.ibits \subseteq g.ibits /\ Fewer(g, fs)
        <4>1. g.ibits = fs.ibits /\ g.dirb = f2.dirb
          BY <2>1, <2>3, <3>2, <3>3, <3>5 DEF SameDirs
        <4>2. QED
          BY <2>4, <4>1 DEF Fewer
      <3>8. Result(g)
        BY <3>1 DEF g
      <3>9. QED
        BY <1>1, <1>4, <3>5, <3>6, <3>7, <3>8, CalmStep
    <2>7. CASE ~DirFull(f2, p)
      <3>1. e \in DirEntries /\ e.ino = no
        BY <2>1, PathFacts DEF DirEntries, Words, Types
      <3> HIDE DEF e
      <3>2. Adds(f3, f2, e)
        BY <1>3, <2>3, <2>7, <3>1, SyncEntryFacts
      <3> HIDE DEF f3
      <3>3. f3 \in FsSet /\ f3.ibits = f2.ibits /\ \A n \in Inodes : f3.mem[n].cnt = f2.mem[n].cnt
        BY <3>2 DEF Adds
      <3>4. CASE f3.bad # "no"
        <4>1. Result(f3)
          BY <1>1, <1>12, <2>7, <3>4
        <4>2. NoFewer(f3)
          BY <1>5, <2>5, <3>3 DEF NoFewer
        <4>3. QED
          BY <1>1, <1>4, <3>3, <3>4, <4>1, <4>2, PanicStep
      <3>5. CASE f3.bad = "no"
        <4> DEFINE g == inode_close(f4, p)
        <4>1. Result(g)
          BY <1>1, <1>12, <2>7, <3>5
        <4>2. s3 \in FsSet /\ SameDirs(s3, f3) /\ s3.mem = f3.mem
          BY <1>3, <3>3, SyncFacts
        <4> HIDE DEF s3
        <4>3. sec \in Secs
          BY <2>1, Empties DEF Secs
        <4> HIDE DEF sec
        <4>4. f4 \in FsSet /\ SameDirs(f4, s3) /\ f4.mem = s3.mem
          BY <2>1, <4>2, <4>3, SyncedFacts
        <4> HIDE DEF f4
        <4>5. f4.mem[p].cnt > 0
          BY <1>3, <1>5, <2>5, <3>3, <4>2, <4>4
        <4>6. /\ g \in FsSet /\ SameDirs(g, f4)
              /\ \A n \in Inodes : /\ f4.mem[n].cnt \in Nat
                                   /\ g.mem[n].cnt = f4.mem[n].cnt - IF n = p THEN 1 ELSE 0
          BY <1>3, <4>4, <4>5, CloseCounts
        <4> HIDE DEF g
        <4>7. NoFewer(g)
          <5>1. \A n \in Inodes : g.mem[n].cnt = fs.mem[n].cnt
            BY <1>5, <2>5, <3>3, <4>2, <4>4, <4>6
          <5>2. QED
            BY <1>5, <5>1 DEF NoFewer
        <4>8. g.dirb = f3.dirb /\ g.ibits = fs.ibits \cup {no}
          BY <2>1, <2>3, <3>3, <4>2, <4>4, <4>6 DEF SameDirs
        <4>9. \A s \in 1..NSlots : slots[s].ino # no /\ slots'[s].ino = slots[s].ino
          BY <1>1, <2>1, Running, Sizes
        <4>10. EntriesIn(fs) /\ EntriesDiffer(fs) /\ FilesAreFiles(fs, slots)
               /\ handle \in fs.ibits \cup {Free}
          BY <1>1, Running
        <4>11. EntriesIn(fs') /\ EntriesDiffer(fs') /\ FilesAreFiles(fs', slots')
          BY <2>1, <2>4, <3>1, <3>2, <4>1, <4>6, <4>8, <4>9, <4>10, AddsGood
        <4>12. TreeTypes' /\ HeldOpen'
          BY <1>1, <1>4, <4>1, <4>6, <4>7, StillHeld
        <4>13. fs'.ibits = fs.ibits \cup {no}
          BY <4>1, <4>6, <4>8, ResultFacts
        <4>14. SlotsUsed'
          BY <1>1, <4>13, Running DEF SlotsUsed
        <4>15. EntriesUsed'
          BY <1>1, <4>10, <4>11, <4>13 DEF EntriesUsed
        <4>16. QED
          BY <4>12, <4>14, <4>15 DEF KeptInv
      <3>6. QED
        BY <3>4, <3>5
    <2>8. QED
      BY <2>6, <2>7
  <1>13. QED
    BY <1>11, <1>12

\* Inode no, which no slot has, is gone with its entry.
LEMMA GoneStep ==
  ASSUME KeptInv, Runs, NEW g \in FsSet, Result(g), NEW no \in Inodes, no # 0,
         Gone(g, fs, no), g.ibits = fs.ibits \ {no},
         \A n \in Inodes : g.mem[n].cnt = fs.mem[n].cnt,
         \A s \in 1..NSlots : slots[s].ino # no,
         UNCHANGED <<slots, handle>>, stale' = (g.mem[no].cnt > 0)
  PROVE  KeptInv'
  <1>1. NoFewer(g) /\ stale' \in BOOLEAN
    BY Counts DEF NoFewer
  <1>2. TreeTypes' /\ HeldOpen'
    BY <1>1, StillHeld
  <1>3. fs'.ibits = fs.ibits \ {no}
    BY ResultFacts
  <1>4. SlotsUsed'
    BY <1>3, Running DEF SlotsUsed
  <1>5. EntriesIn(fs') /\ EntriesDiffer(fs') /\ FilesAreFiles(fs', slots')
    BY Running, GoneGood
  <1>6. OK' => handle' # no
    <2>1. handle = no => Holds(no) = 1
      BY DEF Holds
    <2>2. OK' => fs.mem[no].cnt = 0
      <3>1. OK' => ~(g.mem[no].cnt > 0)
        BY DEF OK
      <3>2. g.mem[no].cnt = fs.mem[no].cnt /\ fs.mem[no].cnt \in Nat
        BY Counts
      <3>3. QED
        BY <3>1, <3>2
    <2>3. Holds(no) = 1 => fs.mem[no].cnt # 0
      BY Counts
    <2>4. QED
      BY <2>1, <2>2, <2>3
  <1>7. EntriesUsed'
    BY <1>3, <1>5, <1>6, Running DEF EntriesUsed
  <1>8. QED
    BY <1>2, <1>4, <1>7 DEF KeptInv

LEMMA UnlinkFile ==
  ASSUME KeptInv, NEW path \in Paths, sys_unlink(path)
  PROVE  KeptInv'
  <1> DEFINE r  == search_file(fs, path)
             p  == r.parent
             no == r.ino
             f0 == inode_open(fs, p)
             f1 == delete_dir_entry(f0, p, no)
             h  == inode_release(f1, no)
             f2 == inode_close(h, p)
  <1>1. /\ Runs /\ r.type = "file" /\ ~InUse(no) /\ Result(IF f1.bad # "no" THEN f1 ELSE f2)
        /\ stale' = (f2.mem[no].cnt > 0) /\ UNCHANGED <<slots, handle>>
    BY DEF sys_unlink, StillOpen, IsOpen
  <1>2. p \in Inodes /\ no \in Inodes /\ no # 0 /\ Listed(f0, p, no)
    BY <1>1, Searched
  <1>3. fs \in FsSet /\ fs.bad = "no" /\ EntriesDiffer(fs) /\ DOMAIN slots = 1..NSlots
    BY <1>1, Running
  <1> HIDE DEF r, p, no
  <1>4. /\ f0 \in FsSet /\ SameDirs(f0, fs)
        /\ \A n \in Inodes : /\ fs.mem[n].cnt \in Nat
                             /\ f0.mem[n].cnt = fs.mem[n].cnt + IF n = p THEN 1 ELSE 0
    BY <1>2, <1>3, OpenCounts
  <1> HIDE DEF f0
  <1>5. EntriesDiffer(f0)
    BY <1>3, <1>4 DEF EntriesDiffer, SameDirs
  <1>6. /\ f1 \in FsSet /\ f1.ibits = f0.ibits
        /\ \A n \in Inodes : f1.mem[n].cnt = f0.mem[n].cnt
        /\ f1.bad = "no" => Gone(f1, f0, no)
    BY <1>2, <1>4, <1>5, DeleteFacts
  <1> HIDE DEF f1
  <1>7. /\ h \in FsSet /\ h.ibits = f1.ibits \ {no} /\ h.bbits \subseteq f1.bbits
        /\ h.dirb = f1.dirb /\ \A n \in Inodes : h.mem[n].cnt = f1.mem[n].cnt
    <2>1. f1 \in FsSet
      BY <1>6
    <2>2. QED
      BY <1>2, <2>1, ReleaseFacts
  <1> HIDE DEF h
  <1>8. h.mem[p].cnt > 0
    BY <1>2, <1>4, <1>6, <1>7
  <1>9. /\ f2 \in FsSet /\ SameDirs(f2, h)
        /\ \A n \in Inodes : /\ h.mem[n].cnt \in Nat
                             /\ f2.mem[n].cnt = h.mem[n].cnt - IF n = p THEN 1 ELSE 0
    <2>1. h \in FsSet
      BY <1>7
    <2>2. QED
      BY <1>2, <1>8, <2>1, CloseCounts
  <1> HIDE DEF f2
  <1>10. \A n \in Inodes : f2.mem[n].cnt = fs.mem[n].cnt
    BY <1>4, <1>6, <1>7, <1>9
  <1>11. CASE f1.bad # "no"
    <2>1. NoFewer(f1)
      BY <1>4, <1>6 DEF NoFewer
    <2>2. stale' \in BOOLEAN
      BY <1>1, <1>2, <1>4, <1>10
    <2>3. QED
      BY <1>1, <1>6, <1>11, <2>1, <2>2, PanicStep
  <1>12. CASE f1.bad = "no"
    <2>1. Gone(f2, fs, no)
      <3>1. f0.dirb = fs.dirb /\ f2.dirb = f1.dirb /\ f2.bbits \subseteq f1.bbits
        BY <1>4, <1>7, <1>9 DEF SameDirs
      <3>2. QED
        BY <1>6, <1>12, <3>1 DEF Gone
    <2>2. f2.ibits = fs.ibits \ {no}
      BY <1>4, <1>6, <1>7, <1>9 DEF SameDirs
    <2>3. \A s \in 1..NSlots : slots[s].ino # no
      BY <1>1, <1>3 DEF InUse
    <2>4. Result(f2)
      BY <1>1, <1>12
    <2>5. QED
      BY <1>1, <1>2, <1>9, <1>10, <2>1, <2>2, <2>3, <2>4, GoneStep
  <1>13. QED
    BY <1>11, <1>12

LEMMA RemoveDir ==
  ASSUME KeptInv, NEW path \in Paths, sys_rmdir(path)
  PROVE  KeptInv'
  <1> DEFINE r   == search_file(fs, path)
             par == r.parent
             p   == r.ino
             f1  == inode_open(fs, par)
             f2  == inode_open(f1, p)
             f3  == dir_remove(f2, par, p)
             h   == inode_close(f3, p)
             f4  == inode_close(h, par)
  <1>1. /\ Runs /\ r.type = "dir" /\ Result(IF f3.bad # "no" THEN f3 ELSE f4)
        /\ stale' = (f3.bad = "no" /\ f4.mem[p].cnt > 0) /\ UNCHANGED <<slots, handle>>
    BY DEF sys_rmdir, StillOpen, IsOpen
  <1>2. par \in Inodes /\ p \in Inodes /\ p # 0 /\ Listed(f1, par, p)
    BY <1>1, Searched
  <1>3. PICK b \in Blocks, i \in 1..PerBlock :
          Real(fs.dirb[b][i]) /\ fs.dirb[b][i].ino = p /\ fs.dirb[b][i].type = "dir"
    BY <1>1, Searched
  <1>4. fs \in FsSet /\ fs.bad = "no" /\ EntriesDiffer(fs) /\ FilesAreFiles(fs, slots)
    BY <1>1, Running
  <1> HIDE DEF r, p, par
  <1>5. /\ f1 \in FsSet /\ SameDirs(f1, fs)
        /\ \A n \in Inodes : /\ fs.mem[n].cnt \in Nat
                             /\ f1.mem[n].cnt = fs.mem[n].cnt + IF n = par THEN 1 ELSE 0
    BY <1>2, <1>4, OpenCounts
  <1> HIDE DEF f1
  <1>6. /\ f2 \in FsSet /\ SameDirs(f2, f1)
        /\ \A n \in Inodes : /\ f1.mem[n].cnt \in Nat
                             /\ f2.mem[n].cnt = f1.mem[n].cnt + IF n = p THEN 1 ELSE 0
    <2>1. f1 \in FsSet
      BY <1>5
    <2>2. QED
      BY <1>2, <2>1, OpenCounts
  <1>7. Listed(f2, par, p) /\ EntriesDiffer(f2)
    <2>1. f1.mem[par].cnt > 0 /\ f1 \in FsSet
      BY <1>2, <1>5
    <2>2. Listed(f2, par, p)
      BY <1>2, <2>1, ListedAgain
    <2> HIDE DEF f2
    <2>3. f2.dirb = fs.dirb
      BY <1>5, <1>6 DEF SameDirs
    <2>4. EntriesDiffer(f2)
      BY <1>4, <2>3 DEF EntriesDiffer
    <2>5. QED
      BY <2>2, <2>4
  <1> HIDE DEF f2
  <1>8. /\ f3 \in FsSet
        /\ \A n \in Inodes : f3.mem[n].cnt = f2.mem[n].cnt
        /\ f3.bad = "no" => Gone(f3, f2, p) /\ f3.ibits = f2.ibits \ {p}
    <2>1. f2 \in FsSet
      BY <1>6
    <2>2. QED
      BY <1>2, <1>7, <2>1, RemoveFacts
  <1> HIDE DEF f3
  <1>9. \A n \in Inodes : fs.mem[n].cnt \in Nat /\ f3.mem[n].cnt =
          fs.mem[n].cnt + (IF n = par THEN 1 ELSE 0) + (IF n = p THEN 1 ELSE 0)
    BY <1>5, <1>6, <1>8
  <1>10. CASE f3.bad # "no"
    <2>1. NoFewer(f3)
      BY <1>9 DEF NoFewer
    <2>2. stale' \in BOOLEAN
      BY <1>1, <1>10
    <2>3. QED
      BY <1>1, <1>8, <1>10, <2>1, <2>2, PanicStep
  <1>11. CASE f3.bad = "no"
    <2>1. /\ h \in FsSet /\ SameDirs(h, f3)
          /\ \A n \in Inodes : /\ f3.mem[n].cnt \in Nat
                               /\ h.mem[n].cnt = f3.mem[n].cnt - IF n = p THEN 1 ELSE 0
      <3>1. f3 \in FsSet /\ f3.mem[p].cnt > 0
        BY <1>2, <1>8, <1>9
      <3>2. QED
        BY <1>2, <3>1, CloseCounts
    <2> HIDE DEF h
    <2>2. \A n \in Inodes : h.mem[n].cnt = fs.mem[n].cnt + IF n = par THEN 1 ELSE 0
      BY <1>9, <2>1
    <2>3. /\ f4 \in FsSet /\ SameDirs(f4, h)
          /\ \A n \in Inodes : /\ h.mem[n].cnt \in Nat
                               /\ f4.mem[n].cnt = h.mem[n].cnt - IF n = par THEN 1 ELSE 0
      <3>1. h \in FsSet /\ h.mem[par].cnt > 0
        BY <1>2, <1>9, <2>1, <2>2
      <3>2. QED
        BY <1>2, <3>1, CloseCounts
    <2> HIDE DEF f4
    <2>4. \A n \in Inodes : f4.mem[n].cnt = fs.mem[n].cnt
      BY <1>9, <2>2, <2>3
    <2>5. Gone(f4, fs, p)
      <3>1. f2.dirb = fs.dirb /\ f4.dirb = f3.dirb /\ f4.bbits = f3.bbits
        BY <1>5, <1>6, <2>1, <2>3 DEF SameDirs
      <3>2. QED
        BY <1>8, <1>11, <3>1 DEF Gone
    <2>6. f4.ibits = fs.ibits \ {p}
      BY <1>5, <1>6, <1>8, <1>11, <2>1, <2>3 DEF SameDirs
    <2>7. \A s \in 1..NSlots : slots[s].ino # p
      BY <1>3, <1>4 DEF FilesAreFiles
    <2>8. Result(f4) /\ stale' = (f4.mem[p].cnt > 0)
      BY <1>1, <1>11
    <2>9. QED
      BY <1>1, <1>2, <2>3, <2>4, <2>5, <2>6, <2>7, <2>8, GoneStep
  <1>12. QED
    BY <1>10, <1>11

-----------------------------------------------------------------------------
(* Every state.                                                            *)

LEMMA KeptInit == Init => KeptInv
  <1> SUFFICES ASSUME Init PROVE KeptInv
    OBVIOUS
  <1>1. fs \in FsSet
    BY InitFs
  <1>2. TreeTypes
    BY <1>1, Sizes DEF Init, TreeTypes
  <1>3. \A n \in Inodes : SlotsOf(n) = {} /\ Holds(n) = 0
    BY Sizes DEF Init, SlotsOf, Holds
  <1>4. HeldOpen
    <2>1. \A n \in Inodes : fs.mem[n].cnt \in Nat /\ Cardinality(SlotsOf(n)) = 0
      BY <1>1, <1>3, FsFields, FS_EmptySet
    <2>2. QED
      BY <1>3, <2>1 DEF HeldOpen
  <1>5. SlotsUsed
    BY DEF Init, SlotsUsed
  <1>6. \A b \in Blocks, i \in 1..PerBlock : ~Real(fs.dirb[b][i])
    <2>1. \A b \in Blocks : fs.dirb[b] = IF b = 1 THEN Dots(0, 0) ELSE EmptyBlock
      BY DEF Init
    <2>2. \A i \in 1..PerBlock : ~Real(Dots(0, 0)[i]) /\ ~Real(EmptyBlock[i])
      BY DotsFacts, Sizes, Empties DEF Real
    <2>3. QED
      BY <2>1, <2>2
  <1>7. 0 \in fs.ibits
    BY DEF Init
  <1>8. EntriesUsed
    BY <1>6, <1>7 DEF Init, EntriesUsed, EntriesIn, EntriesDiffer, FilesAreFiles
  <1>9. QED
    BY <1>2, <1>4, <1>5, <1>8 DEF KeptInv

LEMMA KeptNext == KeptInv /\ [Next]_vars => KeptInv'
  <1> SUFFICES ASSUME KeptInv, [Next]_vars PROVE KeptInv'
    OBVIOUS
  <1>1. CASE UNCHANGED vars
    BY <1>1 DEF vars, KeptInv, TreeTypes, HeldOpen, SlotsUsed, EntriesUsed, SlotsOf, Holds, OK
  <1>2. ASSUME NEW path \in Paths, sys_open_create(path) PROVE KeptInv'
    BY <1>2, CreateFile
  <1>3. ASSUME NEW path \in Paths, sys_unlink(path) PROVE KeptInv'
    BY <1>3, UnlinkFile
  <1>4. ASSUME NEW path \in Paths, sys_mkdir(path) PROVE KeptInv'
    BY <1>4, MakeDir
  <1>5. ASSUME NEW path \in Paths, sys_rmdir(path) PROVE KeptInv'
    BY <1>5, RemoveDir
  <1>6. ASSUME NEW path \in Paths, sys_opendir(path) PROVE KeptInv'
    BY <1>6, OpenDir
  <1>7. ASSUME NEW path \in Paths, NEW write \in BOOLEAN, sys_open(path, write) PROVE KeptInv'
    BY <1>7, OpenFile
  <1>8. ASSUME NEW i \in DOMAIN slots, sys_close(i) PROVE KeptInv'
    BY <1>8, CloseFile
  <1>9. ASSUME NEW i \in DOMAIN slots, sys_write(i) PROVE KeptInv'
    BY <1>9, WriteFile
  <1>10. CASE sys_closedir
    BY <1>10, CloseDir
  <1>11. QED
    BY <1>1, <1>2, <1>3, <1>4, <1>5, <1>6, <1>7, <1>8, <1>9, <1>10 DEF Next

\* An open file is not removed: whatever is created, unlinked and removed, in
\* whatever order, a slot's inode stays open in memory and in use on the disk
\* (fs.c:493-540, 653-696), also at the step that releases an open directory.
THEOREM OpenFileStays == Spec => []OpenFileKept
  <1>1. KeptInv => OpenFileKept
    <2> SUFFICES ASSUME KeptInv, NEW i \in DOMAIN slots, slots[i].ino # Free
                 PROVE  /\ fs.mem[slots[i].ino].cnt > 0
                        /\ panic = "no" => slots[i].ino \in fs.ibits
      BY DEF OpenFileKept
    <2>1. i \in 1..NSlots /\ slots[i].ino \in Inodes
      BY DEF KeptInv, TreeTypes
    <2>2. i \in SlotsOf(slots[i].ino)
      BY <2>1 DEF SlotsOf
    <2>3. Cardinality(SlotsOf(slots[i].ino)) # 0
      BY <2>2, SlotsFinite, FS_EmptySet
    <2>4. fs.mem[slots[i].ino].cnt > 0
      BY <2>1, <2>3, Counts
    <2>5. QED
      BY <2>1, <2>4 DEF KeptInv, SlotsUsed
  <1>2. QED
    BY <1>1, KeptInit, KeptNext, PTL DEF Spec
=============================================================================
