------------------------------ MODULE DirTree ------------------------------
(***************************************************************************)
(* The directory tree on the disk and its in-memory inodes: fs/dir.c,      *)
(* fs/inode.c, the calls of fs/fs.c and fs/file.c that create, open,       *)
(* write, close, list and remove files and directories, and the working    *)
(* directory with the paths the shell makes from it (shell/buildin_cmd.c). *)
(*                                                                         *)
(* Calls are whole steps: one process is in the file system at a time, and *)
(* it is always the same one (file_create takes the in-memory inode from   *)
(* the heap of its caller).  Names are opaque; a path that reaches fs.c    *)
(* has no dots, wash_path takes them out.  A file's bytes are left out,    *)
(* its blocks are not.  Bitmaps and inodes are written through to the disk *)
(* by every call, so bitmaps are kept once; an inode has its copy in       *)
(* memory while open, and only one, since inode_open searches open_inodes  *)
(* and calls do not overlap here (FileTable has them overlap): it is named *)
(* by its number.                                                          *)
(***************************************************************************)
EXTENDS Naturals, Sequences, SequencesExt, FiniteSets, FiniteSetsExt, Functions

CONSTANTS Names,       \* file names
          NInodes,     \* inodes of the partition (4096)
          NBlocks,     \* data blocks
          PerBlock,    \* directory entries in a block (21)
          Direct,      \* direct blocks of an inode (12)
          Indirect,    \* blocks listed in the table (128)
          ByteValues,  \* values of the uint8_t in inode_sync (256)
          NSlots,      \* slots of file_table
          MaxBlocks,   \* bound: blocks written to a file
          MaxOpen      \* bound: times an inode is open

ASSUME DirTreeAssumption ==
  /\ {NInodes, NBlocks, Direct, Indirect, ByteValues, NSlots} \subseteq Nat \ {0}
  /\ PerBlock \in Nat /\ PerBlock >= 2 /\ {MaxBlocks, MaxOpen} \subseteq Nat
  /\ Names \cap {".", ".."} = {}

VARIABLES fs,       \* disk and inodes, as the operations below pass them along
          slots,    \* file_table: the inode (or Free) and the flag
          handle,   \* the directory sys_opendir has given out (or Free)
          stale,    \* history: an inode was released while still open
          panic     \* "no", "full" (a bitmap is full), "assert"

vars == <<fs, slots, handle, stale, panic>>

Inodes == 0..(NInodes - 1)
Blocks == 1..NBlocks                    \* 0: no block
Free   == NInodes                       \* no inode
Total  == Direct + Indirect
Paths  == {<<n>> : n \in Names} \cup {<<n, m>> : n \in Names, m \in Names}
\* Relative paths as they are typed.
Typed  == LET words == Names \cup {".", ".."} IN {<<w>> : w \in words} \cup {<<v, w>> : v, w \in words}

NoEntry == [name |-> "", ino |-> 0, type |-> "unknown"]
EmptyBlock == [e \in 1..PerBlock |-> NoEntry]
EmptyTable == [k \in 1..Indirect |-> 0]
\* i_sectors: Direct blocks and the table.
NoBlocks == [k \in 0..Direct |-> 0]
ZeroInode == [size |-> 0, sec |-> NoBlocks]
Opened(inode) == [cnt |-> 1, deny |-> FALSE, size |-> inode.size, sec |-> inode.sec]
NoMem == [cnt |-> 0, deny |-> FALSE, size |-> 0, sec |-> NoBlocks]

\* A new directory's block.
Dots(self, parent) ==
  [EmptyBlock EXCEPT ![1] = [name |-> ".", ino |-> self, type |-> "dir"],
                     ![2] = [name |-> "..", ino |-> parent, type |-> "dir"]]

(* fs.ibits, fs.bbits: the bitmaps; fs.itab: the inode table; fs.dirb and  *)
(* fs.tabb: what a block holds, as directory or as table; fs.mem: the     *)
(* open_inodes; fs.leaked: history, blocks lost on the two paths that lose *)
(* one; fs.bad: what an operation has run into.                            *)
\* partition_format, mount_partition and open_root_dir.
Root == [size |-> 2, sec |-> [NoBlocks EXCEPT ![0] = 1]]
Init ==
  /\ fs = [ibits |-> {0}, bbits |-> {1},
           itab |-> [i \in Inodes |-> IF i = 0 THEN Root ELSE ZeroInode],
           dirb |-> [b \in Blocks |-> IF b = 1 THEN Dots(0, 0) ELSE EmptyBlock],
           tabb |-> [b \in Blocks |-> EmptyTable],
           mem |-> [i \in Inodes |-> IF i = 0 THEN Opened(Root) ELSE NoMem],
           leaked |-> {}, bad |-> "no"]
  /\ slots = [i \in 1..NSlots |-> [ino |-> Free, write |-> FALSE]]
  /\ handle = Free /\ stale = FALSE /\ panic = "no"

Fail(f, why) == [f EXCEPT !.bad = IF @ = "no" THEN why ELSE @]

-----------------------------------------------------------------------------
(* fs/inode.c.                                                             *)

IsOpen(f, no) == f.mem[no].cnt > 0

inode_open(f, no) ==
  IF IsOpen(f, no) THEN [f EXCEPT !.mem[no].cnt = @ + 1]
  ELSE [f EXCEPT !.mem[no] = Opened(f.itab[no])]

inode_close(f, no) ==
  IF f.mem[no].cnt > 1 THEN [f EXCEPT !.mem[no].cnt = @ - 1]
  ELSE [f EXCEPT !.mem[no] = NoMem]

\* The number goes through a uint8_t.  (Faulty variant: the size is not
\* written.)
Synced_nosize(f, no, size, sec) == [f EXCEPT !.itab[no % ByteValues].sec = sec]
Synced(f, no, size, sec) == [f EXCEPT !.itab[no % ByteValues] = [size |-> size, sec |-> sec]]
inode_sync(f, no) == Synced(f, no, f.mem[no].size, f.mem[no].sec)

\* all_blocks: the direct blocks and those in the table.
all_blocks(f, sec) ==
  [k \in 0..(Total - 1) |->
     IF k < Direct THEN sec[k]
     ELSE IF sec[Direct] = 0 THEN 0 ELSE f.tabb[sec[Direct]][k - Direct + 1]]

BlocksOf(f, sec) == (Range(all_blocks(f, sec)) \cup {sec[Direct]}) \ {0}

\* inode_release: the blocks of the inode in memory, its bit, its place in the
\* table (inode_delete).  (Faulty variant: the table itself is kept.)
Released_notable(f, sec) == Range(all_blocks(f, sec)) \ {0}
Released(f, sec) == BlocksOf(f, sec)
inode_release(f, no) ==
  LET f1 == inode_open(f, no)
  IN inode_close([f1 EXCEPT !.bbits = @ \ Released(f1, f1.mem[no].sec),
                            !.ibits = @ \ {no}, !.itab[no] = ZeroInode], no)

-----------------------------------------------------------------------------
(* fs/dir.c and the bitmaps.  A full bitmap stops the kernel: bitmap_scan  *)
(* asserts before it can return -1.                                        *)

NextBlock(f) == Min(Blocks \ f.bbits)
block_bitmap_alloc(f) ==
  IF f.bad # "no" \/ Blocks \subseteq f.bbits THEN Fail(f, "full")
  ELSE [f EXCEPT !.bbits = @ \cup {NextBlock(f)}]
NextInode(f) == Min(Inodes \ f.ibits)
inode_bitmap_alloc(f) ==
  IF Inodes \subseteq f.ibits THEN Fail(f, "full")
  ELSE [f EXCEPT !.ibits = @ \cup {NextInode(f)}]

Sec(f, no) == IF IsOpen(f, no) THEN f.mem[no].sec ELSE f.itab[no].sec

\* The entries of a directory.
Entries(f, no) ==
  LET all == all_blocks(f, Sec(f, no))
  IN {f.dirb[all[k]][e] : k \in {j \in DOMAIN all : all[j] # 0}, e \in 1..PerBlock} \ {NoEntry}

\* They are found in the order of the blocks.
EntrySeq(f, no) ==
  LET all == all_blocks(f, Sec(f, no))
      block(k) == SelectSeq(f.dirb[all[k]], LAMBDA e : e # NoEntry)
      upto[k \in 0..Total] == IF k = 0 THEN << >>
                              ELSE upto[k - 1] \o (IF all[k - 1] = 0 THEN << >> ELSE block(k - 1))
  IN upto[Total]

\* dir_read at dir_pos, in entries: NoEntry at the end.
dir_read(f, no, pos) ==
  LET size == IF IsOpen(f, no) THEN f.mem[no].size ELSE f.itab[no].size
  IN IF pos >= size \/ pos >= Len(EntrySeq(f, no)) THEN NoEntry ELSE EntrySeq(f, no)[pos + 1]

search_dir_entry(f, no, name) == {e \in Entries(f, no) : e.name = name}

\* A block for entry e at place k of the open directory p.  At the first place of
\* the table a table is made, although there may be one.
NewDirBlock(f, p, k, e) ==
  LET f1 == block_bitmap_alloc(f)
      b  == NextBlock(f)
      f2 == block_bitmap_alloc(f1)
      sec == f.mem[p].sec
      put(x, c) == [x EXCEPT !.dirb[c] = [EmptyBlock EXCEPT ![1] = e],
                             !.mem[p].size = @ + 1]
      table == [j \in 1..Indirect |-> IF j = 1 THEN NextBlock(f1)
                                      ELSE all_blocks(f, sec)[Direct + j - 1]]
  IN IF f1.bad # "no" THEN f1
     ELSE IF k < Direct THEN put([f1 EXCEPT !.mem[p].sec[k] = b], b)
     ELSE IF k > Direct THEN put([f1 EXCEPT !.tabb[sec[Direct]][k - Direct + 1] = b], b)
     ELSE IF f2.bad # "no" THEN f2
     ELSE put([f2 EXCEPT !.mem[p].sec[Direct] = b, !.tabb[b] = table,
                         !.leaked = @ \cup ({sec[Direct]} \ {0})],
              NextBlock(f1))

\* Places with room for an entry.
Room(f, all) == {k \in DOMAIN all : all[k] # 0 => NoEntry \in Range(f.dirb[all[k]])}

DirFull(f, p) == Room(f, all_blocks(f, f.mem[p].sec)) = {}

sync_dir_entry(f, p, e) ==
  LET all == all_blocks(f, f.mem[p].sec)
      k   == Min(Room(f, all))
      i   == Min({j \in 1..PerBlock : f.dirb[all[k]][j] = NoEntry})
  IN IF all[k] = 0 THEN NewDirBlock(f, p, k, e)
     ELSE [f EXCEPT !.dirb[all[k]][i] = e, !.mem[p].size = @ + 1]

IsDot(e) == e.name \in {".", ".."}

\* The block at place k has lost its last entry.
DropDirBlock(f, p, k) ==
  LET sec == f.mem[p].sec
      all == all_blocks(f, sec)
      more == {j \in Direct..(Total - 1) : all[j] # 0} # {k}
  IN IF k < Direct THEN [f EXCEPT !.bbits = @ \ {all[k]}, !.mem[p].sec[k] = 0]
     ELSE IF more THEN [f EXCEPT !.bbits = @ \ {all[k]},
                                 !.tabb[sec[Direct]][k - Direct + 1] = 0]
     ELSE [f EXCEPT !.bbits = @ \ {all[k], sec[Direct]}, !.mem[p].sec[Direct] = 0]

\* A block goes when it held this entry only and is not the first.  (Faulty
\* variant: whatever else it holds.)
Goes_any(blk) == \A i \in DOMAIN blk : blk[i].name # "."
Goes(blk) == /\ Cardinality({i \in DOMAIN blk : blk[i] # NoEntry /\ ~IsDot(blk[i])}) = 1
             /\ \A i \in DOMAIN blk : blk[i].name # "."

delete_dir_entry(f, p, no) ==
  LET all == all_blocks(f, f.mem[p].sec)
      at(k) == {i \in 1..PerBlock : LET e == f.dirb[all[k]][i]
                                    IN e # NoEntry /\ ~IsDot(e) /\ e.ino = no}
      places == {k \in DOMAIN all : all[k] # 0 /\ at(k) # {}}
      k  == Min(places)
      f1 == IF Goes(f.dirb[all[k]]) THEN DropDirBlock(f, p, k)
            ELSE [f EXCEPT !.dirb[all[k]][Min(at(k))] = NoEntry]
  IN IF places = {} THEN f
     ELSE IF Cardinality(at(k)) > 1 THEN Fail(f, "assert")
     ELSE inode_sync([f1 EXCEPT !.mem[p].size = @ - 1], p)

-----------------------------------------------------------------------------
(* fs/fs.c.                                                                *)

\* search_file.  It stops at a regular file, wherever that is in the path.
search_file(f, path) ==
  LET go[k \in 0..Len(path)] ==
        IF k = 0 THEN [ino |-> 0, type |-> "dir", parent |-> 0, depth |-> 0]
        ELSE LET r == go[k - 1]
                 found == search_dir_entry(f, r.ino, path[k])
             IN IF r.type # "dir" THEN r
                ELSE IF found = {} THEN [ino |-> 0, type |-> "none", parent |-> r.ino, depth |-> k]
                ELSE LET e == CHOOSE x \in found : TRUE
                     IN [ino |-> e.ino, type |-> e.type, parent |-> r.ino, depth |-> k]
  IN go[Len(path)]

Runs == panic = "no" /\ ~stale

\* What a call leaves.  A block is written as a whole before it is used: what
\* is in a free or lost one is dropped.
Kept(f, b) == b \in f.bbits \ f.leaked
Result(f) ==
  /\ fs' = [f EXCEPT !.bad = "no",
                    !.dirb = [b \in Blocks |-> IF Kept(f, b) THEN @[b] ELSE EmptyBlock],
                    !.tabb = [b \in Blocks |-> IF Kept(f, b) THEN @[b] ELSE EmptyTable]]
  /\ panic' = f.bad

FreeSlots == {i \in DOMAIN slots : slots[i].ino = Free}
MayOpen(no) == fs.mem[no].cnt < MaxOpen              \* bound

\* file_create: inode, slot, entry, parent's inode, own inode.
file_create(path) ==
  LET r  == search_file(fs, path)
      f1 == inode_bitmap_alloc(inode_open(fs, r.parent))
      p  == r.parent
      no == NextInode(fs)
      f2 == sync_dir_entry(f1, p, [name |-> path[Len(path)], ino |-> no, type |-> "file"])
      f3 == Synced(inode_sync(f2, p), no, 0, NoBlocks)
      f4 == [f3 EXCEPT !.mem[no] = Opened(ZeroInode)]
  IN IF f1.bad # "no" THEN Result(f1) /\ UNCHANGED slots
     ELSE IF FreeSlots = {} \/ DirFull(f1, p) THEN Result(fs) /\ UNCHANGED slots
     ELSE IF f2.bad # "no" THEN Result(f2) /\ UNCHANGED slots
     ELSE /\ Result(inode_close(f4, p))
          /\ slots' = [slots EXCEPT ![Min(FreeSlots)] = [ino |-> no, write |-> TRUE]]

sys_open_create(path) ==
  /\ Runs
  /\ LET r == search_file(fs, path) IN r.type = "none" /\ r.depth = Len(path)
  /\ file_create(path)
  /\ UNCHANGED <<handle, stale>>

\* sys_open of an existing file: the parent, once opened, is not closed.  A
\* writer that is turned away leaves the inode open.
file_open(f, no, write) ==
  LET f1 == inode_open(f, no)
  IN IF FreeSlots = {} THEN Result(f) /\ UNCHANGED slots
     ELSE IF write /\ f1.mem[no].deny THEN Result(f1) /\ UNCHANGED slots
     ELSE /\ Result([f1 EXCEPT !.mem[no].deny = @ \/ write])
          /\ slots' = [slots EXCEPT ![Min(FreeSlots)] = [ino |-> no, write |-> write]]

sys_open(path, write) ==
  /\ Runs
  /\ LET r == search_file(fs, path)
     IN /\ r.type = "file" /\ r.depth = Len(path) /\ MayOpen(r.parent) /\ MayOpen(r.ino)
        /\ file_open(IF r.parent = 0 THEN fs ELSE inode_open(fs, r.parent), r.ino, write)
  /\ UNCHANGED <<handle, stale>>

sys_close(i) ==
  /\ Runs /\ slots[i].ino # Free
  /\ Result(inode_close([fs EXCEPT !.mem[slots[i].ino].deny = FALSE], slots[i].ino))
  /\ slots' = [slots EXCEPT ![i] = [ino |-> Free, write |-> FALSE]]
  /\ UNCHANGED <<handle, stale>>

\* file_write of one block of bytes at the end: a first block if there is none,
\* and the block the size will lead to, with a table when it is the first beyond
\* the direct ones.  A size that would fill the last block fails an assertion.
file_write(i) ==
  LET p  == slots[i].ino
      f0 == block_bitmap_alloc(fs)
      f1 == IF fs.mem[p].sec[0] # 0 THEN fs
            ELSE IF f0.bad # "no" THEN f0
            ELSE [f0 EXCEPT !.mem[p].sec[0] = NextBlock(fs)]
      k  == f1.mem[p].size + 1
      f2 == block_bitmap_alloc(f1)
      b  == NextBlock(f1)
      f3 == block_bitmap_alloc(f2)
      grown == IF k < Direct THEN [f2 EXCEPT !.mem[p].sec[k] = b]
               ELSE IF k > Direct
               THEN [f2 EXCEPT !.tabb[f2.mem[p].sec[Direct]][k - Direct + 1] = b]
               ELSE [f3 EXCEPT !.mem[p].sec[Direct] = b,
                               !.tabb[b] = [EmptyTable EXCEPT ![1] = NextBlock(f2)]]
  IN IF k > Total THEN Result(fs)
     ELSE IF f1.bad = "no" /\ k = Total THEN Result(Fail(f1, "assert"))
     ELSE IF f2.bad # "no" THEN Result(f2)
     ELSE IF k = Direct /\ f3.bad # "no" THEN Result(f3)
     ELSE Result(inode_sync([grown EXCEPT !.mem[p].size = @ + 1], p))

sys_write(i) ==
  /\ Runs /\ slots[i].ino # Free /\ slots[i].write
  /\ fs.mem[slots[i].ino].size < MaxBlocks
  /\ file_write(i)
  /\ UNCHANGED <<slots, handle, stale>>

\* A released inode that is still open somewhere.
StillOpen(f, no) == IsOpen(f, no)

\* The file is open.  (Faulty variant: nobody looks.)
InUse_never(no) == FALSE
InUse(no) == \E i \in DOMAIN slots : slots[i].ino = no

sys_unlink(path) ==
  /\ Runs
  /\ LET r  == search_file(fs, path)
         f1 == delete_dir_entry(inode_open(fs, r.parent), r.parent, r.ino)
         f2 == inode_close(inode_release(f1, r.ino), r.parent)
     IN /\ r.type = "file" /\ ~InUse(r.ino)
        /\ Result(IF f1.bad # "no" THEN f1 ELSE f2)
        /\ stale' = StillOpen(f2, r.ino)
  /\ UNCHANGED <<slots, handle>>

\* sys_mkdir: inode, block, entry, parent's inode, own inode.  A full parent
\* costs the block.
sys_mkdir(path) ==
  /\ Runs
  /\ LET r  == search_file(fs, path)
         p  == r.parent
         no == NextInode(fs)
         b  == NextBlock(fs)
         f1 == block_bitmap_alloc(inode_bitmap_alloc(inode_open(fs, r.parent)))
         f2 == [f1 EXCEPT !.dirb[b] = Dots(no, r.parent)]
         f3 == sync_dir_entry(f2, p, [name |-> path[Len(path)], ino |-> no, type |-> "dir"])
         f4 == Synced(inode_sync(f3, p), no, 2, [NoBlocks EXCEPT ![0] = b])
     IN /\ r.type = "none" /\ r.depth = Len(path)
        /\ Result(IF f1.bad # "no" THEN f1
                  ELSE IF DirFull(f2, p)
                  THEN inode_close([f2 EXCEPT !.ibits = @ \ {no}, !.leaked = @ \cup {b}], p)
                  ELSE IF f3.bad # "no" THEN f3 ELSE inode_close(f4, p))
  /\ UNCHANGED <<slots, handle, stale>>

\* dir_is_empty.  (Faulty variant: one entry is overlooked.)
dir_is_empty_one(f, p) == f.mem[p].size <= 3
dir_is_empty(f, p) == f.mem[p].size = 2

\* dir_remove, with the assertion that only the first block is left.
dir_remove(f, par, p) ==
  LET f1 == delete_dir_entry(f, par, p)
  IN IF \E k \in 1..Direct : f.mem[p].sec[k] # 0 THEN Fail(f, "assert")
     ELSE IF f1.bad # "no" THEN f1 ELSE inode_release(f1, p)

sys_rmdir(path) ==
  /\ Runs
  /\ LET r   == search_file(fs, path)
         f1  == inode_open(fs, r.parent)
         par == r.parent
         f2  == inode_open(f1, r.ino)
         p   == r.ino
         f3  == dir_remove(f2, par, p)
         f4  == inode_close(inode_close(f3, p), par)
     IN /\ r.type = "dir" /\ dir_is_empty(f2, p)
        /\ Result(IF f3.bad # "no" THEN f3 ELSE f4)
        /\ stale' = (f3.bad = "no" /\ StillOpen(f4, r.ino))
  /\ UNCHANGED <<slots, handle>>

sys_opendir(path) ==
  /\ Runs /\ handle = Free
  /\ LET r == search_file(fs, path)
     IN /\ r.type = "dir" /\ MayOpen(r.ino)
        /\ Result(inode_open(fs, r.ino))
        /\ handle' = r.ino
  /\ UNCHANGED <<slots, stale>>

sys_closedir ==
  /\ Runs /\ handle # Free
  /\ Result(inode_close(fs, handle))
  /\ handle' = Free
  /\ UNCHANGED <<slots, stale>>

-----------------------------------------------------------------------------
(* The working directory and the shell's paths.  Nothing but sys_chdir     *)
(* touches cwd_inode_nr, and every process has one: it is a parameter of   *)
(* the operators, any number that is or was a directory's.  The bytes of a *)
(* file are taken not to look like directory entries.                      *)

\* A round of the loop in sys_getcwd: the parent (get_parent_dir_inode_nr) and
\* the name of r.at there (get_child_dir_name).
GetcwdRound(f, r) ==
  LET b    == Sec(f, r.at)[0]
      dots == f.dirb[b][2]
      here == SelectSeq(EntrySeq(f, dots.ino), LAMBDA e : e.ino = r.at)
  IN IF r.at = 0 \/ r.end # "ok" THEN r
     ELSE IF b = 0 \/ dots.type # "dir" THEN [r EXCEPT !.end = "assert"]
     ELSE IF here = << >> THEN [r EXCEPT !.end = "null"]
     ELSE [r EXCEPT !.at = dots.ino, !.path = <<Head(here).name>> \o @]

sys_getcwd(f, no) ==
  LET up[k \in 0..NInodes] == IF k = 0 THEN [at |-> no, path |-> << >>, end |-> "ok"]
                              ELSE GetcwdRound(f, up[k - 1])
  IN up[NInodes]

\* wash_path: ".." takes the last name, at the root none.  (Faulty variant: the
\* last name before the root stays.)
Up_first(path) == IF Len(path) <= 1 THEN path ELSE Front(path)
Up(path) == IF path = << >> THEN path ELSE Front(path)
wash_path(path) ==
  FoldLeft(LAMBDA done, w : IF w = ".." THEN Up(done) ELSE IF w = "." THEN done ELSE Append(done, w),
           << >>, path)

make_clear_abs_path(f, no, typed) == wash_path(sys_getcwd(f, no).path \o typed)

\* The cwd_inode_nr that cd of a relative path leaves.
sys_chdir(f, no, path) == LET r == search_file(f, path) IN IF r.type = "dir" THEN r.ino ELSE no
buildin_cd(f, no, typed) == sys_chdir(f, no, make_clear_abs_path(f, no, typed))

-----------------------------------------------------------------------------
Next ==
  \/ \E path \in Paths :
       \/ sys_open_create(path) \/ sys_unlink(path) \/ sys_mkdir(path) \/ sys_rmdir(path)
       \/ sys_opendir(path)
       \/ \E write \in BOOLEAN : sys_open(path, write)
  \/ \E i \in DOMAIN slots : sys_close(i) \/ sys_write(i)
  \/ sys_closedir

Spec == Init /\ [][Next]_vars

-----------------------------------------------------------------------------
(* Properties.  They hold until the system stops or, by the defect `stale' *)
(* records, an inode is released that is still open.                       *)

OK == panic = "no" /\ ~stale

Children(d) == {e \in Entries(fs, d) : ~IsDot(e)}
\* The directories a path of two names can lead to, the root included.
Dirs ==
  LET below[k \in 0..2] ==
        IF k = 0 THEN {0}
        ELSE below[k - 1] \cup {e.ino : e \in {x \in UNION {Children(d) : d \in below[k - 1]} :
                                                x.type = "dir"}}
  IN below[2]

\* The entries form a tree: every used inode but the root has one entry in one
\* directory, an entry's inode is in use and is of the entry's type, names are
\* unique in a directory, and ".." leads to the directory with the entry
\* (fs.c:493-650, 698-727; dir.c:103-299).  And no assertion fails but that of a
\* full bitmap: an entry is found once, an empty directory has one block
\* (dir.c:236, 361-365).
TreeExact ==
  /\ panic # "assert"
  /\ OK =>
      /\ fs.ibits \ {0} = {e.ino : e \in UNION {Children(d) : d \in Dirs}}
      /\ \A d, c \in Dirs : \A e \in Children(d), x \in Children(c) :
           e.ino = x.ino \/ (d = c /\ e.name = x.name) => d = c /\ e = x
      /\ \A d \in Dirs : \A e \in Children(d) :
           e.type = "dir" => [name |-> "..", ino |-> d, type |-> "dir"] \in Entries(fs, e.ino)

\* A block belongs to one inode, and the bitmap marks these blocks and the
\* lost ones: nothing is freed that is used, nothing else is lost
\* (dir.c:129-172, 252-290; inode.c:160-204).
BlocksExact ==
  OK =>
    /\ fs.bbits = fs.leaked \cup UNION {BlocksOf(fs, fs.itab[i].sec) : i \in fs.ibits}
    /\ \A i, j \in fs.ibits : i # j =>
         BlocksOf(fs, fs.itab[i].sec) \cap BlocksOf(fs, fs.itab[j].sec) = {}
    /\ \A i \in fs.ibits : fs.leaked \cap BlocksOf(fs, fs.itab[i].sec) = {}

\* A directory's size counts its entries, so that dir_is_empty is right and
\* dir_read gives every entry once and then the end (dir.c:302-356), and an inode
\* in memory is the one on the disk (inode.c:40-109).
MemMatchesDisk ==
  OK =>
    /\ \A d \in Dirs :
         /\ fs.itab[d].size = Cardinality(Entries(fs, d))
         /\ {dir_read(fs, d, pos) : pos \in 0..(fs.itab[d].size - 1)} = Entries(fs, d)
    /\ \A i \in Inodes : IsOpen(fs, i) =>
         fs.itab[i] = [size |-> fs.mem[i].size, sec |-> fs.mem[i].sec]

\* An open file is not removed (fs.c:512-525).
OpenFileKept ==
  \A i \in DOMAIN slots : slots[i].ino # Free =>
    /\ fs.mem[slots[i].ino].cnt > 0
    /\ panic = "no" => slots[i].ino \in fs.ibits

\* Where the entries lead from directory d, ".." included; Free: nowhere.
Walk(d, typed) ==
  FoldLeft(LAMBDA at, w :
             LET found == IF at = Free THEN {}
                          ELSE {e \in search_dir_entry(fs, at, w) : e.type = "dir"}
             IN IF found = {} THEN Free ELSE (CHOOSE e \in found : TRUE).ino,
           d, typed)

\* In a directory, getcwd names it and cd of a relative path, once the shell has
\* put the two together and removed the dots, ends where the entries lead; in one
\* that was removed (sys_rmdir asks nobody), whatever its number is used for,
\* getcwd stops at its assertion and never names another directory's path
\* (fs.c:730-842; buildin_cmd.c:10-55, 70-87).
CwdPath ==
  OK => \A no \in Inodes :
    IF no \in Dirs
    THEN /\ search_file(fs, sys_getcwd(fs, no).path).ino = no
         /\ \A typed \in Typed : Walk(no, typed) # Free =>
              buildin_cd(fs, no, typed) = Walk(no, typed)
    ELSE sys_getcwd(fs, no).end = "assert"
=============================================================================
