------------------------------ MODULE FileData ------------------------------
(***************************************************************************)
(* The contents of one file: file_write, file_read and sys_lseek           *)
(* (fs/file.c, fs/fs.c) on the direct blocks and the table of an inode,    *)
(* several descriptors at a time, and a loss of power at any moment.       *)
(*                                                                         *)
(* A system call runs with interrupts disabled, but sleeps in every disk   *)
(* access: the calls of other descriptors run in between.  All accesses of *)
(* the allocation at the start of a write are one step: they touch only    *)
(* blocks that nobody else can reach before the size has grown.            *)
(***************************************************************************)
EXTENDS Integers, Sequences, FiniteSets, SequencesExt

CONSTANTS Fds,           \* slots of file_table on this file
          BlockSize,     \* BLOCK_SIZE
          Direct,        \* direct blocks of an inode: 12
          Indirect,      \* entries of the table: 128
          NBlocks,       \* data blocks of the partition
          BitsPerSector, \* bits of the block bitmap in a sector: 4096
          Word,          \* 2^32
          Counts,        \* how many bytes a call may be about (a bound)
          Offsets,       \* offsets for lseek (a bound)
          MaxRestarts    \* bound on losses of power

MaxBlocks == Direct + Indirect
Blocks == 1..NBlocks

ASSUME FileDataAssumption ==
  /\ {BlockSize, Direct, Indirect, NBlocks, BitsPerSector} \subseteq Nat \ {0}
  /\ Word \in Nat /\ Word > 2 * BlockSize * MaxBlocks
  /\ Counts \subseteq 0..(Word \div 2) /\ Offsets \subseteq Int /\ MaxRestarts \in Nat
  /\ IsFiniteSet(Fds)

VARIABLES inode,   \* i_size and i_sectors of the inode in memory
          dinode,  \* the inode on disk
          deny,    \* write_deny
          disk,    \* contents of the data blocks, and of sector 0
          bits,    \* block_bitmap
          dbits,   \* the block bitmap on disk
          others,  \* blocks of other files
          sync,    \* inode_sync of an inode in the same sector of the inode
                   \* table: "idle", "read", "done" or "lost", and what it read
          mode,    \* fd_flag of each slot, "closed" if it is free
          pos,     \* fd_pos
          call,    \* the call under way on each slot
          panic,   \* "no", or what stopped the kernel
          restarts \* how often the power was lost

vars == <<inode, dinode, deny, disk, bits, dbits, others, sync, mode, pos, call, panic, restarts>>

Lo(a, b) == IF a < b THEN a ELSE b
NoCall == [op |-> "none"]
Zeros == [i \in 0..(BlockSize - 1) |-> 0]
Empty == [size |-> 0, sec |-> [i \in 0..Direct |-> 0]]
Writers == {d \in Fds : mode[d] = "w"}

\* What a program writes: n bytes, each different from all before it in the
\* file.  The code does not look at them (a bound).
Bytes(n) == [k \in 1..n |-> inode.size + k]

\* sys_open has created the file: write_deny is not set, whatever the flag.
Init ==
  /\ inode = Empty /\ dinode = Empty /\ deny = FALSE
  /\ disk = [b \in {0} \cup Blocks |-> Zeros]
  /\ bits = {} /\ dbits = {} /\ others = {} /\ sync = [at |-> "idle", inode |-> Empty]
  /\ \E d \in Fds, flag \in {"r", "w"} :
       mode = [x \in Fds |-> IF x = d THEN flag ELSE "closed"]
  /\ pos = [d \in Fds |-> 0] /\ call = [d \in Fds |-> NoCall]
  /\ panic = "no" /\ restarts = 0

Ready(d) == panic = "no" /\ mode[d] # "closed" /\ call[d] = NoCall
Stop(why) ==
  /\ panic' = why
  /\ UNCHANGED <<inode, dinode, deny, disk, bits, dbits, others, sync, mode, pos, call, restarts>>

-----------------------------------------------------------------------------
(* The block bitmap.                                                       *)

\* The blocks that n calls of block_bitmap_alloc return, each time the lowest
\* that is free, or all that are left.
Taken(n) ==
  LET free == Blocks \ bits
      left[k \in 0..n] == IF k = 0 THEN free ELSE left[k - 1] \ {Min(left[k - 1])}
  IN [k \in 1..Lo(n, Cardinality(free)) |-> Min(left[k - 1])]

Sector(b) == {c \in Blocks : (c - 1) \div BitsPerSector = (b - 1) \div BitsPerSector}

\* bitmap_sync for each block of s: the sectors of mem that hold their bits.
bitmap_sync(mem, dsk, s) ==
  LET written == UNION {Sector(s[i]) : i \in DOMAIN s}
  IN (dsk \ written) \cup (mem \cap written)

-----------------------------------------------------------------------------
(* file_write.                                                             *)

BlocksFor(n) == n \div BlockSize + 1

\* (Faulty variant: not when the direct blocks are all in use.)
Crosses_strict(has, will) == has < Direct /\ will > Direct
Crosses(has, will) == has <= Direct /\ will > Direct

\* Blocks are taken in the order: first block of an empty file, table, the rest.
\* The bit of the table is not written to disk by itself.
file_write(d, src) ==
  LET size == inode.size
      has == BlocksFor(size)
      will == BlocksFor(size + Len(src))
      first == IF inode.sec[0] = 0 THEN 1 ELSE 0
      limit == will > MaxBlocks
      crosses == Crosses(has, will)
      table == IF crosses THEN 1 ELSE 0
      need == IF limit THEN first ELSE first + table + (will - has)
      new == Taken(need)
      New(i) == new[first + table + 1 + i - has]
      rest == SubSeq(new, first + table + 1, Len(new))
      sec1 == IF first = 1 THEN [inode.sec EXCEPT ![0] = new[1]] ELSE inode.sec
      sec2 == [i \in 0..Direct |->
                 IF i = Direct /\ crosses THEN new[first + 1]
                 ELSE IF i < Direct /\ i \in has..(will - 1) THEN New(i) ELSE sec1[i]]
      all == [i \in 0..(MaxBlocks - 1) |->
                IF i \in has..(will - 1) THEN New(i)
                ELSE IF has > Direct /\ i >= Direct THEN disk[sec1[Direct]][i - Direct]
                ELSE IF has <= Direct /\ i = has - 1 THEN sec1[i] ELSE 0]
      asserted == /\ will > has /\ will <= Direct => sec1[has - 1] # 0
                  /\ \A i \in has..(will - 1) : i < Direct => sec1[i] = 0
                  /\ IF has > Direct THEN sec1[Direct] # 0
                     ELSE crosses => sec1[Direct] = 0
      fst == SubSeq(new, 1, Lo(first, Len(new)))
      dbits1 == bitmap_sync(bits \cup ToSet(fst), dbits, fst)
  IN /\ Ready(d) /\ mode[d] = "w" /\ size + Len(src) <= BlockSize * MaxBlocks
     /\ bits' = bits \cup ToSet(new)
     /\ dbits' = bitmap_sync(bits', dbits1, rest)
     /\ panic' = IF Len(new) < need THEN "full" ELSE IF limit THEN "write limit"
                 ELSE IF asserted THEN "no" ELSE "sectors"
     /\ IF panic' # "no" THEN UNCHANGED <<inode, disk, pos, call>>
        ELSE /\ inode' = [inode EXCEPT !.sec = sec2]
             /\ disk' = IF will > has /\ will > Direct
                        THEN [disk EXCEPT ![sec2[Direct]] =
                                [j \in 0..(Indirect - 1) |-> all[Direct + j]]]
                        ELSE disk
             /\ pos' = [pos EXCEPT ![d] = (size - 1) % Word]
             /\ call' = [call EXCEPT ![d] =
                  [op |-> "write", left |-> src, all |-> all, first |-> TRUE, chunk |-> 0]]
     /\ UNCHANGED <<dinode, deny, others, sync, mode, restarts>>

\* The buffer of a block: what is on disk for the first one, zeros for the rest.
\* (Faulty variant: the first block is not read either.)
Buffer_zeros(c, lba) == Zeros
Buffer(c, lba) == IF c.first THEN disk[lba] ELSE Zeros

write_block(d) ==
  LET c == call[d]
      lba == c.all[inode.size \div BlockSize]
      off == inode.size % BlockSize
      chunk == Lo(Len(c.left), BlockSize - off)
      buf == Buffer(c, lba)
  IN /\ panic = "no" /\ c.op = "write" /\ c.left # << >> /\ c.chunk = 0
     /\ disk' = [disk EXCEPT ![lba] = [j \in 0..(BlockSize - 1) |->
                   IF j \in off..(off + chunk - 1) THEN c.left[j - off + 1] ELSE buf[j]]]
     /\ call' = [call EXCEPT ![d].chunk = chunk, ![d].first = FALSE]
     /\ UNCHANGED <<inode, dinode, deny, bits, dbits, others, sync, mode, pos, panic, restarts>>

\* The disk has written: the size grows.
write_grow(d) ==
  LET c == call[d]
  IN /\ panic = "no" /\ c.op = "write" /\ c.chunk > 0
     /\ inode' = [inode EXCEPT !.size = @ + c.chunk]
     /\ pos' = [pos EXCEPT ![d] = (@ + c.chunk) % Word]
     /\ call' = [call EXCEPT ![d].chunk = 0,
                   ![d].left = SubSeq(@, c.chunk + 1, Len(@))]
     /\ UNCHANGED <<dinode, deny, disk, bits, dbits, others, sync, mode, panic, restarts>>

\* inode_sync, and the return.
write_end(d) ==
  /\ panic = "no" /\ call[d].op = "write" /\ call[d].left = << >>
  /\ dinode' = inode
  /\ call' = [call EXCEPT ![d] = NoCall]
  /\ UNCHANGED <<inode, deny, disk, bits, dbits, others, sync, mode, pos, panic, restarts>>

-----------------------------------------------------------------------------
(* file_read and sys_lseek.                                                *)

\* A read at the end of the file returns -1 and changes nothing.
file_read(d, count) ==
  LET past == (pos[d] + count) % Word > inode.size
      size == IF past THEN (inode.size - pos[d]) % Word ELSE count
      start == pos[d] \div BlockSize
      end == ((pos[d] + size) % Word) \div BlockSize
      all == [i \in 0..(MaxBlocks - 1) |->
                IF i < Direct /\ i \in start..end THEN inode.sec[i]
                ELSE IF end >= Direct /\ i >= Direct
                     THEN disk[inode.sec[Direct]][i - Direct] ELSE 0]
  IN /\ Ready(d) /\ ~(past /\ size = 0)
     /\ IF end >= MaxBlocks - 1 \/ start >= MaxBlocks - 1 THEN Stop("read limit")
        ELSE IF start < end /\ end >= Direct /\ inode.sec[Direct] = 0 THEN Stop("sectors")
        ELSE /\ call' = [call EXCEPT ![d] = [op |-> "read", left |-> size, all |-> all, buf |-> << >>]]
             /\ UNCHANGED <<inode, dinode, deny, disk, bits, dbits, others, sync, mode, pos, panic, restarts>>

read_block(d) ==
  LET c == call[d]
      off == pos[d] % BlockSize
      chunk == Lo(c.left, BlockSize - off)
      buf == disk[c.all[pos[d] \div BlockSize]]
  IN /\ panic = "no" /\ c.op = "read" /\ c.left > 0
     /\ pos' = [pos EXCEPT ![d] = (@ + chunk) % Word]
     /\ call' = [call EXCEPT ![d].left = @ - chunk,
                   ![d].buf = [k \in 1..chunk |-> buf[off + k - 1]]]
     /\ UNCHANGED <<inode, dinode, deny, disk, bits, dbits, others, sync, mode, panic, restarts>>

read_end(d) ==
  /\ panic = "no" /\ call[d].op = "read" /\ call[d].left = 0
  /\ call' = [call EXCEPT ![d] = NoCall]
  /\ UNCHANGED <<inode, dinode, deny, disk, bits, dbits, others, sync, mode, pos, panic, restarts>>

Signed(x) == IF x >= Word \div 2 THEN x - Word ELSE x

\* whence is SEEK_SET, SEEK_CUR or SEEK_END; refused, it returns -1.
sys_lseek(d, offset, whence) ==
  LET new_pos == offset + (CASE whence = "set" -> 0
                             [] whence = "cur" -> Signed(pos[d])
                             [] whence = "end" -> inode.size)
  IN /\ Ready(d) /\ new_pos >= 0 /\ new_pos <= inode.size - 1
     /\ pos' = [pos EXCEPT ![d] = new_pos]
     /\ UNCHANGED <<inode, dinode, deny, disk, bits, dbits, others, sync, mode, call, panic, restarts>>

-----------------------------------------------------------------------------
(* Opening, closing, other files, power.                                   *)

file_open(d, flag) ==
  /\ panic = "no" /\ mode[d] = "closed" /\ ~(flag = "w" /\ deny)
  /\ mode' = [mode EXCEPT ![d] = flag]
  /\ deny' = (deny \/ flag = "w")
  /\ pos' = [pos EXCEPT ![d] = 0]
  /\ UNCHANGED <<inode, dinode, disk, bits, dbits, others, sync, call, panic, restarts>>

\* Any close clears write_deny.
file_close(d) ==
  /\ Ready(d)
  /\ mode' = [mode EXCEPT ![d] = "closed"]
  /\ deny' = FALSE
  /\ pos' = [pos EXCEPT ![d] = 0]
  /\ UNCHANGED <<inode, dinode, disk, bits, dbits, others, sync, call, panic, restarts>>

\* Another file takes a block (one, a bound) and fills it with zeros.
OtherFile ==
  LET new == Taken(1)
  IN /\ panic = "no" /\ others = {} /\ new # << >>
     /\ others' = others \cup ToSet(new) /\ bits' = bits \cup ToSet(new)
     /\ dbits' = bitmap_sync(bits', dbits, new)
     /\ disk' = [disk EXCEPT ![new[1]] = Zeros]
     /\ UNCHANGED <<inode, dinode, deny, sync, mode, pos, call, panic, restarts>>

\* Another file's inode shares a sector of the inode table with this one: its
\* inode_sync reads the sector, sleeps, and writes back what it read (once, a
\* bound).
sync_read ==
  /\ panic = "no" /\ sync.at = "idle"
  /\ sync' = [at |-> "read", inode |-> dinode]
  /\ UNCHANGED <<inode, dinode, deny, disk, bits, dbits, others, mode, pos, call, panic, restarts>>

sync_write ==
  /\ panic = "no" /\ sync.at = "read"
  /\ dinode' = sync.inode
  /\ sync' = [at |-> IF sync.inode = dinode THEN "done" ELSE "lost", inode |-> Empty]
  /\ UNCHANGED <<inode, deny, disk, bits, dbits, others, mode, pos, call, panic, restarts>>

\* Power is lost and the partition mounted again (mount_partition).
Restart ==
  /\ restarts < MaxRestarts /\ restarts' = restarts + 1
  /\ inode' = dinode /\ bits' = dbits /\ others' = others \cap dbits
  /\ mode' = [d \in Fds |-> "closed"] /\ deny' = FALSE
  /\ pos' = [d \in Fds |-> 0] /\ call' = [d \in Fds |-> NoCall]
  /\ panic' = "no" /\ sync' = [at |-> "done", inode |-> Empty]
  /\ UNCHANGED <<dinode, disk, dbits>>

\* The table of the inode on disk is free in the bitmap on disk, two descriptors
\* are open for writing, or a finished write was undone in the inode table: the
\* model does not go on from there.
TableLost == inode.sec[Direct] \notin bits \cup {0}
Spoilt == TableLost \/ Cardinality(Writers) > 1 \/ sync.at = "lost"

Next ==
  /\ ~Spoilt
  /\ \/ \E d \in Fds :
          \/ \E n \in Counts : file_write(d, Bytes(n))
          \/ write_block(d) \/ write_grow(d) \/ write_end(d)
          \/ \E n \in Counts : file_read(d, n)
          \/ read_block(d) \/ read_end(d)
          \/ \E off \in Offsets, wh \in {"set", "cur", "end"} : sys_lseek(d, off, wh)
          \/ \E flag \in {"r", "w"} : file_open(d, flag)
          \/ file_close(d)
     \/ OtherFile \/ sync_read \/ sync_write \/ Restart

Spec == Init /\ [][Next]_vars

-----------------------------------------------------------------------------
(* Properties.                                                             *)

\* The bytes of the file, found through the inode in memory and the table.
BlockAt(i) == IF i < Direct THEN inode.sec[i] ELSE disk[inode.sec[Direct]][i - Direct]
Content == [k \in 1..inode.size |-> disk[BlockAt((k - 1) \div BlockSize)][(k - 1) % BlockSize]]

Progress(c) ==
  CASE c.op = "none" -> NoCall
    [] c.op = "write" -> [op |-> "write", left |-> c.left]
    [] c.op = "read" -> [op |-> "read", left |-> c.left, buf |-> c.buf]

File == INSTANCE ByteFile WITH
          content <- Content, saved <- dinode.size, ok <- ~Spoilt,
          call <- [d \in Fds |-> Progress(call[d])],
          MaxSize <- BlockSize * MaxBlocks

\* The file is a sequence of bytes: appends go to its end only, a reader gets
\* the bytes at its position although a writer of another descriptor is between
\* the write of a block and the growth of the size, and a restart at any moment
\* leaves what finished writes had written (file.c:200-364, 367-454).  Up to
\* the moment when two descriptors are open for writing (file.c:193, 122), a
\* restart has freed the table of the file (file.c:292), or the inode_sync of a
\* neighbour that had read the sector before has undone that of a write
\* (inode.c:59-68).
IsByteFile == File!Spec

\* The assertions on i_sectors hold and nothing is written to sector 0.  The
\* kernel stops only with the disk full, for a write up to exactly the largest
\* size (file.c:246), for a read that ends in the last block but one or later,
\* or in an empty file, at the position -1 that an empty write to it leaves
\* (file.c:335, 395).
FileAsserts ==
  /\ panic # "sectors" /\ disk[0] = Zeros
  /\ panic = "write limit" =>
       \E n \in Counts : inode.size + n = BlockSize * MaxBlocks
  /\ panic = "read limit" =>
       inode.size = 0 \/ inode.size >= BlockSize * (MaxBlocks - 1)
=============================================================================
