--------------------------- MODULE FileDataProofs ---------------------------
(***************************************************************************)
(* The contents of a file, for every size of block, inode, table and disk, *)
(* every number of descriptors and every bound on the calls: file_write,   *)
(* file_read and sys_lseek implement a sequence of bytes, also when calls  *)
(* overlap and when the power is lost at any moment; the assertions on     *)
(* i_sectors hold and nothing is written to sector 0.                      *)
(***************************************************************************)
EXTENDS FileData, FiniteSetTheorems, SequenceTheorems, NaturalsInduction, WellFoundedInduction, TLAPS

-----------------------------------------------------------------------------
(* The inductive invariant.                                                *)

Blk(n) == n \div BlockSize
Off(n) == n % BlockSize
MaxSize == BlockSize * MaxBlocks
Numbers == 0..NBlocks
Inode == [size : Nat, sec : [0..Direct -> Numbers]]
AllBlocks == [0..(MaxBlocks - 1) -> Numbers]

\* The block at place i of the file with inode n.
At(n, dk, i) == IF i < Direct THEN n.sec[i] ELSE dk[n.sec[Direct]][i - Direct]

\* Inode n has k blocks, all different, and the table if it needs it.
Layout(n, dk, k) ==
  /\ \A i \in 0..(k - 1) : At(n, dk, i) \in Blocks /\ At(n, dk, i) # n.sec[Direct]
  /\ \A i, j \in 0..(k - 1) : At(n, dk, i) = At(n, dk, j) => i = j
  /\ \A i \in 0..(Direct - 1) : i >= k => n.sec[i] = 0
  /\ k > Direct => n.sec[Direct] \in Blocks /\ dk[n.sec[Direct]] \in [0..(Indirect - 1) -> Numbers]
  /\ k <= Direct => n.sec[Direct] = 0

\* The blocks of an inode that are there for a file of t bytes: an empty file may have none.
Count(n, t) == IF n.sec[0] = 0 THEN 0 ELSE Blk(t) + 1
Holds(n, dk, t) == Layout(n, dk, Count(n, t)) /\ (n.sec[0] = 0 => t = 0)

IsWrite(c) ==
  /\ c = [op |-> "write", left |-> c.left, all |-> c.all, first |-> c.first, chunk |-> c.chunk]
  /\ c.left \in Seq(Nat) /\ c.all \in AllBlocks /\ c.first \in BOOLEAN /\ c.chunk \in Nat
IsRead(c) ==
  /\ c = [op |-> "read", left |-> c.left, all |-> c.all, buf |-> c.buf]
  /\ c.left \in Nat /\ c.all \in AllBlocks

FileTypes ==
  /\ inode \in Inode /\ dinode \in Inode /\ sync.inode \in Inode
  /\ disk = [b \in {0} \cup Blocks |-> disk[b]]
  /\ bits \in SUBSET Blocks /\ dbits \in SUBSET bits
  /\ mode \in [Fds -> {"closed", "r", "w"}]
  /\ pos \in [Fds -> 0..(Word - 1)]
  /\ call = [d \in Fds |-> call[d]]
  /\ \A d \in Fds : call[d] = NoCall \/ IsWrite(call[d]) \/ IsRead(call[d])

\* The write under way on d, when it is done the file has t bytes: it knows the
\* blocks, and what it has put into one is there before the size has grown.
Writes(d, t) ==
  LET c == call[d]
  IN /\ mode[d] = "w" /\ inode.sec[0] # 0 /\ t = inode.size + Len(c.left)
     /\ pos[d] = (inode.size - 1) % Word
     /\ \A i \in Blk(inode.size)..Blk(t) : c.all[i] = At(inode, disk, i)
     /\ c.chunk = 0 /\ c.first = FALSE /\ c.left # << >> => Off(inode.size) = 0
     /\ c.chunk # 0 =>
          /\ c.chunk = Lo(Len(c.left), BlockSize - Off(inode.size))
          /\ \A j \in 1..c.chunk :
               disk[c.all[Blk(inode.size)]][Off(inode.size) + j - 1] = c.left[j]

\* The read under way on d knows the blocks it has still to read.
Reads(d) ==
  LET c == call[d]
  IN /\ pos[d] + c.left <= inode.size
     /\ c.left # 0 => \A i \in Blk(pos[d])..Blk(pos[d] + c.left - 1) : c.all[i] = At(inode, disk, i)

\* t: the bytes that the file has room for.
Room(t) ==
  /\ inode.size <= t /\ t < MaxSize
  /\ Holds(inode, disk, t)
  /\ \A i \in 0..(Count(inode, t) - 1) : At(inode, disk, i) \in dbits
  /\ (\A d \in Fds : call[d].op # "write") => t = inode.size
  /\ \A d \in Fds : call[d].op = "write" => Writes(d, t)
  /\ \A d \in Fds : call[d].op = "read" => Reads(d)

\* The inode on disk is that of a file that was shorter.
Saved ==
  /\ dinode.size <= inode.size
  /\ Holds(dinode, disk, dinode.size)
  /\ \A i \in 0..(Count(dinode, dinode.size) - 1) : At(dinode, disk, i) = At(inode, disk, i)
  /\ dinode.sec[Direct] \in {0, inode.sec[Direct]}

Positions ==
  \A d \in Fds :
    /\ pos[d] <= inode.size \/ (pos[d] = Word - 1 /\ inode.size = 0 /\ mode[d] = "w")
    /\ mode[d] = "closed" => call[d] = NoCall

FileInv ==
  /\ FileTypes /\ FileAsserts
  /\ ~Spoilt => /\ \E t \in Nat : Room(t)
                /\ Saved /\ Positions

-----------------------------------------------------------------------------
(* Numbers.                                                                *)

LEMMA Sizes ==
  ASSUME FileDataAssumption
  PROVE  /\ BlockSize \in Nat /\ BlockSize > 0 /\ Direct \in Nat /\ Direct > 0
         /\ Indirect \in Nat /\ Indirect > 0 /\ NBlocks \in Nat /\ NBlocks > 0
         /\ BitsPerSector \in Nat /\ BitsPerSector > 0
         /\ MaxBlocks \in Nat /\ MaxBlocks = Direct + Indirect /\ MaxBlocks > 1
         /\ MaxSize \in Nat /\ MaxSize >= BlockSize /\ Word \in Nat /\ Word > 2 * MaxSize
         /\ IsFiniteSet(Fds) /\ Counts \subseteq Nat /\ Offsets \subseteq Int
         /\ \A n \in Counts : 2 * n <= Word
  <1>1. /\ BlockSize \in Nat /\ BlockSize > 0 /\ Direct \in Nat /\ Direct > 0
        /\ Indirect \in Nat /\ Indirect > 0 /\ NBlocks \in Nat /\ NBlocks > 0
        /\ BitsPerSector \in Nat /\ BitsPerSector > 0
        /\ IsFiniteSet(Fds) /\ Offsets \subseteq Int
        /\ Word \in Nat /\ Word > 2 * BlockSize * MaxBlocks /\ Counts \subseteq 0..(Word \div 2)
    BY DEF FileDataAssumption
  <1>2. MaxBlocks \in Nat /\ MaxBlocks = Direct + Indirect /\ MaxBlocks > 1
    BY <1>1 DEF MaxBlocks
  <1>3. MaxSize \in Nat /\ MaxSize >= BlockSize /\ Word > 2 * MaxSize
    BY <1>1, <1>2 DEF MaxSize
  <1>4. Counts \subseteq Nat /\ \A n \in Counts : 2 * n <= Word
    BY <1>1
  <1>5. QED
    BY <1>1, <1>2, <1>3, <1>4

\* A position is a block and an offset in it, in one way.
LEMMA Split ==
  ASSUME FileDataAssumption, NEW n \in Nat
  PROVE  /\ Blk(n) \in Nat /\ Off(n) \in 0..(BlockSize - 1)
         /\ n = BlockSize * Blk(n) + Off(n)
  BY Sizes DEF Blk, Off

LEMMA Joined ==
  ASSUME FileDataAssumption, NEW b \in Nat, NEW o \in 0..(BlockSize - 1)
  PROVE  Blk(BlockSize * b + o) = b /\ Off(BlockSize * b + o) = o
  <1> DEFINE n == BlockSize * b + o
  <1>1. n \in Nat /\ n = BlockSize * b + o
    BY Sizes
  <1> HIDE DEF n
  <1>2. Blk(n) \in Nat /\ Off(n) \in 0..(BlockSize - 1) /\ n = BlockSize * Blk(n) + Off(n)
    BY <1>1, Split
  <1>3. Blk(n) = b
    <2>1. CASE Blk(n) < b
      <3>1. BlockSize * Blk(n) + BlockSize <= BlockSize * b
        BY <1>2, <2>1, Sizes
      <3>2. QED
        BY <1>1, <1>2, <3>1, Sizes
    <2>2. CASE Blk(n) > b
      <3>1. BlockSize * b + BlockSize <= BlockSize * Blk(n)
        BY <1>2, <2>2, Sizes
      <3>2. QED
        BY <1>1, <1>2, <3>1, Sizes
    <2>3. QED
      BY <1>2, <2>1, <2>2
  <1>4. QED
    BY <1>1, <1>2, <1>3, Sizes DEF n

\* Within a block the offset grows.
LEMMA Within ==
  ASSUME FileDataAssumption, NEW n \in Nat, NEW k \in Nat, Off(n) + k < BlockSize
  PROVE  Blk(n + k) = Blk(n) /\ Off(n + k) = Off(n) + k
  <1>1. Blk(n) \in Nat /\ Off(n) \in Nat /\ n = BlockSize * Blk(n) + Off(n)
    BY Split
  <1>2. n + k = BlockSize * Blk(n) + (Off(n) + k)
    BY <1>1, Sizes
  <1>3. QED
    BY <1>1, <1>2, Joined, Sizes

\* The block that ends here is followed by the next one.
LEMMA Following ==
  ASSUME FileDataAssumption, NEW n \in Nat
  PROVE  /\ Blk(n + (BlockSize - Off(n))) = Blk(n) + 1 /\ Off(n + (BlockSize - Off(n))) = 0
  <1>1. Blk(n) \in Nat /\ Off(n) \in 0..(BlockSize - 1) /\ n = BlockSize * Blk(n) + Off(n)
    BY Split
  <1>2. n + (BlockSize - Off(n)) = BlockSize * (Blk(n) + 1) + 0
    BY <1>1, Sizes
  <1>3. QED
    BY <1>1, <1>2, Joined, Sizes

LEMMA Monotone ==
  ASSUME FileDataAssumption, NEW n \in Nat, NEW m \in Nat, n <= m
  PROVE  Blk(n) <= Blk(m)
  <1>1. /\ Blk(n) \in Nat /\ Off(n) \in 0..(BlockSize - 1) /\ n = BlockSize * Blk(n) + Off(n)
        /\ Blk(m) \in Nat /\ Off(m) \in 0..(BlockSize - 1) /\ m = BlockSize * Blk(m) + Off(m)
    BY Split
  <1>2. ASSUME Blk(m) < Blk(n) PROVE FALSE
    <2>1. BlockSize * Blk(m) + BlockSize <= BlockSize * Blk(n)
      BY <1>1, <1>2, Sizes
    <2>2. QED
      BY <1>1, <2>1, Sizes
  <1>3. QED
    BY <1>1, <1>2

\* Up to MaxSize, block numbers stay below MaxBlocks.
LEMMA Bounded ==
  ASSUME FileDataAssumption, NEW n \in Nat, NEW k \in Nat
  PROVE  n < BlockSize * k <=> Blk(n) < k
  <1>1. /\ Blk(n) \in Nat /\ Off(n) \in 0..(BlockSize - 1) /\ n = BlockSize * Blk(n) + Off(n)
    BY Split
  <1>2. ASSUME Blk(n) < k PROVE n < BlockSize * k
    <2>1. BlockSize * Blk(n) + BlockSize <= BlockSize * k
      BY <1>1, <1>2, Sizes
    <2>2. BlockSize * k \in Nat
      BY Sizes
    <2>3. QED
      BY <1>1, <2>1, <2>2, Sizes
  <1>3. ASSUME Blk(n) >= k PROVE n >= BlockSize * k
    <2>1. BlockSize * Blk(n) >= BlockSize * k
      BY <1>1, <1>3, Sizes
    <2>2. BlockSize * k \in Nat /\ BlockSize * Blk(n) \in Nat
      BY <1>1, Sizes
    <2>3. QED
      BY <1>1, <2>1, <2>2
  <1>4. BlockSize * k \in Nat
    BY Sizes
  <1>5. QED
    BY <1>1, <1>2, <1>3, <1>4

-----------------------------------------------------------------------------
(* The block bitmap.                                                       *)

\* A set of numbers that is not empty has a least element.
LEMMA LeastNat ==
  ASSUME NEW S \in SUBSET Nat, S # {}
  PROVE  \E n \in S : \A m \in S : n <= m
  <1>1. PICK n \in S : \A m \in S : ~(<<m, n>> \in OpToRel(<, Nat))
    BY NatLessThanWellFounded, WFMin
  <1>2. \A m \in S : ~(m < n)
    BY <1>1 DEF OpToRel
  <1>3. QED
    BY <1>2

LEMMA MinFacts ==
  ASSUME NEW S \in SUBSET Nat, S # {}
  PROVE  Min(S) \in S
  BY LeastNat DEF Min

\* What is left of a set after n turns of taking its least element.
IsLeft(f, S, n) ==
  f = [k \in 0..n |-> IF k = 0 THEN S ELSE f[k - 1] \ {Min(f[k - 1])}]

LEMMA LeftExists ==
  ASSUME NEW S, NEW n \in Nat
  PROVE  \E f : IsLeft(f, S, n)
  <1> DEFINE T == {k \in Nat : \E f : IsLeft(f, S, k)}
  <1>1. \E f : IsLeft(f, S, 0)
    <2> DEFINE f == [k \in 0..0 |-> S]
    <2>1. IsLeft(f, S, 0)
      BY DEF IsLeft
    <2>2. QED
      BY <2>1
  <1>2. ASSUME NEW k \in Nat, NEW f, IsLeft(f, S, k) PROVE \E g : IsLeft(g, S, k + 1)
    <2> DEFINE g == [i \in 0..(k + 1) |-> IF i = k + 1 THEN f[k] \ {Min(f[k])} ELSE f[i]]
    <2>1. \A i \in 0..(k + 1) : g[i] = IF i = 0 THEN S ELSE g[i - 1] \ {Min(g[i - 1])}
      <3>1. \A i \in 0..k : f[i] = IF i = 0 THEN S ELSE f[i - 1] \ {Min(f[i - 1])}
        BY <1>2 DEF IsLeft
      <3>2. TAKE i \in 0..(k + 1)
      <3>3. CASE i = k + 1
        BY <3>3
      <3>4. CASE i # k + 1
        <4>1. i \in 0..k /\ (i # 0 => i - 1 \in 0..k)
          BY <3>4
        <4>2. g[i] = f[i] /\ (i # 0 => g[i - 1] = f[i - 1])
          BY <4>1
        <4> HIDE DEF g
        <4>3. QED
          BY <3>1, <4>1, <4>2
      <3>5. QED
        BY <3>3, <3>4
    <2>2. IsLeft(g, S, k + 1)
      <3>1. g = [i \in 0..(k + 1) |-> g[i]]
        OBVIOUS
      <3> HIDE DEF g
      <3>2. QED
        BY <2>1, <3>1 DEF IsLeft
    <2>3. QED
      BY <2>2
  <1>3. T = Nat
    <2>1. SUFFICES ASSUME Nat \ T # {} PROVE FALSE
      OBVIOUS
    <2>2. PICK k \in Nat \ T : \A m \in Nat \ T : k <= m
      BY <2>1, LeastNat
    <2>3. k # 0
      BY <1>1, <2>2
    <2>4. k - 1 \in T
      BY <2>2, <2>3
    <2>5. k - 1 \in Nat /\ (k - 1) + 1 = k
      BY <2>3
    <2>6. QED
      BY <1>2, <2>2, <2>4, <2>5
  <1>4. QED
    BY <1>3

\* The blocks that are taken are free and all different.
LEMMA TakenFacts ==
  ASSUME FileDataAssumption, NEW n \in Nat
  PROVE  LET s == Taken(n)
         IN /\ s \in Seq(Blocks \ bits) /\ Len(s) <= n /\ DOMAIN s = 1..Len(s)
            /\ \A i, j \in 1..Len(s) : s[i] = s[j] => i = j
  <1> DEFINE S == Blocks \ bits
             f == CHOOSE g : IsLeft(g, S, n)
             m == Lo(n, Cardinality(S))
             s == [k \in 1..m |-> Min(f[k - 1])]
  <1>1. Taken(n) = s
    BY DEF Taken, IsLeft
  <1>2. IsLeft(f, S, n)
    <2> HIDE DEF S
    <2>1. \E g : IsLeft(g, S, n)
      BY LeftExists
    <2>2. QED
      BY <2>1
  <1>3. IsFiniteSet(S) /\ S \in SUBSET Nat /\ Cardinality(S) \in Nat
    <2>1. IsFiniteSet(1..NBlocks)
      BY FS_Interval, Sizes
    <2>2. S \subseteq 1..NBlocks
      BY DEF Blocks
    <2>3. IsFiniteSet(S)
      BY <2>1, <2>2, FS_Subset
    <2>4. QED
      BY <2>2, <2>3, FS_CardinalityType, Sizes
  <1> HIDE DEF f, S
  <1>4. f[0] = S /\ \A k \in Nat : k + 1 <= n => f[k + 1] = f[k] \ {Min(f[k])}
    <2>1. f[0] = S
      BY <1>2 DEF IsLeft
    <2>2. ASSUME NEW k \in Nat, k + 1 <= n PROVE f[k + 1] = f[k] \ {Min(f[k])}
      <3>1. k + 1 \in 0..n /\ k + 1 # 0 /\ (k + 1) - 1 = k
        BY <2>2
      <3>2. f[k + 1] = IF k + 1 = 0 THEN S ELSE f[(k + 1) - 1] \ {Min(f[(k + 1) - 1])}
        BY <1>2, <3>1 DEF IsLeft
      <3>3. QED
        BY <3>1, <3>2
    <2>3. QED
      BY <2>1, <2>2
  <1> DEFINE c == Cardinality(S)
             Good(k) == /\ k <= n /\ k <= c =>
                             /\ f[k] \subseteq S /\ Cardinality(f[k]) = c - k
                             /\ \A i \in 0..(k - 1) : Min(f[i]) \in S /\ Min(f[i]) \notin f[k]
  <1>5. Good(0)
    <2>1. 0..(0 - 1) = {} /\ c - 0 = c
      BY <1>3
    <2>2. QED
      BY <1>3, <1>4, <2>1
  <1>6. ASSUME NEW k \in Nat, Good(k) PROVE Good(k + 1)
    <2>1. SUFFICES ASSUME k + 1 <= n, k + 1 <= c
                   PROVE  /\ f[k + 1] \subseteq S /\ Cardinality(f[k + 1]) = c - (k + 1)
                          /\ \A i \in 0..k : Min(f[i]) \in S /\ Min(f[i]) \notin f[k + 1]
      <3> HIDE DEF c
      <3>1. (k + 1) - 1 = k
        OBVIOUS
      <3>2. QED
        BY <3>1
    <2>2. /\ f[k] \subseteq S /\ Cardinality(f[k]) = c - k
          /\ \A i \in 0..(k - 1) : Min(f[i]) \in S /\ Min(f[i]) \notin f[k]
      BY <1>3, <1>6, <2>1
    <2>3. f[k + 1] = f[k] \ {Min(f[k])}
      BY <1>4, <2>1
    <2>4. IsFiniteSet(f[k]) /\ f[k] # {} /\ f[k] \in SUBSET Nat
      <3>1. IsFiniteSet(f[k])
        BY <1>3, <2>2, FS_Subset
      <3>2. Cardinality(f[k]) # 0
        BY <1>3, <2>1, <2>2
      <3>3. QED
        BY <1>3, <2>2, <3>1, <3>2, FS_EmptySet
    <2>5. Min(f[k]) \in f[k]
      BY <2>4, MinFacts
    <2>6. Cardinality(f[k + 1]) = (c - k) - 1
      <3> DEFINE g == f[k]
                 x == Min(g)
      <3>1. IsFiniteSet(g) /\ x \in g /\ f[k + 1] = g \ {x} /\ Cardinality(g) = c - k
        BY <2>2, <2>3, <2>4, <2>5
      <3> HIDE DEF g, x, c
      <3>2. Cardinality(g \ {x}) = Cardinality(g) - 1
        BY <3>1, FS_RemoveElement
      <3>3. QED
        BY <3>1, <3>2
    <2>7. QED
      BY <1>3, <2>1, <2>2, <2>3, <2>5, <2>6
  <1>7. \A k \in Nat : Good(k)
    <2> HIDE DEF Good
    <2> DEFINE T == {k \in Nat : ~Good(k)}
    <2>1. SUFFICES ASSUME T # {} PROVE FALSE
      OBVIOUS
    <2>2. PICK k \in T : \A i \in T : k <= i
      BY <2>1, LeastNat
    <2>3. k # 0 /\ k - 1 \in Nat /\ Good(k - 1) /\ (k - 1) + 1 = k
      BY <1>5, <2>2
    <2>4. Good(k)
      BY <1>6, <2>3
    <2>5. QED
      BY <2>2, <2>4
  <1>8. m \in Nat /\ m <= n /\ m <= c
    BY <1>3 DEF Lo
  <1> HIDE DEF m
  <1>9. \A k \in 1..m : Min(f[k - 1]) \in S /\ Min(f[k - 1]) \in f[k - 1]
    <2>1. TAKE k \in 1..m
    <2>2. k - 1 \in Nat /\ k - 1 <= n /\ k - 1 < c
      BY <1>3, <1>8
    <2>3. f[k - 1] \subseteq S /\ Cardinality(f[k - 1]) = c - (k - 1)
      BY <1>3, <1>7, <2>2
    <2>4. f[k - 1] # {} /\ f[k - 1] \in SUBSET Nat
      <3>1. Cardinality(f[k - 1]) # 0
        BY <1>3, <2>2, <2>3
      <3>2. QED
        BY <1>3, <2>3, <3>1, FS_EmptySet
    <2>5. QED
      BY <2>3, <2>4, MinFacts
  <1>10. ASSUME NEW i \in 1..m, NEW j \in 1..m, i < j PROVE Min(f[i - 1]) # Min(f[j - 1])
    <2>1. j - 1 \in Nat /\ j - 1 <= n /\ j - 1 <= c /\ i - 1 \in 0..((j - 1) - 1)
      BY <1>3, <1>8, <1>10
    <2>2. Min(f[i - 1]) \notin f[j - 1]
      BY <1>3, <1>7, <2>1
    <2>3. QED
      BY <1>9, <2>2
  <1>11. s \in Seq(S) /\ Len(s) = m /\ DOMAIN s = 1..m
    BY <1>8, <1>9, SMTT(30)
  <1>12. \A i, j \in 1..m : s[i] = s[j] => i = j
    <2>1. \A i \in 1..m : s[i] = Min(f[i - 1])
      OBVIOUS
    <2> HIDE DEF s
    <2>2. QED
      BY <1>8, <1>10, <2>1
  <1> HIDE DEF s
  <1>13. QED
    BY <1>1, <1>8, <1>11, <1>12 DEF S

\* bitmap_sync takes over bits of memory, among them those of s.
LEMMA SyncFacts ==
  ASSUME FileDataAssumption, NEW mem \in SUBSET Blocks, NEW dsk \in SUBSET mem, NEW s \in Seq(mem)
  PROVE  /\ dsk \subseteq bitmap_sync(mem, dsk, s) /\ bitmap_sync(mem, dsk, s) \subseteq mem
         /\ \A i \in 1..Len(s) : s[i] \in bitmap_sync(mem, dsk, s)
  <1> DEFINE written == UNION {Sector(s[i]) : i \in DOMAIN s}
  <1>1. bitmap_sync(mem, dsk, s) = (dsk \ written) \cup (mem \cap written)
    BY DEF bitmap_sync
  <1>2. DOMAIN s = 1..Len(s) /\ \A i \in 1..Len(s) : s[i] \in mem
    OBVIOUS
  <1>3. \A i \in 1..Len(s) : s[i] \in written
    <2>1. \A i \in 1..Len(s) : s[i] \in Sector(s[i])
      BY <1>2 DEF Sector
    <2>2. QED
      BY <1>2, <2>1
  <1> HIDE DEF written
  <1>4. QED
    BY <1>1, <1>2, <1>3

-----------------------------------------------------------------------------
(* The blocks of an inode.                                                 *)

\* The table of n is the same on two disks.
TableKept(n, dk, dl) == n.sec[Direct] # 0 => dl[n.sec[Direct]] = dk[n.sec[Direct]]

LEMMA LayoutSame ==
  ASSUME FileDataAssumption, NEW n \in Inode, NEW dk, NEW dl, NEW k \in Nat, Layout(n, dk, k),
         TableKept(n, dk, dl)
  PROVE  Layout(n, dl, k) /\ \A i \in 0..(k - 1) : At(n, dl, i) = At(n, dk, i)
  <1>1. k > Direct => n.sec[Direct] \in Blocks /\ n.sec[Direct] # 0
    BY DEF Layout, Blocks
  <1>2. k > Direct => dl[n.sec[Direct]] = dk[n.sec[Direct]]
    BY <1>1 DEF TableKept
  <1>3. \A i \in 0..(k - 1) : At(n, dl, i) = At(n, dk, i)
    <2>1. TAKE i \in 0..(k - 1)
    <2>2. CASE i < Direct
      BY <2>2 DEF At
    <2>3. CASE i >= Direct
      <3>1. k > Direct
        BY <2>3, Sizes
      <3>2. QED
        BY <1>2, <2>3, <3>1, Sizes DEF At
    <2>4. QED
      BY <2>2, <2>3, Sizes
  <1>4. QED
    BY <1>1, <1>2, <1>3 DEF Layout

\* What follows for the numbers of blocks.
LEMMA CountFacts ==
  ASSUME FileDataAssumption, NEW n \in Inode, NEW t \in Nat
  PROVE  /\ Count(n, t) \in Nat /\ (n.sec[0] = 0 => Count(n, t) = 0)
         /\ (n.sec[0] # 0 => Count(n, t) = Blk(t) + 1 /\ Blk(t) \in Nat)
  BY Split DEF Count

\* An inode without blocks is of an empty file.
LEMMA FirstBlock ==
  ASSUME FileDataAssumption, NEW n \in Inode, NEW dk, NEW t \in Nat, Holds(n, dk, t), t # 0
  PROVE  n.sec[0] # 0 /\ Count(n, t) = Blk(t) + 1
  BY CountFacts DEF Holds

-----------------------------------------------------------------------------
(* file_write.                                                             *)

\* The parts of file_write.
FW_has == BlocksFor(inode.size)
FW_will(src) == BlocksFor(inode.size + Len(src))
FW_first == IF inode.sec[0] = 0 THEN 1 ELSE 0
FW_limit(src) == FW_will(src) > MaxBlocks
FW_crosses(src) == Crosses(FW_has, FW_will(src))
FW_skip(src) == FW_first + (IF FW_crosses(src) THEN 1 ELSE 0)
FW_need(src) == IF FW_limit(src) THEN FW_first ELSE FW_skip(src) + (FW_will(src) - FW_has)
FW_new(src) == Taken(FW_need(src))
FW_New(src, i) == FW_new(src)[FW_skip(src) + 1 + i - FW_has]
FW_sec1(src) == IF FW_first = 1 THEN [inode.sec EXCEPT ![0] = FW_new(src)[1]] ELSE inode.sec
FW_sec2(src) ==
  [i \in 0..Direct |->
     IF i = Direct /\ FW_crosses(src) THEN FW_new(src)[FW_first + 1]
     ELSE IF i < Direct /\ i \in FW_has..(FW_will(src) - 1) THEN FW_New(src, i) ELSE FW_sec1(src)[i]]
FW_all(src) ==
  [i \in 0..(MaxBlocks - 1) |->
     IF i \in FW_has..(FW_will(src) - 1) THEN FW_New(src, i)
     ELSE IF FW_has > Direct /\ i >= Direct THEN disk[FW_sec1(src)[Direct]][i - Direct]
     ELSE IF FW_has <= Direct /\ i = FW_has - 1 THEN FW_sec1(src)[i] ELSE 0]
FW_asserted(src) ==
  /\ FW_will(src) > FW_has /\ FW_will(src) <= Direct => FW_sec1(src)[FW_has - 1] # 0
  /\ \A i \in FW_has..(FW_will(src) - 1) : i < Direct => FW_sec1(src)[i] = 0
  /\ IF FW_has > Direct THEN FW_sec1(src)[Direct] # 0
     ELSE FW_crosses(src) => FW_sec1(src)[Direct] = 0
FW_fst(src) == SubSeq(FW_new(src), 1, Lo(FW_first, Len(FW_new(src))))
FW_rest(src) == SubSeq(FW_new(src), FW_skip(src) + 1, Len(FW_new(src)))
FW_bits(src) == bits \cup ToSet(FW_new(src))
FW_dbits(src) ==
  bitmap_sync(FW_bits(src),
              bitmap_sync(bits \cup ToSet(FW_fst(src)), dbits, FW_fst(src)), FW_rest(src))
FW_panic(src) ==
  IF Len(FW_new(src)) < FW_need(src) THEN "full" ELSE IF FW_limit(src) THEN "write limit"
  ELSE IF FW_asserted(src) THEN "no" ELSE "sectors"

LEMMA WriteParts ==
  ASSUME NEW d, NEW src, file_write(d, src)
  PROVE  /\ Ready(d) /\ mode[d] = "w" /\ inode.size + Len(src) <= MaxSize
         /\ bits' = FW_bits(src) /\ dbits' = FW_dbits(src) /\ panic' = FW_panic(src)
         /\ UNCHANGED <<dinode, deny, others, sync, mode, restarts>>
         /\ panic' # "no" => UNCHANGED <<inode, disk, pos, call>>
         /\ panic' = "no" =>
              /\ inode' = [inode EXCEPT !.sec = FW_sec2(src)]
              /\ disk' = IF FW_will(src) > FW_has /\ FW_will(src) > Direct
                         THEN [disk EXCEPT ![FW_sec2(src)[Direct]] =
                                 [j \in 0..(Indirect - 1) |-> FW_all(src)[Direct + j]]]
                         ELSE disk
              /\ pos' = [pos EXCEPT ![d] = (inode.size - 1) % Word]
              /\ call' = [call EXCEPT ![d] = [op |-> "write", left |-> src, all |-> FW_all(src),
                                              first |-> TRUE, chunk |-> 0]]
  BY DEF file_write, FW_has, FW_will, FW_first, FW_limit, FW_crosses, FW_skip, FW_need, FW_new,
         FW_New, FW_sec1, FW_sec2, FW_all, FW_asserted, FW_fst, FW_rest, FW_bits, FW_dbits,
         FW_panic, MaxSize

\* The numbers in file_write.
LEMMA WriteNumbers ==
  ASSUME FileDataAssumption, FileTypes, Holds(inode, disk, inode.size), NEW src \in Seq(Nat)
  PROVE  /\ FW_has = Blk(inode.size) + 1 /\ FW_will(src) = Blk(inode.size + Len(src)) + 1
         /\ FW_has \in Nat /\ FW_has >= 1 /\ FW_will(src) \in Nat /\ FW_has <= FW_will(src)
         /\ FW_first \in {0, 1}
         /\ FW_first = 1 => /\ inode.sec[0] = 0 /\ inode.size = 0 /\ FW_has = 1
                            /\ Count(inode, inode.size) = 0
         /\ FW_first = 0 => inode.sec[0] # 0 /\ Count(inode, inode.size) = FW_has
         /\ FW_skip(src) = IF FW_has <= Direct /\ FW_will(src) > Direct THEN FW_first + 1 ELSE FW_first
         /\ FW_crosses(src) = (FW_has <= Direct /\ FW_will(src) > Direct)
         /\ FW_need(src) \in Nat
         /\ ~FW_limit(src) => FW_will(src) <= MaxBlocks /\ FW_need(src) = FW_skip(src) + (FW_will(src) - FW_has)
  <1>1. inode.size \in Nat /\ Len(src) \in Nat /\ inode \in Inode
    BY DEF FileTypes, Inode
  <1>2. /\ FW_has = Blk(inode.size) + 1 /\ FW_will(src) = Blk(inode.size + Len(src)) + 1
    BY DEF FW_has, FW_will, BlocksFor, Blk
  <1>3. /\ Blk(inode.size) \in Nat /\ Blk(inode.size + Len(src)) \in Nat
        /\ Blk(inode.size) <= Blk(inode.size + Len(src))
    <2> DEFINE n == inode.size
               m == n + Len(src)
    <2>1. n \in Nat /\ m \in Nat /\ n <= m
      BY <1>1
    <2> HIDE DEF n, m
    <2>2. Blk(n) \in Nat /\ Blk(m) \in Nat
      BY <2>1, Split
    <2>3. Blk(n) <= Blk(m)
      BY <2>1, Monotone
    <2>4. QED
      BY <2>2, <2>3 DEF n, m
  <1>4. /\ FW_has \in Nat /\ FW_has >= 1 /\ FW_will(src) \in Nat /\ FW_has <= FW_will(src)
    BY <1>2, <1>3
  <1>5. FW_first \in {0, 1} /\ (FW_first = 1 <=> inode.sec[0] = 0)
    BY DEF FW_first
  <1>6. inode.sec[0] = 0 => inode.size = 0 /\ FW_has = 1 /\ Count(inode, inode.size) = 0
    <2>1. Blk(0) = 0
      <3>1. BlockSize * 0 + 0 = 0
        BY Sizes
      <3>2. QED
        BY <3>1, Joined, Sizes
    <2>2. QED
      <3>1. inode.sec[0] = 0 => inode.size = 0
        BY DEF Holds
      <3>2. inode.sec[0] = 0 => Count(inode, inode.size) = 0
        BY <1>1, CountFacts
      <3>3. QED
        BY <1>2, <2>1, <3>1, <3>2
  <1>7. inode.sec[0] # 0 => Count(inode, inode.size) = FW_has
    BY <1>1, <1>2, CountFacts
  <1>8. FW_crosses(src) = (FW_has <= Direct /\ FW_will(src) > Direct)
    BY DEF FW_crosses, Crosses
  <1>9. /\ FW_skip(src) = IF FW_has <= Direct /\ FW_will(src) > Direct THEN FW_first + 1 ELSE FW_first
    <2>1. FW_skip(src) = FW_first + (IF FW_has <= Direct /\ FW_will(src) > Direct THEN 1 ELSE 0)
      BY DEF FW_skip, FW_crosses, Crosses
    <2>2. QED
      BY <1>4, <1>5, <2>1, Sizes
  <1>10. FW_skip(src) \in Nat
    BY <1>5, <1>9
  <1>11. FW_limit(src) <=> FW_will(src) > MaxBlocks
    BY DEF FW_limit
  <1>12. /\ FW_need(src) \in Nat
         /\ ~FW_limit(src) => FW_will(src) <= MaxBlocks /\ FW_need(src) = FW_skip(src) + (FW_will(src) - FW_has)
    <2>1. FW_need(src) = IF FW_will(src) > MaxBlocks THEN FW_first
                         ELSE FW_skip(src) + (FW_will(src) - FW_has)
      BY DEF FW_need, FW_limit
    <2>2. CASE FW_will(src) > MaxBlocks
      BY <1>5, <1>11, <2>1, <2>2
    <2>3. CASE ~(FW_will(src) > MaxBlocks)
      <3>1. FW_need(src) = FW_skip(src) + (FW_will(src) - FW_has) /\ FW_will(src) <= MaxBlocks
        BY <1>4, <2>1, <2>3, Sizes
      <3>2. FW_need(src) \in Nat
        BY <1>4, <1>10, <3>1
      <3>3. QED
        BY <3>1, <3>2
    <2>4. QED
      BY <2>2, <2>3
  <1>13. QED
    BY <1>2, <1>4, <1>5, <1>6, <1>7, <1>8, <1>9, <1>12

\* The end of a sequence.
LEMMA Tail1 ==
  ASSUME NEW S, NEW q \in Seq(S), NEW k \in Nat
  PROVE  LET r == SubSeq(q, k + 1, Len(q))
         IN /\ r \in Seq(S) /\ (k <= Len(q) => Len(r) = Len(q) - k)
            /\ \A i \in 1..Len(q) : i > k => i - k \in 1..Len(r) /\ r[i - k] = q[i]
  <1>1. CASE k < Len(q)
    BY <1>1
  <1>2. CASE k >= Len(q)
    BY <1>2
  <1>3. QED
    BY <1>1, <1>2

\* What file_write does to the bitmaps, also when it stops half way.
LEMMA WriteBits ==
  ASSUME FileDataAssumption, FileTypes, Holds(inode, disk, inode.size), NEW src \in Seq(Nat)
  PROVE  LET new == FW_new(src)
         IN /\ new \in Seq(Blocks \ bits) /\ Len(new) <= FW_need(src)
            /\ \A i, j \in 1..Len(new) : new[i] = new[j] => i = j
            /\ \A i \in 1..Len(new) : new[i] \in Blocks /\ new[i] \notin bits /\ new[i] \in FW_bits(src)
            /\ bits \subseteq FW_bits(src) /\ FW_bits(src) \subseteq Blocks
            /\ dbits \subseteq FW_dbits(src) /\ FW_dbits(src) \subseteq FW_bits(src)
            /\ FW_first = 1 /\ Len(new) >= 1 => new[1] \in FW_dbits(src)
            /\ \A i \in 1..Len(new) : i > FW_skip(src) => new[i] \in FW_dbits(src)
  <1> DEFINE new == FW_new(src)
             fst == FW_fst(src)
             rest == FW_rest(src)
             B == FW_bits(src)
             F == bits \cup ToSet(fst)
             D1 == bitmap_sync(F, dbits, fst)
  <1>1. /\ FW_need(src) \in Nat /\ FW_first \in {0, 1} /\ FW_skip(src) \in {0, 1, 2}
        /\ bits \subseteq Blocks /\ dbits \subseteq bits
    BY WriteNumbers, SMTT(30) DEF FileTypes
  <1>2. /\ new \in Seq(Blocks \ bits) /\ Len(new) <= FW_need(src) /\ DOMAIN new = 1..Len(new)
        /\ \A i, j \in 1..Len(new) : new[i] = new[j] => i = j
    BY <1>1, TakenFacts DEF FW_new
  <1> HIDE DEF new
  <1>3. Len(new) \in Nat /\ \A i \in 1..Len(new) : new[i] \in Blocks /\ new[i] \notin bits
    BY <1>2
  <1>4. B = bits \cup {new[i] : i \in 1..Len(new)}
    BY <1>2 DEF FW_bits, ToSet, new
  <1>5. bits \subseteq B /\ B \subseteq Blocks /\ \A i \in 1..Len(new) : new[i] \in B
    BY <1>1, <1>3, <1>4
  <1> HIDE DEF B
  <1>6. new \in Seq(B)
    <2>1. new \in [1..Len(new) -> B]
      BY <1>2, <1>5
    <2> DEFINE l == Len(new)
    <2>2. l \in Nat /\ new \in [1..l -> B]
      BY <1>3, <2>1
    <2> HIDE DEF l
    <2>3. QED
      BY <2>2
  <1>7. fst = SubSeq(new, 1, Lo(FW_first, Len(new))) /\ rest = SubSeq(new, FW_skip(src) + 1, Len(new))
    BY DEF FW_fst, FW_rest, new
  <1>8. Lo(FW_first, Len(new)) \in 0..Len(new) /\ (FW_first = 1 /\ Len(new) >= 1 => Lo(FW_first, Len(new)) = 1)
    <2> DEFINE l == Len(new)
    <2>1. l \in Nat
      BY <1>3
    <2> HIDE DEF l
    <2>2. Lo(FW_first, l) \in 0..l /\ (FW_first = 1 /\ l >= 1 => Lo(FW_first, l) = 1)
      <3>1. CASE FW_first = 0
        BY <2>1, <3>1 DEF Lo
      <3>2. CASE FW_first = 1
        BY <2>1, <3>2 DEF Lo
      <3>3. QED
        BY <1>1, <3>1, <3>2
    <2>3. QED
      BY <2>2 DEF l
  <1> DEFINE lo == Lo(FW_first, Len(new))
  <1> HIDE DEF lo
  <1>9. /\ fst \in Seq(B) /\ Len(fst) = lo /\ \A i \in 1..lo : fst[i] = new[i]
    BY <1>6, <1>7, <1>8, SMTT(30) DEF lo
  <1>10. /\ rest \in Seq(B)
         /\ \A i \in 1..Len(new) : i > FW_skip(src) =>
              /\ i - FW_skip(src) \in 1..Len(rest) /\ rest[i - FW_skip(src)] = new[i]
    <2> DEFINE k == FW_skip(src)
    <2>1. k \in Nat /\ rest = SubSeq(new, k + 1, Len(new))
      BY <1>1, <1>7
    <2> HIDE DEF k, rest
    <2>2. QED
      BY <1>6, <2>1, Tail1 DEF k
  <1> HIDE DEF fst, rest
  <1>11. F \subseteq B /\ bits \subseteq F /\ fst \in Seq(F)
    <2>1. DOMAIN fst = 1..Len(fst)
      BY <1>9
    <2>2. ToSet(fst) \subseteq B
      BY <1>9, <2>1 DEF ToSet
    <2>3. \A i \in 1..Len(fst) : fst[i] \in ToSet(fst)
      BY <2>1 DEF ToSet
    <2>4. fst \in Seq(ToSet(fst))
      BY <1>9, <2>1, <2>3
    <2>5. QED
      BY <1>5, <2>2, <2>4
  <1> HIDE DEF F
  <1>12. dbits \subseteq D1 /\ D1 \subseteq F /\ \A i \in 1..Len(fst) : fst[i] \in D1
    BY <1>1, <1>5, <1>11, SyncFacts
  <1>13. FW_dbits(src) = bitmap_sync(B, D1, rest)
    BY DEF FW_dbits, F, fst, rest, B
  <1> HIDE DEF D1
  <1>14. /\ D1 \subseteq bitmap_sync(B, D1, rest) /\ bitmap_sync(B, D1, rest) \subseteq B
         /\ \A i \in 1..Len(rest) : rest[i] \in bitmap_sync(B, D1, rest)
    BY <1>5, <1>10, <1>11, <1>12, SyncFacts
  <1>15. FW_first = 1 /\ Len(new) >= 1 => new[1] \in D1
    BY <1>3, <1>8, <1>9, <1>12 DEF lo
  <1>16. \A i \in 1..Len(new) : i > FW_skip(src) => new[i] \in FW_dbits(src)
    BY <1>10, <1>13, <1>14
  <1>17. /\ dbits \subseteq FW_dbits(src) /\ FW_dbits(src) \subseteq B
         /\ FW_first = 1 /\ Len(new) >= 1 => new[1] \in FW_dbits(src)
    BY <1>12, <1>13, <1>14, <1>15
  <1>18. QED
    BY <1>2, <1>3, <1>5, <1>16, <1>17 DEF new, B

FW_inode(src) == [inode EXCEPT !.sec = FW_sec2(src)]
FW_disk(src) ==
  IF FW_will(src) > FW_has /\ FW_will(src) > Direct
  THEN [disk EXCEPT ![FW_sec2(src)[Direct]] = [j \in 0..(Indirect - 1) |-> FW_all(src)[Direct + j]]]
  ELSE disk

\* What a file has before a write: its blocks, safe on the disk, and the table.
Before ==
  /\ FileTypes /\ Holds(inode, disk, inode.size) /\ inode.sec[Direct] \in bits \cup {0}
  /\ \A i \in 0..(Count(inode, inode.size) - 1) : At(inode, disk, i) \in dbits
\* The write gets the blocks it needs.
Enough(src) == src \in Seq(Nat) /\ ~FW_limit(src) /\ Len(FW_new(src)) >= FW_need(src)

\* Where the new blocks come from.
LEMMA NewBlocks ==
  ASSUME FileDataAssumption, Before, NEW src, Enough(src)
  PROVE  LET N(i) == FW_New(src, i)
             new == FW_new(src)
         IN /\ \A i \in FW_has..(FW_will(src) - 1) :
                 N(i) \in Blocks /\ N(i) \notin bits /\ N(i) \in FW_dbits(src)
            /\ \A i, j \in FW_has..(FW_will(src) - 1) : N(i) = N(j) => i = j
            /\ FW_first = 1 =>
                 /\ new[1] \in Blocks /\ new[1] \notin bits /\ new[1] \in FW_dbits(src)
                 /\ \A i \in FW_has..(FW_will(src) - 1) : N(i) # new[1]
            /\ FW_has <= Direct /\ FW_will(src) > Direct =>
                 /\ new[FW_first + 1] \in Blocks /\ new[FW_first + 1] \notin bits
                 /\ new[FW_first + 1] \in FW_bits(src)
                 /\ FW_first = 1 => new[FW_first + 1] # new[1]
                 /\ \A i \in FW_has..(FW_will(src) - 1) : N(i) # new[FW_first + 1]
  <1> DEFINE new == FW_new(src)
             has == FW_has
             will == FW_will(src)
             skip == FW_skip(src)
             first == FW_first
             l == Len(FW_new(src))
  <1>1. /\ FileTypes /\ Holds(inode, disk, inode.size) /\ src \in Seq(Nat)
    BY DEF Before, Enough
  <1>2. /\ has \in Nat /\ will \in Nat /\ has <= will /\ first \in {0, 1} /\ skip >= first
        /\ skip \in Nat /\ FW_need(src) = skip + (will - has)
        /\ has <= Direct /\ will > Direct => skip = first + 1
    <2>1. ~FW_limit(src)
      BY DEF Enough
    <2>2. QED
      BY <1>1, <2>1, WriteNumbers, SMTT(30)
  <1>3. /\ l = skip + (will - has) /\ l \in Nat
        /\ \A i, j \in 1..l : new[i] = new[j] => i = j
        /\ \A i \in 1..l : new[i] \in Blocks /\ new[i] \notin bits /\ new[i] \in FW_bits(src)
        /\ first = 1 /\ l >= 1 => new[1] \in FW_dbits(src)
        /\ \A i \in 1..l : i > skip => new[i] \in FW_dbits(src)
    <2>1. l >= FW_need(src) /\ ~FW_limit(src) /\ FW_need(src) \in Nat
      BY <1>2 DEF Enough
    <2>2. /\ new \in Seq(Blocks \ bits) /\ Len(new) <= FW_need(src)
          /\ \A i, j \in 1..l : new[i] = new[j] => i = j
          /\ \A i \in 1..l : new[i] \in FW_bits(src)
          /\ first = 1 /\ l >= 1 => new[1] \in FW_dbits(src)
          /\ ~FW_limit(src) => \A i \in 1..l : i > skip => new[i] \in FW_dbits(src)
      BY <1>1, WriteBits
    <2> HIDE DEF new, skip, first
    <2>3. l \in Nat /\ l = FW_need(src) /\ \A i \in 1..l : new[i] \in Blocks /\ new[i] \notin bits
      BY <2>1, <2>2 DEF new
    <2>4. QED
      BY <1>2, <2>1, <2>2, <2>3
  <1>4. \A i \in has..(will - 1) : FW_New(src, i) = new[skip + 1 + i - has]
    BY DEF FW_New
  <1> HIDE DEF new, has, will, skip, first, l
  <1>5. \A i \in has..(will - 1) : skip + 1 + i - has \in 1..l /\ skip + 1 + i - has > skip
    BY <1>2, <1>3
  <1>6. /\ first = 1 => 1 \in 1..l /\ l >= 1 /\ 1 <= skip
        /\ has <= Direct /\ will > Direct => first + 1 \in 1..l /\ first + 1 <= skip
    BY <1>2, <1>3
  <1>7. \A i, j \in has..(will - 1) : skip + 1 + i - has = skip + 1 + j - has => i = j
    BY <1>2
  <1>8. \A i \in has..(will - 1) : /\ FW_New(src, i) \in Blocks /\ FW_New(src, i) \notin bits
                                   /\ FW_New(src, i) \in FW_dbits(src)
    BY <1>3, <1>4, <1>5
  <1>9. \A i, j \in has..(will - 1) : FW_New(src, i) = FW_New(src, j) => i = j
    BY <1>3, <1>4, <1>5, <1>7
  <1>10. ASSUME first = 1
         PROVE  /\ new[1] \in Blocks /\ new[1] \notin bits /\ new[1] \in FW_dbits(src)
                /\ \A i \in has..(will - 1) : FW_New(src, i) # new[1]
    BY <1>2, <1>3, <1>4, <1>5, <1>6, <1>10
  <1>11. ASSUME has <= Direct, will > Direct
         PROVE  /\ new[first + 1] \in Blocks /\ new[first + 1] \notin bits
                /\ new[first + 1] \in FW_bits(src)
                /\ first = 1 => new[first + 1] # new[1]
                /\ \A i \in has..(will - 1) : FW_New(src, i) # new[first + 1]
    <2>1. first + 1 \in 1..l /\ first + 1 <= skip /\ (first = 1 => first + 1 # 1 /\ 1 \in 1..l)
      BY <1>2, <1>6, <1>11
    <2>2. \A i \in has..(will - 1) : skip + 1 + i - has # first + 1
      BY <1>2, <1>5, <2>1
    <2>3. QED
      BY <1>3, <1>4, <1>5, <2>1, <2>2
  <1>12. QED
    BY <1>8, <1>9, <1>10, <1>11 DEF has, will, new, first

\* The sectors of the inode after the write.
LEMMA NewSectors ==
  ASSUME FileDataAssumption, Before, NEW src, Enough(src)
  PROVE  /\ FW_sec1(src) \in [0..Direct -> Numbers] /\ FW_sec2(src) \in [0..Direct -> Numbers]
         /\ FW_first = 1 => FW_sec1(src)[0] = FW_new(src)[1]
         /\ \A i \in 0..Direct : (FW_first = 0 \/ i # 0) => FW_sec1(src)[i] = inode.sec[i]
         /\ \A i \in 0..(Direct - 1) :
              /\ i \in FW_has..(FW_will(src) - 1) => FW_sec2(src)[i] = FW_New(src, i)
              /\ i \notin FW_has..(FW_will(src) - 1) => FW_sec2(src)[i] = FW_sec1(src)[i]
         /\ FW_has <= Direct /\ FW_will(src) > Direct => FW_sec2(src)[Direct] = FW_new(src)[FW_first + 1]
         /\ ~(FW_has <= Direct /\ FW_will(src) > Direct) => FW_sec2(src)[Direct] = inode.sec[Direct]
  <1> DEFINE cr == FW_has <= Direct /\ FW_will(src) > Direct
             R == FW_has..(FW_will(src) - 1)
             x == FW_new(src)[1]
             tb == FW_new(src)[FW_first + 1]
             s1 == FW_sec1(src)
  <1>1. /\ FileTypes /\ Holds(inode, disk, inode.size) /\ src \in Seq(Nat) /\ inode.sec \in [0..Direct -> Numbers]
    BY DEF Before, Enough, FileTypes, Inode
  <1>2. FW_first \in {0, 1} /\ FW_crosses(src) = cr
    BY <1>1, WriteNumbers
  <1>3. /\ \A i \in R : FW_New(src, i) \in Blocks
        /\ FW_first = 1 => x \in Blocks
        /\ cr => tb \in Blocks
    BY NewBlocks
  <1>4. Blocks \subseteq Numbers /\ 0 \in Numbers /\ Direct \in 0..Direct /\ 0 \in 0..Direct /\ Direct # 0
    BY Sizes DEF Blocks, Numbers
  <1>5. FW_first = 1 => s1 = [inode.sec EXCEPT ![0] = x]
    BY DEF FW_sec1
  <1>6. FW_first = 0 => s1 = inode.sec
    BY DEF FW_sec1
  <1> HIDE DEF x, s1
  <1>7. /\ s1 \in [0..Direct -> Numbers] /\ (FW_first = 1 => s1[0] = x)
        /\ \A i \in 0..Direct : (FW_first = 0 \/ i # 0) => s1[i] = inode.sec[i]
    <2>1. CASE FW_first = 1
      <3> DEFINE sc == inode.sec
      <3>1. sc \in [0..Direct -> Numbers] /\ x \in Numbers /\ s1 = [sc EXCEPT ![0] = x] /\ 0 \in 0..Direct
        BY <1>1, <1>3, <1>4, <1>5, <2>1
      <3> HIDE DEF sc
      <3>2. /\ s1 \in [0..Direct -> Numbers] /\ s1[0] = x
            /\ \A i \in 0..Direct : i # 0 => s1[i] = sc[i]
        BY <3>1
      <3>3. QED
        BY <2>1, <3>2 DEF sc
    <2>2. CASE FW_first = 0
      BY <1>1, <1>6, <2>2
    <2>3. QED
      BY <1>2, <2>1, <2>2
  <1>8. FW_sec2(src) = [i \in 0..Direct |->
          IF i = Direct /\ cr THEN tb ELSE IF i < Direct /\ i \in R THEN FW_New(src, i) ELSE s1[i]]
    BY <1>2 DEF FW_sec2, s1
  <1> HIDE DEF R, tb, cr
  <1>9. FW_sec2(src) \in [0..Direct -> Numbers]
    <2>1. ASSUME NEW i \in 0..Direct
          PROVE  (IF i = Direct /\ cr THEN tb ELSE IF i < Direct /\ i \in R THEN FW_New(src, i) ELSE s1[i])
                   \in Numbers
      BY <1>3, <1>4, <1>7
    <2>2. QED
      BY <1>8, <2>1
  <1>10. \A i \in 0..(Direct - 1) : /\ i \in R => FW_sec2(src)[i] = FW_New(src, i)
                                    /\ i \notin R => FW_sec2(src)[i] = s1[i]
    <2>1. \A i \in 0..(Direct - 1) : i \in 0..Direct /\ i # Direct /\ i < Direct
      BY Sizes
    <2>2. QED
      BY <1>8, <2>1
  <1>11. cr => FW_sec2(src)[Direct] = tb
    BY <1>4, <1>8
  <1>12. ~cr => FW_sec2(src)[Direct] = s1[Direct] /\ s1[Direct] = inode.sec[Direct]
    BY <1>4, <1>7, <1>8, Sizes
  <1>13. QED
    BY <1>7, <1>9, <1>10, <1>11, <1>12 DEF cr, R, tb, x, s1

\* The file after the write has begun: its blocks for the bytes to come, and the
\* blocks it had are the same.
LEMMA WriteGrows ==
  ASSUME FileDataAssumption, Before, NEW src, Enough(src)
  PROVE  LET n == FW_inode(src)
             dk == FW_disk(src)
             k == FW_will(src)
         IN /\ n \in Inode /\ n.size = inode.size /\ n.sec = FW_sec2(src) /\ n.sec[0] # 0
            /\ dk = [b \in {0} \cup Blocks |-> dk[b]]
            /\ Layout(n, dk, k)
            /\ \A i \in 0..(Count(inode, inode.size) - 1) : At(n, dk, i) = At(inode, disk, i)
            /\ \A i \in 0..(k - 1) : At(n, dk, i) \in FW_dbits(src)
            /\ n.sec[Direct] \in FW_bits(src) \cup {0}
            /\ inode.sec[Direct] # 0 => n.sec[Direct] = inode.sec[Direct]
            /\ FW_all(src) \in AllBlocks
            /\ \A i \in Blk(inode.size)..(k - 1) : FW_all(src)[i] = At(n, dk, i)
            /\ \A b \in {0} \cup Blocks : b # n.sec[Direct] => dk[b] = disk[b]
            /\ n.sec[Direct] = 0 => dk[0] = disk[0]
            /\ FW_asserted(src)
  <1> DEFINE n == FW_inode(src)
             dk == FW_disk(src)
             has == FW_has
             will == FW_will(src)
             first == FW_first
             cr == has <= Direct /\ will > Direct
             k0 == Count(inode, inode.size)
             N(i) == FW_New(src, i)
             x == FW_new(src)[1]
             tb == FW_new(src)[FW_first + 1]
             s1 == FW_sec1(src)
             s2 == FW_sec2(src)
             all == FW_all(src)
             O(i) == At(inode, disk, i)
             A(i) == At(n, dk, i)
             sc == inode.sec
  <1>0. Direct \in Nat /\ Direct > 0 /\ Indirect \in Nat /\ Indirect > 0 /\ MaxBlocks = Direct + Indirect
    BY Sizes
  <1>1. /\ FileTypes /\ Holds(inode, disk, inode.size) /\ src \in Seq(Nat) /\ inode \in Inode
        /\ sc \in [0..Direct -> Numbers] /\ sc[Direct] \in bits \cup {0}
        /\ \A i \in 0..(k0 - 1) : O(i) \in dbits
    BY DEF Before, Enough, FileTypes, Inode
  <1>2. /\ has = Blk(inode.size) + 1 /\ has \in Nat /\ has >= 1 /\ will \in Nat /\ has <= will
        /\ will <= MaxBlocks /\ first \in {0, 1}
        /\ first = 1 => sc[0] = 0 /\ has = 1 /\ k0 = 0
        /\ first = 0 => sc[0] # 0 /\ k0 = has
    BY <1>1, WriteNumbers DEF Enough
  <1>3. /\ \A i \in has..(will - 1) : N(i) \in Blocks /\ N(i) \notin bits /\ N(i) \in FW_dbits(src)
        /\ \A i, j \in has..(will - 1) : N(i) = N(j) => i = j
        /\ first = 1 => /\ x \in Blocks /\ x \notin bits /\ x \in FW_dbits(src)
                        /\ \A i \in has..(will - 1) : N(i) # x
        /\ cr => /\ tb \in Blocks /\ tb \notin bits /\ tb \in FW_bits(src)
                 /\ (first = 1 => tb # x)
                 /\ \A i \in has..(will - 1) : N(i) # tb
    BY NewBlocks
  <1>4. /\ s1 \in [0..Direct -> Numbers] /\ s2 \in [0..Direct -> Numbers]
        /\ first = 1 => s1[0] = x
        /\ \A i \in 0..Direct : (first = 0 \/ i # 0) => s1[i] = sc[i]
        /\ \A i \in 0..(Direct - 1) : /\ i \in has..(will - 1) => s2[i] = N(i)
                                      /\ i \notin has..(will - 1) => s2[i] = s1[i]
        /\ cr => s2[Direct] = tb
        /\ ~cr => s2[Direct] = sc[Direct]
    BY NewSectors
  <1>5. /\ bits \subseteq FW_bits(src) /\ FW_bits(src) \subseteq Blocks
        /\ dbits \subseteq FW_dbits(src) /\ FW_dbits(src) \subseteq FW_bits(src) /\ dbits \subseteq bits
    BY <1>1, WriteBits DEF FileTypes
  <1>6. Layout(inode, disk, k0)
    BY <1>1 DEF Holds
  <1>7. n \in Inode /\ n.size = inode.size /\ n.sec = s2
    BY <1>1, <1>4 DEF FW_inode, Inode
  <1>8. disk = [b \in {0} \cup Blocks |-> disk[b]]
    BY <1>1 DEF FileTypes
  <1>9. 0 \notin Blocks /\ Numbers = {0} \cup Blocks
    BY Sizes DEF Blocks, Numbers
  <1>10. all = [i \in 0..(MaxBlocks - 1) |->
                 IF i \in has..(will - 1) THEN N(i)
                 ELSE IF has > Direct /\ i >= Direct THEN disk[s1[Direct]][i - Direct]
                 ELSE IF has <= Direct /\ i = has - 1 THEN s1[i] ELSE 0]
    BY DEF FW_all
  <1>11. \A i : O(i) = IF i < Direct THEN sc[i] ELSE disk[sc[Direct]][i - Direct]
    BY DEF At
  <1>12. \A i : A(i) = IF i < Direct THEN s2[i] ELSE dk[s2[Direct]][i - Direct]
    BY <1>7 DEF At
  <1> DEFINE tab == [j \in 0..(Indirect - 1) |-> all[Direct + j]]
  <1>13. /\ will > has /\ will > Direct => dk = [disk EXCEPT ![s2[Direct]] = tab]
         /\ ~(will > has /\ will > Direct) => dk = disk
    BY DEF FW_disk
  <1>14. FW_asserted(src) = (/\ will > has /\ will <= Direct => s1[has - 1] # 0
                             /\ \A i \in has..(will - 1) : i < Direct => s1[i] = 0
                             /\ IF has > Direct THEN s1[Direct] # 0 ELSE cr => s1[Direct] = 0)
    BY <1>1, WriteNumbers DEF FW_asserted
  <1> HIDE DEF n, has, will, first, k0, N, x, tb, s1, s2, all, dk, sc
  <1>15. /\ \A i \in 0..(k0 - 1) : O(i) \in Blocks /\ O(i) # sc[Direct]
         /\ \A i, j \in 0..(k0 - 1) : O(i) = O(j) => i = j
         /\ \A i \in 0..(Direct - 1) : i >= k0 => sc[i] = 0
         /\ k0 > Direct => sc[Direct] \in Blocks /\ disk[sc[Direct]] \in [0..(Indirect - 1) -> Numbers]
         /\ k0 <= Direct => sc[Direct] = 0
    BY <1>6 DEF Layout, sc
  <1> HIDE DEF O, A
  <1>16. s1[Direct] = sc[Direct] /\ 0 \in 0..Direct /\ Direct \in 0..Direct /\ Direct > 0
    BY <1>0, <1>4
  <1>17. has > Direct => /\ first = 0 /\ k0 = has /\ ~cr /\ will > Direct /\ s2[Direct] = sc[Direct]
                         /\ sc[Direct] \in Blocks /\ disk[sc[Direct]] \in [0..(Indirect - 1) -> Numbers]
    <2>1. has > Direct => first = 0 /\ k0 = has /\ ~cr /\ will > Direct
      BY <1>0, <1>2
    <2>2. has > Direct => s2[Direct] = sc[Direct] /\ k0 > Direct
      BY <1>4, <2>1
    <2>3. QED
      BY <1>15, <2>1, <2>2
  <1>18. \A i \in 0..(MaxBlocks - 1) :
           /\ i \in has..(will - 1) => all[i] = N(i)
           /\ i \notin has..(will - 1) /\ has > Direct /\ i >= Direct => all[i] = disk[sc[Direct]][i - Direct]
           /\ has <= Direct /\ i = has - 1 => all[i] = s1[i]
    <2>1. TAKE i \in 0..(MaxBlocks - 1)
    <2>2. all[i] = IF i \in has..(will - 1) THEN N(i)
                   ELSE IF has > Direct /\ i >= Direct THEN disk[sc[Direct]][i - Direct]
                   ELSE IF has <= Direct /\ i = has - 1 THEN s1[i] ELSE 0
      BY <1>10, <1>16
    <2>3. has <= Direct /\ i = has - 1 => i \notin has..(will - 1) /\ ~(has > Direct)
      BY <1>0, <1>2
    <2>4. QED
      BY <2>2, <2>3
  <1>19. all \in AllBlocks
    <2>1. ASSUME NEW i \in 0..(MaxBlocks - 1) PROVE all[i] \in Numbers
      <3>1. CASE i \in has..(will - 1)
        BY <1>3, <1>9, <1>18, <3>1
      <3>2. CASE i \notin has..(will - 1) /\ has > Direct /\ i >= Direct
        <4>1. i - Direct \in 0..(Indirect - 1)
          BY <3>2, Sizes
        <4>2. all[i] = disk[sc[Direct]][i - Direct]
          BY <1>18, <3>2
        <4>3. QED
          BY <1>17, <3>2, <4>1, <4>2
      <3>3. CASE i \notin has..(will - 1) /\ has <= Direct /\ i = has - 1
        <4>1. all[i] = s1[i] /\ i \in 0..Direct
          BY <1>2, <1>18, <3>3, Sizes
        <4>2. QED
          BY <1>4, <4>1
      <3>4. CASE i \notin has..(will - 1) /\ ~(has > Direct /\ i >= Direct) /\ ~(has <= Direct /\ i = has - 1)
        <4>1. all[i] = 0
          BY <1>10, <3>4
        <4>2. QED
          BY <1>9, <4>1
      <3>5. QED
        BY <1>2, <3>1, <3>2, <3>3, <3>4, Sizes
    <2>2. all = [i \in 0..(MaxBlocks - 1) |-> all[i]]
      BY <1>10
    <2>3. QED
      BY <2>1, <2>2 DEF AllBlocks
  <1>20. will > Direct => s2[Direct] \in Blocks
    <2>1. CASE cr
      BY <1>3, <1>4, <2>1
    <2>2. CASE has > Direct
      BY <1>17, <2>2
    <2>3. QED
      BY <1>0, <1>2, <2>1, <2>2
  <1>21. will <= Direct => s2[Direct] = 0 /\ sc[Direct] = 0
    <2>1. ASSUME will <= Direct PROVE ~cr /\ k0 <= Direct
      BY <1>0, <1>2, <2>1
    <2>2. QED
      BY <1>4, <1>15, <2>1
  <1>22. tab \in [0..(Indirect - 1) -> Numbers] /\ \A i \in Direct..(MaxBlocks - 1) : tab[i - Direct] = all[i]
    <2>1. \A j \in 0..(Indirect - 1) : Direct + j \in 0..(MaxBlocks - 1)
      BY Sizes
    <2>2. \A i \in Direct..(MaxBlocks - 1) : i - Direct \in 0..(Indirect - 1) /\ Direct + (i - Direct) = i
      BY Sizes
    <2>3. QED
      BY <1>19, <2>1, <2>2 DEF AllBlocks
  <1> HIDE DEF tab
  <1>23. /\ dk = [b \in {0} \cup Blocks |-> dk[b]]
         /\ \A b \in {0} \cup Blocks : b # s2[Direct] => dk[b] = disk[b]
         /\ will > has /\ will > Direct => dk[s2[Direct]] = tab
         /\ ~(will > has /\ will > Direct) => dk[s2[Direct]] = disk[s2[Direct]]
    <2>1. CASE will > has /\ will > Direct
      <3> DEFINE q == s2[Direct]
      <3>1. q \in {0} \cup Blocks /\ dk = [disk EXCEPT ![q] = tab]
        BY <1>13, <1>20, <2>1
      <3> HIDE DEF q
      <3>2. /\ dk = [b \in {0} \cup Blocks |-> dk[b]] /\ dk[q] = tab
            /\ \A b \in {0} \cup Blocks : b # q => dk[b] = disk[b]
        BY <1>8, <3>1
      <3>3. QED
        BY <2>1, <3>2 DEF q
    <2>2. CASE ~(will > has /\ will > Direct)
      BY <1>8, <1>13, <2>2
    <2>3. QED
      BY <2>1, <2>2
  <1>24. \A i \in has..(will - 1) : A(i) = N(i)
    <2>1. TAKE i \in has..(will - 1)
    <2>2. CASE i < Direct
      <3>1. i \in 0..(Direct - 1)
        BY <1>2, <2>2, Sizes
      <3>2. QED
        BY <1>4, <1>12, <2>2, <3>1
    <2>3. CASE i >= Direct
      <3>1. will > has /\ will > Direct /\ i \in Direct..(MaxBlocks - 1) /\ i \in 0..(MaxBlocks - 1) /\ ~(i < Direct)
        BY <1>2, <2>3, Sizes
      <3>2. dk[s2[Direct]] = tab /\ tab[i - Direct] = all[i] /\ all[i] = N(i)
        BY <1>18, <1>22, <1>23, <3>1
      <3>3. QED
        BY <1>12, <3>1, <3>2
    <2>4. QED
      BY <1>2, <2>2, <2>3, Sizes
  <1>25. \A i \in 0..(k0 - 1) : A(i) = O(i) /\ first = 0 /\ i < has /\ has <= will
    <2>1. TAKE i \in 0..(k0 - 1)
    <2>2. first = 0 /\ k0 = has /\ i \in Nat /\ i < has /\ i \notin has..(will - 1)
      BY <1>2
    <2>3. CASE i < Direct
      <3>1. i \in 0..(Direct - 1) /\ i \in 0..Direct
        BY <2>2, <2>3, Sizes
      <3>2. s2[i] = s1[i] /\ s1[i] = sc[i]
        BY <1>4, <2>2, <3>1
      <3>3. QED
        BY <1>2, <1>11, <1>12, <2>2, <2>3, <3>2
    <2>4. CASE i >= Direct
      <3>0. has > Direct
        BY <1>2, <2>2, <2>4, Sizes
      <3>1. has > Direct /\ s2[Direct] = sc[Direct] /\ ~(i < Direct) /\ i \in 0..(MaxBlocks - 1) /\ i \in Direct..(MaxBlocks - 1)
        <4>1. s2[Direct] = sc[Direct]
          BY <1>17, <3>0
        <4>2. i \in 0..(MaxBlocks - 1) /\ i \in Direct..(MaxBlocks - 1) /\ ~(i < Direct)
          <5>1. i < MaxBlocks
            BY <1>2, <2>2, Sizes
          <5>2. QED
            BY <2>2, <2>4, <5>1, Sizes
        <4>3. QED
          BY <3>0, <4>1, <4>2
      <3>2. O(i) = disk[sc[Direct]][i - Direct] /\ A(i) = dk[s2[Direct]][i - Direct]
        BY <1>11, <1>12, <3>1
      <3>3. CASE will > has /\ will > Direct
        <4>1. dk[s2[Direct]] = tab /\ tab[i - Direct] = all[i] /\ all[i] = disk[sc[Direct]][i - Direct]
          BY <1>18, <1>22, <1>23, <2>2, <2>4, <3>1, <3>3
        <4>2. QED
          BY <1>2, <2>2, <3>2, <4>1
      <3>4. CASE ~(will > has /\ will > Direct)
        <4>1. dk[s2[Direct]] = disk[sc[Direct]]
          BY <1>23, <3>1, <3>4
        <4>2. QED
          BY <1>2, <2>2, <3>2, <4>1
      <3>5. QED
        BY <3>3, <3>4
    <2>5. QED
      BY <2>2, <2>3, <2>4, Sizes
  <1>26. first = 1 => A(0) = x /\ has = 1 /\ s2[0] = x
    <2>1. SUFFICES ASSUME first = 1 PROVE A(0) = x /\ s2[0] = x
      BY <1>2
    <2>2. 0 \in 0..(Direct - 1) /\ 0 \notin has..(will - 1) /\ 0 < Direct
      BY <1>2, <2>1, Sizes
    <2>3. s2[0] = s1[0] /\ s1[0] = x
      BY <1>4, <2>1, <2>2
    <2>4. QED
      BY <1>12, <2>2, <2>3
  \* Every place of the new file is an old block, the first block or a new one.
  <1>27. \A i \in 0..(will - 1) :
           \/ i \in has..(will - 1) /\ A(i) = N(i)
           \/ first = 1 /\ i = 0 /\ A(i) = x
           \/ first = 0 /\ i \in 0..(k0 - 1) /\ A(i) = O(i)
    <2>1. TAKE i \in 0..(will - 1)
    <2>2. CASE i >= has
      <3>1. i \in has..(will - 1)
        BY <1>2, <2>2
      <3>2. QED
        BY <1>24, <3>1
    <2>3. CASE i < has /\ first = 1
      <3>1. i = 0
        BY <1>2, <2>3
      <3>2. QED
        BY <1>26, <2>3, <3>1
    <2>4. CASE i < has /\ first = 0
      <3>1. i \in 0..(k0 - 1)
        BY <1>2, <2>4
      <3>2. QED
        BY <1>25, <2>4, <3>1
    <2>5. QED
      BY <1>2, <2>2, <2>3, <2>4
  <1>28. \A i \in 0..(k0 - 1) : O(i) \in bits /\ O(i) \in FW_dbits(src)
    BY <1>1, <1>5
  <1>29. \A i \in 0..(will - 1) : A(i) \in Blocks /\ A(i) \in FW_dbits(src)
    BY <1>3, <1>15, <1>27, <1>28
  <1>30. \A i \in 0..(will - 1) : A(i) # s2[Direct]
    <2>1. CASE cr
      BY <1>3, <1>4, <1>27, <1>28, <2>1
    <2>2. CASE ~cr
      <3>1. TAKE i \in 0..(will - 1)
      <3>2. s2[Direct] = sc[Direct] /\ sc[Direct] \in bits \cup {0}
        BY <1>1, <1>4, <2>2
      <3>3. CASE A(i) \notin bits /\ A(i) \in Blocks
        BY <1>9, <3>2, <3>3
      <3>4. CASE first = 0 /\ i \in 0..(k0 - 1) /\ A(i) = O(i)
        BY <1>15, <3>2, <3>4
      <3>5. QED
        BY <1>3, <1>27, <3>3, <3>4
    <2>3. QED
      BY <2>1, <2>2
  <1>31. \A i, j \in 0..(will - 1) : A(i) = A(j) => i = j
    <2>1. TAKE i, j \in 0..(will - 1)
    <2>2. HAVE A(i) = A(j)
    <2>3. CASE i \in has..(will - 1) /\ A(i) = N(i)
      <3>1. CASE j \in has..(will - 1) /\ A(j) = N(j)
        BY <1>3, <2>2, <2>3, <3>1
      <3>2. CASE first = 1 /\ j = 0 /\ A(j) = x
        BY <1>3, <2>2, <2>3, <3>2
      <3>3. CASE first = 0 /\ j \in 0..(k0 - 1) /\ A(j) = O(j)
        BY <1>3, <1>28, <2>2, <2>3, <3>3
      <3>4. QED
        BY <1>27, <3>1, <3>2, <3>3
    <2>4. CASE first = 1 /\ i = 0 /\ A(i) = x
      <3>1. CASE j \in has..(will - 1) /\ A(j) = N(j)
        BY <1>3, <2>2, <2>4, <3>1
      <3>2. CASE first = 1 /\ j = 0 /\ A(j) = x
        BY <2>4, <3>2
      <3>3. CASE first = 0 /\ j \in 0..(k0 - 1) /\ A(j) = O(j)
        BY <2>4, <3>3
      <3>4. QED
        BY <1>27, <3>1, <3>2, <3>3
    <2>5. CASE first = 0 /\ i \in 0..(k0 - 1) /\ A(i) = O(i)
      <3>1. CASE j \in has..(will - 1) /\ A(j) = N(j)
        BY <1>3, <1>28, <2>2, <2>5, <3>1
      <3>2. CASE first = 1 /\ j = 0 /\ A(j) = x
        BY <2>5, <3>2
      <3>3. CASE first = 0 /\ j \in 0..(k0 - 1) /\ A(j) = O(j)
        BY <1>15, <2>2, <2>5, <3>3
      <3>4. QED
        BY <1>27, <3>1, <3>2, <3>3
    <2>6. QED
      BY <1>27, <2>3, <2>4, <2>5
  <1>32. \A i \in 0..(Direct - 1) : i >= will => s2[i] = 0
    <2>1. TAKE i \in 0..(Direct - 1)
    <2>2. HAVE i >= will
    <2>3. i \notin has..(will - 1) /\ i # 0 /\ i >= k0 /\ i \in 0..Direct
      BY <1>2, <2>2, Sizes
    <2>4. s2[i] = s1[i] /\ s1[i] = sc[i] /\ sc[i] = 0
      BY <1>4, <1>15, <2>3
    <2>5. QED
      BY <2>4
  <1>33. will > Direct => dk[s2[Direct]] \in [0..(Indirect - 1) -> Numbers]
    <2>1. SUFFICES ASSUME will > Direct PROVE dk[s2[Direct]] \in [0..(Indirect - 1) -> Numbers]
      OBVIOUS
    <2>2. CASE will > has
      BY <1>22, <1>23, <2>1, <2>2
    <2>3. CASE ~(will > has)
      <3>1. has > Direct
        BY <1>2, <2>1, <2>3, Sizes
      <3>2. dk[s2[Direct]] = disk[sc[Direct]]
        BY <1>17, <1>23, <2>3, <3>1
      <3>3. QED
        BY <1>17, <3>1, <3>2
    <2>4. QED
      BY <2>2, <2>3
  <1>34. Layout(n, dk, will)
    BY <1>7, <1>20, <1>21, <1>29, <1>30, <1>31, <1>32, <1>33 DEF Layout, A
  <1>35. s2[0] # 0
    <2>1. CASE first = 1
      BY <1>3, <1>9, <1>26, <2>1
    <2>2. CASE first = 0
      <3>1. 0 \in 0..(k0 - 1) /\ 0 < Direct
        BY <1>2, <2>2, Sizes
      <3>2. A(0) = O(0) /\ O(0) \in Blocks /\ A(0) = s2[0]
        BY <1>12, <1>15, <1>25, <3>1
      <3>3. QED
        BY <1>9, <3>2
    <2>3. QED
      BY <1>2, <2>1, <2>2
  <1>36. s2[Direct] \in FW_bits(src) \cup {0} /\ (sc[Direct] # 0 => s2[Direct] = sc[Direct])
    <2>1. CASE cr
      <3>1. k0 <= Direct
        BY <1>2, <2>1, Sizes
      <3>2. QED
        BY <1>3, <1>4, <1>15, <2>1, <3>1
    <2>2. CASE ~cr
      BY <1>1, <1>4, <1>5, <2>2
    <2>3. QED
      BY <2>1, <2>2
  <1>37. \A i \in (has - 1)..(will - 1) : all[i] = A(i)
    <2>1. TAKE i \in (has - 1)..(will - 1)
    <2>2. i \in 0..(MaxBlocks - 1)
      BY <1>2, Sizes
    <2>3. CASE i \in has..(will - 1)
      BY <1>18, <1>24, <2>2, <2>3
    <2>4. CASE i \notin has..(will - 1)
      <3>1. i = has - 1
        BY <1>2, <2>4
      <3>2. CASE has <= Direct
        <4>1. i < Direct /\ i \in 0..(Direct - 1) /\ all[i] = s1[i]
          BY <1>2, <1>18, <2>2, <3>1, <3>2, Sizes
        <4>2. s2[i] = s1[i] /\ A(i) = s2[i]
          BY <1>4, <1>12, <2>4, <4>1
        <4>3. QED
          BY <4>1, <4>2
      <3>3. CASE has > Direct
        <4>0. k0 = has
          BY <1>17, <3>3
        <4>1. i >= Direct /\ ~(i < Direct) /\ i \in 0..(k0 - 1)
          BY <1>2, <3>1, <3>3, <4>0, Sizes
        <4>2. all[i] = disk[sc[Direct]][i - Direct]
          BY <1>18, <2>2, <2>4, <3>3, <4>1
        <4>3. O(i) = disk[sc[Direct]][i - Direct] /\ A(i) = O(i)
          BY <1>11, <1>25, <4>1
        <4>4. QED
          BY <4>2, <4>3
      <3>4. QED
        BY <1>2, <3>2, <3>3, Sizes
    <2>5. QED
      BY <2>3, <2>4
  <1>38. s2[Direct] = 0 => dk[0] = disk[0]
    <2>1. SUFFICES ASSUME s2[Direct] = 0 PROVE dk[0] = disk[0]
      OBVIOUS
    <2>2. ~(will > Direct)
      BY <1>9, <1>20, <2>1
    <2>3. QED
      BY <1>23, <2>1, <2>2
  <1>39. FW_asserted(src)
    <2>1. will > has /\ will <= Direct => s1[has - 1] # 0
      <3>1. SUFFICES ASSUME will <= Direct PROVE s1[has - 1] # 0
        OBVIOUS
      <3>2. CASE first = 1
        BY <1>2, <1>3, <1>4, <1>9, <3>2
      <3>3. CASE first = 0
        <4>1. has - 1 \in 0..(k0 - 1) /\ has - 1 < Direct /\ has - 1 \in 0..Direct
          BY <1>2, <3>1, <3>3, Sizes
        <4>2. O(has - 1) = sc[has - 1] /\ s1[has - 1] = sc[has - 1]
          BY <1>4, <1>11, <3>3, <4>1
        <4>3. QED
          BY <1>9, <1>15, <4>1, <4>2
      <3>4. QED
        BY <1>2, <3>2, <3>3
    <2>2. \A i \in has..(will - 1) : i < Direct => s1[i] = 0
      <3>1. TAKE i \in has..(will - 1)
      <3>2. HAVE i < Direct
      <3>3. i \in 0..(Direct - 1) /\ i \in 0..Direct /\ i # 0 /\ i >= k0
        BY <1>2, <3>2, Sizes
      <3>4. QED
        BY <1>4, <1>15, <3>3
    <2>3. has > Direct => s1[Direct] # 0
      BY <1>9, <1>16, <1>17
    <2>4. cr => s1[Direct] = 0
      BY <1>2, <1>15, <1>16, Sizes
    <2>5. QED
      BY <1>14, <2>1, <2>2, <2>3, <2>4
  <1>40. /\ \A i \in 0..(Count(inode, inode.size) - 1) : A(i) = O(i)
         /\ \A i \in Blk(inode.size)..(will - 1) : all[i] = A(i)
         /\ \A i \in 0..(will - 1) : A(i) \in FW_dbits(src)
         /\ s2[0] # 0 /\ s2[Direct] \in FW_bits(src) \cup {0}
         /\ inode.sec[Direct] # 0 => s2[Direct] = inode.sec[Direct]
         /\ \A b \in {0} \cup Blocks : b # s2[Direct] => dk[b] = disk[b]
    <2>1. has - 1 = Blk(inode.size)
      <3>1. Blk(inode.size) \in Nat
        BY <1>1, Split DEF Inode
      <3>2. QED
        BY <1>2, <3>1
    <2>2. QED
      BY <1>23, <1>25, <1>29, <1>35, <1>36, <1>37, <2>1 DEF k0, sc
  <1>41. QED
    BY <1>7, <1>19, <1>23, <1>34, <1>38, <1>39, <1>40 DEF A, O, n, dk, s2, all, will, k0

-----------------------------------------------------------------------------
(* Steps.                                                                  *)

\* At most one descriptor is open for writing.
LEMMA OneWriter ==
  ASSUME FileDataAssumption, ~Spoilt, NEW d \in Fds, NEW e \in Fds, mode[d] = "w", mode[e] = "w"
  PROVE  d = e
  <1>1. SUFFICES ASSUME d # e PROVE FALSE
    OBVIOUS
  <1>2. IsFiniteSet(Writers) /\ d \in Writers /\ e \in Writers
    <2>1. Writers \subseteq Fds /\ d \in Writers /\ e \in Writers
      BY DEF Writers
    <2>2. QED
      BY <2>1, Sizes, FS_Subset
  <1>3. ~(Cardinality(Writers) > 1) /\ Cardinality(Writers) \in Nat
    BY <1>2, FS_CardinalityType DEF Spoilt
  <1> DEFINE W == Writers
  <1> HIDE DEF W
  <1>4. IsFiniteSet(W \ {d}) /\ Cardinality(W \ {d}) = Cardinality(W) - 1
    BY <1>2, FS_RemoveElement DEF W
  <1>5. Cardinality(W \ {d}) = 0 \/ Cardinality(W \ {d}) < 0
    BY <1>3, <1>4 DEF W
  <1>6. Cardinality(W \ {d}) \in Nat
    BY <1>4, FS_CardinalityType
  <1>7. W \ {d} = {}
    BY <1>4, <1>5, <1>6, FS_EmptySet
  <1>8. QED
    BY <1>1, <1>2, <1>7 DEF W

\* Records of calls.
LEMMA ReadRecord ==
  ASSUME NEW c, IsRead(c), NEW m, NEW e
  PROVE  [c EXCEPT !.left = m, !.buf = e] = [op |-> "read", left |-> m, all |-> c.all, buf |-> e]
  <1> DEFINE r == [c EXCEPT !.left = m, !.buf = e]
  <1>1. c \in [op : {"read"}, left : {c.left}, all : {c.all}, buf : {c.buf}]
    BY DEF IsRead
  <1>2. r \in [op : {"read"}, left : {m}, all : {c.all}, buf : {e}]
    BY <1>1
  <1> HIDE DEF r
  <1>3. r = [op |-> "read", left |-> m, all |-> c.all, buf |-> e]
    BY <1>2
  <1>4. QED
    BY <1>3 DEF r

LEMMA WriteRecord ==
  ASSUME NEW c, IsWrite(c), NEW m, NEW g
  PROVE  /\ [c EXCEPT !.chunk = m, !.first = FALSE]
               = [op |-> "write", left |-> c.left, all |-> c.all, first |-> FALSE, chunk |-> m]
         /\ [c EXCEPT !.chunk = m, !.left = g]
               = [op |-> "write", left |-> g, all |-> c.all, first |-> c.first, chunk |-> m]
  <1> DEFINE r == [c EXCEPT !.chunk = m, !.first = FALSE]
             q == [c EXCEPT !.chunk = m, !.left = g]
  <1>1. c \in [op : {"write"}, left : {c.left}, all : {c.all}, first : {c.first}, chunk : {c.chunk}]
    BY DEF IsWrite
  <1>2. r \in [op : {"write"}, left : {c.left}, all : {c.all}, first : {FALSE}, chunk : {m}]
    BY <1>1
  <1>3. q \in [op : {"write"}, left : {g}, all : {c.all}, first : {c.first}, chunk : {m}]
    BY <1>1
  <1> HIDE DEF r, q
  <1>4. r = [op |-> "write", left |-> c.left, all |-> c.all, first |-> FALSE, chunk |-> m]
    BY <1>2
  <1>5. q = [op |-> "write", left |-> g, all |-> c.all, first |-> c.first, chunk |-> m]
    BY <1>3
  <1>6. QED
    BY <1>4, <1>5 DEF r, q

\* The three kinds of calls.
LEMMA CallKinds ==
  ASSUME FileTypes, NEW d \in Fds
  PROVE  /\ call[d].op \in {"none", "write", "read"}
         /\ call[d].op = "none" => call[d] = NoCall
         /\ call[d] = NoCall => call[d].op = "none"
         /\ call[d].op = "write" => IsWrite(call[d])
         /\ call[d].op = "read" => IsRead(call[d])
  <1> DEFINE c == call[d]
  <1>1. c = NoCall \/ IsWrite(c) \/ IsRead(c)
    BY DEF FileTypes
  <1> HIDE DEF c
  <1>2. c = NoCall => c.op = "none"
    BY DEF NoCall
  <1>3. IsWrite(c) => c.op = "write"
    BY DEF IsWrite
  <1>4. IsRead(c) => c.op = "read"
    BY DEF IsRead
  <1>5. QED
    BY <1>1, <1>2, <1>3, <1>4 DEF c

\* The invariant, with t for the bytes that the file has room for.
Live(t) == FileTypes /\ FileAsserts /\ ~Spoilt /\ t \in Nat /\ Room(t) /\ Saved /\ Positions

LEMMA LiveExists ==
  ASSUME FileInv, ~Spoilt
  PROVE  \E t : Live(t)
  BY DEF FileInv, Live

LEMMA LiveFacts ==
  ASSUME FileDataAssumption, NEW t, Live(t)
  PROVE  /\ FileTypes /\ t \in Nat /\ inode \in Inode /\ inode.size \in Nat /\ inode.size <= t /\ t < MaxSize
         /\ dinode \in Inode /\ dinode.size \in Nat /\ dinode.size <= inode.size
         /\ inode.sec[Direct] \in bits \cup {0}
         /\ Count(inode, t) \in Nat /\ Layout(inode, disk, Count(inode, t))
         /\ inode.sec[0] = 0 => t = 0 /\ inode.size = 0 /\ Count(inode, t) = 0
         /\ inode.sec[0] # 0 => Count(inode, t) = Blk(t) + 1
         /\ \A i \in 0..(Count(inode, t) - 1) : At(inode, disk, i) \in dbits
         /\ bits \subseteq Blocks /\ dbits \subseteq bits /\ disk[0] = Zeros /\ 0 \notin Blocks
  <1>1. /\ FileTypes /\ t \in Nat /\ inode \in Inode /\ inode.size \in Nat /\ inode.size <= t /\ t < MaxSize
        /\ dinode \in Inode /\ dinode.size \in Nat /\ dinode.size <= inode.size
        /\ Holds(inode, disk, t) /\ disk[0] = Zeros /\ bits \subseteq Blocks /\ dbits \subseteq bits
        /\ \A i \in 0..(Count(inode, t) - 1) : At(inode, disk, i) \in dbits
    <2>1. FileTypes /\ FileAsserts /\ t \in Nat /\ Room(t) /\ Saved
      BY DEF Live
    <2>2. inode \in Inode /\ dinode \in Inode /\ bits \subseteq Blocks /\ dbits \subseteq bits
      BY <2>1 DEF FileTypes
    <2>3. inode.size \in Nat /\ dinode.size \in Nat
      BY <2>2 DEF Inode
    <2>4. /\ inode.size <= t /\ t < MaxSize /\ Holds(inode, disk, t)
          /\ \A i \in 0..(Count(inode, t) - 1) : At(inode, disk, i) \in dbits
      BY <2>1 DEF Room
    <2>5. dinode.size <= inode.size
      BY <2>1 DEF Saved
    <2>6. disk[0] = Zeros
      BY <2>1, Zenon DEF FileAsserts
    <2>7. QED
      BY <2>1, <2>2, <2>3, <2>4, <2>5, <2>6
  <1>2. inode.sec[Direct] \in bits \cup {0}
    BY DEF Live, Spoilt, TableLost
  <1>3. /\ Count(inode, t) \in Nat /\ (inode.sec[0] = 0 => Count(inode, t) = 0)
        /\ (inode.sec[0] # 0 => Count(inode, t) = Blk(t) + 1)
    BY <1>1, CountFacts
  <1>4. Layout(inode, disk, Count(inode, t)) /\ (inode.sec[0] = 0 => t = 0)
    BY <1>1 DEF Holds
  <1>5. 0 \notin Blocks
    BY Sizes DEF Blocks
  <1>6. QED
    BY <1>1, <1>2, <1>3, <1>4, <1>5

\* Steps that leave the inodes, the bitmaps and the disk alone.
LEMMA Light ==
  ASSUME FileDataAssumption, NEW t, Live(t), UNCHANGED <<inode, dinode, disk, bits, dbits>>,
         FileTypes', FileAsserts', Positions',
         \A e \in Fds : call[e].op = "write" =>
                          call'[e] = call[e] /\ mode'[e] = mode[e] /\ pos'[e] = pos[e],
         \A e \in Fds : call'[e].op = "write" => call[e].op = "write",
         \A e \in Fds : call'[e].op = "read" => Reads(e)'
  PROVE  FileInv'
  <1>1. Room(t) /\ Saved /\ t \in Nat
    BY DEF Live
  <1>2. \A e \in Fds : call'[e].op = "write" => Writes(e, t)'
    <2>1. TAKE e \in Fds
    <2>2. HAVE call'[e].op = "write"
    <2>3. call'[e] = call[e] /\ mode'[e] = mode[e] /\ pos'[e] = pos[e] /\ Writes(e, t)
      BY <1>1, <2>2 DEF Room
    <2>4. QED
      BY <2>3 DEF Writes
  <1>3. (\A e \in Fds : call'[e].op # "write") => t = inode'.size
    BY <1>1 DEF Room
  <1>4. Room(t)'
    BY <1>1, <1>2, <1>3 DEF Room
  <1>5. Saved'
    BY <1>1 DEF Saved
  <1>6. QED
    BY <1>1, <1>4, <1>5 DEF FileInv

\* Steps of one descriptor d that set its call to c, its position to p and its mode to m.
LEMMA LightStep ==
  ASSUME FileDataAssumption, NEW t, Live(t), UNCHANGED <<inode, dinode, disk, bits, dbits, sync>>,
         NEW d \in Fds, NEW c, NEW p \in 0..(Word - 1), NEW m \in {"closed", "r", "w"},
         call' = [call EXCEPT ![d] = c], pos' = [pos EXCEPT ![d] = p], mode' = [mode EXCEPT ![d] = m],
         panic' = "no", call[d].op # "write", c.op # "write", c = NoCall \/ IsRead(c),
         p <= inode.size \/ (p = pos[d] /\ m = mode[d]),
         m = "closed" => c = NoCall,
         IsRead(c) =>
           /\ p + c.left <= inode.size
           /\ c.left # 0 => \A i \in Blk(p)..Blk(p + c.left - 1) : c.all[i] = At(inode, disk, i)
  PROVE  FileInv'
  <1>1. FileTypes /\ disk[0] = Zeros /\ Positions /\ Room(t)
    BY LiveFacts DEF Live
  <1>2. call = [e \in Fds |-> call[e]] /\ pos \in [Fds -> 0..(Word - 1)] /\ mode \in [Fds -> {"closed", "r", "w"}]
    BY <1>1 DEF FileTypes
  <1>3. /\ call'[d] = c /\ pos'[d] = p /\ mode'[d] = m
        /\ \A e \in Fds : e # d => call'[e] = call[e] /\ pos'[e] = pos[e] /\ mode'[e] = mode[e]
        /\ call' = [e \in Fds |-> call'[e]] /\ pos' \in [Fds -> 0..(Word - 1)] /\ mode' \in [Fds -> {"closed", "r", "w"}]
    BY <1>2
  <1>4. FileTypes'
    BY <1>1, <1>3 DEF FileTypes
  <1>5. FileAsserts'
    BY <1>1 DEF FileAsserts
  <1>6. Positions'
    <2>1. ASSUME NEW e \in Fds
          PROVE  /\ pos'[e] <= inode.size \/ (pos'[e] = Word - 1 /\ inode.size = 0 /\ mode'[e] = "w")
                 /\ mode'[e] = "closed" => call'[e] = NoCall
      <3>1. CASE e = d
        BY <1>1, <1>3, <3>1 DEF Positions
      <3>2. CASE e # d
        BY <1>1, <1>3, <3>2 DEF Positions
      <3>3. QED
        BY <3>1, <3>2
    <2>2. QED
      BY <2>1 DEF Positions
  <1>7. \A e \in Fds : call'[e].op = "read" => Reads(e)'
    <2>1. TAKE e \in Fds
    <2>2. HAVE call'[e].op = "read"
    <2>3. CASE e = d
      <3>1. IsRead(c)
        BY <1>3, <2>2, <2>3 DEF NoCall
      <3>2. QED
        BY <1>3, <2>3, <3>1 DEF Reads
    <2>4. CASE e # d
      <3>1. call'[e] = call[e] /\ pos'[e] = pos[e] /\ Reads(e)
        BY <1>1, <1>3, <2>2, <2>4 DEF Room
      <3>2. QED
        BY <3>1 DEF Reads
    <2>5. QED
      BY <2>3, <2>4
  <1>8. /\ \A e \in Fds : call[e].op = "write" =>
                          call'[e] = call[e] /\ mode'[e] = mode[e] /\ pos'[e] = pos[e]
        /\ \A e \in Fds : call'[e].op = "write" => call[e].op = "write"
    BY <1>3
  <1>9. QED
    BY <1>4, <1>5, <1>6, <1>7, <1>8, Light

\* The kernel stops.
LEMMA LightStop ==
  ASSUME FileDataAssumption, NEW t, Live(t), NEW why, Stop(why), FileAsserts'
  PROVE  FileInv'
  <1>1. UNCHANGED <<inode, dinode, disk, bits, dbits, sync, mode, pos, call>> /\ FileTypes /\ Positions /\ Room(t)
    BY DEF Stop, Live
  <1>2. FileTypes' /\ Positions'
    BY <1>1 DEF FileTypes, Positions
  <1>3. \A e \in Fds : call'[e].op = "read" => Reads(e)'
    BY <1>1 DEF Room, Reads
  <1>4. QED
    BY <1>1, <1>2, <1>3, Light

\* Where a read that starts at p finds its blocks.
LEMMA ReadBlocks ==
  ASSUME FileDataAssumption, NEW t, Live(t), NEW p \in Nat, NEW sz \in Nat, p + sz <= inode.size
  PROVE  /\ Blk(p) \in Nat /\ Blk(p + sz) \in Nat /\ Blk(p) <= Blk(p + sz) /\ Blk(p + sz) <= Blk(inode.size)
         /\ Blk(p + sz) >= Direct =>
              inode.sec[Direct] \in Blocks /\ disk[inode.sec[Direct]] \in [0..(Indirect - 1) -> Numbers]
         /\ sz # 0 => Blk(p + sz - 1) \in Nat /\ Blk(p + sz - 1) <= Blk(p + sz)
  <1>1. inode.size \in Nat /\ t \in Nat /\ inode.size <= t
    BY LiveFacts
  <1> DEFINE s == inode.size
             q == p + sz
  <1>2. s \in Nat /\ q \in Nat /\ p <= q /\ q <= s /\ (sz # 0 => q - 1 \in Nat /\ q - 1 <= q)
    BY <1>1
  <1> HIDE DEF s, q
  <1>3. /\ Blk(p) \in Nat /\ Blk(q) \in Nat /\ Blk(s) \in Nat /\ Blk(t) \in Nat
        /\ Blk(p) <= Blk(q) /\ Blk(q) <= Blk(s) /\ Blk(s) <= Blk(t)
    <2>1. Blk(p) \in Nat /\ Blk(q) \in Nat /\ Blk(s) \in Nat /\ Blk(t) \in Nat
      BY <1>1, <1>2, Split
    <2>2. Blk(p) <= Blk(q) /\ Blk(q) <= Blk(s)
      BY <1>2, Monotone
    <2>3. Blk(s) <= Blk(t)
      BY <1>1, <1>2, Monotone DEF s
    <2>4. QED
      BY <2>1, <2>2, <2>3
  <1>4. sz # 0 => Blk(q - 1) \in Nat /\ Blk(q - 1) <= Blk(q)
    BY <1>2, Split, Monotone
  <1>5. ASSUME Blk(q) >= Direct
        PROVE  inode.sec[Direct] \in Blocks /\ disk[inode.sec[Direct]] \in [0..(Indirect - 1) -> Numbers]
    <2>1. Blk(t) > 0
      BY <1>3, <1>5, Sizes
    <2>2. t # 0
      <3>1. BlockSize * 0 + 0 = 0 /\ 0 \in 0..(BlockSize - 1)
        BY Sizes
      <3>2. Blk(0) = 0
        BY <3>1, Joined
      <3>3. QED
        BY <2>1, <3>2
    <2>3. Count(inode, t) = Blk(t) + 1
      BY <2>2, LiveFacts
    <2>4. Count(inode, t) > Direct
      BY <1>3, <1>5, <2>3, Sizes
    <2>5. Layout(inode, disk, Count(inode, t))
      BY LiveFacts
    <2>6. QED
      BY <2>4, <2>5 DEF Layout
  <1>6. /\ Blk(p) \in Nat /\ Blk(p + sz) \in Nat /\ Blk(p) <= Blk(p + sz) /\ Blk(p + sz) <= Blk(inode.size)
    BY <1>3 DEF s, q
  <1>7. sz # 0 => Blk(p + sz - 1) \in Nat /\ Blk(p + sz - 1) <= Blk(p + sz)
    BY <1>4 DEF q
  <1>8. Blk(p + sz) >= Direct =>
              inode.sec[Direct] \in Blocks /\ disk[inode.sec[Direct]] \in [0..(Indirect - 1) -> Numbers]
    BY <1>5 DEF q
  <1>9. QED
    BY <1>6, <1>7, <1>8

-----------------------------------------------------------------------------
(* Reads and positions.                                                    *)

\* The parts of file_read.
FR_past(d, count) == (pos[d] + count) % Word > inode.size
FR_size(d, count) == IF FR_past(d, count) THEN (inode.size - pos[d]) % Word ELSE count
FR_end(d, count) == Blk((pos[d] + FR_size(d, count)) % Word)
FR_all(d, count) ==
  [i \in 0..(MaxBlocks - 1) |->
     IF i < Direct /\ i \in Blk(pos[d])..FR_end(d, count) THEN inode.sec[i]
     ELSE IF FR_end(d, count) >= Direct /\ i >= Direct
          THEN disk[inode.sec[Direct]][i - Direct] ELSE 0]
FR_call(d, count) == [op |-> "read", left |-> FR_size(d, count), all |-> FR_all(d, count), buf |-> << >>]
FR_limit(d, count) == FR_end(d, count) >= MaxBlocks - 1 \/ Blk(pos[d]) >= MaxBlocks - 1
FR_bad(d, count) ==
  Blk(pos[d]) < FR_end(d, count) /\ FR_end(d, count) >= Direct /\ inode.sec[Direct] = 0

LEMMA ReadParts ==
  ASSUME NEW d, NEW count, file_read(d, count)
  PROVE  /\ Ready(d)
         /\ FR_limit(d, count) => Stop("read limit")
         /\ ~FR_limit(d, count) /\ FR_bad(d, count) => Stop("sectors")
         /\ ~FR_limit(d, count) /\ ~FR_bad(d, count) =>
              /\ call' = [call EXCEPT ![d] = FR_call(d, count)]
              /\ UNCHANGED <<inode, dinode, deny, disk, bits, dbits, others, sync, mode, pos, panic, restarts>>
  <1> DEFINE past == (pos[d] + count) % Word > inode.size
             size == IF past THEN (inode.size - pos[d]) % Word ELSE count
             start == pos[d] \div BlockSize
             end == ((pos[d] + size) % Word) \div BlockSize
             all == [i \in 0..(MaxBlocks - 1) |->
                IF i < Direct /\ i \in start..end THEN inode.sec[i]
                ELSE IF end >= Direct /\ i >= Direct
                     THEN disk[inode.sec[Direct]][i - Direct] ELSE 0]
  <1>1. /\ Ready(d)
        /\ IF end >= MaxBlocks - 1 \/ start >= MaxBlocks - 1 THEN Stop("read limit")
           ELSE IF start < end /\ end >= Direct /\ inode.sec[Direct] = 0 THEN Stop("sectors")
           ELSE /\ call' = [call EXCEPT ![d] = [op |-> "read", left |-> size, all |-> all, buf |-> << >>]]
                /\ UNCHANGED <<inode, dinode, deny, disk, bits, dbits, others, sync, mode, pos, panic, restarts>>
    BY DEF file_read
  <1>2. start = Blk(pos[d])
    BY DEF Blk
  <1>3. size = FR_size(d, count) /\ end = FR_end(d, count)
    BY DEF FR_size, FR_end, FR_past, Blk
  <1>4. all = FR_all(d, count)
    BY <1>2, <1>3 DEF FR_all
  <1> HIDE DEF past, size, start, end, all
  <1>5. FR_limit(d, count) <=> (end >= MaxBlocks - 1 \/ start >= MaxBlocks - 1)
    BY <1>2, <1>3 DEF FR_limit
  <1>6. FR_bad(d, count) <=> (start < end /\ end >= Direct /\ inode.sec[Direct] = 0)
    BY <1>2, <1>3 DEF FR_bad
  <1>7. FR_call(d, count) = [op |-> "read", left |-> size, all |-> all, buf |-> << >>]
    BY <1>3, <1>4 DEF FR_call
  <1>8. CASE FR_limit(d, count)
    BY <1>1, <1>5, <1>8
  <1>9. CASE ~FR_limit(d, count) /\ FR_bad(d, count)
    BY <1>1, <1>5, <1>6, <1>9
  <1>10. CASE ~FR_limit(d, count) /\ ~FR_bad(d, count)
    BY <1>1, <1>5, <1>6, <1>7, <1>10
  <1>11. QED
    BY <1>8, <1>9, <1>10

\* The size a read asks for is cut at the end of the file.
LEMMA ReadSize ==
  ASSUME FileDataAssumption, NEW t, Live(t), NEW d \in Fds, NEW count \in Counts, pos[d] <= inode.size
  PROVE  /\ FR_size(d, count) \in Nat /\ pos[d] \in Nat /\ pos[d] + FR_size(d, count) <= inode.size
         /\ FR_end(d, count) = Blk(pos[d] + FR_size(d, count))
  <1> DEFINE p == pos[d]
             s == inode.size
             sz == FR_size(d, count)
  <1>1. p \in Nat /\ p <= s /\ s \in Nat /\ s < MaxSize /\ count \in Nat /\ 2 * count <= Word
        /\ Word \in Nat /\ Word > 2 * MaxSize /\ MaxSize \in Nat
    <2>1. pos \in [Fds -> 0..(Word - 1)] /\ s \in Nat /\ t \in Nat /\ s <= t /\ t < MaxSize
      BY LiveFacts DEF FileTypes
    <2>2. MaxSize \in Nat /\ Word \in Nat /\ Word > 2 * MaxSize /\ count \in Nat /\ 2 * count <= Word
      BY Sizes
    <2>3. p \in Nat
      BY <2>1, <2>2
    <2>4. QED
      BY <2>1, <2>2, <2>3
  <1>2. sz = IF (p + count) % Word > s THEN (s - p) % Word ELSE count
    BY DEF FR_size, FR_past
  <1>3. FR_end(d, count) = Blk((p + sz) % Word)
    BY DEF FR_end
  <1> HIDE DEF p, s, sz
  <1>4. (p + count) % Word = p + count
    BY <1>1
  <1>5. (s - p) % Word = s - p
    BY <1>1
  <1>6. sz \in Nat /\ p + sz <= s
    BY <1>1, <1>2, <1>4, <1>5
  <1>7. (p + sz) % Word = p + sz
    BY <1>1, <1>6
  <1>8. QED
    BY <1>1, <1>3, <1>6, <1>7 DEF p, s, sz

\* file_read begins a read of bytes of the file, or stops at its limit.
LEMMA ReadStarts ==
  ASSUME FileDataAssumption, NEW t, Live(t), NEW d \in Fds, NEW count \in Counts, file_read(d, count)
  PROVE  \/ Stop("read limit") /\ FileAsserts'
         \/ LET c == FR_call(d, count)
            IN /\ call' = [call EXCEPT ![d] = c] /\ IsRead(c) /\ pos[d] + c.left <= inode.size
               /\ c.left # 0 => \A i \in Blk(pos[d])..Blk(pos[d] + c.left - 1) : c.all[i] = At(inode, disk, i)
               /\ UNCHANGED <<inode, dinode, deny, disk, bits, dbits, others, sync, mode, pos, panic, restarts>>
  <1> DEFINE p == pos[d]
             s == inode.size
             sz == FR_size(d, count)
             end == FR_end(d, count)
             c == FR_call(d, count)
             all == FR_all(d, count)
             sc == inode.sec
  <1>1. /\ p \in Nat /\ p < Word /\ s \in Nat /\ t \in Nat /\ s <= t /\ t < MaxSize
        /\ p <= s \/ (p = Word - 1 /\ s = 0)
        /\ sc \in [0..Direct -> Numbers] /\ disk[0] = Zeros
    <2>1. pos \in [Fds -> 0..(Word - 1)] /\ inode \in Inode
      BY LiveFacts DEF FileTypes
    <2>2. p \in 0..(Word - 1) /\ Word \in Nat
      BY <2>1, Sizes
    <2>3. p <= s \/ (p = Word - 1 /\ s = 0)
      BY DEF Live, Positions
    <2>4. QED
      BY <2>1, <2>2, <2>3, LiveFacts, SMTT(30) DEF Inode
  <1>0. /\ Direct \in Nat /\ Direct > 0 /\ Indirect \in Nat /\ Indirect > 0
        /\ MaxBlocks \in Nat /\ MaxBlocks = Direct + Indirect
    BY Sizes
  <1>2. CASE ~(p <= s)
    <2>1. p = Word - 1 /\ s = 0
      BY <1>1, <1>2
    <2> HIDE DEF p, s
    <2>2. Blk(p) >= MaxBlocks - 1
      <3>1. /\ Word \in Nat /\ MaxSize \in Nat /\ Word > 2 * MaxSize /\ MaxSize = BlockSize * MaxBlocks
            /\ MaxBlocks \in Nat
        BY Sizes DEF MaxSize
      <3>2. ~(p < MaxSize)
        BY <2>1, <3>1
      <3>3. Blk(p) \in Nat
        BY <1>1, Split
      <3>4. ~(Blk(p) < MaxBlocks)
        BY <1>1, <3>1, <3>2, Bounded
      <3>5. QED
        BY <3>1, <3>3, <3>4
    <2>3. Stop("read limit")
      <3>1. FR_limit(d, count)
        BY <2>2 DEF FR_limit, p
      <3>2. QED
        BY <3>1, ReadParts
    <2>4. panic' = "read limit" /\ UNCHANGED <<inode, disk>>
      BY <2>3 DEF Stop
    <2>5. FileAsserts'
      BY <1>1, <2>1, <2>4 DEF FileAsserts, s
    <2>6. QED
      BY <2>3, <2>5
  <1>3. CASE p <= s
    <2>1. sz \in Nat /\ p + sz <= s /\ end = Blk(p + sz)
      BY <1>3, ReadSize
    <2> HIDE DEF p, s, sz, end, c, all, sc
    <2>2. /\ Blk(p) \in Nat /\ end \in Nat /\ Blk(p) <= end /\ end <= Blk(s)
          /\ end >= Direct => sc[Direct] \in Blocks /\ disk[sc[Direct]] \in [0..(Indirect - 1) -> Numbers]
          /\ sz # 0 => Blk(p + sz - 1) \in Nat /\ Blk(p + sz - 1) <= end
      BY <1>1, <2>1, ReadBlocks DEF s, sc
    <2>3. CASE FR_limit(d, count)
      <3>1. Blk(s) >= MaxBlocks - 1 /\ Blk(s) \in Nat
        <4>1. end >= MaxBlocks - 1 \/ Blk(p) >= MaxBlocks - 1
          BY <2>3 DEF FR_limit, p, end
        <4>2. Blk(s) \in Nat
          BY <1>1, Split
        <4>3. MaxBlocks \in Nat
          BY Sizes
        <4>4. QED
          BY <2>2, <4>1, <4>2, <4>3, SMTT(30)
      <3>2. s >= BlockSize * (MaxBlocks - 1)
        <4> DEFINE k == MaxBlocks - 1
        <4>1. k \in Nat /\ ~(Blk(s) < k)
          BY <3>1, Sizes
        <4> HIDE DEF k
        <4>2. BlockSize * k \in Nat
          BY <4>1, Sizes
        <4>3. ~(s < BlockSize * k)
          BY <1>1, <4>1, Bounded
        <4>4. s >= BlockSize * k
          BY <1>1, <4>2, <4>3
        <4>5. QED
          BY <4>4 DEF k
      <3>3. Stop("read limit")
        BY <2>3, ReadParts
      <3>4. FileAsserts'
        <4>1. panic' = "read limit" /\ UNCHANGED <<inode, disk>>
          BY <3>3 DEF Stop
        <4>2. QED
          BY <1>1, <3>2, <4>1 DEF FileAsserts, s
      <3>5. QED
        BY <3>3, <3>4
    <2>4. CASE ~FR_limit(d, count)
      <3>1. ~FR_bad(d, count)
        BY <2>2, LiveFacts DEF FR_bad, sc, end
      <3>2. /\ call' = [call EXCEPT ![d] = c]
            /\ UNCHANGED <<inode, dinode, deny, disk, bits, dbits, others, sync, mode, pos, panic, restarts>>
        BY <2>4, <3>1, ReadParts DEF c
      <3>3. end < MaxBlocks - 1
        BY <1>0, <2>2, <2>4, SMTT(30) DEF FR_limit, end
      <3>4. c = [op |-> "read", left |-> sz, all |-> all, buf |-> << >>]
        BY DEF c, FR_call, sz, all
      <3>5. all = [i \in 0..(MaxBlocks - 1) |->
                     IF i < Direct /\ i \in Blk(p)..end THEN sc[i]
                     ELSE IF end >= Direct /\ i >= Direct THEN disk[sc[Direct]][i - Direct] ELSE 0]
        BY DEF all, FR_all, p, end, sc
      <3>6. all \in AllBlocks
        <4>1. ASSUME NEW i \in 0..(MaxBlocks - 1) PROVE all[i] \in Numbers
          <5>1. CASE i < Direct /\ i \in Blk(p)..end
            <6>1. i \in 0..Direct /\ all[i] = sc[i]
              BY <3>5, <5>1, Sizes
            <6>2. QED
              BY <1>1, <6>1
          <5>2. CASE ~(i < Direct /\ i \in Blk(p)..end) /\ end >= Direct /\ i >= Direct
            <6>1. i - Direct \in 0..(Indirect - 1) /\ all[i] = disk[sc[Direct]][i - Direct]
              BY <1>0, <3>5, <5>2
            <6>2. QED
              BY <2>2, <5>2, <6>1
          <5>3. CASE ~(i < Direct /\ i \in Blk(p)..end) /\ ~(end >= Direct /\ i >= Direct)
            <6>1. all[i] = 0
              BY <3>5, <5>3
            <6>2. QED
              BY <6>1, Sizes DEF Numbers
          <5>4. QED
            BY <5>1, <5>2, <5>3
        <4>2. all = [i \in 0..(MaxBlocks - 1) |-> all[i]]
          BY <3>5
        <4>3. QED
          BY <4>1, <4>2 DEF AllBlocks
      <3>7. IsRead(c) /\ c.left = sz /\ c.all = all
        BY <2>1, <3>4, <3>6 DEF IsRead
      <3>8. ASSUME sz # 0, NEW i \in Blk(p)..Blk(p + sz - 1) PROVE all[i] = At(inode, disk, i)
        <4>1. i \in 0..(MaxBlocks - 1) /\ i \in Blk(p)..end
          BY <1>0, <2>2, <3>3, <3>8, SMTT(30)
        <4>2. CASE i < Direct
          BY <3>5, <4>1, <4>2 DEF At, sc
        <4>3. CASE i >= Direct
          <5>1. end >= Direct /\ ~(i < Direct)
            BY <1>0, <2>2, <4>1, <4>3, SMTT(30)
          <5>2. all[i] = disk[sc[Direct]][i - Direct]
            BY <3>5, <4>1, <4>3, <5>1
          <5>3. QED
            BY <5>1, <5>2 DEF At, sc
        <4>4. QED
          BY <4>1, <4>2, <4>3, Sizes
      <3>9. QED
        BY <2>1, <3>2, <3>7, <3>8 DEF p, s, c
    <2>5. QED
      BY <2>3, <2>4
  <1>4. QED
    BY <1>2, <1>3

LEMMA KeepFileRead ==
  ASSUME FileDataAssumption, NEW t, Live(t), NEW d \in Fds, NEW count \in Counts, file_read(d, count)
  PROVE  FileInv'
  <1>1. CASE Stop("read limit") /\ FileAsserts'
    BY <1>1, LightStop, Zenon
  <1> DEFINE c == FR_call(d, count)
             p == pos[d]
             m == mode[d]
  <1>2. CASE /\ call' = [call EXCEPT ![d] = c] /\ IsRead(c) /\ pos[d] + c.left <= inode.size
             /\ c.left # 0 => \A i \in Blk(pos[d])..Blk(pos[d] + c.left - 1) : c.all[i] = At(inode, disk, i)
             /\ UNCHANGED <<inode, dinode, deny, disk, bits, dbits, others, sync, mode, pos, panic, restarts>>
    <2>1. /\ pos \in [Fds -> 0..(Word - 1)] /\ mode \in [Fds -> {"closed", "r", "w"}] /\ FileTypes
      BY LiveFacts DEF FileTypes
    <2>2. panic = "no" /\ call[d] = NoCall /\ m # "closed"
      BY ReadParts, Zenon DEF Ready
    <2>3. call[d].op # "write" /\ c.op # "write"
      <3>1. call[d].op = "none"
        BY <2>1, <2>2, CallKinds
      <3>2. c.op = "read"
        BY DEF FR_call
      <3>3. QED
        BY <3>1, <3>2
    <2>4. /\ p \in 0..(Word - 1) /\ m \in {"closed", "r", "w"}
          /\ pos' = [pos EXCEPT ![d] = p] /\ mode' = [mode EXCEPT ![d] = m] /\ panic' = "no"
      BY <1>2, <2>1, <2>2
    <2>5. /\ call' = [call EXCEPT ![d] = c] /\ IsRead(c) /\ p + c.left <= inode.size
          /\ c.left # 0 => \A i \in Blk(p)..Blk(p + c.left - 1) : c.all[i] = At(inode, disk, i)
          /\ UNCHANGED <<inode, dinode, disk, bits, dbits, sync>>
      BY <1>2
    <2>6. p <= inode.size \/ (p = pos[d] /\ m = mode[d])
      OBVIOUS
    <2> HIDE DEF c, p, m
    <2>7. QED
      BY <2>2, <2>3, <2>4, <2>5, <2>6, LightStep
  <1>3. QED
    BY <1>1, <1>2, ReadStarts, Zenon

\* What read_block copies.
LEMMA ReadStep ==
  ASSUME FileDataAssumption, NEW t, Live(t), NEW d \in Fds, read_block(d)
  PROVE  LET c == call[d]
             k == Lo(c.left, BlockSize - Off(pos[d]))
             b == [j \in 1..k |-> disk[c.all[Blk(pos[d])]][Off(pos[d]) + j - 1]]
         IN /\ IsRead(c) /\ c.left > 0 /\ panic = "no" /\ k \in Nat /\ 1 <= k /\ k <= c.left
            /\ k <= BlockSize - Off(pos[d]) /\ pos[d] \in Nat /\ pos[d] + c.left <= inode.size
            /\ c.all[Blk(pos[d])] = At(inode, disk, Blk(pos[d]))
            /\ \A i \in Blk(pos[d])..Blk(pos[d] + c.left - 1) : c.all[i] = At(inode, disk, i)
            /\ pos' = [pos EXCEPT ![d] = pos[d] + k] /\ pos[d] + k < Word
            /\ call' = [call EXCEPT ![d] = [op |-> "read", left |-> c.left - k, all |-> c.all, buf |-> b]]
            /\ UNCHANGED <<inode, dinode, deny, disk, bits, dbits, others, sync, mode, panic, restarts>>
  <1> DEFINE c == call[d]
             p == pos[d]
             o == Off(p)
             k == Lo(c.left, BlockSize - o)
             b == [j \in 1..k |-> disk[c.all[Blk(p)]][o + j - 1]]
             r == [op |-> "read", left |-> c.left - k, all |-> c.all, buf |-> b]
  <1>1. /\ panic = "no" /\ c.op = "read" /\ c.left > 0
        /\ pos' = [pos EXCEPT ![d] = (p + k) % Word]
        /\ call' = [call EXCEPT ![d] = [c EXCEPT !.left = c.left - k, !.buf = b]]
        /\ UNCHANGED <<inode, dinode, deny, disk, bits, dbits, others, sync, mode, panic, restarts>>
    BY DEF read_block, Off, Blk
  <1>2. FileTypes /\ Room(t) /\ inode.size \in Nat /\ t \in Nat /\ inode.size <= t /\ t < MaxSize
    BY LiveFacts DEF Live
  <1>3. IsRead(c)
    BY <1>1, <1>2, CallKinds
  <1>4. [c EXCEPT !.left = c.left - k, !.buf = b] = r
    <2> HIDE DEF b, k
    <2>1. QED
      BY <1>3, ReadRecord
  <1>5. p \in Nat /\ p < Word /\ Word \in Nat
    BY <1>2, Sizes DEF FileTypes
  <1>6. o \in 0..(BlockSize - 1) /\ BlockSize \in Nat
    BY <1>5, Split, Sizes
  <1>7. c.left \in Nat /\ c.left > 0 /\ Reads(d)
    BY <1>1, <1>2, <1>3 DEF IsRead, Room
  <1>8. /\ p + c.left <= inode.size
        /\ \A i \in Blk(p)..Blk(p + c.left - 1) : c.all[i] = At(inode, disk, i)
    BY <1>7 DEF Reads
  <1> HIDE DEF p
  <1>9. k \in Nat /\ 1 <= k /\ k <= c.left /\ k <= BlockSize - o
    <2> DEFINE l == c.left
    <2>1. l \in Nat /\ l > 0
      BY <1>7
    <2> HIDE DEF l, o
    <2>2. Lo(l, BlockSize - o) \in Nat /\ 1 <= Lo(l, BlockSize - o) /\ Lo(l, BlockSize - o) <= l /\ Lo(l, BlockSize - o) <= BlockSize - o
      BY <1>6, <2>1 DEF Lo
    <2>3. QED
      BY <2>2 DEF l
  <1> HIDE DEF k
  <1>10. p + k < Word /\ (p + k) % Word = p + k
    <2>1. MaxSize \in Nat /\ Word > 2 * MaxSize
      BY Sizes
    <2>2. p + k < Word
      BY <1>2, <1>5, <1>7, <1>8, <1>9, <2>1
    <2>3. QED
      BY <1>5, <1>9, <2>2
  <1>11. c.all[Blk(p)] = At(inode, disk, Blk(p))
    <2> DEFINE q == p + c.left - 1
    <2>1. q \in Nat /\ p <= q
      BY <1>5, <1>7
    <2> HIDE DEF q
    <2>2. Blk(p) \in Nat /\ Blk(q) \in Nat /\ Blk(p) <= Blk(q)
      BY <1>5, <2>1, Split, Monotone
    <2>3. Blk(p) \in Blk(p)..Blk(q)
      BY <2>2
    <2>4. QED
      BY <1>8, <2>3 DEF q
  <1>12. call' = [call EXCEPT ![d] = r]
    BY <1>1, <1>4
  <1>13. pos' = [pos EXCEPT ![d] = p + k]
    BY <1>1, <1>10
  <1> HIDE DEF r, b, o
  <1>14. QED
    BY <1>1, <1>3, <1>5, <1>7, <1>8, <1>9, <1>10, <1>11, <1>12, <1>13 DEF p, k, r, b, o

LEMMA KeepReadBlock ==
  ASSUME FileDataAssumption, NEW t, Live(t), NEW d \in Fds, read_block(d)
  PROVE  FileInv'
  <1> DEFINE c == call[d]
             p == pos[d]
             k == Lo(c.left, BlockSize - Off(p))
             b == [j \in 1..k |-> disk[c.all[Blk(p)]][Off(p) + j - 1]]
             r == [op |-> "read", left |-> c.left - k, all |-> c.all, buf |-> b]
             m == mode[d]
             q == p + k
  <1>1. /\ IsRead(c) /\ c.left > 0 /\ panic = "no" /\ k \in Nat /\ 1 <= k /\ k <= c.left
        /\ p \in Nat /\ p + c.left <= inode.size
        /\ \A i \in Blk(p)..Blk(p + c.left - 1) : c.all[i] = At(inode, disk, i)
        /\ pos' = [pos EXCEPT ![d] = q] /\ q < Word
        /\ call' = [call EXCEPT ![d] = r]
        /\ UNCHANGED <<inode, dinode, deny, disk, bits, dbits, others, sync, mode, panic, restarts>>
    BY ReadStep
  <1>2. /\ mode \in [Fds -> {"closed", "r", "w"}] /\ inode.size \in Nat /\ Positions
    BY LiveFacts DEF FileTypes, Live
  <1>3. m # "closed" /\ mode' = [mode EXCEPT ![d] = m] /\ m \in {"closed", "r", "w"}
    <2>1. c # NoCall
      BY <1>1 DEF IsRead, NoCall
    <2>2. QED
      BY <1>1, <1>2, <2>1 DEF Positions
  <1>4. c.left \in Nat /\ c.all \in AllBlocks /\ c.op = "read"
    BY <1>1 DEF IsRead
  <1>5. r.left = c.left - k /\ r.all = c.all /\ r.op = "read" /\ IsRead(r)
    <2>1. r.left = c.left - k /\ r.all = c.all /\ r.buf = b /\ r.op = "read"
      OBVIOUS
    <2>2. c.left - k \in Nat
      BY <1>1, <1>4
    <2> HIDE DEF b, k, c
    <2>3. QED
      BY <1>4, <2>2 DEF IsRead
  <1> HIDE DEF b, k, p, r, m
  <1>6. q \in 0..(Word - 1) /\ q <= inode.size
    BY <1>1, <1>2, <1>4, Sizes
  <1>7. q + r.left <= inode.size /\ q + r.left = p + c.left
    BY <1>1, <1>4, <1>5
  <1>8. ASSUME r.left # 0, NEW i \in Blk(q)..Blk(q + r.left - 1) PROVE r.all[i] = At(inode, disk, i)
    <2>1. Blk(p) \in Nat /\ Blk(q) \in Nat /\ Blk(p) <= Blk(q)
      <3>1. p \in Nat /\ q \in Nat /\ p <= q
        BY <1>1
      <3> HIDE DEF q
      <3>2. QED
        BY <3>1, Split, Monotone
    <2>2. Blk(q + r.left - 1) \in Nat
      <3> DEFINE w == q + r.left - 1
      <3>1. w \in Nat
        BY <1>1, <1>4, <1>5, <1>8
      <3> HIDE DEF w
      <3>2. Blk(w) \in Nat
        BY <3>1, Split
      <3>3. QED
        BY <3>2 DEF w
    <2>3. q + r.left - 1 = p + c.left - 1
      BY <1>1, <1>4, <1>5, <1>7
    <2>4. i \in Blk(p)..Blk(p + c.left - 1)
      <3> DEFINE u == Blk(q + r.left - 1)
      <3>1. u = Blk(p + c.left - 1) /\ u \in Nat /\ i \in Blk(q)..u
        BY <1>8, <2>2, <2>3
      <3> HIDE DEF u, q
      <3>2. i \in Blk(p)..u
        BY <2>1, <3>1
      <3>3. QED
        BY <3>1, <3>2
    <2>5. QED
      BY <1>1, <1>5, <2>4
  <1> HIDE DEF q, c
  <1>9. call[d].op # "write" /\ r.op # "write" /\ panic' = "no"
    BY <1>1, <1>4, <1>5 DEF c
  <1>10. QED
    BY <1>1, <1>3, <1>5, <1>6, <1>7, <1>8, <1>9, LightStep

LEMMA KeepReadEnd ==
  ASSUME FileDataAssumption, NEW t, Live(t), NEW d \in Fds, read_end(d)
  PROVE  FileInv'
  <1> DEFINE p == pos[d]
             m == mode[d]
  <1>1. FileTypes
    BY LiveFacts
  <1>2. /\ panic' = "no" /\ call[d].op = "read" /\ call' = [call EXCEPT ![d] = NoCall]
        /\ UNCHANGED <<inode, dinode, disk, bits, dbits, sync, mode, pos>>
    BY DEF read_end
  <1>3. /\ p \in 0..(Word - 1) /\ m \in {"closed", "r", "w"}
        /\ pos' = [pos EXCEPT ![d] = p] /\ mode' = [mode EXCEPT ![d] = m]
    BY <1>1, <1>2 DEF FileTypes
  <1>4. NoCall.op # "write" /\ ~IsRead(NoCall)
    BY DEF NoCall, IsRead
  <1>5. p <= inode.size \/ (p = pos[d] /\ m = mode[d])
    OBVIOUS
  <1>6. call[d].op # "write"
    BY <1>2
  <1> HIDE DEF p, m
  <1>7. QED
    BY <1>2, <1>3, <1>4, <1>5, <1>6, LightStep

\* sys_lseek, file_open and file_close set a position within the file.
LEMMA MoveStep ==
  ASSUME FileDataAssumption, NEW t, Live(t), UNCHANGED <<inode, dinode, disk, bits, dbits, sync, call, panic>>,
         NEW d \in Fds, NEW p \in Nat, p <= inode.size, NEW m \in {"closed", "r", "w"},
         call[d] = NoCall, panic = "no",
         pos' = [pos EXCEPT ![d] = p], mode' = [mode EXCEPT ![d] = m]
  PROVE  FileInv'
  <1>1. FileTypes /\ inode.size \in Nat /\ inode.size <= t /\ t \in Nat /\ t < MaxSize
    BY LiveFacts
  <1>2. p \in 0..(Word - 1)
    <2>1. MaxSize \in Nat /\ Word \in Nat /\ Word > 2 * MaxSize
      BY Sizes
    <2>2. QED
      BY <1>1, <2>1
  <1>3. call' = [call EXCEPT ![d] = NoCall]
    BY <1>1 DEF FileTypes
  <1>4. NoCall.op # "write" /\ ~IsRead(NoCall)
    BY DEF NoCall, IsRead
  <1>5. call[d].op # "write"
    BY <1>4
  <1>6. QED
    BY <1>2, <1>3, <1>4, <1>5, LightStep

LEMMA SeekStep ==
  ASSUME FileDataAssumption, NEW t, Live(t), NEW d \in Fds, NEW offset \in Offsets,
         NEW whence \in {"set", "cur", "end"}, sys_lseek(d, offset, whence)
  PROVE  \E p \in Nat : p <= inode.size - 1 /\ pos' = [pos EXCEPT ![d] = p]
  <1> DEFINE base == CASE whence = "set" -> 0 [] whence = "cur" -> Signed(pos[d]) [] whence = "end" -> inode.size
             p == offset + base
  <1>1. p >= 0 /\ p <= inode.size - 1 /\ pos' = [pos EXCEPT ![d] = p]
    BY DEF sys_lseek
  <1>2. base \in Int
    <2>1. pos[d] \in Nat /\ inode.size \in Nat
      BY LiveFacts, Sizes DEF FileTypes
    <2>2. Signed(pos[d]) \in Int
      BY <2>1, Sizes DEF Signed
    <2> DEFINE s == Signed(pos[d])
    <2> HIDE DEF s
    <2>3. CASE whence = "set"
      BY <2>3
    <2>4. CASE whence = "cur"
      BY <2>2, <2>4
    <2>5. CASE whence = "end"
      BY <2>1, <2>5
    <2>6. QED
      BY <2>3, <2>4, <2>5
  <1> HIDE DEF base
  <1>3. offset \in Int
    BY Sizes
  <1>4. p \in Nat
    BY <1>1, <1>2, <1>3
  <1>5. QED
    BY <1>1, <1>4

LEMMA KeepSeek ==
  ASSUME FileDataAssumption, NEW t, Live(t), NEW d \in Fds, NEW offset \in Offsets,
         NEW whence \in {"set", "cur", "end"}, sys_lseek(d, offset, whence)
  PROVE  FileInv'
  <1>1. PICK p \in Nat : p <= inode.size - 1 /\ pos' = [pos EXCEPT ![d] = p]
    BY SeekStep
  <1> DEFINE m == mode[d]
  <1>2. /\ panic = "no" /\ call[d] = NoCall
        /\ UNCHANGED <<inode, dinode, disk, bits, dbits, sync, mode, call, panic>>
    BY DEF sys_lseek, Ready
  <1>3. mode' = [mode EXCEPT ![d] = m] /\ m \in {"closed", "r", "w"} /\ inode.size \in Nat
    BY <1>2, LiveFacts DEF FileTypes
  <1>4. p <= inode.size
    BY <1>1, <1>3
  <1> HIDE DEF m
  <1>5. QED
    BY <1>1, <1>2, <1>3, <1>4, MoveStep

LEMMA KeepOpen ==
  ASSUME FileDataAssumption, NEW t, Live(t), NEW d \in Fds, NEW flag \in {"r", "w"}, file_open(d, flag)
  PROVE  FileInv'
  <1>1. /\ panic = "no" /\ mode[d] = "closed" /\ mode' = [mode EXCEPT ![d] = flag]
        /\ pos' = [pos EXCEPT ![d] = 0]
        /\ UNCHANGED <<inode, dinode, disk, bits, dbits, sync, call, panic>>
    BY DEF file_open
  <1>2. call[d] = NoCall
    BY <1>1 DEF Live, Positions
  <1>3. 0 \in Nat /\ 0 <= inode.size
    BY LiveFacts
  <1>4. QED
    BY <1>1, <1>2, <1>3, MoveStep

LEMMA KeepClose ==
  ASSUME FileDataAssumption, NEW t, Live(t), NEW d \in Fds, file_close(d)
  PROVE  FileInv'
  <1>1. /\ panic = "no" /\ call[d] = NoCall /\ mode' = [mode EXCEPT ![d] = "closed"]
        /\ pos' = [pos EXCEPT ![d] = 0]
        /\ UNCHANGED <<inode, dinode, disk, bits, dbits, sync, call, panic>>
    BY DEF file_close, Ready
  <1>2. 0 \in Nat /\ 0 <= inode.size
    BY LiveFacts
  <1>3. QED
    BY <1>1, <1>2, MoveStep

LEMMA KeepSyncRead ==
  ASSUME FileDataAssumption, NEW t, Live(t), sync_read
  PROVE  FileInv'
  <1>1. /\ panic' = "no" /\ sync'.inode = dinode
        /\ UNCHANGED <<inode, dinode, disk, bits, dbits, mode, pos, call>>
    BY DEF sync_read
  <1>2. FileTypes /\ Positions /\ Room(t) /\ disk[0] = Zeros
    BY LiveFacts DEF Live
  <1>3. FileTypes' /\ Positions'
    BY <1>1, <1>2 DEF FileTypes, Positions
  <1>4. FileAsserts'
    BY <1>1, <1>2 DEF FileAsserts
  <1>5. \A e \in Fds : call'[e].op = "read" => Reads(e)'
    BY <1>1, <1>2 DEF Room, Reads
  <1>6. QED
    BY <1>1, <1>3, <1>4, <1>5, Light

LEMMA KeepSyncWrite ==
  ASSUME FileDataAssumption, NEW t, Live(t), sync_write
  PROVE  FileInv'
  <1>1. /\ panic' = "no" /\ dinode' = sync.inode /\ sync'.inode = Empty
        /\ sync.inode # dinode => sync'.at = "lost"
        /\ UNCHANGED <<inode, disk, bits, dbits, mode, pos, call>>
    BY DEF sync_write
  <1>2. FileTypes /\ Positions /\ Room(t) /\ disk[0] = Zeros
    BY LiveFacts DEF Live
  <1>3. Empty \in Inode
    <2>1. 0 \in Numbers
      BY Sizes DEF Numbers
    <2>2. QED
      BY <2>1 DEF Empty, Inode
  <1>4. FileTypes' /\ Positions'
    BY <1>1, <1>2, <1>3 DEF FileTypes, Positions
  <1>5. FileAsserts'
    BY <1>1, <1>2 DEF FileAsserts
  <1>6. CASE sync.inode = dinode
    <2>1. \A e \in Fds : call'[e].op = "read" => Reads(e)'
      BY <1>1, <1>2 DEF Room, Reads
    <2>2. UNCHANGED <<inode, dinode, disk, bits, dbits>>
      BY <1>1, <1>6
    <2>3. QED
      BY <1>1, <1>4, <1>5, <2>1, <2>2, Light
  <1>7. CASE sync.inode # dinode
    BY <1>1, <1>4, <1>5, <1>7 DEF FileInv, Spoilt
  <1>8. QED
    BY <1>6, <1>7

-----------------------------------------------------------------------------
(* Steps that change the disk or the inode.                                *)

\* The blocks that calls under way know are blocks of the file.
LEMMA CallRange ==
  ASSUME FileDataAssumption, NEW t, Live(t), NEW d \in Fds
  PROVE  /\ call[d].op = "read" /\ call[d].left # 0 =>
              /\ inode.size # 0
              /\ \A i \in Blk(pos[d])..Blk(pos[d] + call[d].left - 1) :
                   i \in 0..Blk(inode.size) /\ i \in 0..(Count(inode, t) - 1)
         /\ call[d].op = "write" =>
              \A i \in Blk(inode.size)..Blk(t) : i \in 0..(Count(inode, t) - 1)
  <1>1. FileTypes /\ Room(t) /\ t \in Nat /\ inode.size \in Nat /\ inode.size <= t
    BY LiveFacts DEF Live
  <1>2. Blk(t) \in Nat /\ Blk(inode.size) \in Nat /\ Blk(inode.size) <= Blk(t)
    <2> DEFINE s == inode.size
    <2>1. s \in Nat /\ s <= t
      BY <1>1
    <2> HIDE DEF s
    <2>2. Blk(t) \in Nat /\ Blk(s) \in Nat /\ Blk(s) <= Blk(t)
      BY <1>1, <2>1, Split, Monotone
    <2>3. QED
      BY <2>2 DEF s
  <1>3. ASSUME call[d].op = "read", call[d].left # 0
        PROVE  /\ inode.size # 0
               /\ \A i \in Blk(pos[d])..Blk(pos[d] + call[d].left - 1) :
                    i \in 0..Blk(inode.size) /\ i \in 0..(Count(inode, t) - 1)
    <2>1. IsRead(call[d]) /\ Reads(d)
      BY <1>1, <1>3, CallKinds DEF Room
    <2>2. call[d].left \in Nat /\ pos[d] + call[d].left <= inode.size /\ pos[d] \in Nat
      BY <1>1, <2>1, Sizes DEF IsRead, Reads, FileTypes
    <2>3. inode.size # 0 /\ t # 0
      BY <1>1, <1>3, <2>2
    <2>4. Count(inode, t) = Blk(t) + 1
      BY <2>3, LiveFacts
    <2> DEFINE q == pos[d] + call[d].left - 1
               s == inode.size
    <2>5. q \in Nat /\ s \in Nat /\ q <= s
      BY <1>1, <1>3, <2>2
    <2> HIDE DEF q, s
    <2>6. Blk(q) \in Nat /\ Blk(s) \in Nat /\ Blk(q) <= Blk(s) /\ Blk(pos[d]) \in Nat
      BY <2>2, <2>5, Split, Monotone
    <2>7. \A i \in Blk(pos[d])..Blk(q) : i \in 0..Blk(s) /\ i \in 0..(Count(inode, t) - 1)
      BY <1>2, <2>4, <2>6 DEF s
    <2>8. QED
      BY <2>3, <2>7 DEF q, s
  <1>4. ASSUME call[d].op = "write"
        PROVE  \A i \in Blk(inode.size)..Blk(t) : i \in 0..(Count(inode, t) - 1)
    <2>1. inode.sec[0] # 0
      BY <1>1, <1>4 DEF Room, Writes
    <2>2. Count(inode, t) = Blk(t) + 1
      BY <2>1, LiveFacts
    <2>3. QED
      BY <1>2, <2>2
  <1>5. QED
    BY <1>3, <1>4

\* A read goes on although the disk changes elsewhere and the file grows.
LEMMA CarryRead ==
  ASSUME FileDataAssumption, NEW t, Live(t), NEW d \in Fds, call[d].op = "read",
         call'[d] = call[d], pos'[d] = pos[d], inode.size <= inode'.size, inode'.size \in Nat,
         \A i \in 0..(Count(inode, t) - 1) : At(inode', disk', i) = At(inode, disk, i)
  PROVE  Reads(d)'
  <1>1. FileTypes /\ Reads(d) /\ inode.size \in Nat
    BY LiveFacts DEF Live, Room
  <1>2. IsRead(call[d])
    BY <1>1, CallKinds
  <1>3. call[d].left \in Nat /\ pos[d] \in Nat
    BY <1>1, <1>2, Sizes DEF IsRead, FileTypes
  <1>4. pos'[d] + call'[d].left <= inode'.size
    BY <1>1, <1>3 DEF Reads
  <1>5. ASSUME call[d].left # 0, NEW i \in Blk(pos[d])..Blk(pos[d] + call[d].left - 1)
        PROVE  call[d].all[i] = At(inode', disk', i)
    <2>1. i \in 0..(Count(inode, t) - 1)
      BY <1>5, CallRange
    <2>2. call[d].all[i] = At(inode, disk, i)
      BY <1>1, <1>5 DEF Reads
    <2>3. QED
      BY <2>1, <2>2
  <1>6. QED
    BY <1>4, <1>5 DEF Reads

\* A block that is not the table changes: every inode keeps its blocks.
BlockKept(t, b, v, dk) ==
  /\ dk = [x \in {0} \cup Blocks |-> dk[x]] /\ dk[0] = Zeros /\ dk[b] = v
  /\ \A x \in Blocks : x # b => dk[x] = disk[x]
  /\ Holds(inode, dk, t) /\ Holds(dinode, dk, dinode.size)
  /\ \A i \in 0..(Count(inode, t) - 1) : At(inode, dk, i) = At(inode, disk, i)
  /\ \A i \in 0..(Count(dinode, dinode.size) - 1) : At(dinode, dk, i) = At(dinode, disk, i)

Put(dk, b, v) == dk = [disk EXCEPT ![b] = v]

LEMMA BlockWritten ==
  ASSUME FileDataAssumption, NEW t, Live(t), NEW b \in Blocks, b # inode.sec[Direct], NEW v,
         NEW dk, Put(dk, b, v)
  PROVE  BlockKept(t, b, v, dk)
  <1>1. /\ FileTypes /\ inode \in Inode /\ dinode \in Inode /\ dinode.size \in Nat /\ t \in Nat
        /\ disk[0] = Zeros /\ 0 \notin Blocks
    BY LiveFacts
  <1>2. disk = [x \in {0} \cup Blocks |-> disk[x]]
    BY <1>1 DEF FileTypes
  <1>3. Saved /\ Holds(inode, disk, t) /\ Holds(dinode, disk, dinode.size)
    BY DEF Live, Room, Saved
  <1>4. /\ dk = [x \in {0} \cup Blocks |-> dk[x]] /\ dk[b] = v
        /\ \A x \in {0} \cup Blocks : x # b => dk[x] = disk[x]
    BY <1>2 DEF Put
  <1>5. dk[0] = Zeros
    BY <1>1, <1>4
  <1>6. inode.sec[Direct] \in {0} \cup Blocks
    BY LiveFacts
  <1>7. TableKept(inode, disk, dk)
    BY <1>4, <1>6 DEF TableKept
  <1>8. TableKept(dinode, disk, dk)
    BY <1>3, <1>4, <1>6 DEF TableKept, Saved
  <1>9. Count(inode, t) \in Nat /\ Count(dinode, dinode.size) \in Nat
    BY <1>1, CountFacts
  <1>10. /\ Layout(inode, dk, Count(inode, t))
         /\ \A i \in 0..(Count(inode, t) - 1) : At(inode, dk, i) = At(inode, disk, i)
    BY <1>1, <1>3, <1>7, <1>9, LayoutSame DEF Holds
  <1>11. /\ Layout(dinode, dk, Count(dinode, dinode.size))
         /\ \A i \in 0..(Count(dinode, dinode.size) - 1) : At(dinode, dk, i) = At(dinode, disk, i)
    BY <1>1, <1>3, <1>8, <1>9, LayoutSame DEF Holds
  <1>12. Holds(inode, dk, t) /\ Holds(dinode, dk, dinode.size)
    BY <1>3, <1>10, <1>11 DEF Holds
  <1>13. QED
    BY <1>4, <1>5, <1>10, <1>11, <1>12 DEF BlockKept

\* The file in memory has the blocks of the file on disk.
LEMMA SavedRange ==
  ASSUME FileDataAssumption, NEW t, Live(t)
  PROVE  /\ Count(dinode, dinode.size) \in Nat
         /\ Count(dinode, dinode.size) <= Count(inode, t)
         /\ Count(dinode, dinode.size) <= Count(inode, inode.size)
         /\ dinode.sec[0] # 0 => inode.sec[0] # 0 /\ Count(dinode, dinode.size) = Blk(dinode.size) + 1
  <1>1. /\ FileTypes /\ inode \in Inode /\ dinode \in Inode /\ dinode.size \in Nat /\ t \in Nat /\ inode.size \in Nat
        /\ dinode.size <= inode.size /\ inode.size <= t
    BY LiveFacts
  <1> DEFINE a == dinode.size
             s == inode.size
  <1>2. /\ Count(dinode, a) \in Nat /\ (dinode.sec[0] = 0 => Count(dinode, a) = 0)
        /\ (dinode.sec[0] # 0 => Count(dinode, a) = Blk(a) + 1)
        /\ Count(inode, t) \in Nat /\ Count(inode, s) \in Nat
        /\ (inode.sec[0] # 0 => Count(inode, t) = Blk(t) + 1 /\ Count(inode, s) = Blk(s) + 1)
    BY <1>1, CountFacts
  <1>3. a \in Nat /\ s \in Nat /\ t \in Nat /\ a <= s /\ s <= t /\ a <= t
    BY <1>1
  <1>4. ASSUME dinode.sec[0] # 0 PROVE inode.sec[0] # 0
    <2>1. 0 \in 0..(Count(dinode, a) - 1) /\ 0 < Direct
      <3>1. Blk(a) \in Nat
        BY <1>1, Split
      <3>2. QED
        BY <1>2, <1>4, <3>1, Sizes
    <2>2. At(dinode, disk, 0) = At(inode, disk, 0)
      BY <2>1 DEF Live, Saved
    <2>3. QED
      BY <1>4, <2>1, <2>2 DEF At
  <1> HIDE DEF a, s
  <1>5. /\ Blk(a) \in Nat /\ Blk(s) \in Nat /\ Blk(t) \in Nat /\ Blk(a) <= Blk(t) /\ Blk(a) <= Blk(s)
    BY <1>3, Split, Monotone
  <1>6. CASE dinode.sec[0] = 0
    BY <1>2, <1>6 DEF a, s
  <1>7. CASE dinode.sec[0] # 0
    BY <1>2, <1>4, <1>5, <1>7 DEF a, s
  <1>8. QED
    BY <1>6, <1>7

LEMMA KeepOtherFile ==
  ASSUME FileDataAssumption, NEW t, Live(t), OtherFile
  PROVE  FileInv'
  <1> DEFINE new == Taken(1)
             b == new[1]
  <1>1. /\ panic' = "no" /\ new # << >> /\ bits' = bits \cup ToSet(new)
        /\ dbits' = bitmap_sync(bits', dbits, new) /\ disk' = [disk EXCEPT ![b] = Zeros]
        /\ UNCHANGED <<inode, dinode, sync, mode, pos, call>>
    BY DEF OtherFile
  <1>2. /\ new \in Seq(Blocks \ bits) /\ DOMAIN new = 1..Len(new)
    BY TakenFacts
  <1>3. /\ FileTypes /\ inode \in Inode /\ inode.size \in Nat /\ t \in Nat /\ bits \subseteq Blocks /\ dbits \subseteq bits
        /\ inode.sec[Direct] \in bits \cup {0} /\ 0 \notin Blocks
        /\ \A i \in 0..(Count(inode, t) - 1) : At(inode, disk, i) \in dbits
    BY LiveFacts
  <1> HIDE DEF new
  <1>4. 1 \in 1..Len(new) /\ b \in Blocks /\ b \notin bits /\ \A i \in 1..Len(new) : new[i] \in Blocks
    BY <1>1, <1>2
  <1>5. bits' \subseteq Blocks /\ bits \subseteq bits' /\ new \in Seq(bits') /\ dbits \subseteq bits'
    <2>1. ToSet(new) = {new[i] : i \in 1..Len(new)}
      BY <1>2 DEF ToSet
    <2>2. bits' \subseteq Blocks /\ bits \subseteq bits' /\ \A i \in 1..Len(new) : new[i] \in bits'
      BY <1>1, <1>3, <1>4, <2>1
    <2> DEFINE B == bits'
               l == Len(new)
    <2>3. l \in Nat /\ new \in [1..l -> B]
      BY <1>2, <2>2
    <2>4. new \in Seq(B)
      <3> HIDE DEF l, B
      <3>1. QED
        BY <2>3
    <2>5. QED
      BY <1>3, <2>2, <2>4
  <1>6. dbits \subseteq dbits' /\ dbits' \subseteq bits'
    <2> DEFINE B == bits'
    <2>1. B \in SUBSET Blocks /\ dbits \in SUBSET B /\ new \in Seq(B) /\ dbits' = bitmap_sync(B, dbits, new)
      BY <1>1, <1>5
    <2> HIDE DEF B
    <2>2. dbits \subseteq bitmap_sync(B, dbits, new) /\ bitmap_sync(B, dbits, new) \subseteq B
      BY <2>1, SyncFacts
    <2>3. QED
      BY <2>1, <2>2 DEF B
  <1>7. b # inode.sec[Direct]
    BY <1>3, <1>4
  <1> HIDE DEF b
  <1>8. /\ disk' = [x \in {0} \cup Blocks |-> disk'[x]] /\ disk'[0] = Zeros
        /\ \A x \in Blocks : x # b => disk'[x] = disk[x]
        /\ Holds(inode, disk', t) /\ Holds(dinode, disk', dinode.size)
        /\ \A i \in 0..(Count(inode, t) - 1) : At(inode, disk', i) = At(inode, disk, i)
        /\ \A i \in 0..(Count(dinode, dinode.size) - 1) : At(dinode, disk', i) = At(dinode, disk, i)
    <2>1. b \in Blocks /\ disk' = [disk EXCEPT ![b] = Zeros]
      BY <1>1, <1>4 DEF b
    <2> DEFINE dk == disk'
    <2>2. b \in Blocks /\ Put(dk, b, Zeros)
      BY <2>1 DEF Put
    <2> HIDE DEF dk
    <2>3. BlockKept(t, b, Zeros, dk)
      BY <1>7, <2>2, BlockWritten, Zenon
    <2>4. QED
      BY <2>3 DEF BlockKept, dk
  <1>9. FileTypes'
    BY <1>1, <1>3, <1>5, <1>6, <1>8 DEF FileTypes
  <1>10. FileAsserts'
    <2>1. panic' = "no" /\ disk'[0] = Zeros
      BY <1>1, <1>8
    <2>2. QED
      BY <2>1 DEF FileAsserts
  <1>11. Positions'
    BY <1>1 DEF Live, Positions
  <1>12. Saved'
    <2>1. Saved
      BY DEF Live
    <2>2. \A i \in 0..(Count(dinode, dinode.size) - 1) : i \in 0..(Count(inode, t) - 1)
      <3>1. Count(dinode, dinode.size) \in Nat /\ Count(dinode, dinode.size) <= Count(inode, t) /\ Count(inode, t) \in Nat
        BY SavedRange, LiveFacts
      <3>2. QED
        BY <3>1
    <2>3. \A i \in 0..(Count(dinode, dinode.size) - 1) : At(dinode, disk', i) = At(inode, disk', i)
      BY <1>8, <2>1, <2>2 DEF Saved
    <2>4. QED
      BY <1>1, <1>8, <2>1, <2>3 DEF Saved
  <1>13. ASSUME NEW d \in Fds, call'[d].op = "read" PROVE Reads(d)'
    <2>1. call[d].op = "read" /\ call'[d] = call[d] /\ pos'[d] = pos[d]
      BY <1>1, <1>13
    <2>2. inode.size <= inode'.size /\ inode'.size \in Nat
      BY <1>1, <1>3
    <2>3. \A i \in 0..(Count(inode, t) - 1) : At(inode', disk', i) = At(inode, disk, i)
      BY <1>1, <1>8
    <2>4. QED
      BY <2>1, <2>2, <2>3, CarryRead
  <1>14. ASSUME NEW d \in Fds, call'[d].op = "write" PROVE Writes(d, t)'
    <2>1. call[d].op = "write" /\ Writes(d, t)
      BY <1>1, <1>14 DEF Live, Room
    <2>2. \A i \in Blk(inode.size)..Blk(t) : At(inode, disk', i) = At(inode, disk, i)
      BY <1>8, <2>1, CallRange
    <2>3. disk'[call[d].all[Blk(inode.size)]] = disk[call[d].all[Blk(inode.size)]]
      <3> DEFINE s == inode.size
                 x == call[d].all[Blk(s)]
      <3>1. s \in Nat /\ s <= t
        BY LiveFacts
      <3> HIDE DEF s
      <3>2. Blk(s) \in Nat /\ Blk(t) \in Nat /\ Blk(s) <= Blk(t)
        BY <1>3, <3>1, Split, Monotone
      <3>3. Blk(s) \in Blk(s)..Blk(t)
        BY <3>2
      <3>4. x = At(inode, disk, Blk(s)) /\ Blk(s) \in 0..(Count(inode, t) - 1)
        BY <2>1, <3>3, CallRange DEF Writes, s
      <3>5. x \in bits /\ x \in Blocks /\ x # b
        BY <1>3, <1>4, <3>4 DEF b
      <3> HIDE DEF x
      <3>6. disk'[x] = disk[x]
        BY <1>8, <3>5
      <3>7. QED
        BY <3>6 DEF x, s
    <2>4. QED
      BY <1>1, <2>1, <2>2, <2>3 DEF Writes
  <1>15. Room(t)'
    <2>1. Room(t)
      BY DEF Live
    <2>2. \A i \in 0..(Count(inode, t) - 1) : At(inode, disk', i) \in dbits'
      BY <1>3, <1>6, <1>8
    <2>3. QED
      BY <1>1, <1>8, <1>13, <1>14, <2>1, <2>2 DEF Room
  <1>16. QED
    BY <1>3, <1>9, <1>10, <1>11, <1>12, <1>15 DEF FileInv

\* What write_block puts into the block at the end of the file.
WB_lba(d) == call[d].all[Blk(inode.size)]
WB_chunk(d) == Lo(Len(call[d].left), BlockSize - Off(inode.size))
WB_data(d) ==
  [j \in 0..(BlockSize - 1) |->
     IF j \in Off(inode.size)..(Off(inode.size) + WB_chunk(d) - 1)
     THEN call[d].left[j - Off(inode.size) + 1] ELSE Buffer(call[d], WB_lba(d))[j]]
WB_call(d) ==
  [op |-> "write", left |-> call[d].left, all |-> call[d].all, first |-> FALSE, chunk |-> WB_chunk(d)]

LEMMA WriteStep ==
  ASSUME FileDataAssumption, NEW t, Live(t), NEW d \in Fds, write_block(d)
  PROVE  LET c == call[d]
             s == inode.size
             b == WB_lba(d)
             k == WB_chunk(d)
             v == WB_data(d)
         IN /\ IsWrite(c) /\ Writes(d, t) /\ panic = "no" /\ c.op = "write"
            /\ b = At(inode, disk, Blk(s)) /\ b \in Blocks /\ b # inode.sec[Direct]
            /\ Blk(s) \in 0..(Count(inode, t) - 1)
            /\ k \in Nat /\ 1 <= k /\ k <= Len(c.left) /\ k <= BlockSize - Off(s)
            /\ \A j \in 0..(Off(s) - 1) : v[j] = disk[b][j]
            /\ \A j \in 1..k : v[Off(s) + j - 1] = c.left[j]
            /\ Put(disk', b, v)
            /\ call' = [call EXCEPT ![d] = WB_call(d)] /\ IsWrite(WB_call(d))
            /\ UNCHANGED <<inode, dinode, deny, bits, dbits, others, sync, mode, pos, panic, restarts>>
  <1> DEFINE c == call[d]
             s == inode.size
             b == WB_lba(d)
             k == WB_chunk(d)
             v == WB_data(d)
             o == Off(s)
  <1>1. /\ panic = "no" /\ c.op = "write" /\ c.left # << >> /\ c.chunk = 0
        /\ disk' = [disk EXCEPT ![b] = v]
        /\ call' = [call EXCEPT ![d] = [c EXCEPT !.chunk = k, !.first = FALSE]]
        /\ UNCHANGED <<inode, dinode, deny, bits, dbits, others, sync, mode, pos, panic, restarts>>
    BY DEF write_block, WB_lba, WB_chunk, WB_data, Blk, Off
  <1>2. /\ FileTypes /\ Room(t) /\ s \in Nat /\ t \in Nat /\ s <= t /\ bits \subseteq Blocks /\ dbits \subseteq bits
        /\ Layout(inode, disk, Count(inode, t))
        /\ \A i \in 0..(Count(inode, t) - 1) : At(inode, disk, i) \in dbits
    BY LiveFacts DEF Live
  <1>3. IsWrite(c) /\ Writes(d, t)
    BY <1>1, <1>2, CallKinds DEF Room
  <1>4. Blk(s) \in Blk(s)..Blk(t)
    <2> HIDE DEF s
    <2>1. Blk(s) \in Nat /\ Blk(t) \in Nat /\ Blk(s) <= Blk(t)
      BY <1>2, Split, Monotone
    <2>2. QED
      BY <2>1
  <1>5. b = At(inode, disk, Blk(s)) /\ Blk(s) \in 0..(Count(inode, t) - 1)
    BY <1>1, <1>3, <1>4, CallRange DEF Writes, WB_lba
  <1>6. b \in Blocks /\ b # inode.sec[Direct]
    BY <1>2, <1>5 DEF Layout
  <1>7. o \in 0..(BlockSize - 1) /\ BlockSize \in Nat
    BY <1>2, Split, Sizes
  <1>8. c.left \in Seq(Nat) /\ c.all \in AllBlocks /\ Len(c.left) \in Nat /\ Len(c.left) > 0
    BY <1>1, <1>3 DEF IsWrite
  <1>9. k \in Nat /\ 1 <= k /\ k <= Len(c.left) /\ k <= BlockSize - o
    <2> DEFINE l == Len(c.left)
    <2>1. l \in Nat /\ l > 0 /\ k = Lo(l, BlockSize - o)
      BY <1>8 DEF WB_chunk
    <2> HIDE DEF l, o, k
    <2>2. k \in Nat /\ 1 <= k /\ k <= l /\ k <= BlockSize - o
      BY <1>7, <2>1 DEF Lo
    <2>3. QED
      BY <2>2 DEF l
  <1>10. v = [j \in 0..(BlockSize - 1) |->
                IF j \in o..(o + k - 1) THEN c.left[j - o + 1] ELSE Buffer(c, b)[j]]
    BY DEF WB_data
  <1>11. o # 0 => Buffer(c, b) = disk[b]
    <2>1. c.first \in BOOLEAN
      BY <1>3 DEF IsWrite
    <2>2. o # 0 => c.first
      BY <1>1, <1>3, <2>1 DEF Writes
    <2>3. QED
      BY <2>2 DEF Buffer
  <1> HIDE DEF v, k, o, b
  <1>12. \A j \in 0..(o - 1) : v[j] = disk[b][j]
    <2>1. TAKE j \in 0..(o - 1)
    <2>2. j \in 0..(BlockSize - 1) /\ j \notin o..(o + k - 1) /\ o # 0
      BY <1>7, <1>9
    <2>3. QED
      BY <1>10, <1>11, <2>2
  <1>13. \A j \in 1..k : v[o + j - 1] = c.left[j]
    <2>1. TAKE j \in 1..k
    <2> DEFINE x == o + j - 1
    <2>2. x \in 0..(BlockSize - 1) /\ x \in o..(o + k - 1) /\ x - o + 1 = j
      BY <1>7, <1>9
    <2> HIDE DEF x
    <2>3. v[x] = c.left[x - o + 1]
      BY <1>10, <2>2
    <2>4. QED
      BY <2>2, <2>3 DEF x
  <1>14. [c EXCEPT !.chunk = k, !.first = FALSE] = WB_call(d)
    BY <1>3, WriteRecord DEF WB_call, k
  <1>15. IsWrite(WB_call(d))
    <2> DEFINE l == c.left
               a == c.all
               w == WB_call(d)
    <2>1. w = [op |-> "write", left |-> l, all |-> a, first |-> FALSE, chunk |-> k]
      BY DEF WB_call, k
    <2>2. l \in Seq(Nat) /\ a \in AllBlocks /\ k \in Nat
      BY <1>8, <1>9
    <2> HIDE DEF l, a, w
    <2>3. w.op = "write" /\ w.left = l /\ w.all = a /\ w.first = FALSE /\ w.chunk = k
      BY <2>1
    <2>4. IsWrite(w)
      BY <2>1, <2>2, <2>3 DEF IsWrite
    <2>5. QED
      BY <2>4 DEF w
  <1>16. Put(disk', b, v)
    BY <1>1 DEF Put
  <1>17. QED
    BY <1>1, <1>3, <1>5, <1>6, <1>9, <1>12, <1>13, <1>14, <1>15, <1>16 DEF v, k, o, b

\* While one descriptor writes, no other does.
LEMMA NoOtherWrite ==
  ASSUME FileDataAssumption, NEW t, Live(t), NEW d \in Fds, mode[d] = "w", NEW e \in Fds, e # d
  PROVE  call[e].op # "write" /\ mode[e] # "w"
  <1>1. ~Spoilt /\ Room(t)
    BY DEF Live
  <1>2. mode[e] # "w"
    BY <1>1, OneWriter
  <1>3. QED
    BY <1>1, <1>2 DEF Room, Writes

LEMMA KeepWriteBlock ==
  ASSUME FileDataAssumption, NEW t, Live(t), NEW d \in Fds, write_block(d)
  PROVE  FileInv'
  <1> DEFINE c == call[d]
             s == inode.size
             b == WB_lba(d)
             k == WB_chunk(d)
             v == WB_data(d)
             w == WB_call(d)
             dk == disk'
  <1>1. /\ IsWrite(c) /\ Writes(d, t) /\ panic = "no" /\ c.op = "write"
        /\ b = At(inode, disk, Blk(s)) /\ b \in Blocks /\ b # inode.sec[Direct]
        /\ Blk(s) \in 0..(Count(inode, t) - 1)
        /\ k \in Nat /\ 1 <= k /\ k <= Len(c.left) /\ k <= BlockSize - Off(s)
        /\ \A j \in 1..k : v[Off(s) + j - 1] = c.left[j]
        /\ Put(dk, b, v)
        /\ call' = [call EXCEPT ![d] = w] /\ IsWrite(w)
        /\ UNCHANGED <<inode, dinode, deny, bits, dbits, others, sync, mode, pos, panic, restarts>>
    BY WriteStep
  <1>2. /\ w.left = c.left /\ w.all = c.all /\ w.first = FALSE /\ w.chunk = k /\ w.op = "write"
    BY DEF WB_call
  <1>3. k = Lo(Len(c.left), BlockSize - Off(s)) /\ b = c.all[Blk(s)]
    BY DEF WB_chunk, WB_lba
  <1>4. /\ FileTypes /\ Room(t) /\ s \in Nat /\ t \in Nat /\ Positions /\ Saved
        /\ \A i \in 0..(Count(inode, t) - 1) : At(inode, disk, i) \in dbits
    BY LiveFacts DEF Live
  <1>5. call = [e \in Fds |-> call[e]]
    BY <1>4 DEF FileTypes
  <1> HIDE DEF b, k, v, w, dk, c
  <1>6. BlockKept(t, b, v, dk)
    BY <1>1, BlockWritten
  <1>7. call'[d] = w /\ call' = [e \in Fds |-> call'[e]] /\ \A e \in Fds : e # d => call'[e] = call[e]
    BY <1>1, <1>5
  <1>8. FileTypes'
    <2>1. dk = [x \in {0} \cup Blocks |-> dk[x]]
      BY <1>6 DEF BlockKept
    <2>2. \A e \in Fds : call'[e] = NoCall \/ IsWrite(call'[e]) \/ IsRead(call'[e])
      BY <1>1, <1>4, <1>7 DEF FileTypes
    <2>3. QED
      BY <1>1, <1>4, <1>7, <2>1, <2>2 DEF FileTypes, dk
  <1>9. FileAsserts'
    <2>1. panic' = "no" /\ dk[0] = Zeros
      BY <1>1, <1>6 DEF BlockKept
    <2>2. QED
      BY <2>1 DEF FileAsserts, dk
  <1>10. Positions'
    <2>1. mode[d] # "closed"
      BY <1>1 DEF Writes
    <2>2. QED
      BY <1>1, <1>4, <1>7, <2>1 DEF Positions
  <1>11. \A i \in 0..(Count(inode, t) - 1) : At(inode', dk, i) = At(inode, disk, i)
    BY <1>1, <1>6 DEF BlockKept
  <1>12. Saved'
    <2>1. \A i \in 0..(Count(dinode, dinode.size) - 1) : i \in 0..(Count(inode, t) - 1)
      <3>1. Count(dinode, dinode.size) \in Nat /\ Count(dinode, dinode.size) <= Count(inode, t) /\ Count(inode, t) \in Nat
        BY SavedRange, LiveFacts
      <3>2. QED
        BY <3>1
    <2>2. \A i \in 0..(Count(dinode, dinode.size) - 1) : At(dinode, dk, i) = At(inode, dk, i)
      BY <1>4, <1>6, <2>1 DEF Saved, BlockKept
    <2>3. Holds(dinode, dk, dinode.size)
      BY <1>6 DEF BlockKept
    <2>4. QED
      BY <1>1, <1>4, <2>2, <2>3 DEF Saved, dk
  <1>13. ASSUME NEW e \in Fds, call'[e].op = "read" PROVE Reads(e)'
    <2>1. e # d /\ call[e].op = "read" /\ call'[e] = call[e] /\ pos'[e] = pos[e]
      BY <1>1, <1>2, <1>7, <1>13
    <2>2. inode.size <= inode'.size /\ inode'.size \in Nat
      BY <1>1, <1>4
    <2>3. QED
      BY <1>11, <2>1, <2>2, CarryRead DEF dk
  <1>14. Writes(d, t)'
    <2>1. \A i \in Blk(s)..Blk(t) : At(inode, dk, i) = At(inode, disk, i)
      <3>1. \A i \in Blk(s)..Blk(t) : i \in 0..(Count(inode, t) - 1)
        BY <1>1, CallRange DEF c
      <3>2. QED
        BY <1>1, <1>11, <3>1
    <2>2. /\ mode[d] = "w" /\ inode.sec[0] # 0 /\ t = s + Len(c.left) /\ pos[d] = (s - 1) % Word
          /\ \A i \in Blk(s)..Blk(t) : c.all[i] = At(inode, disk, i)
      BY <1>1 DEF Writes, c
    <2>3. \A j \in 1..k : dk[b][Off(s) + j - 1] = c.left[j]
      BY <1>1, <1>6 DEF BlockKept
    <2>4. /\ mode'[d] = "w" /\ inode'.sec[0] # 0 /\ t = inode'.size + Len(call'[d].left)
          /\ pos'[d] = (inode'.size - 1) % Word /\ call'[d].chunk # 0
          /\ \A i \in Blk(inode'.size)..Blk(t) : call'[d].all[i] = At(inode', dk, i)
          /\ call'[d].chunk = Lo(Len(call'[d].left), BlockSize - Off(inode'.size))
      BY <1>1, <1>2, <1>3, <1>7, <2>1, <2>2, SMTT(30)
    <2>5. \A j \in 1..call'[d].chunk :
             dk[call'[d].all[Blk(inode'.size)]][Off(inode'.size) + j - 1] = call'[d].left[j]
      <3>1. inode'.size = s /\ call'[d].chunk = k /\ call'[d].left = c.left /\ call'[d].all[Blk(s)] = b
        BY <1>1, <1>2, <1>3, <1>7
      <3>2. QED
        BY <2>3, <3>1
    <2>6. QED
      BY <2>4, <2>5 DEF Writes, dk
  <1>15. ASSUME NEW e \in Fds, call'[e].op = "write" PROVE Writes(e, t)'
    <2>1. e = d
      <3>1. mode[d] = "w"
        BY <1>1 DEF Writes
      <3>2. QED
        BY <1>7, <1>15, <3>1, NoOtherWrite
    <2>2. QED
      BY <1>14, <2>1
  <1>16. Room(t)'
    <2>1. \A i \in 0..(Count(inode, t) - 1) : At(inode, dk, i) \in dbits'
      BY <1>1, <1>4, <1>11
    <2>2. Holds(inode, dk, t)
      BY <1>6 DEF BlockKept
    <2>3. call'[d].op = "write"
      BY <1>2, <1>7
    <2>4. QED
      BY <1>1, <1>4, <1>13, <1>15, <2>1, <2>2, <2>3 DEF Room, dk
  <1>17. QED
    BY <1>4, <1>8, <1>9, <1>10, <1>12, <1>16 DEF FileInv

\* The position -1 of an empty file counts on to 0.
LEMMA NextPos ==
  ASSUME FileDataAssumption, NEW s \in Nat, NEW k \in Nat, k > 0, s + k <= MaxSize
  PROVE  (((s - 1) % Word) + k) % Word = s + k - 1 /\ s + k - 1 \in 0..(Word - 1) /\ s + k < Word
  <1>1. MaxSize \in Nat /\ Word \in Nat /\ Word > 2 * MaxSize
    BY Sizes
  <1>2. s + k < Word /\ s + k - 1 \in 0..(Word - 1)
    BY <1>1
  <1> HIDE DEF MaxSize
  <1>3. CASE s = 0
    <2>1. (s - 1) % Word = Word - 1
      BY <1>1, <1>2, <1>3
    <2>2. (Word - 1) + k = Word + (k - 1) /\ k - 1 \in 0..(Word - 1)
      BY <1>1, <1>2, <1>3
    <2>3. (Word + (k - 1)) % Word = k - 1
      BY <1>1, <2>2
    <2>4. QED
      BY <1>2, <1>3, <2>1, <2>2, <2>3
  <1>4. CASE s > 0
    <2>1. (s - 1) % Word = s - 1
      BY <1>1, <1>2, <1>4
    <2>2. (s - 1) + k = s + k - 1
      BY <1>4
    <2>3. (s + k - 1) % Word = s + k - 1
      BY <1>1, <1>2
    <2>4. QED
      BY <1>2, <2>1, <2>2, <2>3
  <1>5. QED
    BY <1>3, <1>4

\* How the file grows once the disk has a block.
WG_call(d) ==
  [op |-> "write", left |-> SubSeq(call[d].left, call[d].chunk + 1, Len(call[d].left)),
   all |-> call[d].all, first |-> call[d].first, chunk |-> 0]

LEMMA GrowStep ==
  ASSUME FileDataAssumption, NEW t, Live(t), NEW d \in Fds, write_grow(d)
  PROVE  LET c == call[d]
             s == inode.size
             k == c.chunk
         IN /\ IsWrite(c) /\ Writes(d, t) /\ panic = "no" /\ c.op = "write"
            /\ k \in Nat /\ 1 <= k /\ k <= Len(c.left) /\ k <= BlockSize - Off(s)
            /\ k < Len(c.left) => k = BlockSize - Off(s)
            /\ inode' \in Inode /\ inode'.size = s + k /\ inode'.sec = inode.sec
            /\ s + k <= t /\ s + k < Word
            /\ pos' = [pos EXCEPT ![d] = s + k - 1] /\ s + k - 1 \in 0..(Word - 1)
            /\ call' = [call EXCEPT ![d] = WG_call(d)] /\ IsWrite(WG_call(d))
            /\ Len(WG_call(d).left) = Len(c.left) - k
            /\ UNCHANGED <<dinode, deny, disk, bits, dbits, others, sync, mode, panic, restarts>>
  <1> DEFINE c == call[d]
             s == inode.size
             k == c.chunk
             l == Len(c.left)
             q == SubSeq(c.left, k + 1, l)
  <1>1. /\ panic = "no" /\ c.op = "write" /\ k > 0
        /\ inode' = [inode EXCEPT !.size = s + k]
        /\ pos' = [pos EXCEPT ![d] = (pos[d] + k) % Word]
        /\ call' = [call EXCEPT ![d] = [c EXCEPT !.chunk = 0, !.left = q]]
        /\ UNCHANGED <<dinode, deny, disk, bits, dbits, others, sync, mode, panic, restarts>>
    BY DEF write_grow
  <1>2. FileTypes /\ Room(t) /\ s \in Nat /\ t \in Nat /\ s <= t /\ t < MaxSize /\ inode \in Inode
    BY LiveFacts DEF Live
  <1>3. IsWrite(c) /\ Writes(d, t)
    BY <1>1, <1>2, CallKinds DEF Room
  <1>4. c.left \in Seq(Nat) /\ c.all \in AllBlocks /\ c.first \in BOOLEAN /\ k \in Nat /\ l \in Nat
    BY <1>3 DEF IsWrite
  <1>5. k = Lo(l, BlockSize - Off(s)) /\ t = s + l /\ pos[d] = (s - 1) % Word
    BY <1>1, <1>3, <1>4 DEF Writes
  <1>6. Off(s) \in 0..(BlockSize - 1) /\ BlockSize \in Nat
    BY <1>2, Split, Sizes
  <1>7. k <= l /\ k <= BlockSize - Off(s) /\ (k < l => k = BlockSize - Off(s))
    <2> DEFINE o == Off(s)
    <2>1. o \in Nat /\ o < BlockSize /\ k = Lo(l, BlockSize - o)
      BY <1>5, <1>6
    <2> HIDE DEF o, l, k
    <2>2. k <= l /\ k <= BlockSize - o /\ (k < l => k = BlockSize - o)
      BY <1>4, <1>6, <2>1 DEF Lo
    <2>3. QED
      BY <2>2 DEF o
  <1>8. inode' \in Inode /\ inode'.size = s + k /\ inode'.sec = inode.sec
    <2> DEFINE z == s + k
    <2>1. z \in Nat /\ inode' = [inode EXCEPT !.size = z]
      <3>1. s \in Nat /\ k \in Nat /\ inode' = [inode EXCEPT !.size = s + k]
        BY <1>1, <1>2, <1>4
      <3> HIDE DEF s, k
      <3>2. QED
        BY <3>1
    <2> HIDE DEF z
    <2>2. inode' \in Inode /\ inode'.size = z /\ inode'.sec = inode.sec
      BY <1>2, <2>1 DEF Inode
    <2>3. QED
      BY <2>2 DEF z
  <1>9. s + k <= t /\ s + k <= MaxSize
    <2> HIDE DEF s, k, l
    <2>1. s \in Nat /\ k \in Nat /\ l \in Nat /\ k <= l /\ t = s + l /\ t < MaxSize /\ MaxSize \in Nat
      BY <1>2, <1>4, <1>5, <1>7, Sizes
    <2>2. QED
      BY <2>1
  <1>10. (pos[d] + k) % Word = s + k - 1 /\ s + k - 1 \in 0..(Word - 1) /\ s + k < Word
    <2> HIDE DEF s, k
    <2>1. QED
      BY <1>1, <1>2, <1>4, <1>5, <1>9, NextPos
  <1>11. q \in Seq(Nat) /\ Len(q) = l - k
    <2> HIDE DEF k
    <2>1. c.left \in Seq(Nat) /\ k \in Nat /\ k <= Len(c.left)
      BY <1>4, <1>7
    <2>2. QED
      BY <2>1, Tail1
  <1>12. [c EXCEPT !.chunk = 0, !.left = q] = WG_call(d)
    <2>1. WG_call(d) = [op |-> "write", left |-> q, all |-> c.all, first |-> c.first, chunk |-> 0]
      BY DEF WG_call
    <2> HIDE DEF q
    <2>2. QED
      BY <1>3, <2>1, WriteRecord
  <1>13. IsWrite(WG_call(d)) /\ WG_call(d).left = q
    <2> DEFINE a == c.all
               f == c.first
               w == WG_call(d)
    <2>1. w = [op |-> "write", left |-> q, all |-> a, first |-> f, chunk |-> 0]
      BY DEF WG_call
    <2>2. q \in Seq(Nat) /\ a \in AllBlocks /\ f \in BOOLEAN
      BY <1>4, <1>11
    <2> HIDE DEF q, a, w, f
    <2>3. w.op = "write" /\ w.left = q /\ w.all = a /\ w.first = f /\ w.chunk = 0
      BY <2>1
    <2>4. IsWrite(w)
      BY <2>1, <2>2, <2>3 DEF IsWrite
    <2>5. QED
      BY <2>3, <2>4 DEF w
  <1> HIDE DEF q
  <1>14. 1 <= k
    BY <1>1, <1>4
  <1>15. call' = [call EXCEPT ![d] = WG_call(d)] /\ Len(WG_call(d).left) = l - k
    BY <1>1, <1>11, <1>12, <1>13
  <1>16. pos' = [pos EXCEPT ![d] = s + k - 1]
    BY <1>1, <1>10
  <1>17. QED
    BY <1>1, <1>3, <1>4, <1>7, <1>8, <1>9, <1>10, <1>13, <1>14, <1>15, <1>16, Zenon

\* The blocks of a file do not depend on its size.
LEMMA SameSectors ==
  ASSUME FileDataAssumption, NEW n, NEW m, n.sec = m.sec
  PROVE  /\ \A dk, i : At(n, dk, i) = At(m, dk, i)
         /\ \A t : Count(n, t) = Count(m, t)
         /\ \A dk, t : Holds(n, dk, t) <=> Holds(m, dk, t)
  <1>1. \A dk, i : At(n, dk, i) = At(m, dk, i)
    BY DEF At
  <1>2. \A t : Count(n, t) = Count(m, t)
    BY DEF Count
  <1>3. ASSUME NEW dk, NEW k PROVE Layout(n, dk, k) <=> Layout(m, dk, k)
    BY <1>1, Zenon DEF Layout
  <1>4. QED
    BY <1>1, <1>2, <1>3 DEF Holds

LEMMA KeepWriteGrow ==
  ASSUME FileDataAssumption, NEW t, Live(t), NEW d \in Fds, write_grow(d)
  PROVE  FileInv'
  <1> DEFINE c == call[d]
             s == inode.size
             k == c.chunk
             w == WG_call(d)
             z == s + k
  <1>1. /\ IsWrite(c) /\ Writes(d, t) /\ panic = "no" /\ c.op = "write"
        /\ k \in Nat /\ 1 <= k /\ k <= Len(c.left) /\ k <= BlockSize - Off(s)
        /\ k < Len(c.left) => k = BlockSize - Off(s)
        /\ inode' \in Inode /\ inode'.size = z /\ inode'.sec = inode.sec /\ z <= t /\ z < Word
        /\ pos' = [pos EXCEPT ![d] = z - 1] /\ z - 1 \in 0..(Word - 1)
        /\ call' = [call EXCEPT ![d] = w] /\ IsWrite(w)
        /\ Len(w.left) = Len(c.left) - k
        /\ UNCHANGED <<dinode, deny, disk, bits, dbits, others, sync, mode, panic, restarts>>
    <2>1. s \in Nat /\ k \in Nat
      BY LiveFacts, GrowStep DEF IsWrite
    <2>2. z - 1 = s + k - 1
      BY <2>1
    <2>3. QED
      BY <2>2, GrowStep
  <1>2. /\ w.all = c.all /\ w.first = c.first /\ w.chunk = 0 /\ w.op = "write"
    BY DEF WG_call
  <1>3. /\ FileTypes /\ Room(t) /\ s \in Nat /\ t \in Nat /\ Positions /\ Saved /\ disk[0] = Zeros
        /\ t < MaxSize
    BY LiveFacts DEF Live
  <1>4. call = [e \in Fds |-> call[e]] /\ pos \in [Fds -> 0..(Word - 1)] /\ c.left \in Seq(Nat)
    BY <1>1, <1>3 DEF FileTypes, IsWrite
  <1>5. z \in Nat /\ s <= z /\ Len(c.left) \in Nat
    <2>1. s \in Nat /\ k \in Nat
      BY <1>1, <1>3
    <2> HIDE DEF s, k
    <2>2. QED
      BY <1>4, <2>1
  <1> HIDE DEF w, c, k
  <1>6. /\ call'[d] = w /\ call' = [e \in Fds |-> call'[e]] /\ pos'[d] = z - 1 /\ pos' \in [Fds -> 0..(Word - 1)]
        /\ \A e \in Fds : e # d => call'[e] = call[e] /\ pos'[e] = pos[e]
    <2> HIDE DEF z
    <2>1. QED
      BY <1>1, <1>4
  <1>7. /\ \A dk, i : At(inode', dk, i) = At(inode, dk, i)
        /\ Count(inode', t) = Count(inode, t)
        /\ \A dk : Holds(inode', dk, t) <=> Holds(inode, dk, t)
    BY <1>1, SameSectors
  <1>8. FileTypes'
    <2>1. \A e \in Fds : call'[e] = NoCall \/ IsWrite(call'[e]) \/ IsRead(call'[e])
      BY <1>1, <1>3, <1>6 DEF FileTypes
    <2> HIDE DEF z
    <2>2. QED
      BY <1>1, <1>3, <1>6, <2>1 DEF FileTypes
  <1>9. FileAsserts'
    <2>1. panic' = "no" /\ disk'[0] = Zeros
      BY <1>1, <1>3
    <2>2. QED
      BY <2>1 DEF FileAsserts
  <1>10. mode[d] = "w" /\ inode.sec[0] # 0 /\ t = s + Len(c.left)
    BY <1>1 DEF Writes, c
  <1>11. Positions'
    <2>1. ASSUME NEW e \in Fds
          PROVE  /\ pos'[e] <= inode'.size \/ (pos'[e] = Word - 1 /\ inode'.size = 0 /\ mode'[e] = "w")
                 /\ mode'[e] = "closed" => call'[e] = NoCall
      <3>1. CASE e = d
        <4>1. z - 1 <= z
          BY <1>5
        <4> HIDE DEF z
        <4>2. QED
          BY <1>1, <1>6, <1>10, <3>1, <4>1
      <3>2. CASE e # d
        <4>1. mode[e] # "w"
          BY <1>10, <3>2, NoOtherWrite
        <4>2. pos[e] <= s /\ (mode[e] = "closed" => call[e] = NoCall)
          BY <1>3, <4>1 DEF Positions
        <4>3. pos[e] \in Nat
          BY <1>4, Sizes
        <4>4. pos[e] <= z
          BY <1>3, <1>5, <4>2, <4>3
        <4> HIDE DEF z
        <4>5. QED
          BY <1>1, <1>6, <3>2, <4>2, <4>4
      <3>3. QED
        BY <3>1, <3>2
    <2>2. QED
      BY <2>1 DEF Positions
  <1>12. Saved'
    <2>1. dinode.size \in Nat /\ dinode.size <= z
      BY <1>3, <1>5, LiveFacts
    <2> HIDE DEF z
    <2>2. QED
      BY <1>1, <1>3, <1>7, <2>1 DEF Saved
  <1>13. ASSUME NEW e \in Fds, call'[e].op = "read" PROVE Reads(e)'
    <2>1. e # d /\ call[e].op = "read" /\ call'[e] = call[e] /\ pos'[e] = pos[e]
      BY <1>2, <1>6, <1>13
    <2>2. inode.size <= inode'.size /\ inode'.size \in Nat
      BY <1>1, <1>5
    <2>3. \A i \in 0..(Count(inode, t) - 1) : At(inode', disk', i) = At(inode, disk, i)
      BY <1>1, <1>7
    <2>4. QED
      BY <2>1, <2>2, <2>3, CarryRead
  <1>14. Writes(d, t)'
    <2>1. t = z + Len(w.left)
      <3> DEFINE l == Len(c.left)
                 m == Len(w.left)
      <3>1. s \in Nat /\ k \in Nat /\ l \in Nat /\ m = l - k /\ t = s + l
        BY <1>1, <1>3, <1>5, <1>10
      <3> HIDE DEF s, l, m
      <3>2. t = (s + k) + m
        BY <3>1
      <3>3. QED
        BY <3>2 DEF l, m
    <2>2. \A i \in Blk(s)..Blk(t) : c.all[i] = At(inode, disk, i)
      BY <1>1 DEF Writes, c
    <2>3. \A i \in Blk(z)..Blk(t) : i \in Blk(s)..Blk(t)
      <3>1. s \in Nat /\ z \in Nat /\ s <= z
        BY <1>3, <1>5
      <3> HIDE DEF s, z
      <3>2. Blk(s) \in Nat /\ Blk(z) \in Nat /\ Blk(t) \in Nat /\ Blk(s) <= Blk(z)
        BY <1>3, <3>1, Split, Monotone
      <3>3. QED
        BY <3>2
    <2>4. \A i \in Blk(z)..Blk(t) : w.all[i] = At(inode', disk', i)
      BY <1>1, <1>2, <1>7, <2>2, <2>3
    <2>5. w.left # << >> => Off(z) = 0
      <3>1. SUFFICES ASSUME w.left # << >> PROVE Off(z) = 0
        OBVIOUS
      <3>2. Len(w.left) # 0 /\ Len(w.left) \in Nat
        BY <1>1, <3>1 DEF IsWrite
      <3>3. k < Len(c.left)
        BY <1>1, <1>5, <3>2
      <3>4. k = BlockSize - Off(s)
        BY <1>1, <3>3
      <3>5. Off(s + (BlockSize - Off(s))) = 0
        BY <1>3, Following
      <3>6. QED
        BY <3>4, <3>5
    <2>6. pos'[d] = (z - 1) % Word
      <3>1. (z - 1) % Word = z - 1
        <4>1. z - 1 \in 0..(Word - 1) /\ Word \in Nat
          BY <1>1, Sizes
        <4> DEFINE y == z - 1
        <4>2. y \in 0..(Word - 1)
          BY <4>1
        <4> HIDE DEF y
        <4>3. y % Word = y
          BY <4>1, <4>2
        <4>4. QED
          BY <4>3 DEF y
      <3>2. QED
        BY <1>6, <3>1
    <2> HIDE DEF z
    <2>7. /\ mode'[d] = "w" /\ inode'.sec[0] # 0 /\ t = inode'.size + Len(call'[d].left)
          /\ pos'[d] = (inode'.size - 1) % Word /\ call'[d].chunk = 0
          /\ \A i \in Blk(inode'.size)..Blk(t) : call'[d].all[i] = At(inode', disk', i)
          /\ call'[d].left # << >> => Off(inode'.size) = 0
      BY <1>1, <1>2, <1>6, <1>10, <2>1, <2>4, <2>5, <2>6
    <2>8. QED
      BY <2>7 DEF Writes
  <1>15. ASSUME NEW e \in Fds, call'[e].op = "write" PROVE Writes(e, t)'
    <2>1. e = d
      BY <1>6, <1>10, <1>15, NoOtherWrite
    <2>2. QED
      BY <1>14, <2>1
  <1>16. Room(t)'
    <2>1. \A i \in 0..(Count(inode', t) - 1) : At(inode', disk', i) \in dbits'
      BY <1>1, <1>3, <1>7 DEF Room
    <2>2. Holds(inode', disk', t)
      BY <1>1, <1>3, <1>7 DEF Room
    <2>3. call'[d].op = "write"
      BY <1>2, <1>6
    <2> HIDE DEF z
    <2>4. QED
      BY <1>1, <1>3, <1>13, <1>15, <2>1, <2>2, <2>3 DEF Room
  <1>17. QED
    BY <1>3, <1>8, <1>9, <1>11, <1>12, <1>16 DEF FileInv

LEMMA KeepWriteEnd ==
  ASSUME FileDataAssumption, NEW t, Live(t), NEW d \in Fds, write_end(d)
  PROVE  FileInv'
  <1>1. /\ panic' = "no" /\ call[d].op = "write" /\ call[d].left = << >> /\ dinode' = inode
        /\ call' = [call EXCEPT ![d] = NoCall]
        /\ UNCHANGED <<inode, disk, bits, dbits, sync, mode, pos>>
    BY DEF write_end
  <1>2. /\ FileTypes /\ Room(t) /\ Positions /\ disk[0] = Zeros /\ inode \in Inode /\ inode.size \in Nat
        /\ t \in Nat
    BY LiveFacts DEF Live
  <1>3. Writes(d, t) /\ Len(call[d].left) = 0
    BY <1>1, <1>2 DEF Room
  <1>4. t = inode.size /\ mode[d] = "w"
    BY <1>2, <1>3 DEF Writes
  <1>5. call'[d] = NoCall /\ call' = [e \in Fds |-> call'[e]] /\ \A e \in Fds : e # d => call'[e] = call[e]
    BY <1>1, <1>2 DEF FileTypes
  <1>6. NoCall.op = "none"
    BY DEF NoCall
  <1>7. FileTypes'
    <2>1. \A e \in Fds : call'[e] = NoCall \/ IsWrite(call'[e]) \/ IsRead(call'[e])
      BY <1>2, <1>5 DEF FileTypes
    <2>2. QED
      BY <1>1, <1>2, <1>5, <2>1 DEF FileTypes
  <1>8. FileAsserts'
    BY <1>1, <1>2 DEF FileAsserts
  <1>9. Positions'
    BY <1>1, <1>2, <1>5 DEF Positions
  <1>10. Saved'
    <2>1. Holds(inode, disk, inode.size)
      BY <1>2, <1>4 DEF Room
    <2>2. QED
      BY <1>1, <1>2, <2>1 DEF Saved
  <1>11. \A e \in Fds : call'[e].op = "read" => Reads(e)'
    <2>1. TAKE e \in Fds
    <2>2. HAVE call'[e].op = "read"
    <2>3. call'[e] = call[e] /\ Reads(e)
      BY <1>2, <1>5, <1>6, <2>2 DEF Room
    <2>4. QED
      BY <1>1, <2>3 DEF Reads
  <1>12. \A e \in Fds : call'[e].op # "write"
    BY <1>4, <1>5, <1>6, NoOtherWrite
  <1>13. Room(t)'
    BY <1>1, <1>2, <1>4, <1>11, <1>12 DEF Room
  <1>14. QED
    BY <1>2, <1>7, <1>8, <1>9, <1>10, <1>13 DEF FileInv

LEMMA KeepRestart ==
  ASSUME FileDataAssumption, NEW t, Live(t), Restart
  PROVE  FileInv'
  <1>1. /\ inode' = dinode /\ bits' = dbits /\ dinode' = dinode /\ disk' = disk /\ dbits' = dbits
        /\ mode' = [d \in Fds |-> "closed"] /\ pos' = [d \in Fds |-> 0] /\ call' = [d \in Fds |-> NoCall]
        /\ panic' = "no" /\ sync'.inode = Empty
    BY DEF Restart
  <1>2. /\ FileTypes /\ Room(t) /\ Saved /\ disk[0] = Zeros /\ dinode \in Inode /\ dinode.size \in Nat
        /\ t \in Nat /\ inode.size \in Nat /\ dinode.size <= inode.size /\ inode.size <= t /\ t < MaxSize
        /\ bits \subseteq Blocks /\ dbits \subseteq bits
        /\ \A i \in 0..(Count(inode, t) - 1) : At(inode, disk, i) \in dbits
    BY LiveFacts DEF Live
  <1>3. Empty \in Inode
    <2>1. 0 \in Numbers
      BY Sizes DEF Numbers
    <2>2. QED
      BY <2>1 DEF Empty, Inode
  <1>4. FileTypes'
    <2>1. 0 \in 0..(Word - 1)
      BY Sizes
    <2>2. QED
      BY <1>1, <1>2, <1>3, <2>1 DEF FileTypes
  <1>5. FileAsserts'
    BY <1>1, <1>2 DEF FileAsserts
  <1>6. Positions'
    BY <1>1, <1>2 DEF Positions
  <1>7. Saved'
    BY <1>1, <1>2 DEF Saved
  <1>8. \A e \in Fds : call'[e].op # "write" /\ call'[e].op # "read"
    BY <1>1 DEF NoCall
  <1>9. \A i \in 0..(Count(dinode, dinode.size) - 1) : At(dinode, disk, i) \in dbits
    <2>1. Count(dinode, dinode.size) \in Nat /\ Count(dinode, dinode.size) <= Count(inode, t) /\ Count(inode, t) \in Nat
      BY SavedRange, LiveFacts
    <2>2. \A i \in 0..(Count(dinode, dinode.size) - 1) : i \in 0..(Count(inode, t) - 1)
      BY <2>1
    <2>3. QED
      BY <1>2, <2>2 DEF Saved
  <1> DEFINE u == dinode.size
  <1>10. Room(u)'
    <2>1. u <= u /\ u < MaxSize
      <3>1. MaxSize \in Nat
        BY Sizes
      <3>2. QED
        BY <1>2, <3>1
    <2>2. Holds(dinode, disk, u)
      BY <1>2 DEF Saved
    <2>3. QED
      BY <1>1, <1>8, <1>9, <2>1, <2>2 DEF Room
  <1>11. \E y \in Nat : Room(y)'
    BY <1>1, <1>2, <1>10
  <1>12. QED
    BY <1>4, <1>5, <1>6, <1>7, <1>11 DEF FileInv

-----------------------------------------------------------------------------
(* The start of a write.                                                   *)

LEMMA BytesSeq ==
  ASSUME FileDataAssumption, inode.size \in Nat, NEW n \in Counts
  PROVE  Bytes(n) \in Seq(Nat) /\ Len(Bytes(n)) = n /\ n \in Nat
  <1>1. n \in Nat
    BY Sizes
  <1>2. QED
    BY <1>1 DEF Bytes

\* Before a write begins, the file has room for its bytes only.
LEMMA WriteBefore ==
  ASSUME FileDataAssumption, NEW t, Live(t), NEW d \in Fds, mode[d] = "w", call[d] = NoCall
  PROVE  t = inode.size /\ Before /\ \A e \in Fds : call[e].op # "write"
  <1>1. FileTypes /\ Room(t) /\ inode.sec[Direct] \in bits \cup {0}
    BY LiveFacts DEF Live
  <1>2. call[d].op = "none"
    BY <1>1, CallKinds
  <1>3. \A e \in Fds : call[e].op # "write"
    BY <1>2, NoOtherWrite
  <1>4. t = inode.size
    BY <1>1, <1>3 DEF Room
  <1>5. Before
    BY <1>1, <1>4 DEF Before, Room
  <1>6. QED
    BY <1>3, <1>4, <1>5

\* file_write stops only when the disk is full or at the largest size.
LEMMA WriteStops ==
  ASSUME FileDataAssumption, NEW t, Live(t), NEW d \in Fds, NEW n \in Counts, file_write(d, Bytes(n))
  PROVE  /\ panic' # "no" => FileAsserts'
         /\ panic' = "no" => Enough(Bytes(n))
  <1> DEFINE src == Bytes(n)
             s == inode.size
  <1>1. /\ Ready(d) /\ mode[d] = "w" /\ s + Len(src) <= MaxSize /\ panic' = FW_panic(src)
        /\ panic' # "no" => UNCHANGED <<inode, disk, pos, call>>
    BY WriteParts
  <1>2. s \in Nat /\ disk[0] = Zeros
    BY LiveFacts
  <1>3. src \in Seq(Nat) /\ Len(src) = n /\ n \in Nat
    BY <1>2, BytesSeq
  <1>4. Before
    BY <1>1, WriteBefore DEF Ready
  <1> HIDE DEF src
  <1>5. panic' = IF Len(FW_new(src)) < FW_need(src) THEN "full" ELSE IF FW_limit(src) THEN "write limit"
                 ELSE IF FW_asserted(src) THEN "no" ELSE "sectors"
    BY <1>1 DEF FW_panic
  <1>6. Len(FW_new(src)) \in Nat /\ FW_need(src) \in Nat
    <2>1. FileTypes /\ Holds(inode, disk, inode.size)
      BY <1>4 DEF Before
    <2>2. FW_new(src) \in Seq(Blocks \ bits)
      BY <1>3, <2>1, WriteBits
    <2>3. QED
      BY <1>3, <2>1, <2>2, WriteNumbers
  <1>7. CASE Len(FW_new(src)) < FW_need(src)
    <2>1. panic' = "full"
      BY <1>5, <1>7
    <2>2. disk'[0] = Zeros
      BY <1>1, <1>2, <2>1
    <2>3. QED
      BY <2>1, <2>2 DEF FileAsserts
  <1>8. CASE ~(Len(FW_new(src)) < FW_need(src)) /\ FW_limit(src)
    <2>1. panic' = "write limit" /\ inode' = inode /\ disk' = disk
      BY <1>1, <1>5, <1>8
    <2>2. s + n = BlockSize * MaxBlocks
      <3> DEFINE z == s + n
      <3>1. z \in Nat /\ z <= MaxSize /\ MaxBlocks \in Nat /\ MaxSize = BlockSize * MaxBlocks /\ MaxSize \in Nat
        <4>1. MaxBlocks \in Nat /\ MaxSize = BlockSize * MaxBlocks /\ MaxSize \in Nat
          BY Sizes DEF MaxSize
        <4>2. s + Len(src) <= MaxSize /\ Len(src) = n /\ s \in Nat /\ n \in Nat
          BY <1>1, <1>2, <1>3
        <4> HIDE DEF s
        <4>3. QED
          BY <4>1, <4>2
      <3>2. FW_will(src) = Blk(z) + 1
        BY <1>3 DEF FW_will, BlocksFor, Blk
      <3> HIDE DEF z
      <3>3. Blk(z) \in Nat
        BY <3>1, Split
      <3>4. ~(Blk(z) < MaxBlocks)
        BY <1>8, <3>1, <3>2, <3>3 DEF FW_limit
      <3>5. ~(z < MaxSize)
        BY <3>1, <3>4, Bounded
      <3>6. z = MaxSize
        BY <3>1, <3>5
      <3>7. QED
        BY <3>1, <3>6 DEF z
    <2>3. QED
      BY <1>2, <2>1, <2>2 DEF FileAsserts
  <1>9. CASE ~(Len(FW_new(src)) < FW_need(src)) /\ ~FW_limit(src)
    <2>1. Enough(src)
      BY <1>3, <1>6, <1>9 DEF Enough
    <2>2. FW_asserted(src)
      BY <1>4, <2>1, WriteGrows
    <2>3. panic' = "no"
      BY <1>5, <1>9, <2>2
    <2>4. QED
      BY <2>1, <2>3 DEF src
  <1>10. QED
    BY <1>5, <1>7, <1>8, <1>9 DEF src

\* The bitmaps change and nothing else: the write has stopped.
LEMMA KeepWriteStopped ==
  ASSUME FileDataAssumption, NEW t, Live(t), NEW d \in Fds, NEW n \in Counts, file_write(d, Bytes(n)),
         panic' # "no"
  PROVE  FileInv'
  <1> DEFINE src == Bytes(n)
  <1>1. /\ Ready(d) /\ mode[d] = "w" /\ bits' = FW_bits(src) /\ dbits' = FW_dbits(src)
        /\ UNCHANGED <<dinode, sync, mode, inode, disk, pos, call>>
    BY WriteParts
  <1>2. /\ FileTypes /\ Room(t) /\ Saved /\ Positions /\ inode.size \in Nat /\ t \in Nat
    BY LiveFacts DEF Live
  <1>3. src \in Seq(Nat)
    BY <1>2, BytesSeq
  <1>4. Before
    BY <1>1, WriteBefore DEF Ready
  <1> HIDE DEF src
  <1>5. /\ bits \subseteq bits' /\ bits' \subseteq Blocks /\ dbits \subseteq dbits' /\ dbits' \subseteq bits'
    BY <1>1, <1>2, <1>3, <1>4, WriteBits DEF Before
  <1>6. FileAsserts'
    BY WriteStops
  <1>7. FileTypes'
    BY <1>1, <1>2, <1>5 DEF FileTypes
  <1>8. Positions' /\ Saved'
    BY <1>1, <1>2 DEF Positions, Saved
  <1>9. /\ \A e \in Fds : call'[e].op = "write" => Writes(e, t)'
        /\ \A e \in Fds : call'[e].op = "read" => Reads(e)'
    BY <1>1, <1>2 DEF Room, Writes, Reads
  <1>10. Room(t)'
    BY <1>1, <1>2, <1>5, <1>9 DEF Room
  <1>11. QED
    BY <1>2, <1>6, <1>7, <1>8, <1>10 DEF FileInv

FW_call(src) == [op |-> "write", left |-> src, all |-> FW_all(src), first |-> TRUE, chunk |-> 0]

\* What file_write leaves when it begins the write of src.
LEMMA WriteBegins ==
  ASSUME FileDataAssumption, NEW t, Live(t), NEW d \in Fds, NEW n \in Counts, file_write(d, Bytes(n)),
         panic' = "no"
  PROVE  LET src == Bytes(n)
             s == inode.size
             u == s + n
         IN /\ Ready(d) /\ mode[d] = "w" /\ n \in Nat /\ u < MaxSize /\ t = s
            /\ src \in Seq(Nat) /\ Len(src) = n
            /\ \A e \in Fds : call[e].op # "write"
            /\ inode' \in Inode /\ inode'.size = s /\ inode'.sec[0] # 0
            /\ disk' = [b \in {0} \cup Blocks |-> disk'[b]] /\ disk'[0] = Zeros
            /\ Holds(inode', disk', u) /\ Count(inode', u) = Blk(u) + 1
            /\ \A i \in 0..(Count(inode, s) - 1) : At(inode', disk', i) = At(inode, disk, i)
            /\ \A i \in 0..Blk(u) : At(inode', disk', i) \in dbits'
            /\ inode.sec[Direct] # 0 => inode'.sec[Direct] = inode.sec[Direct]
            /\ \A i \in Blk(s)..Blk(u) : FW_all(src)[i] = At(inode', disk', i)
            /\ \A b \in {0} \cup Blocks : b # inode'.sec[Direct] => disk'[b] = disk[b]
            /\ IsWrite(FW_call(src)) /\ call' = [call EXCEPT ![d] = FW_call(src)]
            /\ pos' = [pos EXCEPT ![d] = (s - 1) % Word]
            /\ bits' \subseteq Blocks /\ dbits' \subseteq bits'
            /\ UNCHANGED <<dinode, deny, others, sync, mode, restarts>>
  <1> DEFINE src == Bytes(n)
             s == inode.size
             u == s + n
             N == FW_inode(src)
             D == FW_disk(src)
             k == FW_will(src)
  <1>1. /\ Ready(d) /\ mode[d] = "w" /\ bits' = FW_bits(src) /\ dbits' = FW_dbits(src)
        /\ UNCHANGED <<dinode, deny, others, sync, mode, restarts>>
        /\ inode' = N /\ disk' = D
        /\ pos' = [pos EXCEPT ![d] = (s - 1) % Word]
        /\ call' = [call EXCEPT ![d] = FW_call(src)]
    BY WriteParts DEF FW_inode, FW_disk, FW_call
  <1>2. FileTypes /\ s \in Nat /\ disk[0] = Zeros /\ inode \in Inode /\ 0 \notin Blocks
    BY LiveFacts
  <1>3. src \in Seq(Nat) /\ Len(src) = n /\ n \in Nat
    BY <1>2, BytesSeq
  <1>4. Before /\ t = s /\ \A e \in Fds : call[e].op # "write"
    BY <1>1, WriteBefore DEF Ready
  <1>5. Enough(src)
    BY WriteStops
  <1> HIDE DEF src
  <1>6. /\ N \in Inode /\ N.size = s /\ N.sec[0] # 0
        /\ D = [b \in {0} \cup Blocks |-> D[b]] /\ Layout(N, D, k)
        /\ \A i \in 0..(Count(inode, s) - 1) : At(N, D, i) = At(inode, disk, i)
        /\ \A i \in 0..(k - 1) : At(N, D, i) \in FW_dbits(src)
        /\ inode.sec[Direct] # 0 => N.sec[Direct] = inode.sec[Direct]
        /\ FW_all(src) \in AllBlocks
        /\ \A i \in Blk(s)..(k - 1) : FW_all(src)[i] = At(N, D, i)
        /\ \A b \in {0} \cup Blocks : b # N.sec[Direct] => D[b] = disk[b]
        /\ N.sec[Direct] = 0 => D[0] = disk[0]
    BY <1>4, <1>5, WriteGrows
  <1> HIDE DEF N, D, s
  <1>7. u \in Nat
    BY <1>2, <1>3
  <1>8. k = Blk(u) + 1 /\ k <= MaxBlocks /\ Blk(u) \in Nat
    <2>1. FW_will(src) = Blk(u) + 1 /\ FW_will(src) <= MaxBlocks
      BY <1>3, <1>4, <1>5, WriteNumbers DEF Before, Enough, s
    <2> HIDE DEF u
    <2>2. QED
      BY <1>7, <2>1, Split
  <1> HIDE DEF k
  <1>9. u < MaxSize
    <2> HIDE DEF u
    <2>1. MaxBlocks \in Nat /\ MaxSize = BlockSize * MaxBlocks
      BY Sizes DEF MaxSize
    <2>2. Blk(u) < MaxBlocks
      BY <1>8, <2>1
    <2>3. QED
      BY <1>7, <2>1, <2>2, Bounded
  <1>10. Count(N, u) = k
    BY <1>6, <1>8 DEF Count
  <1>11. Holds(N, D, u)
    BY <1>6, <1>10 DEF Holds
  <1>12. D[0] = Zeros
    BY <1>2, <1>6
  <1>13. IsWrite(FW_call(src))
    <2> DEFINE a == FW_all(src)
               w == FW_call(src)
    <2>1. w = [op |-> "write", left |-> src, all |-> a, first |-> TRUE, chunk |-> 0] /\ a \in AllBlocks
      BY <1>6 DEF FW_call
    <2> HIDE DEF a, w
    <2>2. w.op = "write" /\ w.left = src /\ w.all = a /\ w.first = TRUE /\ w.chunk = 0
      BY <2>1
    <2>3. IsWrite(w)
      BY <1>3, <2>1, <2>2 DEF IsWrite
    <2>4. QED
      BY <2>3 DEF w
  <1>14. FW_bits(src) \subseteq Blocks /\ FW_dbits(src) \subseteq FW_bits(src)
    BY <1>3, <1>4, WriteBits DEF Before
  <1>15. k - 1 = Blk(u)
    BY <1>8
  <1>16. /\ \A i \in 0..Blk(u) : At(N, D, i) \in FW_dbits(src)
         /\ \A i \in Blk(s)..Blk(u) : FW_all(src)[i] = At(N, D, i)
         /\ Count(N, u) = Blk(u) + 1
    BY <1>6, <1>8, <1>10, <1>15
  <1>17. /\ inode' \in Inode /\ inode'.size = s /\ inode'.sec[0] # 0
         /\ disk' = [b \in {0} \cup Blocks |-> disk'[b]] /\ disk'[0] = Zeros
         /\ Holds(inode', disk', u) /\ Count(inode', u) = Blk(u) + 1
         /\ \A i \in 0..(Count(inode, s) - 1) : At(inode', disk', i) = At(inode, disk, i)
         /\ \A i \in 0..Blk(u) : At(inode', disk', i) \in dbits'
         /\ inode.sec[Direct] # 0 => inode'.sec[Direct] = inode.sec[Direct]
         /\ \A i \in Blk(s)..Blk(u) : FW_all(src)[i] = At(inode', disk', i)
         /\ \A b \in {0} \cup Blocks : b # inode'.sec[Direct] => disk'[b] = disk[b]
         /\ bits' \subseteq Blocks /\ dbits' \subseteq bits'
    <2> HIDE DEF u
    <2>1. inode' = N /\ disk' = D /\ dbits' = FW_dbits(src) /\ bits' = FW_bits(src)
      BY <1>1
    <2>2. QED
      BY <1>6, <1>11, <1>12, <1>14, <1>16, <2>1, Zenon
  <1>18. QED
    BY <1>1, <1>3, <1>4, <1>9, <1>13, <1>17, Zenon DEF src, s

\* The inode on disk keeps its blocks when the file in memory gets more.
LEMMA SavedGrows ==
  ASSUME FileDataAssumption, NEW t, Live(t), NEW u \in Nat, dinode.size <= u, NEW n \in Inode, NEW dk,
         Holds(n, dk, u), n.sec[0] # 0,
         \A i \in 0..(Count(inode, inode.size) - 1) : At(n, dk, i) = At(inode, disk, i),
         inode.sec[Direct] # 0 => n.sec[Direct] = inode.sec[Direct]
  PROVE  /\ Holds(dinode, dk, dinode.size)
         /\ \A i \in 0..(Count(dinode, dinode.size) - 1) : At(dinode, dk, i) = At(n, dk, i)
         /\ dinode.sec[Direct] \in {0, n.sec[Direct]}
  <1> DEFINE k == Count(dinode, dinode.size)
             k0 == Count(inode, inode.size)
             td == dinode.sec[Direct]
  <1>1. /\ dinode \in Inode /\ dinode.size \in Nat /\ k \in Nat /\ k <= k0 /\ k0 \in Nat
        /\ dinode.sec[0] # 0 => k = Blk(dinode.size) + 1
        /\ dinode.sec[0] = 0 => k = 0
    BY SavedRange, LiveFacts, CountFacts
  <1>2. /\ Layout(dinode, disk, k) /\ (dinode.sec[0] = 0 => dinode.size = 0)
        /\ \A i \in 0..(k - 1) : At(dinode, disk, i) = At(inode, disk, i)
        /\ td \in {0, inode.sec[Direct]}
    BY DEF Live, Saved, Holds
  <1>3. Count(n, u) = Blk(u) + 1 /\ Blk(u) \in Nat /\ Layout(n, dk, Count(n, u))
    BY CountFacts DEF Holds
  <1>4. k <= Count(n, u)
    <2> DEFINE a == dinode.size
    <2>1. a \in Nat /\ a <= u
      BY <1>1
    <2> HIDE DEF a
    <2>2. Blk(a) \in Nat /\ Blk(a) <= Blk(u)
      BY <2>1, Split, Monotone
    <2>3. k = Blk(a) + 1 \/ k = 0
      BY <1>1 DEF a
    <2> HIDE DEF k
    <2>4. QED
      BY <1>3, <2>2, <2>3
  <1> HIDE DEF k, k0
  <1>5. k > Direct => td # 0 /\ td = n.sec[Direct]
    <2>1. k > Direct => td \in Blocks /\ td # 0
      BY <1>2, Sizes DEF Layout, Blocks
    <2>2. QED
      BY <1>2, <2>1
  <1>6. \A i \in 0..(k - 1) : At(dinode, dk, i) = At(n, dk, i) /\ At(dinode, dk, i) = At(dinode, disk, i)
    <2>1. TAKE i \in 0..(k - 1)
    <2>2. At(dinode, disk, i) = At(inode, disk, i) /\ At(n, dk, i) = At(inode, disk, i)
      <3>1. i \in 0..(k0 - 1)
        BY <1>1
      <3>2. QED
        BY <1>2, <3>1 DEF k0
    <2>3. CASE i < Direct
      <3>1. At(dinode, dk, i) = At(dinode, disk, i)
        BY <2>3 DEF At
      <3>2. QED
        BY <2>2, <3>1
    <2>4. CASE ~(i < Direct)
      <3>1. k > Direct
        BY <1>1, <2>4, Sizes
      <3>2. At(dinode, dk, i) = At(n, dk, i)
        BY <1>5, <2>4, <3>1 DEF At
      <3>3. QED
        BY <2>2, <3>2
    <2>5. QED
      BY <2>3, <2>4
  <1>7. k > Direct => dk[td] \in [0..(Indirect - 1) -> Numbers]
    <2>1. SUFFICES ASSUME k > Direct PROVE dk[td] \in [0..(Indirect - 1) -> Numbers]
      OBVIOUS
    <2>2. Count(n, u) > Direct
      BY <1>1, <1>3, <1>4, <2>1, Sizes
    <2>3. QED
      BY <1>3, <1>5, <2>1, <2>2 DEF Layout
  <1>8. Layout(dinode, dk, k)
    <2>1. /\ \A i \in 0..(k - 1) : At(dinode, disk, i) \in Blocks /\ At(dinode, disk, i) # td
          /\ \A i, j \in 0..(k - 1) : At(dinode, disk, i) = At(dinode, disk, j) => i = j
          /\ \A i \in 0..(Direct - 1) : i >= k => dinode.sec[i] = 0
          /\ k > Direct => td \in Blocks
          /\ k <= Direct => td = 0
      BY <1>2 DEF Layout
    <2>2. /\ \A i \in 0..(k - 1) : At(dinode, dk, i) \in Blocks /\ At(dinode, dk, i) # td
          /\ \A i, j \in 0..(k - 1) : At(dinode, dk, i) = At(dinode, dk, j) => i = j
      BY <1>6, <2>1
    <2>3. QED
      BY <1>7, <2>1, <2>2 DEF Layout
  <1>9. td \in {0, n.sec[Direct]}
    BY <1>2
  <1>10. Holds(dinode, dk, dinode.size)
    BY <1>2, <1>8 DEF Holds, k
  <1>11. QED
    BY <1>6, <1>9, <1>10 DEF k

LEMMA KeepWriteBegun ==
  ASSUME FileDataAssumption, NEW t, Live(t), NEW d \in Fds, NEW n \in Counts, file_write(d, Bytes(n)),
         panic' = "no"
  PROVE  FileInv'
  <1> DEFINE src == Bytes(n)
             s == inode.size
             u == s + n
             w == FW_call(src)
             p == (s - 1) % Word
  <1>1. /\ Ready(d) /\ mode[d] = "w" /\ n \in Nat /\ u < MaxSize /\ t = s
        /\ src \in Seq(Nat) /\ Len(src) = n
        /\ \A e \in Fds : call[e].op # "write"
        /\ inode' \in Inode /\ inode'.size = s /\ inode'.sec[0] # 0
        /\ disk' = [b \in {0} \cup Blocks |-> disk'[b]] /\ disk'[0] = Zeros
        /\ Holds(inode', disk', u) /\ Count(inode', u) = Blk(u) + 1
        /\ \A i \in 0..(Count(inode, s) - 1) : At(inode', disk', i) = At(inode, disk, i)
        /\ \A i \in 0..Blk(u) : At(inode', disk', i) \in dbits'
        /\ inode.sec[Direct] # 0 => inode'.sec[Direct] = inode.sec[Direct]
        /\ \A i \in Blk(s)..Blk(u) : FW_all(src)[i] = At(inode', disk', i)
        /\ IsWrite(w) /\ call' = [call EXCEPT ![d] = w]
        /\ pos' = [pos EXCEPT ![d] = p]
        /\ bits' \subseteq Blocks /\ dbits' \subseteq bits'
        /\ UNCHANGED <<dinode, deny, others, sync, mode, restarts>>
    BY WriteBegins, Zenon
  <1>2. FileTypes /\ Positions /\ s \in Nat /\ dinode.size \in Nat /\ dinode.size <= s
    BY LiveFacts DEF Live
  <1>3. w.op = "write" /\ w.left = src /\ w.all = FW_all(src) /\ w.first = TRUE /\ w.chunk = 0
    BY DEF FW_call
  <1> HIDE DEF src, w
  <1>4. p \in 0..(Word - 1) /\ (s = 0 => p = Word - 1) /\ (s # 0 => p <= s)
    <2> HIDE DEF s, u
    <2>1. MaxSize \in Nat /\ Word \in Nat /\ Word > 2 * MaxSize /\ s < MaxSize
      BY <1>1, <1>2, LiveFacts, Sizes
    <2>2. CASE s = 0
      BY <2>1, <2>2
    <2>3. CASE s # 0
      BY <1>2, <2>1, <2>3
    <2>4. QED
      BY <2>2, <2>3
  <1> HIDE DEF p
  <1>5. /\ call = [e \in Fds |-> call[e]] /\ pos \in [Fds -> 0..(Word - 1)]
    BY <1>2 DEF FileTypes
  <1>6. /\ call'[d] = w /\ call' = [e \in Fds |-> call'[e]] /\ pos'[d] = p /\ pos' \in [Fds -> 0..(Word - 1)]
        /\ \A e \in Fds : e # d => call'[e] = call[e] /\ pos'[e] = pos[e]
    <2>1. call' = [call EXCEPT ![d] = w] /\ pos' = [pos EXCEPT ![d] = p]
      BY <1>1
    <2>2. QED
      BY <1>4, <1>5, <2>1
  <1>7. FileTypes'
    <2>1. \A e \in Fds : call'[e] = NoCall \/ IsWrite(call'[e]) \/ IsRead(call'[e])
      BY <1>1, <1>2, <1>6 DEF FileTypes
    <2>2. /\ disk' = [b \in {0} \cup Blocks |-> disk'[b]] /\ inode' \in Inode
          /\ bits' \subseteq Blocks /\ dbits' \subseteq bits' /\ UNCHANGED <<dinode, sync, mode>>
      BY <1>1
    <2>3. QED
      BY <1>2, <1>6, <2>1, <2>2 DEF FileTypes
  <1>8. FileAsserts'
    <2>1. disk'[0] = Zeros
      BY <1>1
    <2>2. QED
      BY <2>1 DEF FileAsserts
  <1>9. Positions'
    <2>1. inode'.size = s /\ mode' = mode /\ mode[d] = "w"
      BY <1>1
    <2>2. ASSUME NEW e \in Fds
          PROVE  /\ pos'[e] <= inode'.size \/ (pos'[e] = Word - 1 /\ inode'.size = 0 /\ mode'[e] = "w")
                 /\ mode'[e] = "closed" => call'[e] = NoCall
      <3>1. CASE e = d
        BY <1>4, <1>6, <2>1, <3>1
      <3>2. CASE e # d
        BY <1>2, <1>6, <2>1, <3>2 DEF Positions
      <3>3. QED
        BY <3>1, <3>2
    <2>3. QED
      BY <2>2 DEF Positions
  <1>10. u \in Nat /\ s <= u /\ dinode.size <= u
    BY <1>1, <1>2, SMTT(30)
  <1>11. Saved'
    <2> DEFINE m == inode'
               dk == disk'
    <2>1. /\ m \in Inode /\ Holds(m, dk, u) /\ m.sec[0] # 0
          /\ \A i \in 0..(Count(inode, inode.size) - 1) : At(m, dk, i) = At(inode, disk, i)
          /\ inode.sec[Direct] # 0 => m.sec[Direct] = inode.sec[Direct]
      BY <1>1
    <2> HIDE DEF m, dk, u
    <2>2. /\ Holds(dinode, dk, dinode.size)
          /\ \A i \in 0..(Count(dinode, dinode.size) - 1) : At(dinode, dk, i) = At(m, dk, i)
          /\ dinode.sec[Direct] \in {0, m.sec[Direct]}
      BY <1>10, <2>1, SavedGrows
    <2>3. dinode' = dinode /\ m.size = s
      BY <1>1 DEF m
    <2>4. QED
      BY <1>2, <2>2, <2>3 DEF Saved, m, dk
  <1>12. ASSUME NEW e \in Fds, call'[e].op = "read" PROVE Reads(e)'
    <2>1. e # d /\ call[e].op = "read" /\ call'[e] = call[e] /\ pos'[e] = pos[e]
      BY <1>3, <1>6, <1>12
    <2>2. inode.size <= inode'.size /\ inode'.size \in Nat
      BY <1>1, <1>2
    <2>3. \A i \in 0..(Count(inode, t) - 1) : At(inode', disk', i) = At(inode, disk, i)
      BY <1>1
    <2>4. QED
      BY <2>1, <2>2, <2>3, CarryRead
  <1>13. PICK y \in Nat : y = u
    BY <1>10
  <1>14. Writes(d, y)'
    <2>1. /\ mode'[d] = "w" /\ inode'.sec[0] # 0 /\ y = inode'.size + Len(call'[d].left)
          /\ pos'[d] = (inode'.size - 1) % Word /\ call'[d].chunk = 0 /\ call'[d].first = TRUE
          /\ \A i \in Blk(inode'.size)..Blk(y) : call'[d].all[i] = At(inode', disk', i)
      BY <1>1, <1>3, <1>6, <1>13, SMTT(30) DEF p
    <2>2. QED
      BY <2>1 DEF Writes
  <1>15. ASSUME NEW e \in Fds, call'[e].op = "write" PROVE Writes(e, y)'
    <2>1. e = d
      BY <1>1, <1>6, <1>15
    <2>2. QED
      BY <1>14, <2>1
  <1>16. Room(y)'
    <2>1. inode'.size <= y /\ y < MaxSize /\ Holds(inode', disk', y)
      BY <1>1, <1>10, <1>13
    <2>2. \A i \in 0..(Count(inode', y) - 1) : At(inode', disk', i) \in dbits'
      <3>1. Count(inode', y) = Blk(y) + 1 /\ Blk(y) \in Nat
        BY <1>1, <1>13, Split
      <3>2. Count(inode', y) - 1 = Blk(y)
        BY <3>1
      <3>3. QED
        BY <1>1, <1>13, <3>2
    <2>3. call'[d].op = "write"
      BY <1>3, <1>6
    <2>4. QED
      BY <1>12, <1>15, <2>1, <2>2, <2>3 DEF Room
  <1>17. QED
    BY <1>7, <1>8, <1>9, <1>11, <1>13, <1>16 DEF FileInv

LEMMA KeepFileWrite ==
  ASSUME FileDataAssumption, NEW t, Live(t), NEW d \in Fds, NEW n \in Counts, file_write(d, Bytes(n))
  PROVE  FileInv'
  BY KeepWriteBegun, KeepWriteStopped, Zenon

-----------------------------------------------------------------------------
(* The invariant.                                                          *)

LEMMA FileInvInit ==
  ASSUME FileDataAssumption, Init
  PROVE  FileInv
  <1>1. /\ inode = Empty /\ dinode = Empty /\ disk = [b \in {0} \cup Blocks |-> Zeros]
        /\ bits = {} /\ dbits = {} /\ sync = [at |-> "idle", inode |-> Empty]
        /\ pos = [d \in Fds |-> 0] /\ call = [d \in Fds |-> NoCall] /\ panic = "no"
    BY DEF Init
  <1>2. mode \in [Fds -> {"closed", "r", "w"}]
    <2>1. PICK d \in Fds, flag \in {"r", "w"} : mode = [x \in Fds |-> IF x = d THEN flag ELSE "closed"]
      BY DEF Init
    <2>2. QED
      BY <2>1
  <1>3. Empty \in Inode /\ Empty.size = 0 /\ Empty.sec = [i \in 0..Direct |-> 0]
    <2>1. 0 \in Numbers
      BY Sizes DEF Numbers
    <2>2. QED
      BY <2>1 DEF Empty, Inode
  <1>4. FileTypes
    <2>1. 0 \in 0..(Word - 1)
      BY Sizes
    <2>2. sync.inode \in Inode
      BY <1>1, <1>3
    <2>3. disk = [b \in {0} \cup Blocks |-> disk[b]]
      BY <1>1
    <2>4. QED
      BY <1>1, <1>2, <1>3, <2>1, <2>2, <2>3 DEF FileTypes
  <1>5. FileAsserts
    BY <1>1 DEF FileAsserts
  <1>6. Positions
    BY <1>1, <1>3 DEF Positions
  <1>7. \A i \in 0..Direct : Empty.sec[i] = 0
    BY <1>3
  <1>8. Count(Empty, 0) = 0
    <2>1. Empty.sec[0] = 0
      BY <1>7, Sizes
    <2>2. QED
      BY <2>1 DEF Count
  <1>9. Holds(Empty, disk, 0)
    <2>1. 0..(0 - 1) = {} /\ 0 <= Direct /\ ~(0 > Direct) /\ Direct \in 0..Direct
      BY Sizes
    <2>2. \A i \in 0..(Direct - 1) : i \in 0..Direct
      BY Sizes
    <2>3. Layout(Empty, disk, 0)
      BY <1>7, <2>1, <2>2 DEF Layout
    <2>4. QED
      BY <1>8, <2>3 DEF Holds
  <1>10. 0..(0 - 1) = {} /\ 0 < MaxSize
    BY Sizes
  <1>11. Saved
    BY <1>1, <1>3, <1>8, <1>9, <1>10 DEF Saved
  <1>12. Room(0)
    <2>1. \A d \in Fds : call[d].op # "write" /\ call[d].op # "read"
      BY <1>1 DEF NoCall
    <2>2. QED
      BY <1>1, <1>3, <1>8, <1>9, <1>10, <2>1 DEF Room
  <1>13. QED
    BY <1>4, <1>5, <1>6, <1>11, <1>12 DEF FileInv

LEMMA FileInvNext ==
  ASSUME FileDataAssumption, FileInv, [Next]_vars
  PROVE  FileInv'
  <1>1. CASE UNCHANGED vars
    <2>1. UNCHANGED <<inode, dinode, disk, bits, dbits, sync, mode, pos, call, panic>>
      BY <1>1 DEF vars
    <2>2. FileTypes' /\ FileAsserts'
      BY <2>1 DEF FileInv, FileTypes, FileAsserts
    <2>3. Spoilt' <=> Spoilt
      BY <2>1 DEF Spoilt, TableLost, Writers
    <2>4. Saved => Saved'
      BY <2>1 DEF Saved
    <2>5. Positions => Positions'
      BY <2>1 DEF Positions
    <2>6. ASSUME NEW t \in Nat, Room(t) PROVE Room(t)'
      <3>1. \A d \in Fds : (Writes(d, t) => Writes(d, t)') /\ (Reads(d) => Reads(d)')
        BY <2>1 DEF Writes, Reads
      <3>2. QED
        BY <2>1, <2>6, <3>1 DEF Room
    <2>7. QED
      BY <2>2, <2>3, <2>4, <2>5, <2>6 DEF FileInv
  <1>2. CASE Next
    <2>1. PICK t : Live(t)
      BY <1>2, LiveExists DEF Next
    <2>2. ASSUME NEW d \in Fds, NEW n \in Counts, file_write(d, Bytes(n)) PROVE FileInv'
      BY <2>1, <2>2, KeepFileWrite
    <2>3. ASSUME NEW d \in Fds, write_block(d) PROVE FileInv'
      BY <2>1, <2>3, KeepWriteBlock
    <2>4. ASSUME NEW d \in Fds, write_grow(d) PROVE FileInv'
      BY <2>1, <2>4, KeepWriteGrow
    <2>5. ASSUME NEW d \in Fds, write_end(d) PROVE FileInv'
      BY <2>1, <2>5, KeepWriteEnd
    <2>6. ASSUME NEW d \in Fds, NEW n \in Counts, file_read(d, n) PROVE FileInv'
      BY <2>1, <2>6, KeepFileRead
    <2>7. ASSUME NEW d \in Fds, read_block(d) PROVE FileInv'
      BY <2>1, <2>7, KeepReadBlock
    <2>8. ASSUME NEW d \in Fds, read_end(d) PROVE FileInv'
      BY <2>1, <2>8, KeepReadEnd
    <2>9. ASSUME NEW d \in Fds, NEW off \in Offsets, NEW wh \in {"set", "cur", "end"}, sys_lseek(d, off, wh)
          PROVE FileInv'
      BY <2>1, <2>9, KeepSeek
    <2>10. ASSUME NEW d \in Fds, NEW flag \in {"r", "w"}, file_open(d, flag) PROVE FileInv'
      BY <2>1, <2>10, KeepOpen
    <2>11. ASSUME NEW d \in Fds, file_close(d) PROVE FileInv'
      BY <2>1, <2>11, KeepClose
    <2>12. ASSUME OtherFile PROVE FileInv'
      BY <2>1, <2>12, KeepOtherFile
    <2>13. ASSUME sync_read PROVE FileInv'
      BY <2>1, <2>13, KeepSyncRead
    <2>14. ASSUME sync_write PROVE FileInv'
      BY <2>1, <2>14, KeepSyncWrite
    <2>15. ASSUME Restart PROVE FileInv'
      BY <2>1, <2>15, KeepRestart
    <2>16. QED
      BY <1>2, <2>2, <2>3, <2>4, <2>5, <2>6, <2>7, <2>8, <2>9, <2>10, <2>11, <2>12, <2>13, <2>14, <2>15
         DEF Next
  <1>3. QED
    BY <1>1, <1>2

\* The bytes of the file are where file_write and file_read look for them:
\* every block in use is the inode's and marked in both bitmaps, a write under
\* way has its blocks, and the inode on disk is a shorter file of the same blocks.
THEOREM FileInvariant == Spec => []FileInv
  <1>1. Init => FileInv
    BY FileDataAssumption, FileInvInit
  <1>2. FileInv /\ [Next]_vars => FileInv'
    BY FileDataAssumption, FileInvNext
  <1>3. QED
    BY <1>1, <1>2, PTL DEF Spec

\* The assertions of file_write and file_read on i_sectors hold, nothing is
\* written to sector 0, and the kernel stops in them only with the disk full or
\* at the limits of the sizes (file.c:246, 335, 395).
THEOREM FileAssertsHold == Spec => []FileAsserts
  <1>1. FileInv => FileAsserts
    BY DEF FileInv
  <1>2. QED
    BY <1>1, FileInvariant, PTL

-----------------------------------------------------------------------------
(* The refinement: what the steps do to the sequence of bytes.             *)

\* The bytes of a file with inode n.
Cont(n, dk) == [k \in 1..n.size |-> dk[At(n, dk, Blk(k - 1))][Off(k - 1)]]
Calls == [d \in Fds |-> Progress(call[d])]
ByteStep == [File!Next]_(File!vars)

LEMMA ContentIs ==
  Content = Cont(inode, disk) /\ Content' = Cont(inode', disk')
  BY DEF Content, BlockAt, Cont, At, Blk, Off

LEMMA ContentLen ==
  ASSUME inode.size \in Nat
  PROVE  /\ Len(Content) = inode.size /\ Content = [k \in 1..inode.size |-> Content[k]]
         /\ \A k \in 1..inode.size : Content[k] = disk[At(inode, disk, Blk(k - 1))][Off(k - 1)]
  <1>1. Content = Cont(inode, disk)
    BY ContentIs
  <1>2. Len(Cont(inode, disk)) = inode.size
    BY DEF Cont
  <1>3. QED
    BY <1>1, <1>2 DEF Cont

\* What a call shows of itself.
LEMMA Shown ==
  /\ Progress(NoCall) = NoCall
  /\ \A c : IsWrite(c) => Progress(c) = [op |-> "write", left |-> c.left]
  /\ \A c : IsRead(c) => Progress(c) = [op |-> "read", left |-> c.left, buf |-> c.buf]
  <1>1. NoCall.op = "none"
    BY DEF NoCall
  <1>2. ASSUME NEW c, IsWrite(c) PROVE c.op = "write"
    BY <1>2 DEF IsWrite
  <1>3. ASSUME NEW c, IsRead(c) PROVE c.op = "read"
    BY <1>3 DEF IsRead
  <1>4. QED
    BY <1>1, <1>2, <1>3 DEF Progress

LEMMA CallShown ==
  ASSUME FileTypes, NEW d \in Fds, NEW c, call' = [call EXCEPT ![d] = c]
  PROVE  Calls' = [Calls EXCEPT ![d] = Progress(c)] /\ Calls'[d] = Progress(c)
  <1>1. \A e \in Fds : call'[e] = IF e = d THEN c ELSE call[e]
    BY DEF FileTypes
  <1>2. Calls = [e \in Fds |-> Progress(call[e])] /\ Calls' = [e \in Fds |-> Progress(call'[e])]
    BY DEF Calls
  <1> DEFINE v == Progress(c)
  <1>3. \A e \in Fds : Progress(call'[e]) = IF e = d THEN v ELSE Progress(call[e])
    BY <1>1
  <1> HIDE DEF v
  <1>4. Calls' = [Calls EXCEPT ![d] = v] /\ Calls'[d] = v
    BY <1>2, <1>3
  <1>5. QED
    BY <1>4 DEF v

LEMMA CallEnds ==
  ASSUME FileTypes, NEW d \in Fds, call' = [call EXCEPT ![d] = NoCall]
  PROVE  Calls' = [Calls EXCEPT ![d] = NoCall]
  <1> DEFINE c == NoCall
  <1>1. call' = [call EXCEPT ![d] = c] /\ Progress(c) = c
    BY Shown
  <1> HIDE DEF c
  <1>2. Calls' = [Calls EXCEPT ![d] = Progress(c)]
    BY <1>1, CallShown
  <1>3. QED
    BY <1>1, <1>2 DEF c

\* After a step that spoils the file nothing is promised; the others are to be
\* steps of the sequence of bytes, or leave it alone.
LEMMA SpoiltStep ==
  ASSUME Spoilt'
  PROVE  ByteStep
  BY DEF ByteStep, File!Next

LEMMA QuietStep ==
  ASSUME ~Spoilt, ~Spoilt', Content' = Content, dinode'.size = dinode.size, pos' = pos, Calls' = Calls
  PROVE  ByteStep
  BY DEF ByteStep, File!vars, Calls

\* q is s with the first n of r after it.
Joins(q, s, r, n) ==
  /\ q = [k \in 1..(Len(s) + n) |-> q[k]] /\ \A k \in 1..Len(s) : q[k] = s[k]
  /\ \A k \in 1..n : q[Len(s) + k] = r[k]

LEMMA AppendFacts ==
  ASSUME NEW S, NEW s \in Seq(S), NEW r \in Seq(S), NEW n \in Nat, n <= Len(r), NEW q, Joins(q, s, r, n)
  PROVE  q = s \o SubSeq(r, 1, n)
  <1>0. /\ q = [k \in 1..(Len(s) + n) |-> q[k]] /\ \A k \in 1..Len(s) : q[k] = s[k]
        /\ \A k \in 1..n : q[Len(s) + k] = r[k]
    BY DEF Joins
  <1> DEFINE u == SubSeq(r, 1, n)
  <1>1. u \in Seq(S) /\ Len(u) = n /\ \A k \in 1..n : u[k] = r[k]
    OBVIOUS
  <1> HIDE DEF u
  <1> DEFINE w == s \o u
  <1>2. /\ w \in Seq(S) /\ Len(w) = Len(s) + Len(u) /\ Len(s) \in Nat
        /\ \A k \in 1..(Len(s) + Len(u)) : w[k] = IF k <= Len(s) THEN s[k] ELSE u[k - Len(s)]
    <2>1. u \in Seq(S)
      BY <1>1
    <2>2. /\ s \o u \in Seq(S) /\ Len(s \o u) = Len(s) + Len(u)
          /\ \A k \in 1..(Len(s) + Len(u)) : (s \o u)[k] = IF k <= Len(s) THEN s[k] ELSE u[k - Len(s)]
      BY <2>1, ConcatProperties, Zenon
    <2>3. Len(s) \in Nat
      OBVIOUS
    <2>4. QED
      BY <2>2, <2>3
  <1> HIDE DEF w
  <1>3. ASSUME NEW k \in 1..(Len(s) + n) PROVE q[k] = w[k]
    <2>1. CASE k <= Len(s)
      <3>1. k \in 1..Len(s)
        BY <1>2, <2>1
      <3>2. QED
        BY <1>1, <1>2, <1>0, <2>1, <3>1
    <2>2. CASE k > Len(s)
      <3> DEFINE j == k - Len(s)
      <3>1. j \in 1..n /\ Len(s) + j = k /\ ~(k <= Len(s))
        BY <1>2, <2>2
      <3>2. q[Len(s) + j] = r[j] /\ u[j] = r[j]
        BY <1>1, <1>0, <3>1
      <3>3. w[k] = u[j]
        BY <1>1, <1>2, <3>1
      <3>4. QED
        BY <3>1, <3>2, <3>3
    <2>3. QED
      BY <1>2, <2>1, <2>2
  <1>4. w = [k \in 1..(Len(s) + n) |-> w[k]]
    BY <1>1, <1>2
  <1>5. q = w
    BY <1>3, <1>4, <1>0, Zenon
  <1>6. QED
    BY <1>5 DEF w, u

\* q is what is in s at p, n long.
Cuts(q, s, p, n) == q = [j \in 1..n |-> q[j]] /\ \A j \in 1..n : q[j] = s[p + j]

LEMMA PieceFacts ==
  ASSUME NEW S, NEW s \in Seq(S), NEW p \in Nat, NEW n \in Nat, p + n <= Len(s), NEW q, Cuts(q, s, p, n)
  PROVE  q = SubSeq(s, p + 1, p + n)
  <1> DEFINE u == SubSeq(s, p + 1, p + n)
  <1>1. Len(s) \in Nat /\ \A i \in (p + 1)..(p + n) : s[i] \in S
    OBVIOUS
  <1>2. /\ u \in Seq(S) /\ Len(u) = IF p + 1 <= p + n THEN (p + n) - (p + 1) + 1 ELSE 0
        /\ \A i \in 1..((p + n) - (p + 1) + 1) : u[i] = s[(p + 1) + i - 1]
    BY <1>1, SubSeqProperties
  <1> HIDE DEF u
  <1>3. Len(u) = n
    BY <1>2
  <1>4. \A j \in 1..n : u[j] = s[p + j]
    <2>1. TAKE j \in 1..n
    <2>2. j \in 1..((p + n) - (p + 1) + 1) /\ (p + 1) + j - 1 = p + j
      OBVIOUS
    <2>3. QED
      BY <1>2, <2>2
  <1>5. u = [j \in 1..n |-> u[j]]
    BY <1>2, <1>3
  <1>6. q = u
    <2>1. q = [j \in 1..n |-> q[j]] /\ \A j \in 1..n : q[j] = s[p + j]
      BY DEF Cuts
    <2>2. QED
      BY <1>4, <1>5, <2>1, Zenon
  <1>7. QED
    BY <1>6 DEF u

\* What a byte of the file can be: the code does not look at it.
ByteSet == {Content[k] : k \in 1..inode.size} \cup Nat

LEMMA ContentSeq ==
  ASSUME inode.size \in Nat
  PROVE  Content \in Seq(ByteSet)
  <1>1. Content = [k \in 1..inode.size |-> Content[k]]
    BY ContentLen
  <1>2. \A k \in 1..inode.size : Content[k] \in ByteSet
    BY DEF ByteSet
  <1> DEFINE n == inode.size
  <1>3. Content \in [1..n -> ByteSet] /\ n \in Nat
    BY <1>1, <1>2
  <1> HIDE DEF n
  <1>4. QED
    BY <1>3

\* Where the byte k of the file is.
LEMMA ContentPlace ==
  ASSUME FileDataAssumption, NEW t, Live(t), NEW k \in 1..inode.size
  PROVE  /\ k - 1 \in Nat /\ Blk(k - 1) \in Nat /\ Off(k - 1) \in 0..(BlockSize - 1)
         /\ Blk(k - 1) <= Blk(inode.size) /\ Blk(k - 1) \in 0..(Count(inode, t) - 1)
         /\ Blk(k - 1) \in 0..(Count(inode, inode.size) - 1)
         /\ At(inode, disk, Blk(k - 1)) \in Blocks /\ At(inode, disk, Blk(k - 1)) # inode.sec[Direct]
         /\ Blk(k - 1) = Blk(inode.size) => Off(k - 1) < Off(inode.size)
  <1> DEFINE s == inode.size
             p == k - 1
  <1>1. /\ s \in Nat /\ t \in Nat /\ s <= t /\ Layout(inode, disk, Count(inode, t))
        /\ inode.sec[0] = 0 => s = 0
        /\ inode.sec[0] # 0 => Count(inode, t) = Blk(t) + 1
    BY LiveFacts
  <1>2. p \in Nat /\ p < s /\ p <= t /\ s # 0
    BY <1>1
  <1>3. inode.sec[0] # 0 /\ Count(inode, t) = Blk(t) + 1 /\ Count(inode, s) = Blk(s) + 1
    BY <1>1, <1>2 DEF Count
  <1> HIDE DEF p, s
  <1>4. /\ Blk(p) \in Nat /\ Off(p) \in 0..(BlockSize - 1) /\ p = BlockSize * Blk(p) + Off(p)
        /\ Blk(s) \in Nat /\ Off(s) \in 0..(BlockSize - 1) /\ s = BlockSize * Blk(s) + Off(s)
        /\ Blk(t) \in Nat
    BY <1>1, <1>2, Split
  <1>5. Blk(p) <= Blk(s) /\ Blk(p) <= Blk(t)
    BY <1>1, <1>2, Monotone
  <1>6. Blk(p) \in 0..(Count(inode, t) - 1) /\ Blk(p) \in 0..(Count(inode, s) - 1)
    BY <1>3, <1>4, <1>5
  <1>7. At(inode, disk, Blk(p)) \in Blocks /\ At(inode, disk, Blk(p)) # inode.sec[Direct]
    BY <1>1, <1>6 DEF Layout
  <1>8. ASSUME Blk(p) = Blk(s) PROVE Off(p) < Off(s)
    <2>1. BlockSize * Blk(s) \in Int
      BY <1>4, Sizes
    <2>2. QED
      BY <1>2, <1>4, <1>8, <2>1
  <1>9. QED
    BY <1>2, <1>4, <1>5, <1>6, <1>7, <1>8 DEF p, s

LEMMA ContentSame ==
  ASSUME inode'.size = inode.size,
         \A k \in 1..inode.size :
           disk'[At(inode', disk', Blk(k - 1))][Off(k - 1)] = disk[At(inode, disk, Blk(k - 1))][Off(k - 1)]
  PROVE  Content' = Content
  BY ContentIs DEF Cont

LEMMA BytesKeptBlock ==
  ASSUME FileDataAssumption, NEW t, Live(t), NEW d \in Fds, write_block(d)
  PROVE  Content' = Content
  <1> DEFINE s == inode.size
             b == WB_lba(d)
             v == WB_data(d)
  <1>1. /\ b = At(inode, disk, Blk(s)) /\ b \in Blocks /\ b # inode.sec[Direct]
        /\ Blk(s) \in 0..(Count(inode, t) - 1)
        /\ \A j \in 0..(Off(s) - 1) : v[j] = disk[b][j]
        /\ Put(disk', b, v) /\ inode' = inode
    BY WriteStep
  <1>2. Layout(inode, disk, Count(inode, t)) /\ s \in Nat
    BY LiveFacts
  <1> HIDE DEF b, v
  <1>3. BlockKept(t, b, v, disk')
    BY <1>1, BlockWritten
  <1>4. /\ disk'[b] = v /\ \A x \in Blocks : x # b => disk'[x] = disk[x]
        /\ \A i \in 0..(Count(inode, t) - 1) : At(inode, disk', i) = At(inode, disk, i)
    BY <1>3 DEF BlockKept
  <1>5. Off(s) \in 0..(BlockSize - 1)
    BY <1>2, Split
  <1>6. ASSUME NEW k \in 1..s
        PROVE  disk'[At(inode', disk', Blk(k - 1))][Off(k - 1)] = disk[At(inode, disk, Blk(k - 1))][Off(k - 1)]
    <2> DEFINE p == k - 1
               a == At(inode, disk, Blk(p))
    <2>1. /\ Off(p) \in 0..(BlockSize - 1) /\ Blk(p) \in 0..(Count(inode, t) - 1)
          /\ a \in Blocks /\ (Blk(p) = Blk(s) => Off(p) < Off(s))
      BY <1>6, ContentPlace
    <2> HIDE DEF p, s
    <2>2. At(inode', disk', Blk(p)) = a
      BY <1>1, <1>4, <2>1
    <2>3. CASE a = b
      <3>1. Blk(p) = Blk(s)
        BY <1>1, <1>2, <2>1, <2>3 DEF Layout
      <3>2. Off(p) \in 0..(Off(s) - 1)
        BY <1>5, <2>1, <3>1
      <3>3. QED
        BY <1>1, <1>4, <2>2, <2>3, <3>2 DEF p
    <2>4. CASE a # b
      BY <1>4, <2>1, <2>2, <2>4 DEF p
    <2>5. QED
      BY <2>3, <2>4
  <1>7. QED
    BY <1>1, <1>6, ContentSame

LEMMA BytesKeptBegin ==
  ASSUME FileDataAssumption, NEW t, Live(t), NEW d \in Fds, NEW n \in Counts, file_write(d, Bytes(n)),
         panic' = "no"
  PROVE  Content' = Content
  <1> DEFINE s == inode.size
             u == s + n
  <1>1. /\ n \in Nat /\ u < MaxSize /\ t = s /\ inode'.size = s
        /\ Holds(inode', disk', u) /\ Count(inode', u) = Blk(u) + 1
        /\ \A i \in 0..(Count(inode, s) - 1) : At(inode', disk', i) = At(inode, disk, i)
        /\ \A b \in {0} \cup Blocks : b # inode'.sec[Direct] => disk'[b] = disk[b]
    BY WriteBegins
  <1>2. s \in Nat /\ u \in Nat /\ s <= u
    <2>1. s \in Nat
      BY LiveFacts
    <2> HIDE DEF s
    <2>2. QED
      BY <1>1, <2>1
  <1> HIDE DEF u
  <1>3. Blk(s) \in Nat /\ Blk(u) \in Nat /\ Blk(s) <= Blk(u)
    BY <1>2, Split, Monotone
  <1>4. ASSUME NEW k \in 1..s
        PROVE  disk'[At(inode', disk', Blk(k - 1))][Off(k - 1)] = disk[At(inode, disk, Blk(k - 1))][Off(k - 1)]
    <2> DEFINE p == k - 1
               a == At(inode, disk, Blk(p))
    <2>1. /\ Blk(p) \in Nat /\ Blk(p) <= Blk(s) /\ Blk(p) \in 0..(Count(inode, s) - 1) /\ a \in Blocks
      BY <1>4, ContentPlace
    <2> HIDE DEF p, s
    <2>2. At(inode', disk', Blk(p)) = a
      BY <1>1, <2>1
    <2>3. Blk(p) \in 0..(Count(inode', u) - 1)
      BY <1>1, <1>3, <2>1
    <2>4. a # inode'.sec[Direct]
      BY <1>1, <2>2, <2>3 DEF Holds, Layout
    <2>5. disk'[a] = disk[a]
      BY <1>1, <2>1, <2>4
    <2>6. QED
      BY <2>2, <2>5 DEF p
  <1>5. QED
    BY <1>1, <1>4, ContentSame

LEMMA BytesKeptOther ==
  ASSUME FileDataAssumption, NEW t, Live(t), OtherFile
  PROVE  Content' = Content
  <1> DEFINE new == Taken(1)
             b == new[1]
  <1>1. new # << >> /\ disk' = [disk EXCEPT ![b] = Zeros] /\ inode' = inode
    BY DEF OtherFile
  <1>2. new \in Seq(Blocks \ bits) /\ DOMAIN new = 1..Len(new)
    BY TakenFacts
  <1>3. /\ inode.sec[Direct] \in bits \cup {0} /\ 0 \notin Blocks /\ dbits \subseteq bits
        /\ \A i \in 0..(Count(inode, t) - 1) : At(inode, disk, i) \in dbits
    BY LiveFacts
  <1> HIDE DEF new
  <1>4. b \in Blocks /\ b \notin bits
    BY <1>1, <1>2
  <1>5. b # inode.sec[Direct]
    BY <1>3, <1>4
  <1> HIDE DEF b
  <1>6. Put(disk', b, Zeros)
    BY <1>1 DEF Put
  <1>7. BlockKept(t, b, Zeros, disk')
    BY <1>4, <1>5, <1>6, BlockWritten
  <1>8. /\ \A x \in Blocks : x # b => disk'[x] = disk[x]
        /\ \A i \in 0..(Count(inode, t) - 1) : At(inode, disk', i) = At(inode, disk, i)
    BY <1>7 DEF BlockKept
  <1>9. ASSUME NEW k \in 1..inode.size
        PROVE  disk'[At(inode', disk', Blk(k - 1))][Off(k - 1)] = disk[At(inode, disk, Blk(k - 1))][Off(k - 1)]
    <2> DEFINE i == Blk(k - 1)
    <2>1. i \in 0..(Count(inode, t) - 1) /\ At(inode, disk, i) \in Blocks
      BY <1>9, ContentPlace
    <2> HIDE DEF i
    <2>2. At(inode, disk, i) # b
      BY <1>3, <1>4, <2>1
    <2>3. QED
      BY <1>1, <1>8, <2>1, <2>2 DEF i
  <1>10. QED
    BY <1>1, <1>9, ContentSame

LEMMA BytesAppended ==
  ASSUME FileDataAssumption, NEW t, Live(t), NEW d \in Fds, write_grow(d)
  PROVE  Content' = Content \o SubSeq(call[d].left, 1, call[d].chunk)
  <1> DEFINE c == call[d]
             s == inode.size
             k == c.chunk
             r == c.left
             z == s + k
  <1>1. /\ IsWrite(c) /\ Writes(d, t) /\ k \in Nat /\ 1 <= k /\ k <= Len(r) /\ k <= BlockSize - Off(s)
        /\ inode'.size = z /\ inode'.sec = inode.sec /\ disk' = disk
    BY GrowStep
  <1>2. s \in Nat /\ t \in Nat /\ s <= t
    BY LiveFacts
  <1>3. /\ Blk(s) \in Nat /\ Blk(t) \in Nat /\ Blk(s) <= Blk(t) /\ Off(s) \in 0..(BlockSize - 1)
        /\ BlockSize \in Nat
    <2> HIDE DEF s
    <2>1. QED
      BY <1>2, Split, Monotone, Sizes
  <1>4. r \in Seq(ByteSet) /\ Len(r) \in Nat
    <2>1. r \in Seq(Nat)
      BY <1>1 DEF IsWrite
    <2>2. Nat \subseteq ByteSet
      BY DEF ByteSet
    <2> HIDE DEF r
    <2>3. Len(r) \in Nat /\ r \in [1..Len(r) -> ByteSet]
      BY <2>1, <2>2
    <2> DEFINE l == Len(r)
    <2>4. l \in Nat /\ r \in [1..l -> ByteSet]
      BY <2>3
    <2> HIDE DEF l
    <2>5. r \in Seq(ByteSet)
      BY <2>4
    <2>6. QED
      BY <2>3, <2>5
  <1>5. c.all[Blk(s)] = At(inode, disk, Blk(s))
    <2>1. \A i \in Blk(s)..Blk(t) : c.all[i] = At(inode, disk, i)
      BY <1>1 DEF Writes
    <2> HIDE DEF s, c
    <2>2. QED
      BY <1>3, <2>1
  <1>6. \A j \in 1..k : disk[At(inode, disk, Blk(s))][Off(s) + j - 1] = r[j]
    <2>1. k # 0
      BY <1>1
    <2>2. \A j \in 1..k : disk[c.all[Blk(s)]][Off(s) + j - 1] = r[j]
      BY <1>1, <2>1 DEF Writes
    <2>3. QED
      BY <1>5, <2>2
  <1>7. /\ Content \in Seq(ByteSet) /\ Len(Content) = s
        /\ \A j \in 1..s : Content[j] = disk[At(inode, disk, Blk(j - 1))][Off(j - 1)]
    BY <1>2, ContentSeq, ContentLen
  <1>8. \A i : At(inode', disk', i) = At(inode, disk, i)
    BY <1>1, SameSectors
  <1> DEFINE q == Content'
  <1>9. q = [j \in 1..z |-> disk[At(inode, disk, Blk(j - 1))][Off(j - 1)]]
    BY <1>1, <1>8, ContentIs DEF Cont
  <1> DEFINE old == Content
  <1> HIDE DEF c, k, r, s, q, old
  <1>10. z \in Nat /\ z = s + k
    BY <1>1, <1>2
  <1>11. \A j \in 1..s : q[j] = old[j]
    <2>1. \A j \in 1..s : j \in 1..z
      BY <1>1, <1>2
    <2> HIDE DEF z
    <2>2. QED
      BY <1>7, <1>9, <2>1 DEF old
  <1>12. ASSUME NEW j \in 1..k PROVE q[s + j] = r[j]
    <2>1. /\ s + j \in 1..z /\ (s + j) - 1 = s + (j - 1) /\ j - 1 \in Nat
          /\ Off(s) + (j - 1) < BlockSize /\ Off(s) + j - 1 = Off(s) + (j - 1)
      <3>1. k \in Nat /\ k <= BlockSize - Off(s) /\ s \in Nat /\ Off(s) \in Nat /\ BlockSize \in Nat
        BY <1>1, <1>2, <1>3
      <3>2. QED
        BY <1>12, <3>1
    <2>2. Blk(s + (j - 1)) = Blk(s) /\ Off(s + (j - 1)) = Off(s) + (j - 1)
      BY <1>2, <2>1, Within
    <2>3. q[s + j] = disk[At(inode, disk, Blk((s + j) - 1))][Off((s + j) - 1)]
      BY <1>9, <2>1
    <2>4. disk[At(inode, disk, Blk(s))][Off(s) + (j - 1)] = r[j]
      BY <1>6, <1>12, <2>1
    <2>5. QED
      BY <2>1, <2>2, <2>3, <2>4
  <1> HIDE DEF z
  <1>13. q = [j \in 1..(Len(old) + k) |-> q[j]]
    <2>1. q = [j \in 1..z |-> q[j]]
      BY <1>9
    <2>2. QED
      BY <1>7, <1>10, <2>1 DEF old
  <1>14. q = old \o SubSeq(r, 1, k)
    <2>1. old \in Seq(ByteSet) /\ Len(old) = s
      BY <1>7 DEF old
    <2> HIDE DEF ByteSet
    <2>2. \A j \in 1..Len(old) : q[j] = old[j]
      BY <1>11, <2>1
    <2>3. \A j \in 1..k : q[Len(old) + j] = r[j]
      BY <1>12, <2>1
    <2>4. k \in Nat /\ k <= Len(r)
      BY <1>1
    <2>5. r \in Seq(ByteSet)
      BY <1>4
    <2>6. QED
      <3>1. Joins(q, old, r, k)
        BY <1>13, <2>2, <2>3 DEF Joins
      <3>2. QED
        BY <2>1, <2>4, <2>5, <3>1, AppendFacts
  <1>15. QED
    BY <1>14 DEF q, old, r, k, c

LEMMA BytesDelivered ==
  ASSUME FileDataAssumption, NEW t, Live(t), NEW d \in Fds, read_block(d)
  PROVE  LET k == Lo(call[d].left, BlockSize - Off(pos[d]))
         IN [j \in 1..k |-> disk[call[d].all[Blk(pos[d])]][Off(pos[d]) + j - 1]]
              = SubSeq(Content, pos[d] + 1, pos[d] + k)
  <1> DEFINE c == call[d]
             p == pos[d]
             k == Lo(c.left, BlockSize - Off(p))
             b == disk[c.all[Blk(p)]]
             q == [j \in 1..k |-> b[Off(p) + j - 1]]
             s == inode.size
  <1>1. /\ IsRead(c) /\ k \in Nat /\ 1 <= k /\ k <= c.left /\ k <= BlockSize - Off(p) /\ p \in Nat
        /\ p + c.left <= s /\ c.all[Blk(p)] = At(inode, disk, Blk(p))
    BY ReadStep
  <1>2. s \in Nat
    BY LiveFacts
  <1>3. c.left \in Nat
    BY <1>1 DEF IsRead
  <1>4. /\ Content \in Seq(ByteSet) /\ Len(Content) = s
        /\ \A j \in 1..s : Content[j] = disk[At(inode, disk, Blk(j - 1))][Off(j - 1)]
    BY <1>2, ContentSeq, ContentLen
  <1>5. b = disk[At(inode, disk, Blk(p))]
    BY <1>1
  <1>6. Off(p) \in 0..(BlockSize - 1) /\ BlockSize \in Nat
    BY <1>1, Split, Sizes
  <1>7. q = [j \in 1..k |-> q[j]] /\ \A j \in 1..k : q[j] = b[Off(p) + j - 1]
    OBVIOUS
  <1> HIDE DEF c, p, k, b, q, s
  <1>8. ASSUME NEW j \in 1..k PROVE q[j] = Content[p + j]
    <2>1. /\ p + j \in 1..s /\ (p + j) - 1 = p + (j - 1) /\ j - 1 \in Nat
          /\ Off(p) + (j - 1) < BlockSize /\ Off(p) + j - 1 = Off(p) + (j - 1)
      BY <1>1, <1>2, <1>3, <1>6, <1>8
    <2>2. Blk(p + (j - 1)) = Blk(p) /\ Off(p + (j - 1)) = Off(p) + (j - 1)
      BY <1>1, <2>1, Within
    <2>3. Content[p + j] = disk[At(inode, disk, Blk((p + j) - 1))][Off((p + j) - 1)]
      BY <1>4, <2>1
    <2>4. q[j] = b[Off(p) + (j - 1)]
      BY <1>7, <1>8, <2>1
    <2>5. QED
      BY <1>5, <2>1, <2>2, <2>3, <2>4
  <1>9. p + k <= Len(Content)
    BY <1>1, <1>2, <1>3, <1>4
  <1>10. q = SubSeq(Content, p + 1, p + k)
    <2>1. p \in Nat /\ k \in Nat /\ Content \in Seq(ByteSet)
      BY <1>1, <1>4
    <2>2. Cuts(q, Content, p, k)
      BY <1>7, <1>8 DEF Cuts
    <2>3. QED
      BY <1>9, <2>1, <2>2, PieceFacts
  <1>11. QED
    BY <1>10 DEF q, b, k, p, c

LEMMA BytesSaved ==
  ASSUME FileDataAssumption, NEW t, Live(t), Restart
  PROVE  Content' = SubSeq(Content, 1, dinode.size)
  <1> DEFINE s == inode.size
             z == dinode.size
             q == Content'
  <1>1. /\ s \in Nat /\ z \in Nat /\ z <= s /\ Saved
    BY LiveFacts DEF Live
  <1>2. inode' = dinode /\ disk' = disk
    BY DEF Restart
  <1>3. /\ Content \in Seq(ByteSet) /\ Len(Content) = s
        /\ \A j \in 1..s : Content[j] = disk[At(inode, disk, Blk(j - 1))][Off(j - 1)]
    BY <1>1, ContentSeq, ContentLen
  <1>4. q = [j \in 1..z |-> disk[At(dinode, disk, Blk(j - 1))][Off(j - 1)]]
    BY <1>2, ContentIs DEF Cont
  <1>5. ASSUME NEW j \in 1..z PROVE q[j] = Content[j]
    <2> DEFINE p == j - 1
    <2>1. p \in Nat /\ p <= z /\ z # 0 /\ j \in 1..s
      BY <1>1
    <2>2. Count(dinode, z) = Blk(z) + 1
      BY <1>1, <2>1 DEF Saved, Holds, Count
    <2> HIDE DEF p, z
    <2>3. Blk(p) \in Nat /\ Blk(z) \in Nat /\ Blk(p) <= Blk(z)
      BY <1>1, <2>1, Split, Monotone
    <2>4. Blk(p) \in 0..(Count(dinode, z) - 1)
      BY <2>2, <2>3
    <2>5. At(dinode, disk, Blk(p)) = At(inode, disk, Blk(p))
      BY <1>1, <2>4 DEF Saved, z
    <2>6. q[j] = disk[At(dinode, disk, Blk(p))][Off(p)]
      BY <1>4 DEF p
    <2>7. Content[j] = disk[At(inode, disk, Blk(p))][Off(p)]
      BY <1>3, <2>1 DEF p
    <2>8. QED
      BY <2>5, <2>6, <2>7
  <1>6. q = [j \in 1..z |-> q[j]]
    BY <1>4
  <1> HIDE DEF q, z, s
  <1>7. q = SubSeq(Content, 0 + 1, 0 + z)
    <2>1. 0 + z <= Len(Content) /\ \A j \in 1..z : 0 + j = j
      BY <1>1, <1>3
    <2>2. \A j \in 1..z : q[j] = Content[0 + j]
      BY <1>5, <2>1
    <2>3. z \in Nat /\ 0 \in Nat /\ Content \in Seq(ByteSet)
      BY <1>1, <1>3
    <2>4. Cuts(q, Content, 0, z)
      BY <1>6, <2>2 DEF Cuts
    <2>5. QED
      BY <2>1, <2>3, <2>4, PieceFacts
  <1>8. 0 + 1 = 1 /\ 0 + z = z
    BY <1>1
  <1>9. QED
    BY <1>7, <1>8 DEF q, z

-----------------------------------------------------------------------------
(* The refinement: every step is one of the sequence of bytes.             *)

LEMMA MapStop ==
  ASSUME FileDataAssumption, NEW t, Live(t), UNCHANGED <<inode, dinode, disk, pos, call, sync, mode>>
  PROVE  ByteStep
  <1>1. Content' = Content
    BY ContentIs
  <1>2. Calls' = Calls
    BY DEF Calls
  <1>3. QED
    BY <1>1, <1>2, SpoiltStep, QuietStep DEF Live

LEMMA MapWriteBlock ==
  ASSUME FileDataAssumption, NEW t, Live(t), NEW d \in Fds, write_block(d)
  PROVE  ByteStep
  <1>1. UNCHANGED <<inode, dinode, pos>> /\ call' = [call EXCEPT ![d] = WB_call(d)] /\ IsWrite(call[d]) /\ IsWrite(WB_call(d))
    BY WriteStep
  <1>2. Content' = Content
    BY BytesKeptBlock
  <1>3. Progress(WB_call(d)) = Progress(call[d])
    <2>1. WB_call(d).left = call[d].left
      BY DEF WB_call
    <2>2. QED
      BY <1>1, <2>1, Shown
  <1>4. Calls' = Calls
    <2>1. FileTypes
      BY DEF Live
    <2>2. Calls' = [Calls EXCEPT ![d] = Progress(WB_call(d))]
      BY <1>1, <2>1, CallShown
    <2> DEFINE x == Progress(WB_call(d))
    <2>3. Calls[d] = x /\ Calls = [e \in Fds |-> Calls[e]]
      BY <1>3 DEF Calls
    <2> HIDE DEF x
    <2>4. Calls' = [Calls EXCEPT ![d] = x]
      BY <2>2 DEF x
    <2>5. QED
      BY <2>3, <2>4
  <1>5. CASE Spoilt'
    BY <1>5, SpoiltStep
  <1>6. CASE ~Spoilt'
    BY <1>1, <1>2, <1>4, <1>6, QuietStep DEF Live
  <1>7. QED
    BY <1>5, <1>6

LEMMA MapRestart ==
  ASSUME FileDataAssumption, NEW t, Live(t), Restart
  PROVE  ByteStep
  <1>1. CASE Spoilt'
    BY <1>1, SpoiltStep
  <1>2. CASE ~Spoilt'
    <2>1. Content' = SubSeq(Content, 1, dinode.size)
      BY BytesSaved
    <2>2. pos' = [d \in Fds |-> 0] /\ dinode' = dinode /\ call' = [d \in Fds |-> NoCall]
      BY DEF Restart
    <2>3. [d \in Fds |-> Progress(call'[d])] = [d \in Fds |-> NoCall]
      BY <2>2, Shown
    <2>4. File!PowerLoss
      BY <2>1, <2>2, <2>3 DEF File!PowerLoss, File!NoCall, NoCall
    <2>5. QED
      BY <1>2, <2>4 DEF ByteStep, File!Next
  <1>3. QED
    BY <1>1, <1>2

LEMMA MapSeek ==
  ASSUME FileDataAssumption, NEW t, Live(t), NEW d \in Fds, NEW off \in Offsets,
         NEW wh \in {"set", "cur", "end"}, sys_lseek(d, off, wh)
  PROVE  ByteStep
  <1>1. CASE Spoilt'
    BY <1>1, SpoiltStep
  <1>2. CASE ~Spoilt'
    <2>1. PICK p \in Nat : p <= inode.size - 1 /\ pos' = [pos EXCEPT ![d] = p]
      BY SeekStep
    <2>2. UNCHANGED <<inode, dinode, disk, call>> /\ call[d] = NoCall
      BY DEF sys_lseek, Ready
    <2>3. Content' = Content
      BY <2>2, ContentIs
    <2>4. inode.size \in Nat /\ Len(Content) = inode.size
      BY LiveFacts, ContentLen
    <2>5. p \in {0} \cup 0..(Len(Content) - 1)
      BY <2>1, <2>4
    <2>6. Progress(call[d]) = NoCall
      BY <2>2, Shown
    <2>7. File!Move(d)
      BY <2>1, <2>2, <2>3, <2>5, <2>6 DEF File!Move, File!NoCall, NoCall
    <2>8. QED
      BY <1>2, <2>7 DEF ByteStep, File!Next
  <1>3. QED
    BY <1>1, <1>2

LEMMA MapMove ==
  ASSUME FileDataAssumption, NEW t, Live(t), NEW d \in Fds, pos' = [pos EXCEPT ![d] = 0],
         UNCHANGED <<inode, dinode, disk, call>>, call[d] = NoCall
  PROVE  ByteStep
  <1>1. CASE Spoilt'
    BY <1>1, SpoiltStep
  <1>2. CASE ~Spoilt'
    <2>1. Content' = Content
      BY ContentIs
    <2>2. Progress(call[d]) = NoCall
      BY Shown
    <2>3. File!Move(d)
      BY <2>1, <2>2 DEF File!Move, File!NoCall, NoCall
    <2>4. QED
      BY <1>2, <2>3 DEF ByteStep, File!Next
  <1>3. QED
    BY <1>1, <1>2

LEMMA MapOpen ==
  ASSUME FileDataAssumption, NEW t, Live(t), NEW d \in Fds, NEW flag \in {"r", "w"}, file_open(d, flag)
  PROVE  ByteStep
  <1>1. pos' = [pos EXCEPT ![d] = 0] /\ UNCHANGED <<inode, dinode, disk, call>> /\ mode[d] = "closed"
    BY DEF file_open
  <1>2. call[d] = NoCall
    BY <1>1 DEF Live, Positions
  <1>3. QED
    BY <1>1, <1>2, MapMove

LEMMA MapClose ==
  ASSUME FileDataAssumption, NEW t, Live(t), NEW d \in Fds, file_close(d)
  PROVE  ByteStep
  <1>1. pos' = [pos EXCEPT ![d] = 0] /\ UNCHANGED <<inode, dinode, disk, call>> /\ call[d] = NoCall
    BY DEF file_close, Ready
  <1>2. QED
    BY <1>1, MapMove

LEMMA MapOtherFile ==
  ASSUME FileDataAssumption, NEW t, Live(t), OtherFile
  PROVE  ByteStep
  <1>1. UNCHANGED <<dinode, pos, call>>
    BY DEF OtherFile
  <1>2. Calls' = Calls
    BY <1>1 DEF Calls
  <1>3. Content' = Content
    BY BytesKeptOther
  <1>4. QED
    BY <1>1, <1>2, <1>3, SpoiltStep, QuietStep DEF Live

LEMMA MapSyncRead ==
  ASSUME FileDataAssumption, NEW t, Live(t), sync_read
  PROVE  ByteStep
  <1>1. UNCHANGED <<inode, dinode, disk, pos, call>>
    BY DEF sync_read
  <1>2. Calls' = Calls
    BY <1>1 DEF Calls
  <1>3. Content' = Content
    BY <1>1, ContentIs
  <1>4. QED
    BY <1>1, <1>2, <1>3, SpoiltStep, QuietStep DEF Live

\* The sector that is written back is the one that was read, unless a write has
\* finished in between.
LEMMA MapSyncWrite ==
  ASSUME FileDataAssumption, NEW t, Live(t), sync_write
  PROVE  ByteStep
  <1>1. CASE Spoilt'
    BY <1>1, SpoiltStep
  <1>2. CASE ~Spoilt'
    <2>1. UNCHANGED <<inode, disk, pos, call>> /\ dinode' = sync.inode
      BY DEF sync_write
    <2>2. sync'.at = IF sync.inode = dinode THEN "done" ELSE "lost"
      BY DEF sync_write
    <2>3. dinode' = dinode
      BY <1>2, <2>1, <2>2 DEF Spoilt
    <2>4. Calls' = Calls
      BY <2>1 DEF Calls
    <2>5. Content' = Content
      BY <2>1, ContentIs
    <2>6. QED
      BY <1>2, <2>1, <2>3, <2>4, <2>5, QuietStep DEF Live
  <1>3. QED
    BY <1>1, <1>2

LEMMA MapReadEnd ==
  ASSUME FileDataAssumption, NEW t, Live(t), NEW d \in Fds, read_end(d)
  PROVE  ByteStep
  <1>1. CASE Spoilt'
    BY <1>1, SpoiltStep
  <1>2. CASE ~Spoilt'
    <2>1. /\ call[d].op = "read" /\ call[d].left = 0 /\ call' = [call EXCEPT ![d] = NoCall]
          /\ UNCHANGED <<inode, dinode, disk, pos>>
      BY DEF read_end
    <2>2. FileTypes
      BY DEF Live
    <2>3. Content' = Content
      BY <2>1, ContentIs
    <2>4. Calls' = [Calls EXCEPT ![d] = NoCall]
      BY <2>1, <2>2, CallEnds
    <2>5. IsRead(call[d])
      BY <2>1, <2>2, CallKinds
    <2>6. Calls[d].op = "read" /\ Calls[d].left = 0
      BY <2>1, <2>5, Shown DEF Calls
    <2>7. File!FinishRead(d)
      BY <2>1, <2>3, <2>4, <2>6 DEF File!FinishRead, File!NoCall, NoCall, Calls
    <2>8. QED
      BY <1>2, <2>7 DEF ByteStep, File!Next
  <1>3. QED
    BY <1>1, <1>2

LEMMA MapWriteEnd ==
  ASSUME FileDataAssumption, NEW t, Live(t), NEW d \in Fds, write_end(d)
  PROVE  ByteStep
  <1>1. CASE Spoilt'
    BY <1>1, SpoiltStep
  <1>2. CASE ~Spoilt'
    <2>1. /\ call[d].op = "write" /\ call[d].left = << >> /\ call' = [call EXCEPT ![d] = NoCall]
          /\ dinode' = inode /\ UNCHANGED <<inode, disk, pos>>
      BY DEF write_end
    <2>2. FileTypes /\ inode.size \in Nat
      BY LiveFacts DEF Live
    <2>3. Content' = Content
      BY <2>1, ContentIs
    <2>4. Calls' = [Calls EXCEPT ![d] = NoCall]
      BY <2>1, <2>2, CallEnds
    <2>5. IsWrite(call[d])
      BY <2>1, <2>2, CallKinds
    <2>6. Calls[d] = [op |-> "write", left |-> << >>]
      BY <2>1, <2>5, Shown DEF Calls
    <2>7. dinode'.size = Len(Content)
      BY <2>1, <2>2, ContentLen
    <2>8. File!FinishWrite(d)
      BY <2>1, <2>3, <2>4, <2>6, <2>7 DEF File!FinishWrite, File!Writing, File!NoCall, NoCall, Calls
    <2>9. QED
      BY <1>2, <2>8 DEF ByteStep, File!Next
  <1>3. QED
    BY <1>1, <1>2

LEMMA MapFileRead ==
  ASSUME FileDataAssumption, NEW t, Live(t), NEW d \in Fds, NEW count \in Counts, file_read(d, count)
  PROVE  ByteStep
  <1> DEFINE c == FR_call(d, count)
  <1>1. \/ UNCHANGED <<inode, dinode, disk, pos, call, sync, mode>>
        \/ /\ call' = [call EXCEPT ![d] = c] /\ IsRead(c) /\ pos[d] + c.left <= inode.size
           /\ UNCHANGED <<inode, dinode, disk, pos>>
    <2>1. Stop("read limit") => UNCHANGED <<inode, dinode, disk, pos, call, sync, mode>>
      BY DEF Stop
    <2>2. QED
      BY <2>1, ReadStarts
  <1>2. CASE UNCHANGED <<inode, dinode, disk, pos, call, sync, mode>>
    BY <1>2, MapStop
  <1>3. ASSUME call' = [call EXCEPT ![d] = c], IsRead(c), pos[d] + c.left <= inode.size,
               UNCHANGED <<inode, dinode, disk, pos>>, ~Spoilt'
        PROVE  ByteStep
    <2>1. FileTypes /\ inode.size \in Nat /\ pos \in [Fds -> 0..(Word - 1)] /\ Word \in Nat
      BY LiveFacts, Sizes DEF Live, FileTypes
    <2>2. Content' = Content
      BY <1>3, ContentIs
    <2>3. Len(Content) = inode.size
      BY <2>1, ContentLen
    <2>4. c.buf = << >> /\ c.left \in Nat
      BY <1>3 DEF FR_call, IsRead
    <2>5. call[d] = NoCall
      BY DEF file_read, Ready
    <2> HIDE DEF c
    <2> DEFINE v == [op |-> "read", left |-> c.left, buf |-> << >>]
    <2>6. Progress(c) = v
      BY <1>3, <2>4, Shown
    <2>7. Calls' = [Calls EXCEPT ![d] = v] /\ Calls'[d] = v
      BY <1>3, <2>1, <2>6, CallShown
    <2>8. Calls[d] = NoCall
      BY <2>5, Shown DEF Calls
    <2>9. Calls'[d].op = "read" /\ Calls'[d].left = c.left
      BY <2>7
    <2>10. c.left \in 0..(Len(Content) - pos[d])
      BY <1>3, <2>1, <2>3, <2>4
    <2>11. pos' = [pos EXCEPT ![d] = pos[d]]
      BY <1>3, <2>1
    <2>12. File!Begin(d, File!Reading(Calls'[d].left, << >>), pos[d])
      BY <1>3, <2>2, <2>7, <2>8, <2>9, <2>11 DEF File!Begin, File!Reading, File!NoCall, NoCall, Calls
    <2>13. File!StartRead(d)
      BY <2>9, <2>10, <2>12 DEF File!StartRead, Calls
    <2>14. QED
      BY <1>3, <2>13 DEF ByteStep, File!Next
  <1>4. QED
    BY <1>1, <1>2, <1>3, SpoiltStep

LEMMA MapReadBlock ==
  ASSUME FileDataAssumption, NEW t, Live(t), NEW d \in Fds, read_block(d)
  PROVE  ByteStep
  <1> DEFINE c == call[d]
             k == Lo(c.left, BlockSize - Off(pos[d]))
             b == [j \in 1..k |-> disk[c.all[Blk(pos[d])]][Off(pos[d]) + j - 1]]
             w == [op |-> "read", left |-> c.left - k, all |-> c.all, buf |-> b]
             v == [op |-> "read", left |-> c.left - k, buf |-> b]
  <1>1. /\ IsRead(c) /\ k \in Nat /\ 1 <= k /\ k <= c.left /\ pos' = [pos EXCEPT ![d] = pos[d] + k]
        /\ call' = [call EXCEPT ![d] = w] /\ UNCHANGED <<inode, dinode, disk>>
    BY ReadStep
  <1>2. b = SubSeq(Content, pos[d] + 1, pos[d] + k)
    BY BytesDelivered
  <1>3. FileTypes
    BY DEF Live
  <1>4. c.left \in Nat /\ c.all \in AllBlocks
    BY <1>1 DEF IsRead
  <1>5. Content' = Content
    BY <1>1, ContentIs
  <1> HIDE DEF b, k, c
  <1>6. c.left - k \in Nat /\ k \in 1..c.left
    BY <1>1, <1>4
  <1>7. w.op = "read" /\ w.left = c.left - k /\ w.buf = b
    OBVIOUS
  <1>8. Progress(w) = v
    BY <1>7 DEF Progress
  <1> HIDE DEF w
  <1>9. Calls' = [Calls EXCEPT ![d] = v]
    BY <1>1, <1>3, <1>8, CallShown
  <1>10. Calls[d].op = "read" /\ Calls[d].left = c.left
    BY <1>1, Shown DEF Calls, c
  <1>11. Calls' = [Calls EXCEPT ![d] = [op |-> "read", left |-> Calls[d].left - k,
                                         buf |-> SubSeq(Content, pos[d] + 1, pos[d] + k)]]
    BY <1>2, <1>9, <1>10
  <1>12. File!Deliver(d)
    BY <1>1, <1>5, <1>6, <1>10, <1>11 DEF File!Deliver, File!Reading, Calls
  <1>13. CASE Spoilt'
    BY <1>13, SpoiltStep
  <1>14. CASE ~Spoilt'
    BY <1>12, <1>14 DEF ByteStep, File!Next
  <1>15. QED
    BY <1>13, <1>14

LEMMA MapWriteGrow ==
  ASSUME FileDataAssumption, NEW t, Live(t), NEW d \in Fds, write_grow(d)
  PROVE  ByteStep
  <1> DEFINE c == call[d]
             s == inode.size
             k == c.chunk
             r == c.left
             w == WG_call(d)
             v == [op |-> "write", left |-> SubSeq(r, k + 1, Len(r))]
  <1>1. /\ IsWrite(c) /\ k \in Nat /\ 1 <= k /\ k <= Len(r) /\ inode'.size = s + k
        /\ pos' = [pos EXCEPT ![d] = s + k - 1]
        /\ call' = [call EXCEPT ![d] = w] /\ IsWrite(w) /\ UNCHANGED <<dinode, disk>>
    BY GrowStep
  <1>2. Content' = Content \o SubSeq(r, 1, k)
    BY BytesAppended
  <1>3. FileTypes /\ s \in Nat
    BY LiveFacts DEF Live
  <1>4. Len(Content') = s + k
    <2>1. Content' = Cont(inode', disk')
      BY ContentIs
    <2> DEFINE z == s + k
    <2>2. z \in Nat /\ inode'.size = z
      BY <1>1, <1>3
    <2> HIDE DEF z
    <2>3. Len(Cont(inode', disk')) = z
      BY <2>2 DEF Cont
    <2>4. QED
      BY <2>1, <2>3 DEF z
  <1>5. w.left = SubSeq(r, k + 1, Len(r))
    BY DEF WG_call
  <1>6. Progress(w) = v
    BY <1>1, <1>5, Shown
  <1>7. Calls[d] = [op |-> "write", left |-> r]
    BY <1>1, Shown DEF Calls
  <1>8. Len(r) \in Nat
    BY <1>1 DEF IsWrite
  <1>9. pos' = [pos EXCEPT ![d] = Len(Content') - 1]
    <2>1. (s + k) - 1 = s + k - 1
      BY <1>1, <1>3
    <2>2. QED
      BY <1>1, <1>4, <2>1
  <1> HIDE DEF c, k, r, w
  <1>10. Calls' = [Calls EXCEPT ![d] = v]
    BY <1>1, <1>3, <1>6, CallShown
  <1>11. k \in 1..Len(r) /\ Calls[d].op = "write" /\ Calls[d].left = r
    BY <1>1, <1>7, <1>8
  <1>12. File!Append1(d)
    BY <1>1, <1>2, <1>9, <1>10, <1>11 DEF File!Append1, File!Writing, Calls
  <1>13. CASE Spoilt'
    BY <1>13, SpoiltStep
  <1>14. CASE ~Spoilt'
    BY <1>12, <1>14 DEF ByteStep, File!Next
  <1>15. QED
    BY <1>13, <1>14

LEMMA MapFileWrite ==
  ASSUME FileDataAssumption, NEW t, Live(t), NEW d \in Fds, NEW n \in Counts, file_write(d, Bytes(n))
  PROVE  ByteStep
  <1>1. CASE panic' # "no"
    <2>1. UNCHANGED <<inode, dinode, disk, pos, call, sync, mode>>
      BY <1>1 DEF file_write
    <2>2. QED
      BY <2>1, MapStop
  <1>2. CASE panic' = "no" /\ ~Spoilt'
    <2> DEFINE src == Bytes(n)
               s == inode.size
               c == FW_call(src)
               v == [op |-> "write", left |-> src]
    <2>1. /\ Ready(d) /\ n \in Nat /\ s + n < MaxSize /\ src \in Seq(Nat) /\ Len(src) = n
          /\ IsWrite(c) /\ call' = [call EXCEPT ![d] = c]
          /\ pos' = [pos EXCEPT ![d] = (s - 1) % Word] /\ dinode' = dinode
      BY <1>2, WriteBegins
    <2>2. FileTypes /\ s \in Nat /\ Len(Content) = s
      BY LiveFacts, ContentLen DEF Live
    <2>3. Content' = Content
      BY <1>2, BytesKeptBegin
    <2>4. c.left = src
      BY DEF FW_call
    <2>5. Progress(c) = v
      BY <2>1, <2>4, Shown
    <2>6. Calls[d] = NoCall
      BY <2>1, Shown DEF Ready, Calls
    <2> HIDE DEF c, src
    <2>7. Calls' = [Calls EXCEPT ![d] = v] /\ Calls'[d] = v
      BY <2>1, <2>2, <2>5, CallShown
    <2>8. Calls'[d].op = "write" /\ Calls'[d].left = src
      BY <2>7
    <2>9. Len(Content) + Len(Calls'[d].left) < BlockSize * MaxBlocks
      BY <2>1, <2>2, <2>8 DEF MaxSize
    <2>10. File!Begin(d, File!Writing(Calls'[d].left), (Len(Content) - 1) % Word)
      BY <2>1, <2>2, <2>3, <2>6, <2>7, <2>8 DEF File!Begin, File!Writing, File!NoCall, NoCall, Calls
    <2>11. File!StartWrite(d)
      BY <2>8, <2>9, <2>10 DEF File!StartWrite, Calls
    <2>12. QED
      BY <1>2, <2>11 DEF ByteStep, File!Next
  <1>3. QED
    BY <1>1, <1>2, SpoiltStep

LEMMA MapNext ==
  ASSUME FileDataAssumption, FileInv, [Next]_vars
  PROVE  ByteStep
  <1>1. CASE UNCHANGED vars
    <2>1. UNCHANGED <<inode, dinode, disk, bits, sync, mode, pos, call>>
      BY <1>1 DEF vars
    <2>2. Content' = Content /\ Calls' = Calls
      BY <2>1, ContentIs DEF Calls
    <2>3. Spoilt' <=> Spoilt
      BY <2>1 DEF Spoilt, TableLost, Writers
    <2>4. QED
      BY <2>1, <2>2, <2>3, SpoiltStep, QuietStep
  <1>2. CASE Next
    <2>1. PICK t : Live(t)
      BY <1>2, LiveExists DEF Next
    <2>2. ASSUME NEW d \in Fds, NEW n \in Counts, file_write(d, Bytes(n)) PROVE ByteStep
      BY <2>1, <2>2, MapFileWrite
    <2>3. ASSUME NEW d \in Fds, write_block(d) PROVE ByteStep
      BY <2>1, <2>3, MapWriteBlock
    <2>4. ASSUME NEW d \in Fds, write_grow(d) PROVE ByteStep
      BY <2>1, <2>4, MapWriteGrow
    <2>5. ASSUME NEW d \in Fds, write_end(d) PROVE ByteStep
      BY <2>1, <2>5, MapWriteEnd
    <2>6. ASSUME NEW d \in Fds, NEW n \in Counts, file_read(d, n) PROVE ByteStep
      BY <2>1, <2>6, MapFileRead
    <2>7. ASSUME NEW d \in Fds, read_block(d) PROVE ByteStep
      BY <2>1, <2>7, MapReadBlock
    <2>8. ASSUME NEW d \in Fds, read_end(d) PROVE ByteStep
      BY <2>1, <2>8, MapReadEnd
    <2>9. ASSUME NEW d \in Fds, NEW off \in Offsets, NEW wh \in {"set", "cur", "end"}, sys_lseek(d, off, wh)
          PROVE ByteStep
      BY <2>1, <2>9, MapSeek
    <2>10. ASSUME NEW d \in Fds, NEW flag \in {"r", "w"}, file_open(d, flag) PROVE ByteStep
      BY <2>1, <2>10, MapOpen
    <2>11. ASSUME NEW d \in Fds, file_close(d) PROVE ByteStep
      BY <2>1, <2>11, MapClose
    <2>12. ASSUME OtherFile PROVE ByteStep
      BY <2>1, <2>12, MapOtherFile
    <2>13. ASSUME sync_read PROVE ByteStep
      BY <2>1, <2>13, MapSyncRead
    <2>14. ASSUME sync_write PROVE ByteStep
      BY <2>1, <2>14, MapSyncWrite
    <2>15. ASSUME Restart PROVE ByteStep
      BY <2>1, <2>15, MapRestart
    <2>16. QED
      BY <1>2, <2>2, <2>3, <2>4, <2>5, <2>6, <2>7, <2>8, <2>9, <2>10, <2>11, <2>12, <2>13, <2>14, <2>15
         DEF Next
  <1>3. QED
    BY <1>1, <1>2

LEMMA MapInit ==
  ASSUME FileDataAssumption, Init
  PROVE  File!Init
  <1>1. /\ inode = Empty /\ dinode = Empty /\ bits = {} /\ sync = [at |-> "idle", inode |-> Empty]
        /\ pos = [d \in Fds |-> 0] /\ call = [d \in Fds |-> NoCall]
    BY DEF Init
  <1>2. Empty.size = 0 /\ Empty.sec = [i \in 0..Direct |-> 0]
    BY DEF Empty
  <1>3. Content = << >>
    <2>1. 1..0 = {}
      OBVIOUS
    <2>2. Content = [k \in {} |-> disk[At(inode, disk, Blk(k - 1))][Off(k - 1)]]
      BY <1>1, <1>2, <2>1, ContentIs DEF Cont
    <2>3. QED
      BY <2>2
  <1>4. [d \in Fds |-> Progress(call[d])] = [d \in Fds |-> NoCall]
    BY <1>1, Shown
  <1>5. ~Spoilt
    <2>1. ~TableLost
      <3>1. Direct \in 0..Direct
        BY Sizes
      <3>2. QED
        BY <1>1, <1>2, <3>1 DEF TableLost
    <2>2. Cardinality(Writers) <= 1
      <3>1. PICK d \in Fds, flag \in {"r", "w"} : mode = [x \in Fds |-> IF x = d THEN flag ELSE "closed"]
        BY DEF Init
      <3>2. Writers \subseteq {d}
        BY <3>1 DEF Writers
      <3>3. Cardinality({d}) = 1 /\ IsFiniteSet({d})
        BY FS_Singleton
      <3>4. QED
        BY <3>2, <3>3, FS_Subset
    <2>3. Cardinality(Writers) \in Nat
      BY Sizes, FS_Subset, FS_CardinalityType DEF Writers
    <2>4. QED
      BY <1>1, <2>1, <2>2, <2>3 DEF Spoilt
  <1>6. QED
    BY <1>1, <1>2, <1>3, <1>4, <1>5 DEF File!Init, File!NoCall, NoCall

\* file_write, file_read and sys_lseek keep a sequence of bytes, whatever the
\* calls of the other descriptors do while one sleeps in a disk access: a block
\* that is written but not yet part of the size is no byte of the file, a reader
\* gets the bytes at its position, and a loss of power at any moment leaves what
\* finished writes had written.
THEOREM FileIsByteFile == Spec => IsByteFile
  <1>1. Init => File!Init
    BY FileDataAssumption, MapInit
  <1>2. FileInv /\ [Next]_vars => [File!Next]_(File!vars)
    BY FileDataAssumption, MapNext DEF ByteStep
  <1>3. QED
    BY <1>1, <1>2, FileInvariant, PTL DEF Spec, IsByteFile, File!Spec
=============================================================================
