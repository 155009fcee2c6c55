---------------------------- MODULE MemoryProofs ----------------------------
(***************************************************************************)
(* Memory, for every number of processes, frames, pages and blocks.        *)
(*                                                                         *)
(* Pool, page tables and address bitmaps stay exact over any sequence of   *)
(* malloc, free, fork, exec and exit, and bitmap_scan finds the lowest     *)
(* free run of any bitmap.  The doubly linked free list of a process that  *)
(* no defect has hit (tainted) holds exactly the blocks of its arenas that *)
(* it has not been given, every arena counts them, and no assertion of the *)
(* allocator fails unless a process was hit.                               *)
(*                                                                         *)
(* The loops of the code are recursive functions.  What they compute is    *)
(* shown by induction, written as an argument about the least number of    *)
(* turns for which a claim fails (LeastNat).                               *)
(*                                                                         *)
(* The second part is about the heap.  It goes from the list to the        *)
(* system: a free list is a chain, and what list_push, list_pop and        *)
(* list_remove do to a chain; what page and table operations leave alone;  *)
(* the heap of one process (HeapOK); the invariant (HeapInv) and one lemma *)
(* for each system call; the theorems.                                     *)
(***************************************************************************)
EXTENDS Memory, FiniteSetTheorems, NaturalsInduction, WellFoundedInduction, TLAPS

\* A set of numbers that is not empty has a least element.
LEMMA LeastNat ==
  ASSUME NEW S \in SUBSET Nat, S # {}
  PROVE  \E n \in S : \A m \in S : n <= m
  <1>1. PICK n \in S : \A m \in S : ~(<<m, n>> \in OpToRel(<, Nat))
    BY NatLessThanWellFounded, WFMin
  <1>2. \A m \in S : ~(m < n)
    BY <1>1 DEF OpToRel
  <1>3. QED
    BY <1>2

\* Induction: a set of numbers without a least counterexample holds them all.
LEMMA Inductive ==
  ASSUME NEW T \in SUBSET Nat, 0 \in T, \A n \in T : n + 1 \in T
  PROVE  T = Nat
  <1>1. SUFFICES ASSUME Nat \ T # {} PROVE FALSE
    OBVIOUS
  <1>2. PICK n \in Nat \ T : \A m \in Nat \ T : n <= m
    BY <1>1, LeastNat
  <1>3. n # 0 /\ n - 1 \in Nat /\ n - 1 \in T
    BY <1>2
  <1>4. QED
    BY <1>2, <1>3

\* Min of a set of numbers is its least element.
LEMMA MinFacts ==
  ASSUME NEW S \in SUBSET Nat, S # {}
  PROVE  Min(S) \in S /\ \A y \in S : Min(S) <= y
  BY LeastNat DEF Min

-----------------------------------------------------------------------------
(* Memory: what the operations leave alone.                                *)

\* The shape of the record that the operations pass along.
Rec(m) ==
  m = [used |-> m.used, bits |-> m.bits, pte |-> m.pte, tlb |-> m.tlb,
       page |-> m.page, list |-> m.list, bad |-> m.bad]

\* Pool, address bitmaps and page tables are the same in x and in y.
SamePages(x, y) ==
  Rec(y) /\ y.used = x.used /\ y.bits = x.bits /\ y.pte = x.pte

\* What an assignment to one field leaves of the others.
LEMMA SetUsed ==
  ASSUME NEW m, Rec(m), NEW u, NEW y, y = [m EXCEPT !.used = u]
  PROVE  Rec(y) /\ y.used = u /\ y.bits = m.bits /\ y.pte = m.pte /\ y.bad = m.bad
  BY DEF Rec

Tables == [Procs -> [Pages -> Frames \cup {None}]]
BitMaps == [Procs -> SUBSET Int]

\* The pool's bitmap is exact and a frame has one place.
FramesOK(m) ==
  /\ Rec(m)
  /\ m.used \in SUBSET Frames /\ m.bits \in BitMaps /\ m.pte \in Tables
  /\ \A f \in Frames : f \in m.used <=> \E p \in Procs, v \in Pages : m.pte[p][v] = f
  /\ \A p, q \in Procs : \A v, w \in Pages :
       m.pte[p][v] = m.pte[q][w] /\ m.pte[p][v] # None => p = q /\ v = w

\* The pages of p that have a frame.
Present(m, p) == {v \in Pages : m.pte[p][v] # None}

\* So are the address bitmaps.
Exact(m) == FramesOK(m) /\ \A p \in Procs : m.bits[p] = Present(m, p)

\* y comes from x by an operation of the running process: it is exact, unless
\* the kernel stops, and nobody else's pages have changed.
Grown(x, y) ==
  /\ Rec(y)
  /\ y.bad = "no" => /\ Exact(y)
                     /\ \A q \in Procs \ {cur} : Present(y, q) = Present(x, q)

\* The invariant.
MemInv ==
  /\ cur \in Procs /\ state \in [Procs -> {"unused", "live", "zombie"}]
  /\ Rec(s) /\ s.bad = "no"
  /\ panic = "no" =>
       /\ Exact(s)
       /\ \A p \in Procs : state[p] # "live" => Present(s, p) = {}

LEMMA SameTrans ==
  ASSUME NEW x, NEW y, NEW z, SamePages(x, y), SamePages(y, z)
  PROVE  SamePages(x, z)
  BY DEF SamePages

LEMMA SameRefl ==
  ASSUME NEW x, Rec(x)
  PROVE  SamePages(x, x)
  BY DEF SamePages

\* Fail only records what happened.
LEMMA FailFacts ==
  ASSUME NEW m, Rec(m), NEW w, w # "no"
  PROVE  SamePages(m, Fail(m, w)) /\ Fail(m, w).bad # "no"
  BY DEF Rec, SamePages, Fail

\* Links lie in pages and in task_structs.
LEMMA SetLinkSame ==
  ASSUME NEW m, Rec(m), NEW a, NEW d, NEW x
  PROVE  SamePages(m, SetLink(m, a, d, x))
  <1>1. SamePages(m, Fail(m, "fault"))
    BY FailFacts
  <1>2. SamePages(m, [m EXCEPT !.list[a[1]][d] = x])
    BY DEF Rec, SamePages
  <1>3. SamePages(m, [m EXCEPT !.page[FrameAt(m, a[1])].link[a[2]][d] = x])
    BY DEF Rec, SamePages
  <1>4. QED
    BY <1>1, <1>2, <1>3 DEF SetLink

LEMMA AppendSame ==
  ASSUME NEW m, Rec(m), NEW p, NEW b
  PROVE  SamePages(m, list_append(m, p, b))
  <1> DEFINE m1 == SetLink(m, Follow(m, tail(p), "prev"), "next", b)
             m2 == SetLink(m1, b, "prev", Follow(m1, tail(p), "prev"))
             m3 == SetLink(m2, b, "next", tail(p))
             m4 == SetLink(m3, tail(p), "prev", b)
  <1>1. SamePages(m, m1) /\ Rec(m1)
    BY SetLinkSame DEF SamePages
  <1> HIDE DEF m1
  <1>2. SamePages(m1, m2) /\ Rec(m2)
    BY <1>1, SetLinkSame DEF SamePages
  <1> HIDE DEF m2
  <1>3. SamePages(m2, m3) /\ Rec(m3)
    BY <1>2, SetLinkSame DEF SamePages
  <1> HIDE DEF m3
  <1>4. SamePages(m3, m4)
    BY <1>3, SetLinkSame
  <1> HIDE DEF m4
  <1>5. SamePages(m, m4)
    BY <1>1, <1>2, <1>3, <1>4 DEF SamePages
  <1>6. QED
    BY <1>5 DEF list_append, m1, m2, m3, m4

LEMMA RemoveSame ==
  ASSUME NEW m, Rec(m), NEW b
  PROVE  SamePages(m, list_remove(m, b))
  <1> DEFINE m1 == SetLink(m, Follow(m, b, "prev"), "next", Follow(m, b, "next"))
             m2 == SetLink(m1, Follow(m1, b, "next"), "prev", Follow(m1, b, "prev"))
  <1>1. SamePages(m, m1) /\ Rec(m1)
    BY SetLinkSame DEF SamePages
  <1> HIDE DEF m1
  <1>2. SamePages(m1, m2)
    BY <1>1, SetLinkSame
  <1> HIDE DEF m2
  <1>3. SamePages(m, m2)
    BY <1>1, <1>2, SameTrans
  <1>4. QED
    BY <1>3 DEF list_remove, m1, m2

-----------------------------------------------------------------------------
(* Pages.                                                                  *)

LEMMA Sizes ==
  ASSUME MemoryAssumption
  PROVE  /\ NFrames \in Nat /\ NFrames > 0 /\ Frames = 0..(NFrames - 1)
         /\ NPages \in Nat /\ NPages > NFrames /\ Pages = 0..(NPages - 1)
         /\ None \notin Frames /\ Init1 \in Procs
         /\ MaxLarge \in Nat /\ MaxSegment \in Nat /\ Blocks \in Nat
         /\ ByteBits \in Nat \ {0} /\ NBytes \in Nat \ {0} /\ NBits = ByteBits * NBytes
  BY DEF MemoryAssumption, Frames, NPages, Pages, NBits

\* A frame that palloc takes was free.
LEMMA FreeFrame ==
  ASSUME MemoryAssumption, NEW U \in SUBSET Frames, U # Frames
  PROVE  Min(Frames \ U) \in Frames \ U
  <1>0. \A f \in Frames : f \in Nat
    BY Sizes
  <1>1. Frames \ U \in SUBSET Nat /\ Frames \ U # {}
    BY <1>0
  <1>2. QED
    BY <1>1, MinFacts

\* A machine that has stopped stays so, whatever is mapped.
LEMMA MapStopped ==
  ASSUME NEW m, Rec(m), NEW p, NEW v
  PROVE  Rec(MapPage(m, p, v)) /\ (m.bad # "no" => MapPage(m, p, v).bad # "no")
  <1> DEFINE m1 == palloc(m)
             m2 == page_table_add(m1, p, v, Min(Frames \ m.used))
  <1>1. Rec(m1) /\ (m.bad # "no" => m1.bad # "no")
    <2>1. Rec(Fail(m, "full")) /\ Fail(m, "full").bad # "no"
      BY FailFacts DEF SamePages
    <2>2. /\ Rec([m EXCEPT !.used = @ \cup {Min(Frames \ @)}])
          /\ [m EXCEPT !.used = @ \cup {Min(Frames \ @)}].bad = m.bad
      BY DEF Rec
    <2>3. QED
      BY <2>1, <2>2 DEF palloc
  <1> HIDE DEF m1
  <1>2. Rec(m2)
    <2>1. Rec(Fail(m1, "assert"))
      BY <1>1, FailFacts DEF SamePages
    <2>2. Rec([m1 EXCEPT !.pte[p][v] = Min(Frames \ m.used)])
      BY <1>1 DEF Rec
    <2>3. QED
      BY <2>1, <2>2 DEF page_table_add
  <1> HIDE DEF m2
  <1>3. MapPage(m, p, v) = IF m1.bad # "no" THEN m1 ELSE m2
    BY DEF MapPage, m1, m2
  <1>4. QED
    BY <1>1, <1>2, <1>3

\* A page that is mapped gets a frame of its own.
LEMMA MapFacts ==
  ASSUME MemoryAssumption, NEW m, FramesOK(m), m.bad = "no",
         NEW p \in Procs, NEW v, MapPage(m, p, v).bad = "no"
  PROVE  /\ v \in Pages /\ FramesOK(MapPage(m, p, v))
         /\ MapPage(m, p, v).bits = m.bits
         /\ Present(MapPage(m, p, v), p) = Present(m, p) \cup {v}
         /\ \A q \in Procs \ {p} : Present(MapPage(m, p, v), q) = Present(m, q)
  <1> DEFINE f == Min(Frames \ m.used)
             m1 == [m EXCEPT !.used = m.used \cup {f}]
             m2 == [m1 EXCEPT !.pte[p][v] = f]
  <1>0. /\ Rec(m) /\ m.used \in SUBSET Frames /\ m.bits \in BitMaps /\ m.pte \in Tables
    BY DEF FramesOK
  <1>1. m.used # Frames /\ palloc(m) = m1
    <2>1. CASE m.used = Frames
      <3>1. palloc(m) = Fail(m, "full") /\ palloc(m).bad # "no"
        BY <2>1, <1>0, FailFacts DEF palloc
      <3>2. QED
        BY <3>1 DEF MapPage
    <2>2. CASE m.used # Frames
      BY <2>2 DEF palloc
    <2>3. QED
      BY <2>1, <2>2
  <1>2. f \in Frames /\ f \notin m.used /\ f # None
    <2>1. f \in Frames \ m.used
      BY <1>0, <1>1, FreeFrame
    <2> HIDE DEF f
    <2>2. QED
      BY <2>1, Sizes
  <1> HIDE DEF f
  <1>3. /\ Rec(m1) /\ m1.bad = "no" /\ m1.pte = m.pte /\ m1.bits = m.bits
        /\ m1.used = m.used \cup {f}
    <2> DEFINE u == m.used \cup {f}
    <2> HIDE DEF u
    <2>1. m1 = [m EXCEPT !.used = u]
      BY DEF u
    <2> HIDE DEF m1
    <2>2. QED
      BY <1>0, <2>1, SetUsed DEF u
  <1> HIDE DEF m1
  <1>4. MapPage(m, p, v) = page_table_add(m1, p, v, f)
    BY <1>1, <1>3 DEF MapPage, f
  <1>5. v \in Pages /\ m.pte[p][v] = None /\ MapPage(m, p, v) = m2
    <2>1. CASE v \notin Pages \/ m1.pte[p][v] # None
      <3>1. MapPage(m, p, v) = Fail(m1, "assert")
        BY <2>1, <1>4 DEF page_table_add
      <3>2. QED
        BY <3>1, <1>3, FailFacts
    <2>2. CASE ~(v \notin Pages \/ m1.pte[p][v] # None)
      BY <2>2, <1>3, <1>4 DEF page_table_add
    <2>3. QED
      BY <2>1, <2>2
  <1>6. /\ Rec(m2) /\ m2.used = m.used \cup {f} /\ m2.bits = m.bits
        /\ m2.pte = [m.pte EXCEPT ![p] = [m.pte[p] EXCEPT ![v] = f]]
    BY <1>3 DEF Rec
  <1> HIDE DEF m2
  <1>7. /\ m.pte[p] \in [Pages -> Frames \cup {None}]
        /\ m2.pte[p] = [m.pte[p] EXCEPT ![v] = f]
        /\ \A q \in Procs \ {p} : m2.pte[q] = m.pte[q]
        /\ m2.pte \in Tables
    BY <1>0, <1>2, <1>5, <1>6 DEF Tables
  <1>8. \A q \in Procs, w \in Pages : m2.pte[q][w] = IF q = p /\ w = v THEN f ELSE m.pte[q][w]
    BY <1>5, <1>7
  <1>9. FramesOK(m2)
    <2>1. m2.used \in SUBSET Frames /\ m2.bits \in BitMaps
      BY <1>0, <1>2, <1>6
    <2>2. ASSUME NEW g \in Frames
          PROVE  g \in m2.used <=> \E q \in Procs, w \in Pages : m2.pte[q][w] = g
      <3>1. CASE g = f
        BY <3>1, <1>5, <1>6, <1>8
      <3>2. CASE g # f
        <4>1. g \in m2.used <=> \E q \in Procs, w \in Pages : m.pte[q][w] = g
          BY <3>2, <1>6 DEF FramesOK
        <4>2. g # None
          BY Sizes
        <4>3. QED
          BY <4>1, <4>2, <3>2, <1>5, <1>8
      <3>3. QED
        BY <3>1, <3>2
    <2>3. ASSUME NEW q \in Procs, NEW r \in Procs, NEW w \in Pages, NEW x \in Pages,
                 m2.pte[q][w] = m2.pte[r][x], m2.pte[q][w] # None
          PROVE  q = r /\ w = x
      <3>1. \A h \in Procs, y \in Pages : m.pte[h][y] # f
        BY <1>2 DEF FramesOK
      <3>2. QED
        BY <2>3, <3>1, <1>8 DEF FramesOK
    <2>4. QED
      BY <1>6, <1>7, <2>1, <2>2, <2>3 DEF FramesOK
  <1>10. Present(m2, p) = Present(m, p) \cup {v}
    BY <1>2, <1>5, <1>8 DEF Present
  <1>11. \A q \in Procs \ {p} : Present(m2, q) = Present(m, q)
    BY <1>7 DEF Present
  <1>12. QED
    BY <1>5, <1>6, <1>9, <1>10, <1>11

-----------------------------------------------------------------------------
(* malloc_page and mfree_page.                                             *)

\* f is what the loop of malloc_page computes, turn by turn, from a.
IsMapLoop(f, a, v, n) ==
  f = [k \in 0..n |-> IF k = 0 THEN a ELSE MapPage(f[k - 1], cur, v + k - 1)]

\* The loop is defined for every number of turns.
LEMMA MapLoopExists ==
  ASSUME NEW a, NEW v, NEW n \in Nat
  PROVE  \E f : IsMapLoop(f, a, v, n)
  <1> DEFINE T == {i \in Nat : \E f : IsMapLoop(f, a, v, i)}
  <1>1. 0 \in T
    <2>1. IsMapLoop([k \in 0..0 |-> a], a, v, 0)
      BY DEF IsMapLoop
    <2>2. QED
      BY <2>1
  <1>2. ASSUME NEW i \in T PROVE i + 1 \in T
    <2>1. PICK f : IsMapLoop(f, a, v, i)
      OBVIOUS
    <2> DEFINE g == [k \in 0..(i + 1) |-> IF k = 0 THEN a ELSE MapPage(f[k - 1], cur, v + k - 1)]
    <2>2. ASSUME NEW k \in 0..(i + 1), k # 0 PROVE g[k - 1] = f[k - 1]
      <3>1. k - 1 \in 0..i /\ k - 1 \in 0..(i + 1)
        BY <2>2
      <3>2. QED
        BY <3>1, <2>1 DEF IsMapLoop
    <2>3. IsMapLoop(g, a, v, i + 1)
      BY <2>2 DEF IsMapLoop
    <2> HIDE DEF g
    <2>4. QED
      BY <2>3
  <1>3. T = Nat
    BY <1>1, <1>2, Inductive
  <1>4. QED
    BY <1>3

LEMMA RangeGrows ==
  ASSUME NEW v \in Nat, NEW k \in Nat
  PROVE  v..(v + (k + 1) - 1) = (v..(v + k - 1)) \cup {v + k}
  OBVIOUS

\* malloc_page gives the running process n new pages, all or none.
LEMMA MallocPageFacts ==
  ASSUME MemoryAssumption, cur \in Procs, NEW m, Exact(m), m.bad = "no",
         NEW v \in Nat, NEW n \in Nat
  PROVE  Grown(m, malloc_page(m, v, n))
  <1> DEFINE a == vaddr_get(m, v, n)
             step == CHOOSE f : IsMapLoop(f, a, v, n)
             y == step[n]
             Inv(k) == /\ Rec(step[k])
                       /\ step[k].bad = "no" =>
                            /\ FramesOK(step[k]) /\ step[k].bits = a.bits
                            /\ Present(step[k], cur) = Present(m, cur) \cup (v..(v + k - 1))
                            /\ \A q \in Procs \ {cur} : Present(step[k], q) = Present(m, q)
             T == {k \in Nat : k > n \/ Inv(k)}
  <1>0. /\ FramesOK(m) /\ Rec(m) /\ m.bits \in BitMaps
        /\ m.bits[cur] = Present(m, cur) /\ v..(v + n - 1) \in SUBSET Int
    BY DEF Exact, FramesOK
  <1>1. /\ Rec(a) /\ a.used = m.used /\ a.pte = m.pte
        /\ a.bits = [m.bits EXCEPT ![cur] = @ \cup (v..(v + n - 1))]
    <2> DEFINE b == [m.bits EXCEPT ![cur] = @ \cup (v..(v + n - 1))]
               m1 == [m EXCEPT !.bits[cur] = @ \cup (v..(v + n - 1))]
    <2>0. m1 = [m EXCEPT !.bits = b]
      OBVIOUS
    <2> HIDE DEF b, m1
    <2>1. Rec(m1) /\ m1.used = m.used /\ m1.pte = m.pte /\ m1.bits = b
      BY <1>0, <2>0 DEF Rec
    <2>2. SamePages(m1, Fail(m1, "assert"))
      BY <2>1, FailFacts
    <2>3. a = IF v < NPages - 1 THEN m1 ELSE Fail(m1, "assert")
      BY DEF vaddr_get, m1
    <2> HIDE DEF a
    <2>4. QED
      BY <2>1, <2>2, <2>3 DEF SamePages, b
  <1> HIDE DEF a
  <1>2. IsMapLoop(step, a, v, n)
    BY MapLoopExists
  <1>3. malloc_page(m, v, n) = IF y.bad # "no" THEN y ELSE Cleared(y, v..(v + n - 1))
    BY DEF malloc_page, IsMapLoop, a
  <1> HIDE DEF step
  <1>4. step[0] = a /\ \A k \in 1..n : step[k] = MapPage(step[k - 1], cur, v + k - 1)
    BY <1>2 DEF IsMapLoop
  <1>5. 0 \in T
    <2>1. FramesOK(a)
      <3>1. a.bits \in BitMaps
        BY <1>0, <1>1 DEF BitMaps
      <3>2. QED
        BY <1>0, <1>1, <3>1 DEF FramesOK
    <2>2. \A q \in Procs : Present(a, q) = Present(m, q)
      BY <1>1 DEF Present
    <2>3. v..(v + 0 - 1) = {}
      OBVIOUS
    <2>4. Inv(0)
      BY <1>1, <1>4, <2>1, <2>2, <2>3
    <2>5. QED
      BY <2>4
  <1>6. ASSUME NEW k \in T PROVE k + 1 \in T
    <2>1. SUFFICES ASSUME k + 1 <= n PROVE Inv(k + 1)
      OBVIOUS
    <2>2. k \in Nat /\ Inv(k) /\ k + 1 \in 1..n
      BY <2>1
    <2> DEFINE x == step[k]
               z == step[k + 1]
    <2>3. z = MapPage(x, cur, v + k)
      BY <1>4, <2>2
    <2>4. Rec(z) /\ (x.bad # "no" => z.bad # "no")
      BY <2>2, <2>3, MapStopped
    <2>5. ASSUME z.bad = "no"
          PROVE  /\ FramesOK(z) /\ z.bits = a.bits
                 /\ Present(z, cur) = Present(m, cur) \cup (v..(v + (k + 1) - 1))
                 /\ \A q \in Procs \ {cur} : Present(z, q) = Present(m, q)
      <3>1. /\ x.bad = "no" /\ FramesOK(x) /\ x.bits = a.bits
            /\ Present(x, cur) = Present(m, cur) \cup (v..(v + k - 1))
            /\ \A q \in Procs \ {cur} : Present(x, q) = Present(m, q)
        BY <2>2, <2>4, <2>5
      <3>2. /\ FramesOK(z) /\ z.bits = x.bits
            /\ Present(z, cur) = Present(x, cur) \cup {v + k}
            /\ \A q \in Procs \ {cur} : Present(z, q) = Present(x, q)
        <4> DEFINE w == v + k
        <4> HIDE DEF x, z, w
        <4>1. z = MapPage(x, cur, w)
          BY <2>3 DEF w
        <4>2. /\ FramesOK(z) /\ z.bits = x.bits
              /\ Present(z, cur) = Present(x, cur) \cup {w}
              /\ \A q \in Procs \ {cur} : Present(z, q) = Present(x, q)
          BY <2>5, <3>1, <4>1, MapFacts
        <4>3. QED
          BY <4>2 DEF w
      <3>3. v..(v + (k + 1) - 1) = (v..(v + k - 1)) \cup {v + k}
        BY <2>2, RangeGrows
      <3> HIDE DEF x, z
      <3>4. QED
        BY <3>1, <3>2, <3>3
    <2>6. QED
      BY <2>4, <2>5
  <1>7. Inv(n)
    <2> HIDE DEF Inv
    <2>1. T \in SUBSET Nat
      OBVIOUS
    <2> HIDE DEF T
    <2>2. n \in T
      BY <1>5, <1>6, <2>1, Inductive
    <2>3. QED
      BY <2>2 DEF T
  <1>8. SamePages(y, Cleared(y, v..(v + n - 1))) /\ Cleared(y, v..(v + n - 1)).bad = y.bad
    BY <1>7 DEF Cleared, Rec, SamePages
  <1>9. QED
    <2> DEFINE z == malloc_page(m, v, n)
    <2>1. SamePages(y, z) /\ z.bad = y.bad
      BY <1>3, <1>7, <1>8, SameRefl
    <2> HIDE DEF z
    <2>2. ASSUME z.bad = "no" PROVE Exact(z) /\ \A q \in Procs \ {cur} : Present(z, q) = Present(m, q)
      <3>1. \A q \in Procs : Present(z, q) = Present(y, q)
        BY <2>1 DEF SamePages, Present
      <3>2. FramesOK(z)
        BY <1>7, <2>1, <2>2 DEF SamePages, FramesOK
      <3>3. ASSUME NEW q \in Procs PROVE z.bits[q] = Present(z, q)
        <4>1. z.bits = a.bits /\ m.bits[q] = Present(m, q)
          BY <1>7, <2>1, <2>2 DEF SamePages, Exact
        <4>2. CASE q = cur
          BY <4>1, <4>2, <1>0, <1>1, <1>7, <2>1, <2>2, <3>1 DEF BitMaps
        <4>3. CASE q # cur
          BY <4>1, <4>3, <1>0, <1>1, <1>7, <2>1, <2>2, <3>1 DEF BitMaps
        <4>4. QED
          BY <4>2, <4>3
      <3>4. QED
        BY <1>7, <2>1, <2>2, <3>1, <3>2, <3>3 DEF Exact
    <2>3. QED
      BY <2>1, <2>2 DEF Grown, SamePages, z

\* mfree_page takes pages and frames back together.
LEMMA MfreePageFacts ==
  ASSUME MemoryAssumption, cur \in Procs, NEW m, Exact(m), NEW v, NEW n
  PROVE  Grown(m, mfree_page(m, v, n))
  <1> DEFINE gone == v..(v + n - 1)
             U == m.used \ {m.pte[cur][w] : w \in gone}
             Q == [w \in Pages |-> IF w \in gone THEN None ELSE m.pte[cur][w]]
             L == [w \in Pages |-> IF w \in gone THEN FrameAt(m, w) ELSE m.tlb[w]]
             B == m.bits[cur] \ gone
             y == [m EXCEPT !.used = U, !.pte[cur] = Q, !.tlb = L, !.bits[cur] = B]
  <1>0. /\ FramesOK(m) /\ Rec(m) /\ m.bits \in BitMaps /\ m.pte \in Tables
        /\ m.used \in SUBSET Frames
    BY DEF Exact, FramesOK
  <1>1. CASE n = 0 \/ \E w \in gone : w \notin Pages \/ m.pte[cur][w] = None
    <2> DEFINE why == IF n = 0 THEN "assert" ELSE "fault"
    <2>1. mfree_page(m, v, n) = Fail(m, why)
      BY <1>1 DEF mfree_page
    <2>2. why # "no"
      OBVIOUS
    <2> HIDE DEF why
    <2>3. QED
      BY <2>1, <2>2, <1>0, FailFacts DEF Grown, SamePages
  <1>2. CASE ~(n = 0 \/ \E w \in gone : w \notin Pages \/ m.pte[cur][w] = None)
    <2>1. mfree_page(m, v, n) = y
      BY <1>2 DEF mfree_page, VaddrLeft
    <2>2. \A w \in gone : w \in Pages /\ m.pte[cur][w] # None
      BY <1>2
    <2> HIDE DEF gone
    <2>3. /\ Rec(y) /\ y.used = U /\ y.pte = [m.pte EXCEPT ![cur] = Q]
          /\ y.bits = [m.bits EXCEPT ![cur] = B]
      <3> HIDE DEF U, Q, L, B
      <3> DEFINE m1 == [m EXCEPT !.used = U]
                 m2 == [m1 EXCEPT !.pte[cur] = Q]
                 m3 == [m2 EXCEPT !.tlb = L]
                 m4 == [m3 EXCEPT !.bits[cur] = B]
      <3>1. y = m4
        OBVIOUS
      <3> HIDE DEF y
      <3>2. Rec(m1) /\ m1.used = U /\ m1.pte = m.pte /\ m1.bits = m.bits
        BY <1>0 DEF Rec
      <3> HIDE DEF m1
      <3>3. /\ Rec(m2) /\ m2.used = U /\ m2.pte = [m.pte EXCEPT ![cur] = Q] /\ m2.bits = m.bits
        BY <3>2 DEF Rec
      <3> HIDE DEF m2
      <3>4. /\ Rec(m3) /\ m3.used = U /\ m3.pte = [m.pte EXCEPT ![cur] = Q] /\ m3.bits = m.bits
        BY <3>3 DEF Rec
      <3> HIDE DEF m3
      <3>5. /\ Rec(m4) /\ m4.used = U /\ m4.pte = [m.pte EXCEPT ![cur] = Q]
            /\ m4.bits = [m.bits EXCEPT ![cur] = B]
        BY <3>4 DEF Rec
      <3> HIDE DEF m4
      <3>6. QED
        BY <3>1, <3>5
    <2> HIDE DEF y
    <2>4. Q \in [Pages -> Frames \cup {None}]
      BY <1>0 DEF Tables
    <2>5. y.pte \in Tables /\ y.bits \in BitMaps /\ y.used \in SUBSET Frames
      <3>1. m.bits[cur] \in SUBSET Int
        BY <1>0 DEF BitMaps
      <3>2. y.pte \in Tables
        <4> HIDE DEF Q
        <4>1. QED
          BY <1>0, <2>3, <2>4 DEF Tables
      <3>3. B \in SUBSET Int
        BY <3>1
      <3>4. y.bits \in BitMaps
        <4> HIDE DEF B
        <4>1. QED
          BY <1>0, <2>3, <3>3 DEF BitMaps
      <3>5. QED
        BY <1>0, <2>3, <3>2, <3>4
    <2>6. \A q \in Procs, w \in Pages :
            y.pte[q][w] = IF q = cur /\ w \in gone THEN None ELSE m.pte[q][w]
      BY <1>0, <2>3 DEF Tables
    <2>7. ASSUME NEW f \in Frames
          PROVE  f \in y.used <=> \E q \in Procs, w \in Pages : y.pte[q][w] = f
      <3>0. f # None
        BY Sizes
      <3>1. ASSUME f \in y.used PROVE \E q \in Procs, w \in Pages : y.pte[q][w] = f
        <4>1. f \in m.used /\ \A w \in gone : m.pte[cur][w] # f
          BY <2>3, <3>1
        <4>2. PICK q \in Procs, w \in Pages : m.pte[q][w] = f
          BY <4>1, <1>0 DEF FramesOK
        <4>3. QED
          BY <4>1, <4>2, <2>6
      <3>2. ASSUME NEW q \in Procs, NEW w \in Pages, y.pte[q][w] = f PROVE f \in y.used
        <4>1. m.pte[q][w] = f /\ ~(q = cur /\ w \in gone)
          BY <3>0, <3>2, <2>6
        <4>2. f \in m.used
          BY <4>1, <1>0 DEF FramesOK
        <4>3. \A x \in gone : m.pte[cur][x] # f
          BY <4>1, <3>0, <2>2, <1>0 DEF FramesOK
        <4>4. QED
          BY <4>2, <4>3, <2>3
      <3>3. QED
        BY <3>1, <3>2
    <2>8. \A p, q \in Procs : \A u, w \in Pages :
            y.pte[p][u] = y.pte[q][w] /\ y.pte[p][u] # None => p = q /\ u = w
      BY <2>6, <1>0 DEF FramesOK
    <2>9. FramesOK(y)
      BY <2>3, <2>5, <2>7, <2>8 DEF FramesOK
    <2>10. \A q \in Procs \ {cur} : Present(y, q) = Present(m, q)
      BY <2>6 DEF Present
    <2>11. Present(y, cur) = Present(m, cur) \ gone
      BY <2>6 DEF Present
    <2>12. ASSUME NEW q \in Procs PROVE y.bits[q] = Present(y, q)
      <3>1. m.bits[q] = Present(m, q) /\ m.bits[cur] = Present(m, cur)
        BY DEF Exact
      <3>2. CASE q = cur
        BY <3>1, <3>2, <1>0, <2>3, <2>11 DEF BitMaps
      <3>3. CASE q # cur
        BY <3>1, <3>3, <1>0, <2>3, <2>10 DEF BitMaps
      <3>4. QED
        BY <3>2, <3>3
    <2>13. QED
      BY <2>1, <2>3, <2>9, <2>10, <2>12 DEF Grown, Exact
  <1>3. QED
    BY <1>1, <1>2

-----------------------------------------------------------------------------
(* sys_malloc and sys_free.                                                *)

\* What leaves pool, bitmaps and tables alone leaves them exact.
LEMMA SameGrown ==
  ASSUME NEW x, NEW y, NEW z, Grown(x, y), y.bad = "no", SamePages(y, z)
  PROVE  Grown(x, z)
  <1>1. \A q \in Procs : Present(z, q) = Present(y, q)
    BY DEF SamePages, Present
  <1>2. FramesOK(z)
    BY DEF SamePages, Grown, Exact, FramesOK
  <1>3. \A q \in Procs : z.bits[q] = Present(z, q)
    BY <1>1 DEF SamePages, Grown, Exact
  <1>4. QED
    BY <1>1, <1>2, <1>3 DEF Grown, Exact, SamePages

LEMMA GrownRefl ==
  ASSUME NEW x, Exact(x)
  PROVE  Grown(x, x)
  BY DEF Grown, Exact, FramesOK

\* A list that is walked, a block that is taken: no page changes.
LEMMA AddBlockSame ==
  ASSUME NEW m, Rec(m), NEW b
  PROVE  SamePages(m, AddBlock(m, b))
  BY FailFacts, AppendSame DEF AddBlock

LEMMA DropBlockSame ==
  ASSUME NEW m, Rec(m), NEW p, NEW b
  PROVE  SamePages(m, DropBlock(m, p, b))
  BY FailFacts, RemoveSame, SameRefl DEF DropBlock

LEMMA TakeBlockSame ==
  ASSUME NEW m, Rec(m)
  PROVE  SamePages(m, TakeBlock(m))
  <1> DEFINE b == Follow(m, head(cur), "next")
             m1 == list_remove(m, b)
             f == FrameAt(m1, b[1])
             y == [m1 EXCEPT !.page[f].link[b[2]] = NoLink, !.page[f].cnt = Count(@)]
  <1>1. SamePages(m, m1) /\ Rec(m1)
    BY RemoveSame DEF SamePages
  <1>2. TakeBlock(m) = IF ~Mapped(m, b) \/ b[1] \in Procs \/ m1.bad # "no"
                       THEN Fail(m1, "fault") ELSE y
    BY DEF TakeBlock
  <1> HIDE DEF b, m1, f
  <1>3. SamePages(m1, Fail(m1, "fault"))
    BY <1>1, FailFacts
  <1>4. SamePages(m1, y)
    <2> DEFINE y1 == [m1 EXCEPT !.page[f].link[b[2]] = NoLink]
    <2>1. y = [y1 EXCEPT !.page[f].cnt = Count(@)]
      OBVIOUS
    <2>2. SamePages(m1, y1)
      BY <1>1 DEF Rec, SamePages
    <2> HIDE DEF y, y1
    <2>3. SamePages(y1, y)
      BY <2>1, <2>2 DEF Rec, SamePages
    <2>4. QED
      BY <2>2, <2>3, SameTrans
  <1> HIDE DEF y
  <1>5. QED
    BY <1>1, <1>2, <1>3, <1>4, SameTrans

\* f is what the loop of NewArena computes, turn by turn, from a.
IsAddLoop(f, a, v, n) ==
  f = [k \in 0..n |-> IF k = 0 THEN a ELSE AddBlock(f[k - 1], <<v, k>>)]

LEMMA AddLoopExists ==
  ASSUME NEW a, NEW v, NEW n \in Nat
  PROVE  \E f : IsAddLoop(f, a, v, n)
  <1> DEFINE T == {i \in Nat : \E f : IsAddLoop(f, a, v, i)}
  <1>1. 0 \in T
    <2>1. IsAddLoop([k \in 0..0 |-> a], a, v, 0)
      BY DEF IsAddLoop
    <2>2. QED
      BY <2>1
  <1>2. ASSUME NEW i \in T PROVE i + 1 \in T
    <2>1. PICK f : IsAddLoop(f, a, v, i)
      OBVIOUS
    <2> DEFINE g == [k \in 0..(i + 1) |-> IF k = 0 THEN a ELSE AddBlock(f[k - 1], <<v, k>>)]
    <2>2. ASSUME NEW k \in 0..(i + 1), k # 0 PROVE g[k - 1] = f[k - 1]
      <3>1. k - 1 \in 0..i /\ k - 1 \in 0..(i + 1)
        BY <2>2
      <3>2. QED
        BY <3>1, <2>1 DEF IsAddLoop
    <2>3. IsAddLoop(g, a, v, i + 1)
      BY <2>2 DEF IsAddLoop
    <2> HIDE DEF g
    <2>4. QED
      BY <2>3
  <1>3. T = Nat
    BY <1>1, <1>2, Inductive
  <1>4. QED
    BY <1>3

\* f is what the loop of DropArena computes, turn by turn, from a.
IsDropLoop(f, a, p, v, n) ==
  f = [k \in 0..n |-> IF k = 0 THEN a ELSE DropBlock(f[k - 1], p, <<v, k>>)]

LEMMA DropLoopExists ==
  ASSUME NEW a, NEW p, NEW v, NEW n \in Nat
  PROVE  \E f : IsDropLoop(f, a, p, v, n)
  <1> DEFINE T == {i \in Nat : \E f : IsDropLoop(f, a, p, v, i)}
  <1>1. 0 \in T
    <2>1. IsDropLoop([k \in 0..0 |-> a], a, p, v, 0)
      BY DEF IsDropLoop
    <2>2. QED
      BY <2>1
  <1>2. ASSUME NEW i \in T PROVE i + 1 \in T
    <2>1. PICK f : IsDropLoop(f, a, p, v, i)
      OBVIOUS
    <2> DEFINE g == [k \in 0..(i + 1) |-> IF k = 0 THEN a ELSE DropBlock(f[k - 1], p, <<v, k>>)]
    <2>2. ASSUME NEW k \in 0..(i + 1), k # 0 PROVE g[k - 1] = f[k - 1]
      <3>1. k - 1 \in 0..i /\ k - 1 \in 0..(i + 1)
        BY <2>2
      <3>2. QED
        BY <3>1, <2>1 DEF IsDropLoop
    <2>3. IsDropLoop(g, a, p, v, i + 1)
      BY <2>2 DEF IsDropLoop
    <2> HIDE DEF g
    <2>4. QED
      BY <2>3
  <1>3. T = Nat
    BY <1>1, <1>2, Inductive
  <1>4. QED
    BY <1>3

\* A new arena is a new page.
LEMMA NewArenaFacts ==
  ASSUME MemoryAssumption, cur \in Procs, NEW m, Exact(m), m.bad = "no", NEW v \in Nat
  PROVE  Grown(m, NewArena(m, v))
  <1> DEFINE m1 == malloc_page(m, v, 1)
             f == FrameAt(m1, v)
             m2 == [m1 EXCEPT !.page[f].desc = cur, !.page[f].cnt = Blocks]
             step == CHOOSE g : IsAddLoop(g, m2, v, Blocks)
  <1>1. Grown(m, m1)
    BY MallocPageFacts
  <1>2. NewArena(m, v) = IF m1.bad # "no" THEN m1 ELSE step[Blocks]
    BY DEF NewArena, IsAddLoop
  <1>3. IsAddLoop(step, m2, v, Blocks)
    BY Sizes, AddLoopExists
  <1> HIDE DEF m1, f, step
  <1>4. SamePages(m1, m2)
    <2> DEFINE x == [m1 EXCEPT !.page[f].desc = cur]
    <2>1. m2 = [x EXCEPT !.page[f].cnt = Blocks]
      OBVIOUS
    <2>2. SamePages(m1, x)
      BY <1>1 DEF Rec, SamePages, Grown
    <2> HIDE DEF m2, x
    <2>3. SamePages(x, m2)
      BY <2>1, <2>2 DEF Rec, SamePages
    <2>4. QED
      BY <2>2, <2>3, SameTrans
  <1> HIDE DEF m2
  <1>a. Rec(m2)
    BY <1>4 DEF SamePages
  <1>s. step[0] = m2 /\ \A k \in 1..Blocks : step[k] = AddBlock(step[k - 1], <<v, k>>)
    BY <1>3, Sizes DEF IsAddLoop
  <1> DEFINE T == {k \in Nat : k > Blocks \/ SamePages(m2, step[k])}
  <1>T0. 0 \in T
    BY <1>a, <1>s, SameRefl
  <1>T1. ASSUME NEW k \in T PROVE k + 1 \in T
    <2>1. SUFFICES ASSUME k + 1 <= Blocks PROVE SamePages(m2, step[k + 1])
      OBVIOUS
    <2>2. k \in Nat /\ k + 1 \in 1..Blocks /\ SamePages(m2, step[k])
      BY <2>1, Sizes
    <2>3. SamePages(step[k], step[k + 1])
      <3>1. step[k + 1] = AddBlock(step[k], <<v, k + 1>>)
        BY <1>s, <2>2
      <3>2. Rec(step[k])
        BY <2>2 DEF SamePages
      <3>3. QED
        BY <3>1, <3>2, AddBlockSame
    <2>4. QED
      BY <2>2, <2>3, SameTrans
  <1>T2. SamePages(m2, step[Blocks])
    <2>1. T \in SUBSET Nat /\ Blocks \in Nat
      BY Sizes
    <2> HIDE DEF T
    <2>2. Blocks \in T
      BY <1>T0, <1>T1, <2>1, Inductive
    <2>3. QED
      BY <2>1, <2>2 DEF T
  <1>5. ASSUME m1.bad = "no" PROVE Grown(m, step[Blocks])
    BY <1>1, <1>4, <1>5, <1>T2, SameTrans, SameGrown
  <1>6. QED
    BY <1>1, <1>2, <1>5

\* An arena that is given up is a page given back.
LEMMA DropArenaFacts ==
  ASSUME MemoryAssumption, cur \in Procs, NEW m, Exact(m), m.bad = "no", NEW p, NEW v
  PROVE  Grown(m, DropArena(m, p, v))
  <1> DEFINE step == CHOOSE g : IsDropLoop(g, m, p, v, Blocks)
             y == step[Blocks]
  <1>1. DropArena(m, p, v) = IF y.bad # "no" THEN y ELSE mfree_page(y, v, 1)
    BY DEF DropArena, IsDropLoop
  <1>2. IsDropLoop(step, m, p, v, Blocks)
    BY Sizes, DropLoopExists
  <1> HIDE DEF step
  <1>a. Rec(m)
    BY DEF Exact, FramesOK
  <1>s. step[0] = m /\ \A k \in 1..Blocks : step[k] = DropBlock(step[k - 1], p, <<v, k>>)
    BY <1>2, Sizes DEF IsDropLoop
  <1> DEFINE T == {k \in Nat : k > Blocks \/ SamePages(m, step[k])}
  <1>T0. 0 \in T
    BY <1>a, <1>s, SameRefl
  <1>T1. ASSUME NEW k \in T PROVE k + 1 \in T
    <2>1. SUFFICES ASSUME k + 1 <= Blocks PROVE SamePages(m, step[k + 1])
      OBVIOUS
    <2>2. k \in Nat /\ k + 1 \in 1..Blocks /\ SamePages(m, step[k])
      BY <2>1, Sizes
    <2>3. SamePages(step[k], step[k + 1])
      <3>1. step[k + 1] = DropBlock(step[k], p, <<v, k + 1>>)
        BY <1>s, <2>2
      <3>2. Rec(step[k])
        BY <2>2 DEF SamePages
      <3>3. QED
        BY <3>1, <3>2, DropBlockSame
    <2>4. QED
      BY <2>2, <2>3, SameTrans
  <1>T2. SamePages(m, step[Blocks])
    <2>1. T \in SUBSET Nat /\ Blocks \in Nat
      BY Sizes
    <2> HIDE DEF T
    <2>2. Blocks \in T
      BY <1>T0, <1>T1, <2>1, Inductive
    <2>3. QED
      BY <2>1, <2>2 DEF T
  <1> HIDE DEF y
  <1>3. Grown(m, y) /\ Exact(y) /\ Rec(y)
    <2>1. SamePages(m, y)
      BY <1>T2 DEF y
    <2>2. \A q \in Procs : Present(y, q) = Present(m, q)
      BY <2>1 DEF SamePages, Present
    <2>3. FramesOK(y)
      BY <2>1 DEF SamePages, Exact, FramesOK
    <2>4. Exact(y)
      BY <2>1, <2>2, <2>3 DEF SamePages, Exact
    <2>5. QED
      BY <2>1, <2>2, <2>4 DEF Grown, SamePages
  <1>4. ASSUME y.bad = "no" PROVE Grown(m, mfree_page(y, v, 1))
    <2>1. Grown(y, mfree_page(y, v, 1))
      BY <1>3, MfreePageFacts
    <2>2. \A q \in Procs \ {cur} : Present(y, q) = Present(m, q)
      BY <1>3, <1>4 DEF Grown
    <2>3. QED
      BY <2>1, <2>2 DEF Grown
  <1>5. QED
    BY <1>1, <1>3, <1>4

\* A block that is freed may give back the page of its arena.
LEMMA FreeBlockFacts ==
  ASSUME MemoryAssumption, cur \in Procs, NEW m, Exact(m), m.bad = "no", NEW b
  PROVE  Grown(m, FreeBlock(m, b))
  <1> DEFINE f == FrameAt(m, b[1])
             d == m.page[f].desc
             x == list_append(m, d, b)
             m1 == [x EXCEPT !.page[f].cnt = @ + 1]
  <1>1. FreeBlock(m, b) = IF state[d] = "unused" THEN Fail(m, "fault")
                          ELSE IF m1.bad = "no" /\ m1.page[f].cnt = Blocks THEN DropArena(m1, d, b[1])
                          ELSE m1
    BY DEF FreeBlock
  <1>2. Rec(m)
    BY DEF Exact, FramesOK
  <1> HIDE DEF f, d
  <1>3. SamePages(m, x)
    BY <1>2, AppendSame
  <1> HIDE DEF x
  <1>4. SamePages(m, m1)
    <2>1. SamePages(x, m1)
      BY <1>3 DEF Rec, SamePages
    <2>2. QED
      BY <1>3, <2>1, SameTrans
  <1> HIDE DEF m1
  <1>5. Grown(m, m1)
    BY <1>4, GrownRefl, SameGrown
  <1>6. ASSUME m1.bad = "no" PROVE Grown(m, DropArena(m1, d, b[1]))
    <2>1. Exact(m1) /\ \A q \in Procs \ {cur} : Present(m1, q) = Present(m, q)
      BY <1>5, <1>6 DEF Grown
    <2>2. Grown(m1, DropArena(m1, d, b[1]))
      BY <1>6, <2>1, DropArenaFacts
    <2>3. QED
      BY <2>1, <2>2 DEF Grown
  <1>7. Grown(m, Fail(m, "fault"))
    BY <1>2, FailFacts DEF Grown, SamePages
  <1>8. QED
    BY <1>1, <1>5, <1>6, <1>7

-----------------------------------------------------------------------------
(* fork and execv.                                                         *)

\* f is what the loop of CopyPages computes, turn by turn, from a.
IsCopyLoop(f, a, m, c, n) ==
  f = [k \in 0..n |-> IF k = 0 THEN a ELSE CopyPage(m, f[k - 1], c, k - 1)]

LEMMA CopyLoopExists ==
  ASSUME NEW a, NEW m, NEW c, NEW n \in Nat
  PROVE  \E f : IsCopyLoop(f, a, m, c, n)
  <1> DEFINE T == {i \in Nat : \E f : IsCopyLoop(f, a, m, c, i)}
  <1>1. 0 \in T
    <2>1. IsCopyLoop([k \in 0..0 |-> a], a, m, c, 0)
      BY DEF IsCopyLoop
    <2>2. QED
      BY <2>1
  <1>2. ASSUME NEW i \in T PROVE i + 1 \in T
    <2>1. PICK f : IsCopyLoop(f, a, m, c, i)
      OBVIOUS
    <2> DEFINE g == [k \in 0..(i + 1) |-> IF k = 0 THEN a ELSE CopyPage(m, f[k - 1], c, k - 1)]
    <2>2. ASSUME NEW k \in 0..(i + 1), k # 0 PROVE g[k - 1] = f[k - 1]
      <3>1. k - 1 \in 0..i /\ k - 1 \in 0..(i + 1)
        BY <2>2
      <3>2. QED
        BY <3>1, <2>1 DEF IsCopyLoop
    <2>3. IsCopyLoop(g, a, m, c, i + 1)
      BY <2>2 DEF IsCopyLoop
    <2> HIDE DEF g
    <2>4. QED
      BY <2>3
  <1>3. T = Nat
    BY <1>1, <1>2, Inductive
  <1>4. QED
    BY <1>3

\* f is what the loop of segment_load computes, turn by turn, from a.
IsLoadLoop(f, a, v, n) ==
  f = [k \in 0..n |-> IF k = 0 THEN a ELSE LoadPage(f[k - 1], v, v + k - 1)]

LEMMA LoadLoopExists ==
  ASSUME NEW a, NEW v, NEW n \in Nat
  PROVE  \E f : IsLoadLoop(f, a, v, n)
  <1> DEFINE T == {i \in Nat : \E f : IsLoadLoop(f, a, v, i)}
  <1>1. 0 \in T
    <2>1. IsLoadLoop([k \in 0..0 |-> a], a, v, 0)
      BY DEF IsLoadLoop
    <2>2. QED
      BY <2>1
  <1>2. ASSUME NEW i \in T PROVE i + 1 \in T
    <2>1. PICK f : IsLoadLoop(f, a, v, i)
      OBVIOUS
    <2> DEFINE g == [k \in 0..(i + 1) |-> IF k = 0 THEN a ELSE LoadPage(f[k - 1], v, v + k - 1)]
    <2>2. ASSUME NEW k \in 0..(i + 1), k # 0 PROVE g[k - 1] = f[k - 1]
      <3>1. k - 1 \in 0..i /\ k - 1 \in 0..(i + 1)
        BY <2>2
      <3>2. QED
        BY <3>1, <2>1 DEF IsLoadLoop
    <2>3. IsLoadLoop(g, a, v, i + 1)
      BY <2>2 DEF IsLoadLoop
    <2> HIDE DEF g
    <2>4. QED
      BY <2>3
  <1>3. T = Nat
    BY <1>1, <1>2, Inductive
  <1>4. QED
    BY <1>3

\* A child without pages gets those of its parent, each with a frame of its own.
LEMMA CopyPagesFacts ==
  ASSUME MemoryAssumption, cur \in Procs, NEW m, Exact(m), m.bad = "no",
         NEW c \in Procs, c # cur, Present(m, c) = {}
  PROVE  /\ Rec(CopyPages(m, c))
         /\ CopyPages(m, c).bad = "no" =>
              /\ Exact(CopyPages(m, c))
              /\ \A q \in Procs \ {c} : Present(CopyPages(m, c), q) = Present(m, q)
  <1> DEFINE step == CHOOSE g : IsCopyLoop(g, m, m, c, NPages)
             pages == m.bits[cur]
             y == step[NPages]
             z == [y EXCEPT !.bits[c] = pages, !.list[c] = EmptyList(c), !.tlb = NoTlb]
             Inv(k) == /\ Rec(step[k])
                       /\ step[k].bad = "no" =>
                            /\ FramesOK(step[k]) /\ step[k].bits = m.bits
                            /\ Present(step[k], c) = {w \in pages : w < k}
                            /\ \A q \in Procs \ {c} : Present(step[k], q) = Present(m, q)
             T == {k \in Nat : k > NPages \/ Inv(k)}
  <1>0. /\ FramesOK(m) /\ Rec(m) /\ m.bits \in BitMaps /\ pages = Present(m, cur)
        /\ \A w \in pages : w \in Nat /\ w < NPages
        /\ NPages \in Nat
    BY Sizes DEF Exact, FramesOK, Present
  <1>n. NPages \in Nat
    BY Sizes
  <1>1. CopyPages(m, c) = z
    BY DEF CopyPages, IsCopyLoop
  <1>2. IsCopyLoop(step, m, m, c, NPages)
    BY <1>0, CopyLoopExists
  <1> HIDE DEF step
  <1>3. step[0] = m /\ \A k \in 1..NPages : step[k] = CopyPage(m, step[k - 1], c, k - 1)
    BY <1>n, <1>2 DEF IsCopyLoop
  <1>4. 0 \in T
    <2>1. {w \in pages : w < 0} = {}
      BY <1>0
    <2> HIDE DEF pages
    <2>2. Inv(0)
      BY <1>0, <1>3, <2>1
    <2>3. QED
      BY <2>2
  <1>5. ASSUME NEW k \in T PROVE k + 1 \in T
    <2>1. SUFFICES ASSUME k + 1 <= NPages PROVE Inv(k + 1)
      <3> HIDE DEF Inv
      <3>1. QED
        BY <1>n
    <2>2. k \in Nat /\ Inv(k) /\ k + 1 \in 1..NPages
      BY <1>0, <2>1
    <2> DEFINE x == step[k]
               u == step[k + 1]
               x1 == MapPage(x, c, k)
               from == IF k = Min(pages) THEN FrameAt(m, k) ELSE m.pte[cur][k]
               x2 == [x1 EXCEPT !.page[x1.pte[c][k]] = m.page[from]]
    <2>3. u = CopyPage(m, x, c, k)
      BY <1>3, <2>2
    <2>4. u = IF k \notin pages \/ x.bad # "no" THEN x ELSE IF x1.bad # "no" THEN x1 ELSE x2
      BY <2>3 DEF CopyPage
    <2>5. Rec(x) /\ Rec(x1)
      BY <2>2, MapStopped
    <2>6. SamePages(x1, x2) /\ x2.bad = x1.bad
      <3> HIDE DEF x1, from
      <3>1. QED
        BY <2>5 DEF Rec, SamePages
    <2>i. x.bad = "no" => /\ FramesOK(x) /\ x.bits = m.bits
                          /\ Present(x, c) = {w \in pages : w < k}
                          /\ \A q \in Procs \ {c} : Present(x, q) = Present(m, q)
      BY <2>2
    <2>7. SUFFICES /\ Rec(u)
                   /\ u.bad = "no" =>
                        /\ FramesOK(u) /\ u.bits = m.bits
                        /\ Present(u, c) = {w \in pages : w < k + 1}
                        /\ \A q \in Procs \ {c} : Present(u, q) = Present(m, q)
      OBVIOUS
    <2> HIDE DEF x, u, x1, x2
    <2>8. CASE x.bad # "no"
      BY <2>4, <2>5, <2>8
    <2>9. CASE x.bad = "no" /\ k \notin pages
      <3>1. {w \in pages : w < k} = {w \in pages : w < k + 1}
        <4>1. \A w \in pages : w < k <=> w < k + 1
          BY <1>0, <2>2, <2>9
        <4> HIDE DEF pages
        <4>2. QED
          BY <4>1
      <3> HIDE DEF pages
      <3>2. QED
        BY <2>4, <2>5, <2>9, <2>i, <3>1
    <2>10. CASE x.bad = "no" /\ k \in pages
      <3>1. {w \in pages : w < k + 1} = {w \in pages : w < k} \cup {k}
        <4>1. \A w \in pages : w < k + 1 <=> w < k \/ w = k
          BY <1>0, <2>2, <2>10
        <4>2. k \in pages /\ k < k + 1
          BY <2>2, <2>10
        <4> HIDE DEF pages
        <4>3. QED
          BY <4>1, <4>2
      <3> HIDE DEF pages
      <3>2. CASE x1.bad # "no"
        BY <2>4, <2>5, <2>10, <3>2
      <3>3. CASE x1.bad = "no"
        <4>1. u = x2
          BY <2>4, <2>10, <3>3
        <4>2. /\ FramesOK(x1) /\ x1.bits = x.bits
              /\ Present(x1, c) = Present(x, c) \cup {k}
              /\ \A q \in Procs \ {c} : Present(x1, q) = Present(x, q)
          <5> DEFINE w == k
          <5>1. x1 = MapPage(x, c, w)
            BY DEF x1
          <5> HIDE DEF w
          <5>2. /\ FramesOK(x1) /\ x1.bits = x.bits
                /\ Present(x1, c) = Present(x, c) \cup {w}
                /\ \A q \in Procs \ {c} : Present(x1, q) = Present(x, q)
            BY <2>10, <2>i, <3>3, <5>1, MapFacts
          <5>3. QED
            BY <5>2, Zenon DEF w
        <4>3. \A q \in Procs : Present(x2, q) = Present(x1, q)
          BY <2>6 DEF SamePages, Present
        <4>4. FramesOK(x2) /\ Rec(x2) /\ x2.bits = x1.bits
          BY <2>6, <4>2 DEF SamePages, FramesOK
        <4>5. QED
          BY <2>10, <2>i, <3>1, <4>1, <4>2, <4>3, <4>4
      <3>4. QED
        BY <3>2, <3>3
    <2>11. QED
      BY <2>8, <2>9, <2>10
  <1>6. Inv(NPages)
    <2> HIDE DEF Inv
    <2>1. T \in SUBSET Nat
      OBVIOUS
    <2> HIDE DEF T
    <2>2. NPages \in T
      BY <1>0, <1>4, <1>5, <2>1, Inductive
    <2>3. QED
      BY <1>0, <2>2 DEF T
  <1>i. /\ Rec(y)
        /\ y.bad = "no" =>
             /\ FramesOK(y) /\ y.bits = m.bits /\ Present(y, c) = pages
             /\ \A q \in Procs \ {c} : Present(y, q) = Present(m, q)
    <2>1. {w \in pages : w < NPages} = pages
      <3> HIDE DEF pages
      <3>1. QED
        BY <1>0
    <2>2. QED
      BY <1>6, <2>1
  <1>7. /\ Rec(z) /\ z.used = y.used /\ z.pte = y.pte /\ z.bad = y.bad
        /\ z.bits = [y.bits EXCEPT ![c] = pages]
    <2> HIDE DEF y, pages
    <2> DEFINE z1 == [y EXCEPT !.bits[c] = pages]
               z2 == [z1 EXCEPT !.list[c] = EmptyList(c)]
               z3 == [z2 EXCEPT !.tlb = NoTlb]
    <2>1. z = z3
      OBVIOUS
    <2> HIDE DEF z
    <2>2. /\ Rec(z1) /\ z1.used = y.used /\ z1.pte = y.pte /\ z1.bad = y.bad
          /\ z1.bits = [y.bits EXCEPT ![c] = pages]
      BY <1>i DEF Rec
    <2> HIDE DEF z1
    <2>3. /\ Rec(z2) /\ z2.used = z1.used /\ z2.pte = z1.pte /\ z2.bad = z1.bad
          /\ z2.bits = z1.bits
      BY <2>2 DEF Rec
    <2> HIDE DEF z2
    <2>4. /\ Rec(z3) /\ z3.used = z2.used /\ z3.pte = z2.pte /\ z3.bad = z2.bad
          /\ z3.bits = z2.bits
      BY <2>3 DEF Rec
    <2> HIDE DEF z3
    <2>5. QED
      BY <2>1, <2>2, <2>3, <2>4
  <1> HIDE DEF z, y
  <1>8. ASSUME z.bad = "no"
        PROVE  Exact(z) /\ \A q \in Procs \ {c} : Present(z, q) = Present(m, q)
    <2>1. \A q \in Procs : Present(z, q) = Present(y, q)
      BY <1>7 DEF Present
    <2>2. pages \in SUBSET Int
      BY <1>0
    <2> HIDE DEF pages
    <2>3. z.bits \in BitMaps /\ z.bits[c] = pages /\ \A q \in Procs \ {c} : z.bits[q] = m.bits[q]
      BY <1>0, <1>i, <1>7, <1>8, <2>2 DEF BitMaps
    <2>4. FramesOK(z)
      BY <1>i, <1>7, <1>8, <2>3 DEF FramesOK
    <2>5. \A q \in Procs : z.bits[q] = Present(z, q)
      BY <1>i, <1>7, <1>8, <2>1, <2>3 DEF Exact
    <2>6. QED
      BY <1>i, <1>7, <1>8, <2>1, <2>4, <2>5 DEF Exact
  <1>9. QED
    BY <1>1, <1>7, <1>8

\* execv adds pages to the process that calls it.
LEMMA GetPageFacts ==
  ASSUME MemoryAssumption, cur \in Procs, NEW m, Exact(m), m.bad = "no", NEW v \in Nat
  PROVE  Grown(m, get_a_page(m, v))
  <1> DEFINE b == [m.bits EXCEPT ![cur] = @ \cup {v}]
             x == [m EXCEPT !.bits[cur] = @ \cup {v}]
             y == get_a_page(m, v)
  <1>0. /\ FramesOK(m) /\ Rec(m) /\ m.bits \in BitMaps
        /\ m.bits[cur] = Present(m, cur) /\ v \in Int
    BY DEF Exact, FramesOK
  <1>1. x = [m EXCEPT !.bits = b]
    OBVIOUS
  <1>2. y = MapPage(x, cur, v)
    BY DEF get_a_page
  <1> HIDE DEF b, x, y
  <1>3. Rec(x) /\ x.used = m.used /\ x.pte = m.pte /\ x.bits = b /\ x.bad = "no"
    BY <1>0, <1>1 DEF Rec
  <1>4. b \in BitMaps /\ b[cur] = m.bits[cur] \cup {v} /\ \A q \in Procs \ {cur} : b[q] = m.bits[q]
    BY <1>0 DEF BitMaps, b
  <1>5. FramesOK(x) /\ \A q \in Procs : Present(x, q) = Present(m, q)
    BY <1>0, <1>3, <1>4 DEF FramesOK, Present
  <1>6. Rec(y)
    BY <1>2, <1>3, MapStopped
  <1>7. ASSUME y.bad = "no"
        PROVE  Exact(y) /\ \A q \in Procs \ {cur} : Present(y, q) = Present(m, q)
    <2> DEFINE w == v
    <2>1. y = MapPage(x, cur, w)
      BY <1>2
    <2> HIDE DEF w
    <2>2. /\ FramesOK(y) /\ y.bits = x.bits
          /\ Present(y, cur) = Present(x, cur) \cup {w}
          /\ \A q \in Procs \ {cur} : Present(y, q) = Present(x, q)
      BY <1>3, <1>5, <1>7, <2>1, MapFacts
    <2>3. b[cur] = m.bits[cur] \cup {w}
      BY <1>4, Zenon DEF w
    <2>4. \A q \in Procs : y.bits[q] = Present(y, q)
      BY <1>0, <1>3, <1>4, <1>5, <2>2, <2>3 DEF Exact
    <2>5. QED
      BY <1>5, <2>2, <2>4 DEF Exact
  <1>8. QED
    BY <1>6, <1>7 DEF Grown, y

LEMMA SegmentFacts ==
  ASSUME MemoryAssumption, cur \in Procs, NEW m, Exact(m), m.bad = "no",
         NEW v \in Nat, NEW n \in Nat
  PROVE  Grown(m, segment_load(m, v, n))
  <1> DEFINE step == CHOOSE g : IsLoadLoop(g, m, v, n)
             y == step[n]
             z == Cleared(y, v..(v + n - 1))
             T == {k \in Nat : k > n \/ Grown(m, step[k])}
  <1>1. segment_load(m, v, n) = IF y.bad # "no" THEN y ELSE z
    BY DEF segment_load, IsLoadLoop
  <1>2. IsLoadLoop(step, m, v, n)
    BY LoadLoopExists
  <1> HIDE DEF step
  <1>3. step[0] = m /\ \A k \in 1..n : step[k] = LoadPage(step[k - 1], v, v + k - 1)
    BY <1>2 DEF IsLoadLoop
  <1>4. 0 \in T
    BY <1>3, GrownRefl
  <1>5. ASSUME NEW k \in T PROVE k + 1 \in T
    <2>1. SUFFICES ASSUME k + 1 <= n PROVE Grown(m, step[k + 1])
      OBVIOUS
    <2>2. k \in Nat /\ k + 1 \in 1..n /\ Grown(m, step[k])
      BY <2>1
    <2> DEFINE x == step[k]
               u == step[k + 1]
    <2>3. u = LoadPage(x, v, v + k)
      BY <1>3, <2>2
    <2>4. Grown(m, x)
      BY <2>2
    <2> HIDE DEF x, u
    <2>5. ASSUME x.bad = "no" PROVE Grown(m, get_a_page(x, v))
      <3>1. Exact(x) /\ \A q \in Procs \ {cur} : Present(x, q) = Present(m, q)
        BY <2>4, <2>5 DEF Grown
      <3>2. Grown(x, get_a_page(x, v))
        BY <2>5, <3>1, GetPageFacts
      <3>3. QED
        BY <3>1, <3>2 DEF Grown
    <2>6. u = x \/ (x.bad = "no" /\ u = get_a_page(x, v))
      BY <2>3 DEF LoadPage
    <2>7. Grown(m, u)
      BY <2>4, <2>5, <2>6
    <2>8. QED
      BY <2>7 DEF u
  <1>6. Grown(m, y)
    <2>1. T \in SUBSET Nat
      OBVIOUS
    <2> HIDE DEF T
    <2>2. n \in T
      BY <1>4, <1>5, <2>1, Inductive
    <2>3. QED
      BY <2>2 DEF T
  <1> HIDE DEF y
  <1>7. SamePages(y, z)
    BY <1>6 DEF Grown, Cleared, Rec, SamePages
  <1> HIDE DEF z
  <1>8. QED
    BY <1>1, <1>6, <1>7, SameGrown

-----------------------------------------------------------------------------
(* bitmap_scan.                                                            *)

\* f is what the loop of bitmap_scan computes, turn by turn, from a.
IsScanLoop(f, a, set, cnt, start, n) ==
  f = [k \in 0..n |-> IF k = 0 THEN a ELSE ScanTurn(set, cnt, start + k, f[k - 1])]

LEMMA ScanLoopExists ==
  ASSUME NEW a, NEW set, NEW cnt, NEW start, NEW n \in Nat
  PROVE  \E f : IsScanLoop(f, a, set, cnt, start, n)
  <1> DEFINE T == {i \in Nat : \E f : IsScanLoop(f, a, set, cnt, start, i)}
  <1>1. 0 \in T
    <2>1. IsScanLoop([k \in 0..0 |-> a], a, set, cnt, start, 0)
      BY DEF IsScanLoop
    <2>2. QED
      BY <2>1
  <1>2. ASSUME NEW i \in T PROVE i + 1 \in T
    <2>1. PICK f : IsScanLoop(f, a, set, cnt, start, i)
      OBVIOUS
    <2> DEFINE g == [k \in 0..(i + 1) |-> IF k = 0 THEN a ELSE ScanTurn(set, cnt, start + k, f[k - 1])]
    <2>2. ASSUME NEW k \in 0..(i + 1), k # 0 PROVE g[k - 1] = f[k - 1]
      <3>1. k - 1 \in 0..i /\ k - 1 \in 0..(i + 1)
        BY <2>2
      <3>2. QED
        BY <3>1, <2>1 DEF IsScanLoop
    <2>3. IsScanLoop(g, a, set, cnt, start, i + 1)
      BY <2>2 DEF IsScanLoop
    <2> HIDE DEF g
    <2>4. QED
      BY <2>3
  <1>3. T = Nat
    BY <1>1, <1>2, Inductive
  <1>4. QED
    BY <1>3

LEMMA Products ==
  ASSUME NEW a \in Nat, NEW b \in Nat, NEW c \in Nat, a <= b
  PROVE  a * c \in Nat /\ b * c \in Nat /\ a * c <= b * c /\ (a + 1) * c = a * c + c
  <1>1. b - a \in Nat /\ (b - a) * c \in Nat /\ b * c = a * c + (b - a) * c
    OBVIOUS
  <1>2. QED
    BY <1>1

\* Every bit is in a byte.
LEMMA BytesCover ==
  ASSUME MemoryAssumption, NEW b \in 0..(NBits - 1)
  PROVE  \E i \in 0..(NBytes - 1) : b \in ByteOf(i)
  <1> DEFINE S == {i \in Nat : b < i * ByteBits + ByteBits}
  <1>0. ByteBits \in Nat \ {0} /\ NBytes \in Nat \ {0} /\ NBits = ByteBits * NBytes /\ b \in Nat
    BY Sizes
  <1>1. NBytes - 1 \in S
    <2>1. (NBytes - 1) * ByteBits + ByteBits = NBits
      BY <1>0
    <2>2. QED
      BY <1>0, <2>1
  <1>2. PICK i \in S : \A j \in S : i <= j
    <2>1. S \in SUBSET Nat /\ S # {}
      BY <1>1
    <2> HIDE DEF S
    <2>2. QED
      BY <2>1, LeastNat
  <1>3. i \in 0..(NBytes - 1)
    <2>1. i \in Nat /\ i <= NBytes - 1
      <3>1. i \in Nat
        BY <1>2
      <3> HIDE DEF S
      <3>2. QED
        BY <1>1, <1>2, <3>1
    <2>2. QED
      BY <1>0, <2>1
  <1>4. i * ByteBits <= b
    <2>1. CASE i = 0
      BY <1>0, <2>1
    <2>2. CASE i # 0
      <3>1. i - 1 \in Nat /\ i - 1 \notin S
        BY <1>2, <2>2
      <3>2. ~(b < (i - 1) * ByteBits + ByteBits)
        BY <3>1
      <3>3. (i - 1) * ByteBits + ByteBits = i * ByteBits
        BY <1>0, <1>2
      <3>4. i * ByteBits \in Nat
        BY <1>0, <1>2
      <3>5. QED
        BY <1>0, <3>2, <3>3, <3>4
    <2>3. QED
      BY <2>1, <2>2
  <1>5. i * ByteBits \in Nat /\ b < i * ByteBits + ByteBits
    BY <1>0, <1>2
  <1>6. b \in ByteOf(i)
    BY <1>0, <1>4, <1>5 DEF ByteOf
  <1>7. QED
    BY <1>3, <1>6

\* Bytes lie one after the other within the bitmap.
LEMMA BytesOrdered ==
  ASSUME MemoryAssumption, NEW i \in 0..(NBytes - 1), NEW b \in ByteOf(i)
  PROVE  /\ b \in 0..(NBits - 1)
         /\ \A j \in 0..(NBytes - 1) : \A c \in ByteOf(j) : i < j => b < c
  <1>0. ByteBits \in Nat \ {0} /\ NBytes \in Nat \ {0} /\ NBits = ByteBits * NBytes /\ i \in Nat
    BY Sizes
  <1>1. i * ByteBits \in Nat /\ (i + 1) * ByteBits = i * ByteBits + ByteBits
    BY <1>0
  <1>2. b \in Nat /\ b < (i + 1) * ByteBits
    BY <1>0, <1>1 DEF ByteOf
  <1>3. (i + 1) * ByteBits <= NBits
    <2>1. i + 1 \in Nat /\ i + 1 <= NBytes /\ NBits = NBytes * ByteBits /\ ByteBits \in Nat
      BY <1>0
    <2>2. QED
      BY <1>0, <2>1, Products
  <1>4. ASSUME NEW j \in 0..(NBytes - 1), NEW c \in ByteOf(j), i < j PROVE b < c
    <2>1. j \in Nat /\ i + 1 \in Nat /\ i + 1 <= j
      BY <1>0, <1>4
    <2>2. (i + 1) * ByteBits <= j * ByteBits /\ j * ByteBits \in Nat
      BY <1>0, <2>1, Products
    <2>3. c >= j * ByteBits /\ c \in Nat
      BY <1>0, <2>2 DEF ByteOf
    <2>4. (i + 1) * ByteBits \in Nat
      BY <1>0, <1>1
    <2>5. QED
      BY <1>2, <2>2, <2>3, <2>4
  <1>5. NBits \in Nat /\ (i + 1) * ByteBits \in Nat
    BY <1>0, <1>1
  <1>6. QED
    BY <1>2, <1>3, <1>4, <1>5

\* Going byte by byte and then bit by bit finds the first clear bit.
LEMMA StartFacts ==
  ASSUME MemoryAssumption, NEW set \in SUBSET Pages, set # Pages, NEW idx, NEW start,
         idx = Min({i \in 0..(NBytes - 1) : ~(ByteOf(i) \subseteq set)}),
         start = Min(ByteOf(idx) \ set)
  PROVE  /\ start \in 0..(NBits - 1) /\ start \notin set
         /\ \A b \in 0..(start - 1) : b \in set
  <1> DEFINE bytes == {i \in 0..(NBytes - 1) : ~(ByteOf(i) \subseteq set)}
             bits == ByteOf(idx) \ set
  <1>0. Pages = 0..(NBits - 1) /\ NBits \in Nat /\ NBytes \in Nat
    BY Sizes DEF NPages
  <1>1. PICK b0 \in 0..(NBits - 1) : b0 \notin set
    BY <1>0
  <1>2. bytes # {} /\ bytes \in SUBSET Nat
    <2>1. PICK i \in 0..(NBytes - 1) : b0 \in ByteOf(i)
      BY <1>1, BytesCover
    <2>2. i \in bytes
      BY <1>1, <2>1
    <2>3. bytes \in SUBSET Nat
      BY <1>0
    <2>4. QED
      BY <2>2, <2>3
  <1>3. idx \in bytes /\ \A i \in bytes : idx <= i
    <2> HIDE DEF bytes
    <2>1. QED
      BY <1>2, MinFacts DEF bytes
  <1>4. idx \in 0..(NBytes - 1) /\ bits # {}
    BY <1>3
  <1>5. bits \in SUBSET Nat
    <2>1. \A b \in ByteOf(idx) : b \in 0..(NBits - 1)
      BY <1>4, BytesOrdered
    <2>2. \A b \in 0..(NBits - 1) : b \in Nat
      BY <1>0
    <2>3. QED
      BY <2>1, <2>2
  <1>6. start \in bits /\ \A b \in bits : start <= b
    <2> HIDE DEF bits
    <2>1. QED
      BY <1>4, <1>5, MinFacts DEF bits
  <1>7. start \in 0..(NBits - 1) /\ start \notin set
    BY <1>4, <1>6, BytesOrdered
  <1>8. ASSUME NEW b \in 0..(start - 1), b \notin set PROVE FALSE
    <2>1. b \in 0..(NBits - 1) /\ b < start
      BY <1>0, <1>7
    <2>2. PICK i \in 0..(NBytes - 1) : b \in ByteOf(i)
      BY <2>1, BytesCover
    <2>3. idx <= i
      BY <1>3, <1>8, <2>2
    <2>4. CASE i = idx
      <3>1. b \in bits
        BY <1>8, <2>2, <2>4
      <3>2. start <= b
        BY <1>6, <3>1
      <3>3. QED
        BY <1>7, <2>1, <3>2
    <2>5. CASE idx < i
      <3>1. start < b
        BY <1>4, <1>6, <2>2, <2>5, BytesOrdered
      <3>2. QED
        BY <2>1, <3>1, <1>7
    <2>6. QED
      BY <1>4, <2>3, <2>4, <2>5
  <1>9. QED
    BY <1>7, <1>8

\* The bits i..i+cnt-1 are clear.
Clear(set, i, cnt) == \A b \in i..(i + cnt - 1) : b \notin set
\* No run of cnt clear bits ends at e or before.
NoRun(set, cnt, e) == \A i \in Nat : i + cnt - 1 <= e => ~Clear(set, i, cnt)

\* What the loop knows when it has looked at bit e, k bits after start.
ScanInv(set, cnt, start, k, x) ==
  /\ x.found = -1 =>
       /\ x.count \in Nat /\ x.count < cnt /\ x.count <= k + 1
       /\ \A b \in (start + k - x.count + 1)..(start + k) : b \notin set
       /\ x.count = k + 1 \/ start + k - x.count \in set
       /\ NoRun(set, cnt, start + k)
  /\ x.found # -1 =>
       /\ x.found \in Nat /\ x.found + cnt - 1 <= start + k
       /\ Clear(set, x.found, cnt)
       /\ \A i \in 0..(x.found - 1) : ~Clear(set, i, cnt)

\* One turn of the loop.
LEMMA ScanTurnFacts ==
  ASSUME NEW set, NEW cnt \in Nat, cnt >= 2, NEW start \in Nat, NEW k \in Nat,
         \A b \in 0..(start - 1) : b \in set, NEW x, ScanInv(set, cnt, start, k, x)
  PROVE  ScanInv(set, cnt, start, k + 1, ScanTurn(set, cnt, start + (k + 1), x))
  <1> DEFINE e == start + k
             c == RunLength(set, start + (k + 1), x.count)
             y == ScanTurn(set, cnt, start + (k + 1), x)
  <1>0. e \in Nat /\ start + (k + 1) = e + 1
    OBVIOUS
  <1>1. CASE x.found # -1
    <2>1. y = x
      BY <1>1 DEF ScanTurn
    <2>2. QED
      BY <1>1, <2>1 DEF ScanInv
  <1>2. CASE x.found = -1
    <2>1. /\ x.count \in Nat /\ x.count < cnt /\ x.count <= k + 1
          /\ \A b \in (e - x.count + 1)..e : b \notin set
          /\ x.count = k + 1 \/ e - x.count \in set
          /\ NoRun(set, cnt, e)
      BY <1>2 DEF ScanInv
    <2>2. y.count = c /\ y.found = IF c = cnt THEN e + 1 - cnt + 1 ELSE -1
      BY <1>2 DEF ScanTurn
    <2>3. c = IF e + 1 \notin set THEN x.count + 1 ELSE 0
      BY <1>0 DEF RunLength
    <2> HIDE DEF c, y
    <2>4. CASE e + 1 \in set
      <3>1. c = 0 /\ c # cnt /\ y.found = -1 /\ y.count = 0
        BY <2>2, <2>3, <2>4
      <3>2. NoRun(set, cnt, e + 1)
        <4>1. SUFFICES ASSUME NEW i \in Nat, i + cnt - 1 <= e + 1 PROVE ~Clear(set, i, cnt)
          BY DEF NoRun
        <4>2. CASE i + cnt - 1 <= e
          BY <2>1, <4>2 DEF NoRun
        <4>3. CASE i + cnt - 1 = e + 1
          BY <2>4, <4>3 DEF Clear
        <4>4. QED
          BY <1>0, <4>1, <4>2, <4>3
      <3>3. QED
        <4>1. start + (k + 1) - 0 = e + 1 /\ (start + (k + 1) - 0 + 1)..(start + (k + 1)) = {}
          OBVIOUS
        <4>2. QED
          BY <1>0, <2>4, <3>1, <3>2, <4>1 DEF ScanInv, y
    <2>5. CASE e + 1 \notin set /\ c # cnt
      <3>1. c = x.count + 1 /\ y.found = -1 /\ y.count = c /\ c \in Nat /\ c < cnt /\ c <= k + 2
        BY <2>1, <2>2, <2>3, <2>5
      <3>2. NoRun(set, cnt, e + 1)
        <4>1. SUFFICES ASSUME NEW i \in Nat, i + cnt - 1 <= e + 1, Clear(set, i, cnt) PROVE FALSE
          BY DEF NoRun
        <4>2. CASE i + cnt - 1 <= e
          BY <2>1, <4>1, <4>2 DEF NoRun
        <4>3. CASE i + cnt - 1 = e + 1
          <5>1. i <= e - x.count
            BY <1>0, <2>1, <3>1, <4>3
          <5>2. CASE x.count = k + 1
            <6>1. i \in 0..(start - 1) /\ i \in i..(i + cnt - 1)
              BY <5>1, <5>2
            <6>2. QED
              BY <4>1, <6>1 DEF Clear
          <5>3. CASE e - x.count \in set
            <6>1. e - x.count \in i..(i + cnt - 1)
              BY <1>0, <2>1, <4>3, <5>1
            <6>2. QED
              BY <4>1, <5>3, <6>1 DEF Clear
          <5>4. QED
            BY <2>1, <5>2, <5>3
        <4>4. QED
          BY <1>0, <4>1, <4>2, <4>3
      <3>3. \A b \in (e + 1 - c + 1)..(e + 1) : b \notin set
        <4>1. SUFFICES ASSUME NEW b \in (e + 1 - c + 1)..(e + 1) PROVE b \notin set
          OBVIOUS
        <4>2. b = e + 1 \/ b \in (e - x.count + 1)..e
          BY <1>0, <2>1, <3>1
        <4>3. QED
          BY <2>1, <2>5, <4>2
      <3>4. c = (k + 1) + 1 \/ e + 1 - c \in set
        BY <1>0, <2>1, <3>1
      <3> HIDE DEF e
      <3>5. QED
        BY <1>0, <3>1, <3>2, <3>3, <3>4 DEF ScanInv, y
    <2>6. CASE e + 1 \notin set /\ c = cnt
      <3> DEFINE r == e + 1 - cnt + 1
      <3>1. x.count + 1 = cnt /\ y.found = r /\ r \in Nat /\ r + cnt - 1 = e + 1 /\ r = e - x.count + 1
        BY <1>0, <2>1, <2>2, <2>3, <2>6
      <3>2. Clear(set, r, cnt)
        <4>1. SUFFICES ASSUME NEW b \in r..(r + cnt - 1) PROVE b \notin set
          BY DEF Clear
        <4>2. b = e + 1 \/ b \in (e - x.count + 1)..e
          BY <1>0, <2>1, <3>1
        <4>3. QED
          BY <2>1, <2>6, <4>2
      <3>3. \A i \in 0..(r - 1) : ~Clear(set, i, cnt)
        <4>1. ASSUME NEW i \in 0..(r - 1) PROVE i \in Nat /\ i + cnt - 1 <= e
          BY <1>0, <3>1
        <4>2. QED
          BY <2>1, <4>1 DEF NoRun
      <3> HIDE DEF e, r
      <3>4. QED
        BY <1>0, <3>1, <3>2, <3>3 DEF ScanInv, y
    <2>7. QED
      BY <2>4, <2>5, <2>6
  <1>3. QED
    BY <1>1, <1>2

\* bitmap_scan finds the lowest run of cnt clear bits of any bitmap that is not
\* full, or says that there is none (bitmap.c:21-56).
LEMMA ScanFacts ==
  ASSUME MemoryAssumption, NEW set \in SUBSET Pages, set # Pages, NEW cnt \in Nat, cnt # 0
  PROVE  bitmap_scan(set, cnt) = FirstRun(set, cnt)
  <1> DEFINE idx == Min({i \in 0..(NBytes - 1) : ~(ByteOf(i) \subseteq set)})
             start == Min(ByteOf(idx) \ set)
             a == [count |-> 1, found |-> -1]
             n == NBits - start
             loop == CHOOSE f : IsScanLoop(f, a, set, cnt, start, n)
             last == IF cnt = 1 THEN NBits - 1 ELSE NBits
             runs == {i \in 0..(NBits - 1) : i + cnt - 1 <= last /\ (i..(i + cnt - 1)) \cap set = {}}
  <1>1. bitmap_scan(set, cnt) = IF cnt = 1 THEN start ELSE loop[n].found
    BY DEF bitmap_scan, IsScanLoop
  <1>2. FirstRun(set, cnt) = IF runs = {} THEN -1 ELSE Min(runs)
    BY DEF FirstRun
  <1>3. /\ start \in 0..(NBits - 1) /\ start \notin set
        /\ \A b \in 0..(start - 1) : b \in set
    <2> HIDE DEF idx, start
    <2>1. idx = Min({i \in 0..(NBytes - 1) : ~(ByteOf(i) \subseteq set)})
      BY DEF idx
    <2>2. start = Min(ByteOf(idx) \ set)
      BY DEF start
    <2>3. QED
      BY <2>1, <2>2, StartFacts
  <1>4. NBits \in Nat /\ Pages = 0..(NBits - 1)
    BY Sizes DEF NPages
  <1> HIDE DEF idx, start
  <1>5. start \in Nat /\ n \in Nat /\ start + n = NBits
    BY <1>3, <1>4
  <1>6. \A i \in 0..(NBits - 1) : i \in runs <=> i + cnt - 1 <= last /\ Clear(set, i, cnt)
    BY DEF Clear
  <1>7. runs \in SUBSET Nat
    OBVIOUS
  <1> HIDE DEF runs
  <1>8. ASSUME NEW r \in runs, \A i \in runs : r <= i PROVE Min(runs) = r
    <2>1. Min(runs) \in runs /\ \A i \in runs : Min(runs) <= i
      BY <1>7, MinFacts
    <2>2. r \in Nat /\ Min(runs) \in Nat /\ r <= Min(runs) /\ Min(runs) <= r
      BY <1>7, <1>8, <2>1
    <2>3. QED
      BY <2>2
  <1>9. CASE cnt = 1
    <2>1. last = NBits - 1 /\ start + cnt - 1 = start
      BY <1>5, <1>9
    <2>2. start \in runs
      <3>1. Clear(set, start, cnt)
        BY <1>3, <1>5, <1>9 DEF Clear
      <3>2. QED
        BY <1>3, <1>6, <2>1, <3>1
    <2>3. ASSUME NEW i \in runs PROVE start <= i
      <3>1. i \in 0..(NBits - 1) /\ Clear(set, i, cnt)
        BY <1>6 DEF runs
      <3>2. i \notin set
        BY <1>9, <3>1 DEF Clear
      <3>3. QED
        BY <1>3, <1>5, <3>1, <3>2
    <2>4. Min(runs) = start
      BY <1>8, <2>2, <2>3
    <2>5. QED
      BY <1>1, <1>2, <1>9, <2>2, <2>4
  <1>10. CASE cnt # 1
    <2>1. cnt >= 2 /\ last = NBits
      BY <1>10
    <2>2. IsScanLoop(loop, a, set, cnt, start, n)
      BY <1>5, ScanLoopExists
    <2> HIDE DEF loop
    <2>3. loop[0] = a /\ \A k \in 1..n : loop[k] = ScanTurn(set, cnt, start + k, loop[k - 1])
      BY <1>5, <2>2 DEF IsScanLoop
    <2> DEFINE T == {k \in Nat : k > n \/ ScanInv(set, cnt, start, k, loop[k])}
    <2>4. 0 \in T
      <3>1. NoRun(set, cnt, start + 0)
        <4>1. SUFFICES ASSUME NEW i \in Nat, i + cnt - 1 <= start, Clear(set, i, cnt) PROVE FALSE
          BY <1>5 DEF NoRun
        <4>2. i \in 0..(start - 1) /\ i \in i..(i + cnt - 1)
          BY <1>5, <2>1, <4>1
        <4>3. QED
          BY <1>3, <4>1, <4>2 DEF Clear
      <3>2. \A b \in (start + 0 - 1 + 1)..(start + 0) : b \notin set
        BY <1>3, <1>5
      <3>3. a.count = 1 /\ a.found = -1
        OBVIOUS
      <3> HIDE DEF a
      <3>4. ScanInv(set, cnt, start, 0, a)
        BY <1>5, <2>1, <3>1, <3>2, <3>3 DEF ScanInv
      <3>5. QED
        BY <2>3, <3>4
    <2>5. ASSUME NEW k \in T PROVE k + 1 \in T
      <3>1. SUFFICES ASSUME k + 1 <= n PROVE ScanInv(set, cnt, start, k + 1, loop[k + 1])
        BY <1>5
      <3>2. k \in Nat /\ ScanInv(set, cnt, start, k, loop[k]) /\ k + 1 \in 1..n
        BY <1>5, <3>1
      <3>3. loop[k + 1] = ScanTurn(set, cnt, start + (k + 1), loop[k])
        BY <2>3, <3>2
      <3> DEFINE x == loop[k]
      <3>4. ScanInv(set, cnt, start, k, x) /\ loop[k + 1] = ScanTurn(set, cnt, start + (k + 1), x)
        BY <3>2, <3>3
      <3> HIDE DEF x
      <3>5. ScanInv(set, cnt, start, k + 1, ScanTurn(set, cnt, start + (k + 1), x))
        BY <1>3, <1>5, <2>1, <3>2, <3>4, ScanTurnFacts
      <3>6. QED
        BY <3>4, <3>5
    <2>6. ScanInv(set, cnt, start, n, loop[n])
      <3>1. T \in SUBSET Nat
        OBVIOUS
      <3> HIDE DEF T
      <3>2. n \in T
        BY <1>5, <2>4, <2>5, <3>1, Inductive
      <3>3. QED
        BY <1>5, <3>2 DEF T
    <2> DEFINE r == loop[n].found
    <2>7. CASE r = -1
      <3>1. NoRun(set, cnt, NBits)
        BY <1>5, <2>6, <2>7 DEF ScanInv
      <3>2. runs = {}
        <4>1. ASSUME NEW i \in runs PROVE FALSE
          <5>1. i \in 0..(NBits - 1)
            BY DEF runs
          <5>2. i \in Nat /\ i + cnt - 1 <= NBits /\ Clear(set, i, cnt)
            BY <1>6, <2>1, <5>1
          <5>3. QED
            BY <3>1, <5>2 DEF NoRun
        <4>2. QED
          BY <4>1
      <3>3. QED
        BY <1>1, <1>2, <1>10, <2>7, <3>2
    <2>8. CASE r # -1
      <3>1. /\ r \in Nat /\ r + cnt - 1 <= NBits /\ Clear(set, r, cnt)
            /\ \A i \in 0..(r - 1) : ~Clear(set, i, cnt)
        BY <1>5, <2>6, <2>8 DEF ScanInv
      <3> HIDE DEF r
      <3>2. r \in runs
        <4>1. r \in 0..(NBits - 1)
          BY <1>4, <2>1, <3>1
        <4>2. QED
          BY <1>6, <2>1, <3>1, <4>1
      <3>3. ASSUME NEW i \in runs PROVE r <= i
        <4>1. i \in 0..(NBits - 1)
          BY DEF runs
        <4>2. Clear(set, i, cnt)
          BY <1>6, <4>1
        <4>3. QED
          BY <3>1, <4>1, <4>2
      <3>4. Min(runs) = r
        BY <1>8, <3>2, <3>3
      <3>5. QED
        BY <1>1, <1>2, <1>10, <3>2, <3>4 DEF r
    <2>9. QED
      BY <2>7, <2>8
  <1>11. QED
    BY <1>9, <1>10

-----------------------------------------------------------------------------
(* The steps.                                                              *)

\* The frames run out before the addresses do.
LEMMA AddressesLeft ==
  ASSUME MemoryAssumption, NEW m, Exact(m), NEW p \in Procs
  PROVE  m.bits[p] \in SUBSET Pages /\ m.bits[p] # Pages
  <1>1. m.bits[p] = Present(m, p) /\ m.pte \in Tables
    BY DEF Exact, FramesOK
  <1>2. m.bits[p] \in SUBSET Pages
    BY <1>1 DEF Present
  <1>3. SUFFICES ASSUME m.bits[p] = Pages PROVE FALSE
    BY <1>2
  <1>4. m.pte[p] \in [Pages -> Frames]
    BY <1>1, <1>3 DEF Present, Tables
  <1>5. /\ IsFiniteSet(Frames) /\ IsFiniteSet(Pages) /\ Cardinality(Frames) < Cardinality(Pages)
    <2>1. /\ NFrames - 1 \in Int /\ NPages - 1 \in Int /\ 0 \in Int
          /\ Frames = 0..(NFrames - 1) /\ Pages = 0..(NPages - 1)
          /\ NFrames > 0 /\ NPages > NFrames /\ NFrames \in Nat /\ NPages \in Nat
      BY Sizes
    <2>2. /\ IsFiniteSet(Frames) /\ Cardinality(Frames) = IF 0 > NFrames - 1 THEN 0 ELSE (NFrames - 1) - 0 + 1
      BY <2>1, FS_Interval
    <2>3. /\ IsFiniteSet(Pages) /\ Cardinality(Pages) = IF 0 > NPages - 1 THEN 0 ELSE (NPages - 1) - 0 + 1
      BY <2>1, FS_Interval
    <2>4. QED
      BY <2>1, <2>2, <2>3
  <1>6. PICK v, w \in Pages : v # w /\ m.pte[p][v] = m.pte[p][w]
    BY <1>4, <1>5, FS_PigeonHole
  <1>7. m.pte[p][v] # None
    BY <1>4, Sizes
  <1>8. QED
    BY <1>6, <1>7 DEF Exact, FramesOK

\* Addresses the search finds are addresses.
LEMMA ScanRange ==
  ASSUME MemoryAssumption, NEW m, Exact(m), NEW p \in Procs, NEW n \in Nat, n # 0
  PROVE  /\ bitmap_scan(m.bits[p], n) \in Nat \cup {-1}
         /\ bitmap_scan(m.bits[p], 1) \in Nat
  <1> DEFINE set == m.bits[p]
  <1>1. set \in SUBSET Pages /\ set # Pages
    BY AddressesLeft
  <1> HIDE DEF set
  <1>2. \A k \in Nat \ {0} : bitmap_scan(set, k) = FirstRun(set, k)
    BY <1>1, ScanFacts
  <1>3. ASSUME NEW k \in Nat \ {0} PROVE FirstRun(set, k) \in Nat \cup {-1}
    <2> DEFINE last == IF k = 1 THEN NBits - 1 ELSE NBits
               runs == {i \in 0..(NBits - 1) : i + k - 1 <= last /\ (i..(i + k - 1)) \cap set = {}}
    <2>1. FirstRun(set, k) = IF runs = {} THEN -1 ELSE Min(runs)
      BY DEF FirstRun
    <2>2. runs \in SUBSET Nat
      OBVIOUS
    <2> HIDE DEF runs
    <2>3. QED
      BY <2>1, <2>2, MinFacts
  <1>4. FirstRun(set, 1) # -1
    <2> DEFINE last == IF 1 = 1 THEN NBits - 1 ELSE NBits
               runs == {i \in 0..(NBits - 1) : i + 1 - 1 <= last /\ (i..(i + 1 - 1)) \cap set = {}}
    <2>1. FirstRun(set, 1) = IF runs = {} THEN -1 ELSE Min(runs)
      BY DEF FirstRun
    <2>2. Pages = 0..(NBits - 1) /\ NBits \in Nat
      BY Sizes DEF NPages
    <2>3. PICK b \in 0..(NBits - 1) : b \notin set
      BY <1>1, <2>2
    <2>4. b..(b + 1 - 1) = {b} /\ b + 1 - 1 <= NBits - 1
      BY <2>2
    <2>5. b \in runs
      BY <2>3, <2>4
    <2>6. runs \in SUBSET Nat
      OBVIOUS
    <2> HIDE DEF runs
    <2>7. Min(runs) \in Nat
      BY <2>5, <2>6, MinFacts
    <2>8. QED
      BY <2>1, <2>5, <2>7
  <1>5. QED
    BY <1>2, <1>3, <1>4 DEF set

LEMMA ForgetSame ==
  ASSUME NEW m, Rec(m)
  PROVE  SamePages(m, Forget(m)) /\ Forget(m).bad = m.bad
  BY DEF Forget, Rec, SamePages

\* What an operation of the running process leaves satisfies the invariant.
LEMMA ResultKeeps ==
  ASSUME MemInv, Runs, NEW y, Grown(s, y), Result(y), UNCHANGED <<cur, state>>
  PROVE  MemInv'
  <1> DEFINE x == [y EXCEPT !.bad = "no"]
  <1>1. SamePages(y, x) /\ x.bad = "no"
    BY DEF Grown, Rec, SamePages
  <1>2. s' = Forget(x) /\ panic' = y.bad
    BY DEF Result
  <1> HIDE DEF x
  <1>3. SamePages(x, s') /\ s'.bad = "no"
    BY <1>1, <1>2, ForgetSame DEF SamePages
  <1>4. SamePages(y, s')
    BY <1>1, <1>3, SameTrans
  <1>5. ASSUME panic' = "no"
        PROVE  Exact(s') /\ \A p \in Procs : state[p] # "live" => Present(s', p) = {}
    <2>1. Grown(s, s')
      BY <1>2, <1>4, <1>5, SameGrown
    <2>2. Exact(s') /\ \A q \in Procs \ {cur} : Present(s', q) = Present(s, q)
      BY <1>3, <2>1 DEF Grown
    <2>3. \A p \in Procs : state[p] # "live" => p # cur /\ Present(s, p) = {}
      BY DEF MemInv, Runs
    <2>4. QED
      BY <2>2, <2>3
  <1>6. QED
    BY <1>3, <1>4, <1>5 DEF MemInv, SamePages, Exact, FramesOK, Present, BitMaps, Tables, Rec

\* malloc, for a large block and for a small one.
LEMMA MallocKeeps ==
  ASSUME MemoryAssumption, MemInv,
         (\E n \in 1..MaxLarge : sys_malloc_large(n)) \/ sys_malloc_small
  PROVE  MemInv'
  <1>0. ASSUME Runs PROVE cur \in Procs /\ Exact(s) /\ s.bad = "no" /\ Rec(s)
    BY <1>0 DEF MemInv, Runs
  <1>1. ASSUME NEW n \in 1..MaxLarge, sys_malloc_large(n) PROVE MemInv'
    <2> DEFINE v == bitmap_scan(s.bits[cur], n)
               m1 == malloc_page(s, v, n)
               m2 == [m1 EXCEPT !.page[FrameAt(m1, v)].cnt = n]
               y == IF m1.bad # "no" THEN m1 ELSE m2
    <2>1. Runs /\ UNCHANGED <<cur, state>> /\ n \in Nat /\ n # 0
      <3>1. Runs /\ UNCHANGED <<cur, state>>
        BY <1>1, Zenon DEF sys_malloc_large, UsesHeap
      <3>2. n \in Nat /\ n # 0
        OBVIOUS
      <3>3. QED
        BY <3>1, <3>2
    <2>2. v \in Nat \cup {-1}
      BY <1>0, <2>1, ScanRange
    <2>3. (v = -1 /\ UNCHANGED <<s, panic>>) \/ (v # -1 /\ Result(y))
      BY <1>1 DEF sys_malloc_large
    <2> HIDE DEF v
    <2>4. CASE v = -1 /\ UNCHANGED <<s, panic>>
      BY <2>1, <2>4 DEF MemInv, Exact, FramesOK, Present, Rec, BitMaps, Tables
    <2>5. CASE v # -1 /\ Result(y)
      <3>1. Grown(s, m1)
        BY <1>0, <2>1, <2>2, <2>5, MallocPageFacts
      <3> HIDE DEF m1
      <3>2. SamePages(m1, m2)
        BY <3>1 DEF Grown, Rec, SamePages
      <3> HIDE DEF m2
      <3>3. Grown(s, y)
        BY <3>1, <3>2, SameGrown
      <3> HIDE DEF y
      <3>4. QED
        BY <2>1, <2>5, <3>3, ResultKeeps
    <2>6. QED
      BY <2>3, <2>4, <2>5
  <1>2. ASSUME sys_malloc_small PROVE MemInv'
    <2> DEFINE v == bitmap_scan(s.bits[cur], 1)
               m1 == IF list_empty(s, cur) THEN NewArena(s, v) ELSE s
               m2 == IF m1.bad # "no" THEN m1 ELSE TakeBlock(m1)
    <2>1. Runs /\ UNCHANGED <<cur, state>> /\ Result(m2)
      BY <1>2 DEF sys_malloc_small, UsesHeap
    <2>2. v \in Nat
      BY <1>0, <2>1, ScanRange
    <2> HIDE DEF v
    <2>3. Grown(s, m1)
      BY <1>0, <2>1, <2>2, NewArenaFacts, GrownRefl
    <2> HIDE DEF m1
    <2>4. Grown(s, m2)
      <3>1. SamePages(m1, TakeBlock(m1))
        BY <2>3, TakeBlockSame DEF Grown
      <3>2. QED
        BY <2>3, <3>1, SameGrown
    <2> HIDE DEF m2
    <2>5. QED
      BY <2>1, <2>4, ResultKeeps
  <1>3. QED
    BY <1>1, <1>2

LEMMA FreeKeeps ==
  ASSUME MemoryAssumption, MemInv, NEW b, sys_free(b)
  PROVE  MemInv'
  <1> DEFINE f == FrameAt(s, b[1])
             y == IF f = None THEN Fail(s, "fault")
                  ELSE IF s.page[f].desc = None THEN mfree_page(s, b[1], s.page[f].cnt)
                  ELSE FreeBlock(s, b)
  <1>1. Runs /\ UNCHANGED <<cur, state>> /\ Result(y)
    BY DEF sys_free, UsesHeap
  <1>2. cur \in Procs /\ Exact(s) /\ s.bad = "no" /\ Rec(s)
    BY <1>1 DEF MemInv, Runs
  <1> HIDE DEF f
  <1>3. Grown(s, Fail(s, "fault"))
    BY <1>2, FailFacts DEF Grown, SamePages
  <1>4. Grown(s, mfree_page(s, b[1], s.page[f].cnt)) /\ Grown(s, FreeBlock(s, b))
    BY <1>2, MfreePageFacts, FreeBlockFacts
  <1>5. Grown(s, y)
    BY <1>3, <1>4
  <1> HIDE DEF y
  <1>6. QED
    BY <1>1, <1>5, ResultKeeps

LEMMA ExecKeeps ==
  ASSUME MemoryAssumption, MemInv, NEW n \in 1..MaxSegment, sys_execv(n)
  PROVE  MemInv'
  <1> DEFINE y == segment_load(s, 0, n)
  <1>1. Runs /\ UNCHANGED <<cur, state>> /\ Result(y)
    BY DEF sys_execv
  <1>2. cur \in Procs /\ Exact(s) /\ s.bad = "no" /\ n \in Nat /\ 0 \in Nat
    BY <1>1, Sizes DEF MemInv, Runs
  <1>3. Grown(s, y)
    BY <1>2, SegmentFacts
  <1> HIDE DEF y
  <1>4. QED
    BY <1>1, <1>3, ResultKeeps

\* The child of a fork is live and has pages, all of its own.
LEMMA ForkKeeps ==
  ASSUME MemoryAssumption, MemInv, NEW c \in Procs, sys_fork(c)
  PROVE  MemInv'
  <1> DEFINE y == CopyPages(s, c)
             x == [y EXCEPT !.bad = "no"]
  <1>1. /\ Runs /\ state[c] = "unused" /\ cur' = cur /\ Result(y)
        /\ state' = [state EXCEPT ![c] = "live"]
    BY DEF sys_fork
  <1>2. /\ cur \in Procs /\ Exact(s) /\ s.bad = "no" /\ c # cur /\ Present(s, c) = {}
        /\ state \in [Procs -> {"unused", "live", "zombie"}]
        /\ \A p \in Procs : state[p] # "live" => Present(s, p) = {}
    BY <1>1 DEF MemInv, Runs
  <1>3. /\ Rec(y)
        /\ y.bad = "no" => /\ Exact(y)
                           /\ \A q \in Procs \ {c} : Present(y, q) = Present(s, q)
    BY <1>2, CopyPagesFacts
  <1> HIDE DEF y
  <1>4. SamePages(y, x) /\ x.bad = "no"
    BY <1>3 DEF Rec, SamePages
  <1>5. s' = Forget(x) /\ panic' = y.bad
    BY <1>1 DEF Result
  <1> HIDE DEF x
  <1>6. SamePages(x, s') /\ s'.bad = "no"
    BY <1>4, <1>5, ForgetSame DEF SamePages
  <1>7. SamePages(y, s')
    BY <1>4, <1>6, SameTrans
  <1>8. /\ state' \in [Procs -> {"unused", "live", "zombie"}]
        /\ \A p \in Procs : state'[p] # "live" => p # c /\ state[p] # "live"
    BY <1>1, <1>2
  <1>9. ASSUME panic' = "no"
        PROVE  Exact(s') /\ \A p \in Procs : state'[p] # "live" => Present(s', p) = {}
    <2>1. \A q \in Procs : Present(s', q) = Present(y, q)
      BY <1>7 DEF SamePages, Present
    <2>2. Exact(y) /\ \A q \in Procs \ {c} : Present(y, q) = Present(s, q)
      BY <1>3, <1>5, <1>9
    <2>3. FramesOK(s')
      BY <1>7, <2>2 DEF SamePages, Exact, FramesOK
    <2>4. \A q \in Procs : s'.bits[q] = Present(s', q)
      BY <1>7, <2>1, <2>2 DEF SamePages, Exact
    <2>5. QED
      BY <1>2, <1>8, <2>1, <2>2, <2>3, <2>4 DEF Exact
  <1>10. QED
    BY <1>1, <1>2, <1>6, <1>7, <1>8, <1>9
       DEF MemInv, SamePages, Exact, FramesOK, Present, BitMaps, Tables, Rec

LEMMA SwitchKeeps ==
  ASSUME MemoryAssumption, MemInv, NEW p \in Procs, schedule(p)
  PROVE  MemInv'
  <1> DEFINE x == [s EXCEPT !.tlb = NoTlb]
  <1>1. /\ cur' = p /\ s' = Forget(x) /\ state' = state /\ panic' = panic /\ panic = "no"
    BY DEF schedule
  <1>2. SamePages(s, x) /\ x.bad = "no"
    BY DEF MemInv, Rec, SamePages
  <1> HIDE DEF x
  <1>3. SamePages(s, s') /\ s'.bad = "no"
    BY <1>1, <1>2, ForgetSame, SameTrans DEF SamePages
  <1>4. \A q \in Procs : Present(s', q) = Present(s, q)
    BY <1>3 DEF SamePages, Present
  <1>5. /\ Exact(s) /\ \A q \in Procs : state[q] # "live" => Present(s, q) = {}
    BY <1>1 DEF MemInv
  <1>6. Exact(s')
    <2>1. FramesOK(s')
      BY <1>3, <1>5 DEF SamePages, Exact, FramesOK
    <2>2. QED
      BY <1>3, <1>4, <1>5, <2>1 DEF SamePages, Exact
  <1>7. QED
    BY <1>1, <1>3, <1>4, <1>5, <1>6
       DEF MemInv, SamePages, Exact, FramesOK, Present, BitMaps, Tables, Rec

\* exit gives back every frame of the process and nobody else's.
LEMMA ExitKeeps ==
  ASSUME MemoryAssumption, MemInv, NEW q \in Procs, sys_exit(q)
  PROVE  MemInv'
  <1> DEFINE U == s.used \ Released(cur)
             x == [s EXCEPT !.used = U, !.pte[cur] = NoMap, !.bits[cur] = {}, !.tlb = NoTlb]
  <1>1. /\ Runs /\ state[q] = "live" /\ q # cur /\ cur' = q /\ s' = Forget(x)
        /\ state' = [state EXCEPT ![cur] = "zombie"] /\ panic' = panic
    BY DEF sys_exit
  <1>2. /\ cur \in Procs /\ Exact(s) /\ FramesOK(s) /\ s.bad = "no" /\ Rec(s)
        /\ s.pte \in Tables /\ s.bits \in BitMaps /\ s.used \in SUBSET Frames
        /\ state \in [Procs -> {"unused", "live", "zombie"}]
        /\ \A p \in Procs : state[p] # "live" => Present(s, p) = {}
    BY <1>1 DEF MemInv, Runs, Exact, FramesOK
  <1>3. /\ Rec(x) /\ x.used = U /\ x.bad = "no"
        /\ x.pte = [s.pte EXCEPT ![cur] = NoMap] /\ x.bits = [s.bits EXCEPT ![cur] = {}]
    <2> HIDE DEF U
    <2> DEFINE x1 == [s EXCEPT !.used = U]
               x2 == [x1 EXCEPT !.pte[cur] = NoMap]
               x3 == [x2 EXCEPT !.bits[cur] = {}]
               x4 == [x3 EXCEPT !.tlb = NoTlb]
    <2>1. x = x4
      OBVIOUS
    <2> HIDE DEF x
    <2>2. Rec(x1) /\ x1.used = U /\ x1.bad = "no" /\ x1.pte = s.pte /\ x1.bits = s.bits
      BY <1>2 DEF Rec
    <2> HIDE DEF x1
    <2>3. /\ Rec(x2) /\ x2.used = U /\ x2.bad = "no"
          /\ x2.pte = [s.pte EXCEPT ![cur] = NoMap] /\ x2.bits = s.bits
      BY <2>2 DEF Rec
    <2> HIDE DEF x2
    <2>4. /\ Rec(x3) /\ x3.used = U /\ x3.bad = "no"
          /\ x3.pte = [s.pte EXCEPT ![cur] = NoMap] /\ x3.bits = [s.bits EXCEPT ![cur] = {}]
      <3>1. Rec(x2)
        BY <2>3
      <3>2. /\ Rec(x3) /\ x3.used = x2.used /\ x3.bad = x2.bad
            /\ x3.pte = x2.pte /\ x3.bits = [x2.bits EXCEPT ![cur] = {}]
        BY <3>1 DEF Rec
      <3> HIDE DEF x3
      <3>3. QED
        BY <2>3, <3>2
    <2> HIDE DEF x3
    <2>5. /\ Rec(x4) /\ x4.used = U /\ x4.bad = "no"
          /\ x4.pte = [s.pte EXCEPT ![cur] = NoMap] /\ x4.bits = [s.bits EXCEPT ![cur] = {}]
      BY <2>4 DEF Rec
    <2>6. QED
      BY <2>1, <2>5
  <1> HIDE DEF x
  <1>4. SamePages(x, s') /\ s'.bad = "no"
    BY <1>1, <1>3, ForgetSame
  <1>5. /\ s'.pte = [s.pte EXCEPT ![cur] = NoMap] /\ s'.bits = [s.bits EXCEPT ![cur] = {}]
        /\ s'.used = U /\ Rec(s')
    BY <1>3, <1>4 DEF SamePages
  <1>6. /\ s'.pte \in Tables /\ s'.bits \in BitMaps /\ s'.used \in SUBSET Frames
    <2>1. NoMap \in [Pages -> Frames \cup {None}]
      BY DEF NoMap
    <2>2. s'.pte \in Tables
      BY <1>2, <1>5, <2>1 DEF Tables
    <2>3. s'.bits \in BitMaps
      BY <1>2, <1>5 DEF BitMaps
    <2>4. QED
      BY <1>2, <1>5, <2>2, <2>3
  <1>7. \A p \in Procs, v \in Pages : s'.pte[p][v] = IF p = cur THEN None ELSE s.pte[p][v]
    BY <1>2, <1>5 DEF Tables, NoMap
  <1>8. ASSUME NEW f \in Frames
        PROVE  f \in s'.used <=> \E p \in Procs, v \in Pages : s'.pte[p][v] = f
    <2>0. f # None
      BY Sizes
    <2>1. f \in s'.used <=> f \in s.used /\ \A v \in Pages : s.pte[cur][v] # f
      BY <1>5, <2>0 DEF Released
    <2>2. f \in s.used <=> \E p \in Procs, v \in Pages : s.pte[p][v] = f
      BY <1>2 DEF FramesOK
    <2>3. \A p \in Procs, v \in Pages : s.pte[p][v] = f /\ p # cur => \A w \in Pages : s.pte[cur][w] # f
      BY <1>2, <2>0 DEF FramesOK
    <2>4. QED
      BY <1>2, <1>7, <2>0, <2>1, <2>2, <2>3
  <1>9. \A p, r \in Procs : \A v, w \in Pages :
          s'.pte[p][v] = s'.pte[r][w] /\ s'.pte[p][v] # None => p = r /\ v = w
    BY <1>2, <1>7 DEF FramesOK
  <1>10. FramesOK(s')
    BY <1>5, <1>6, <1>8, <1>9 DEF FramesOK
  <1>11. Present(s', cur) = {} /\ \A p \in Procs \ {cur} : Present(s', p) = Present(s, p)
    BY <1>2, <1>7 DEF Present
  <1>12. \A p \in Procs : s'.bits[p] = Present(s', p)
    BY <1>2, <1>5, <1>11 DEF Exact, BitMaps
  <1>13. /\ state' \in [Procs -> {"unused", "live", "zombie"}]
         /\ \A p \in Procs : state'[p] # "live" => p = cur \/ state[p] # "live"
    BY <1>1, <1>2
  <1>14. \A p \in Procs : state'[p] # "live" => Present(s', p) = {}
    BY <1>2, <1>11, <1>13
  <1>15. QED
    BY <1>1, <1>4, <1>5, <1>10, <1>12, <1>13, <1>14
       DEF MemInv, Exact, FramesOK, Present, BitMaps, Tables, Rec

LEMMA WaitKeeps ==
  ASSUME MemInv, NEW p \in Procs, sys_wait(p)
  PROVE  MemInv'
  <1>1. /\ state[p] = "zombie" /\ state' = [state EXCEPT ![p] = "unused"]
        /\ UNCHANGED <<cur, s, panic>>
    BY DEF sys_wait
  <1>2. /\ state' \in [Procs -> {"unused", "live", "zombie"}]
        /\ \A q \in Procs : state'[q] # "live" => state[q] # "live"
    BY <1>1 DEF MemInv
  <1>3. QED
    BY <1>1, <1>2 DEF MemInv, Exact, FramesOK, Present, BitMaps, Tables, Rec

\* Every step keeps the invariant.
LEMMA MemStep ==
  ASSUME MemoryAssumption, MemInv, [Next]_vars
  PROVE  MemInv'
  <1>1. CASE UNCHANGED vars
    BY <1>1 DEF vars, MemInv, Exact, FramesOK, Present, BitMaps, Tables, Rec
  <1>2. CASE Next
    <2>1. CASE (\E n \in 1..MaxLarge : sys_malloc_large(n)) \/ sys_malloc_small
      BY <2>1, MallocKeeps
    <2>2. CASE \E b \in held[cur] : sys_free(b)
      BY <2>2, FreeKeeps
    <2>3. CASE \E n \in 1..MaxSegment : sys_execv(n)
      BY <2>3, ExecKeeps
    <2>4. CASE \E p \in Procs : sys_fork(p) \/ schedule(p) \/ sys_exit(p) \/ sys_wait(p)
      BY <2>4, ForkKeeps, SwitchKeeps, ExitKeeps, WaitKeeps
    <2>5. QED
      BY <1>2, <2>1, <2>2, <2>3, <2>4 DEF Next
  <1>3. QED
    BY <1>1, <1>2

-----------------------------------------------------------------------------
(* The theorems.                                                           *)

LEMMA MemInitial ==
  ASSUME MemoryAssumption, Init
  PROVE  MemInv
  <1>1. /\ Rec(s) /\ s.bad = "no" /\ s.used = {} /\ s.bits = [p \in Procs |-> {}]
        /\ s.pte = [p \in Procs |-> NoMap]
    BY DEF Init, Rec
  <1>2. s.pte \in Tables /\ s.bits \in BitMaps
    BY <1>1 DEF Tables, BitMaps, NoMap
  <1>3. \A p \in Procs, v \in Pages : s.pte[p][v] = None
    BY <1>1 DEF NoMap
  <1>4. None \notin Frames
    BY Sizes
  <1>5. FramesOK(s)
    BY <1>1, <1>2, <1>3, <1>4 DEF FramesOK
  <1>6. \A p \in Procs : Present(s, p) = {} /\ s.bits[p] = {}
    BY <1>1, <1>3 DEF Present
  <1>7. cur \in Procs /\ state \in [Procs -> {"unused", "live", "zombie"}]
    BY Sizes DEF Init
  <1>8. QED
    BY <1>1, <1>5, <1>6, <1>7 DEF MemInv, Exact

\* The invariant of pool, page tables and address bitmaps.
THEOREM MemInvariant == Spec => []MemInv
  <1>1. Init => MemInv
    BY MemInitial, MemoryAssumption
  <1>2. MemInv /\ [Next]_vars => MemInv'
    BY MemStep, MemoryAssumption
  <1>3. QED
    BY <1>1, <1>2, PTL DEF Spec

\* A frame is taken in the pool exactly while one page of one live process is
\* mapped to it, and the address bitmap has the bits of the mapped pages: over
\* any sequence of malloc, free, fork, exec, exit and wait (memory.c:81-173,
\* 259-434; fork.c:35-65; exec.c:46-76; wait_exit.c:22-41).
THEOREM PagesAlwaysExact == Spec => []PagesExact
  <1>1. MemInv => PagesExact
    <2>1. SUFFICES ASSUME MemInv, panic = "no" PROVE PagesExact
      BY DEF PagesExact, FrameOwnedOnce, BitsMatchTable
    <2>2. /\ Exact(s) /\ FramesOK(s)
          /\ \A p \in Procs : state[p] # "live" => Present(s, p) = {}
      BY <2>1 DEF MemInv, Exact
    <2>3. BitsMatchTable
      BY <2>2 DEF BitsMatchTable, Live, Exact, Present
    <2>4. \A m \in Mappings : m[1] \in Live /\ m[1] \in Procs /\ m[2] \in Pages
                              /\ s.pte[m[1]][m[2]] # None /\ m = <<m[1], m[2]>>
      BY DEF Mappings, Live
    <2>5. \A p \in Procs, v \in Pages : s.pte[p][v] # None => <<p, v>> \in Mappings
      BY <2>2 DEF Mappings, Live, Present
    <2>6. s.used = {s.pte[m[1]][m[2]] : m \in Mappings}
      <3>1. ASSUME NEW f \in s.used PROVE \E m \in Mappings : f = s.pte[m[1]][m[2]]
        <4>1. f \in Frames /\ f # None
          BY <2>2, MemoryAssumption, Sizes DEF FramesOK
        <4>2. PICK p \in Procs, v \in Pages : s.pte[p][v] = f
          BY <2>2, <4>1 DEF FramesOK
        <4>3. <<p, v>> \in Mappings
          BY <2>5, <4>1, <4>2
        <4>4. <<p, v>>[1] = p /\ <<p, v>>[2] = v
          OBVIOUS
        <4>5. QED
          BY <4>2, <4>3, <4>4
      <3>2. ASSUME NEW m \in Mappings PROVE s.pte[m[1]][m[2]] \in s.used
        <4>1. m[1] \in Procs /\ m[2] \in Pages /\ s.pte[m[1]][m[2]] # None
          BY <2>4
        <4>2. s.pte[m[1]][m[2]] \in Frames
          BY <2>2, <4>1 DEF FramesOK, Tables
        <4>3. QED
          BY <2>2, <4>1, <4>2 DEF FramesOK
      <3>3. QED
        BY <3>1, <3>2
    <2>7. ASSUME NEW m \in Mappings, NEW n \in Mappings, s.pte[m[1]][m[2]] = s.pte[n[1]][n[2]]
          PROVE  m = n
      <3>1. m[1] = n[1] /\ m[2] = n[2]
        BY <2>2, <2>4, <2>7 DEF FramesOK
      <3>2. QED
        BY <2>4, <3>1
    <2>8. QED
      BY <2>3, <2>6, <2>7 DEF PagesExact, FrameOwnedOnce
  <1>2. QED
    BY <1>1, MemInvariant, PTL

\* The search finds the lowest run of clear bits in the address bitmap of any
\* process, for every length, after any sequence of calls; the bitmap is never
\* full when it is searched (bitmap.c:21-56).
THEOREM ScanAlwaysExact == Spec => []ScanExact
  <1>1. MemInv => ScanExact
    <2>1. SUFFICES ASSUME MemInv, panic = "no", NEW p \in Live, NEW n \in 1..(MaxLarge + 1)
                   PROVE  bitmap_scan(s.bits[p], n) = FirstRun(s.bits[p], n)
      BY DEF ScanExact
    <2>2. Exact(s) /\ p \in Procs
      BY <2>1 DEF MemInv, Live
    <2>3. s.bits[p] \in SUBSET Pages /\ s.bits[p] # Pages
      BY <2>2, MemoryAssumption, AddressesLeft
    <2>4. n \in Nat /\ n # 0
      BY MemoryAssumption, Sizes
    <2>5. QED
      BY <2>3, <2>4, MemoryAssumption, ScanFacts
  <1>2. QED
    BY <1>1, MemInvariant, PTL

-----------------------------------------------------------------------------
(* The free lists.                                                         *)

\* Addresses, and what a page holds.
Addr == (Procs \cup Pages) \X (0..(Blocks + 1)) \cup {None}
LinkSet == [prev : Addr, next : Addr]
PageSet == [desc : Procs \cup {None}, cnt : Int, link : [1..Blocks -> LinkSet]]
MemTypes(m) ==
  /\ m.tlb \in [Pages -> Frames \cup {None}]
  /\ m.page \in [Frames -> PageSet]
  /\ m.list \in [Procs -> LinkSet]

\* The frames the pages are reached through, and the pages that have one of their own.
FrOf(m) == [v \in Pages |-> FrameAt(m, v)]
Reach(fr, A) ==
  /\ A \subseteq Pages
  /\ \A v \in A : fr[v] \in Frames
  /\ \A v, w \in A : fr[v] = fr[w] => v = w

\* The nodes in the pages of A; a list has two ends, of which each has one link.
Nodes(A) == A \X (1..Blocks)
IsCell(p, A, a, d) ==
  \/ a = head(p) /\ d = "next"
  \/ a = tail(p) /\ d = "prev"
  \/ a \in Nodes(A) /\ d \in {"prev", "next"}
At(m, fr, a, d) == IF a[1] \in Procs THEN m.list[a[1]][d] ELSE m.page[fr[a[1]]].link[a[2]][d]

\* y differs from m in the links of the running process's nodes in A.
Rewrites(m, y, A) ==
  /\ SamePages(m, y) /\ MemTypes(y) /\ y.bad = m.bad /\ y.tlb = m.tlb
  /\ \A q \in Procs \ {cur} : y.list[q] = m.list[q]
  /\ \A f \in Frames :
       /\ y.page[f].desc = m.page[f].desc /\ y.page[f].cnt = m.page[f].cnt
       /\ (\A v \in A : FrOf(m)[v] # f) => y.page[f] = m.page[f]

\* Where addresses are told apart.
LEMMA AddrFacts ==
  ASSUME MemoryAssumption
  PROVE  /\ \A v \in Pages : v \notin Procs
         /\ Blocks \in Nat /\ Blocks > 0
         /\ \A p \in Procs : /\ head(p) # None /\ tail(p) # None /\ head(p) # tail(p)
                             /\ head(p) \in Addr /\ tail(p) \in Addr
                             /\ head(p)[1] = p /\ tail(p)[1] = p
         /\ \A A \in SUBSET Pages : \A a \in Nodes(A) :
              /\ a # None /\ a \in Addr /\ a[1] \in A /\ a[2] \in 1..Blocks
              /\ a[1] \in Pages /\ a[1] \notin Procs /\ a = <<a[1], a[2]>>
              /\ \A p \in Procs : a # head(p) /\ a # tail(p)
  <1>1. /\ Procs \cap 0..NBits = {} /\ None \notin (Procs \cup 0..NBits) \X (0..(Blocks + 1))
        /\ Blocks \in Nat /\ Blocks > 0 /\ NBits \in Nat /\ Pages = 0..(NBits - 1)
    BY Sizes DEF MemoryAssumption, NPages
  <1>2. \A v \in Pages : v \notin Procs /\ v \in 0..NBits
    BY <1>1
  <1>3. ASSUME NEW p \in Procs
        PROVE  /\ head(p) # None /\ tail(p) # None /\ head(p) # tail(p)
               /\ head(p) \in Addr /\ tail(p) \in Addr
               /\ head(p)[1] = p /\ tail(p)[1] = p
    <2>1. 0 \in 0..(Blocks + 1) /\ Blocks + 1 \in 0..(Blocks + 1) /\ 0 # Blocks + 1
      BY <1>1
    <2>2. <<p, 0>> \in (Procs \cup 0..NBits) \X (0..(Blocks + 1))
      BY <2>1
    <2>3. <<p, Blocks + 1>> \in (Procs \cup 0..NBits) \X (0..(Blocks + 1))
      BY <2>1
    <2>4. QED
      BY <1>1, <2>1, <2>2, <2>3 DEF head, tail, Addr
  <1>4. ASSUME NEW A \in SUBSET Pages, NEW a \in Nodes(A)
        PROVE  /\ a # None /\ a \in Addr /\ a[1] \in A /\ a[2] \in 1..Blocks
               /\ a[1] \in Pages /\ a[1] \notin Procs /\ a = <<a[1], a[2]>>
               /\ \A p \in Procs : a # head(p) /\ a # tail(p)
    <2>1. a[1] \in A /\ a[2] \in 1..Blocks /\ a = <<a[1], a[2]>>
      BY DEF Nodes
    <2>2. a[1] \in Pages /\ a[1] \notin Procs /\ a[1] \in 0..NBits /\ a[2] \in 0..(Blocks + 1)
      BY <1>1, <1>2, <2>1
    <2>3. a \in (Procs \cup 0..NBits) \X (0..(Blocks + 1)) /\ a \in Addr
      BY <2>1, <2>2 DEF Addr
    <2>4. QED
      BY <1>1, <1>3, <2>1, <2>2, <2>3
  <1>5. QED
    BY <1>1, <1>2, <1>3, <1>4

\* The links the code follows.
LEMMA FollowIs ==
  ASSUME MemoryAssumption, cur \in Procs, NEW m, NEW A, Reach(FrOf(m), A),
         NEW a, NEW d, IsCell(cur, A, a, d)
  PROVE  Follow(m, a, d) = At(m, FrOf(m), a, d) /\ Mapped(m, a)
  <1>1. CASE a = head(cur) \/ a = tail(cur)
    <2>1. a # None /\ a[1] = cur
      BY <1>1, AddrFacts
    <2>2. QED
      BY <2>1 DEF Follow, Mapped, At
  <1>2. CASE a \in Nodes(A)
    <2>1. a # None /\ a[1] \in A /\ a[1] \in Pages /\ a[1] \notin Procs
      BY <1>2, AddrFacts DEF Reach
    <2>2. FrameAt(m, a[1]) = FrOf(m)[a[1]] /\ FrameAt(m, a[1]) # None
      BY <2>1, Sizes DEF FrOf, Reach
    <2>3. QED
      BY <2>1, <2>2 DEF Follow, Mapped, At
  <1>3. QED
    BY <1>1, <1>2 DEF IsCell

\* A link that is written: the record, its fields and its other links.
LEMMA LinkWritten ==
  ASSUME NEW l \in LinkSet, NEW x \in Addr, NEW d \in {"prev", "next"}
  PROVE  /\ [l EXCEPT ![d] = x] \in LinkSet
         /\ \A e \in {"prev", "next"} : [l EXCEPT ![d] = x][e] = IF e = d THEN x ELSE l[e]
  BY DEF LinkSet

LEMMA PageWritten ==
  ASSUME NEW g \in PageSet, NEW i \in 1..Blocks, NEW l \in LinkSet
  PROVE  LET h == [g EXCEPT !.link = [g.link EXCEPT ![i] = l]]
         IN /\ h \in PageSet /\ h.desc = g.desc /\ h.cnt = g.cnt
            /\ \A j \in 1..Blocks : h.link[j] = IF j = i THEN l ELSE g.link[j]
  BY DEF PageSet

\* What writing a link does.
LEMMA SetLinkFacts ==
  ASSUME MemoryAssumption, cur \in Procs, NEW m, Rec(m), MemTypes(m), NEW A, Reach(FrOf(m), A),
         NEW a, NEW d, IsCell(cur, A, a, d), NEW x \in Addr
  PROVE  LET y == SetLink(m, a, d, x)
         IN /\ Rewrites(m, y, A) /\ FrOf(y) = FrOf(m)
            /\ At(y, FrOf(m), a, d) = x
            /\ \A b, e : IsCell(cur, A, b, e) /\ (b # a \/ e # d) =>
                 At(y, FrOf(m), b, e) = At(m, FrOf(m), b, e)
  <1> DEFINE y == SetLink(m, a, d, x)
             fr == FrOf(m)
  <1>0. d \in {"prev", "next"}
    BY DEF IsCell
  <1>m. Mapped(m, a)
    BY FollowIs
  <1>t. /\ m.tlb \in [Pages -> Frames \cup {None}] /\ m.page \in [Frames -> PageSet]
        /\ m.list \in [Procs -> LinkSet]
    BY DEF MemTypes
  <1>1. CASE a = head(cur) \/ a = tail(cur)
    <2> DEFINE l == [m.list[cur] EXCEPT ![d] = x]
    <2>1. a[1] = cur
      BY <1>1, AddrFacts
    <2>2. y = [m EXCEPT !.list[cur][d] = x]
      BY <1>m, <2>1 DEF SetLink
    <2>3. y = [m EXCEPT !.list = [m.list EXCEPT ![cur] = l]]
      BY <2>2
    <2>4. l \in LinkSet /\ \A e \in {"prev", "next"} : l[e] = IF e = d THEN x ELSE m.list[cur][e]
      <3> DEFINE k == m.list[cur]
      <3>1. k \in LinkSet
        BY <1>t
      <3> HIDE DEF k
      <3>2. /\ [k EXCEPT ![d] = x] \in LinkSet
            /\ \A e \in {"prev", "next"} : [k EXCEPT ![d] = x][e] = IF e = d THEN x ELSE k[e]
        BY <1>0, <3>1, LinkWritten
      <3>3. QED
        BY <3>2 DEF k
    <2> HIDE DEF l, y
    <2>5. /\ Rec(y) /\ y.used = m.used /\ y.bits = m.bits /\ y.pte = m.pte /\ y.tlb = m.tlb
          /\ y.page = m.page /\ y.bad = m.bad /\ y.list = [m.list EXCEPT ![cur] = l]
      BY <2>3 DEF Rec
    <2>6. y.list \in [Procs -> LinkSet] /\ y.list[cur] = l
          /\ \A q \in Procs \ {cur} : y.list[q] = m.list[q]
      BY <1>t, <2>4, <2>5
    <2>7. Rewrites(m, y, A) /\ FrOf(y) = FrOf(m)
      BY <1>t, <2>5, <2>6 DEF Rewrites, SamePages, MemTypes, FrOf, FrameAt
    <2>8. At(y, fr, a, d) = x
      BY <1>0, <2>1, <2>4, <2>6 DEF At
    <2>9. ASSUME NEW b, NEW e, IsCell(cur, A, b, e), b # a \/ e # d
          PROVE  At(y, fr, b, e) = At(m, fr, b, e)
      <3>1. CASE b \in Nodes(A)
        <4>1. b[1] \notin Procs
          BY <3>1, AddrFacts DEF Reach
        <4>2. QED
          BY <2>5, <4>1 DEF At
      <3>2. CASE (b = head(cur) /\ e = "next") \/ (b = tail(cur) /\ e = "prev")
        <4>1. b[1] = cur /\ e \in {"prev", "next"}
          BY <3>2, AddrFacts
        <4>2. e # d
          <5>1. (a = head(cur) /\ d = "next") \/ (a = tail(cur) /\ d = "prev")
            <6>1. a \notin Nodes(A)
              BY <1>1, AddrFacts DEF Reach
            <6>2. QED
              BY <6>1 DEF IsCell
          <5>2. QED
            BY <2>9, <3>2, <5>1
        <4>3. QED
          BY <2>4, <2>6, <4>1, <4>2 DEF At
      <3>3. QED
        BY <2>9, <3>1, <3>2 DEF IsCell
    <2>10. QED
      BY <2>7, <2>8, <2>9 DEF y
  <1>2. CASE a \in Nodes(A)
    <2> DEFINE f == fr[a[1]]
               i == a[2]
               l == [m.page[f].link[i] EXCEPT ![d] = x]
               h == [m.page[f] EXCEPT !.link = [m.page[f].link EXCEPT ![i] = l]]
    <2>1. a[1] \notin Procs /\ a[1] \in A /\ a[1] \in Pages /\ i \in 1..Blocks /\ a = <<a[1], a[2]>>
      BY <1>2, AddrFacts DEF Reach
    <2>2. f \in Frames /\ FrameAt(m, a[1]) = f
      BY <2>1 DEF Reach, FrOf
    <2>3. y = [m EXCEPT !.page[f].link[i][d] = x]
      BY <1>m, <2>1, <2>2 DEF SetLink
    <2>4. y = [m EXCEPT !.page = [m.page EXCEPT ![f] = h]]
      BY <2>3
    <2>5. m.page[f] \in PageSet /\ m.page[f].link[i] \in LinkSet
      BY <1>t, <2>1, <2>2 DEF PageSet
    <2>6. l \in LinkSet /\ \A e \in {"prev", "next"} : l[e] = IF e = d THEN x ELSE m.page[f].link[i][e]
      <3> DEFINE k == m.page[f].link[i]
      <3>1. k \in LinkSet
        BY <2>5
      <3> HIDE DEF k, f, i
      <3>2. /\ [k EXCEPT ![d] = x] \in LinkSet
            /\ \A e \in {"prev", "next"} : [k EXCEPT ![d] = x][e] = IF e = d THEN x ELSE k[e]
        BY <1>0, <3>1, LinkWritten
      <3>3. QED
        BY <3>2 DEF k
    <2> HIDE DEF l
    <2>7. /\ h \in PageSet /\ h.desc = m.page[f].desc /\ h.cnt = m.page[f].cnt
          /\ \A j \in 1..Blocks : h.link[j] = IF j = i THEN l ELSE m.page[f].link[j]
      <3> DEFINE g == m.page[f]
      <3>1. g \in PageSet
        BY <2>5
      <3> HIDE DEF g, i, f
      <3>2. QED
        BY <2>1, <2>6, <3>1, PageWritten DEF g
    <2> HIDE DEF h, y, f, i
    <2>8. /\ Rec(y) /\ y.used = m.used /\ y.bits = m.bits /\ y.pte = m.pte /\ y.tlb = m.tlb
          /\ y.list = m.list /\ y.bad = m.bad /\ y.page = [m.page EXCEPT ![f] = h]
      BY <2>4 DEF Rec
    <2>9. y.page \in [Frames -> PageSet] /\ y.page[f] = h
          /\ \A g \in Frames \ {f} : y.page[g] = m.page[g]
      BY <1>t, <2>2, <2>7, <2>8
    <2>10. ASSUME NEW g \in Frames
           PROVE  /\ y.page[g].desc = m.page[g].desc /\ y.page[g].cnt = m.page[g].cnt
                  /\ (\A v \in A : FrOf(m)[v] # g) => y.page[g] = m.page[g]
      BY <2>1, <2>7, <2>9 DEF f
    <2>11. Rewrites(m, y, A) /\ FrOf(y) = FrOf(m)
      BY <1>t, <2>8, <2>9, <2>10 DEF Rewrites, SamePages, MemTypes, FrOf, FrameAt
    <2>12. At(y, fr, a, d) = x
      BY <1>0, <2>1, <2>6, <2>7, <2>9 DEF At, f, i
    <2>13. ASSUME NEW b, NEW e, IsCell(cur, A, b, e), b # a \/ e # d
           PROVE  At(y, fr, b, e) = At(m, fr, b, e)
      <3>1. CASE b = head(cur) \/ b = tail(cur)
        <4>1. b[1] \in Procs
          BY <3>1, AddrFacts
        <4>2. QED
          BY <2>8, <4>1 DEF At
      <3>2. CASE b \in Nodes(A) /\ e \in {"prev", "next"}
        <4>1. b[1] \notin Procs /\ b[1] \in A /\ b[2] \in 1..Blocks /\ b = <<b[1], b[2]>>
          BY <3>2, AddrFacts DEF Reach
        <4>2. fr[b[1]] \in Frames
          BY <4>1 DEF Reach
        <4>3. CASE fr[b[1]] # f
          BY <2>9, <4>1, <4>2, <4>3 DEF At
        <4>4. CASE fr[b[1]] = f
          <5>1. b[1] = a[1]
            BY <2>1, <4>1, <4>4 DEF Reach, f
          <5>2. CASE b[2] # i
            BY <2>7, <2>9, <4>1, <4>4, <5>2 DEF At
          <5>3. CASE b[2] = i
            <6>1. b = a
              BY <2>1, <4>1, <5>1, <5>3 DEF i
            <6>2. e # d
              BY <2>13, <6>1
            <6>3. QED
              BY <2>6, <2>7, <2>9, <3>2, <4>1, <4>4, <5>3, <6>2 DEF At
          <5>4. QED
            BY <5>2, <5>3
        <4>5. QED
          BY <4>3, <4>4
      <3>3. QED
        BY <2>13, <3>1, <3>2 DEF IsCell
    <2>14. QED
      BY <2>11, <2>12, <2>13 DEF y
  <1>3. QED
    BY <1>1, <1>2 DEF IsCell

LEMMA RewritesTrans ==
  ASSUME NEW x, NEW y, NEW z, NEW A, Rewrites(x, y, A), Rewrites(y, z, A)
  PROVE  Rewrites(x, z, A) /\ FrOf(y) = FrOf(x) /\ FrOf(z) = FrOf(x)
  <1>1. FrOf(y) = FrOf(x) /\ FrOf(z) = FrOf(y)
    BY DEF Rewrites, SamePages, FrOf, FrameAt
  <1>2. SamePages(x, z)
    BY SameTrans DEF Rewrites
  <1>3. QED
    BY <1>1, <1>2 DEF Rewrites

\* From head to tail by the links next, and back by prev, n nodes on the way: those of S.
Chain(m, fr, p, A, n, c) ==
  /\ c[0] = head(p) /\ c[n + 1] = tail(p)
  /\ \A i \in 1..n : c[i] \in Nodes(A)
  /\ \A i, j \in 1..n : c[i] = c[j] => i = j
  /\ \A i \in 0..n : At(m, fr, c[i], "next") = c[i + 1] /\ At(m, fr, c[i + 1], "prev") = c[i]
HasChain(m, fr, p, A, S) ==
  \E n \in Nat : \E c : Chain(m, fr, p, A, n, c) /\ S = {c[i] : i \in 1..n}

\* Every node of a list and its two ends are cells, and no two are the same.
Cells(p, A, n, c) ==
  /\ \A i \in 0..n : IsCell(p, A, c[i], "next")
  /\ \A i \in 1..(n + 1) : IsCell(p, A, c[i], "prev")
  /\ \A i, j \in 0..(n + 1) : c[i] = c[j] => i = j
  /\ \A i \in 0..(n + 1) : c[i] \in Addr /\ c[i] # None
  /\ \A i \in 1..n : c[i] \in Nodes(A)

LEMMA ChainCells ==
  ASSUME MemoryAssumption, NEW p \in Procs, NEW A \in SUBSET Pages, NEW m, NEW fr,
         NEW n \in Nat, NEW c, Chain(m, fr, p, A, n, c)
  PROVE  Cells(p, A, n, c)
  <1>1. c[0] = head(p) /\ c[n + 1] = tail(p) /\ \A i \in 1..n : c[i] \in Nodes(A)
    BY DEF Chain
  <1>2. /\ head(p) # tail(p) /\ head(p) \in Addr /\ tail(p) \in Addr
        /\ head(p) # None /\ tail(p) # None
        /\ \A a \in Nodes(A) : a \in Addr /\ a # None /\ a # head(p) /\ a # tail(p)
    BY AddrFacts
  <1>3. \A i \in 0..(n + 1) : i = 0 \/ i = n + 1 \/ i \in 1..n
    OBVIOUS
  <1>4. \A i \in 0..(n + 1) : c[i] \in Addr /\ c[i] # None
    BY <1>1, <1>2, <1>3
  <1>5. \A i \in 0..n : IsCell(p, A, c[i], "next")
    <2>1. \A i \in 0..n : i = 0 \/ i \in 1..n
      OBVIOUS
    <2>2. QED
      BY <1>1, <2>1 DEF IsCell
  <1>6. \A i \in 1..(n + 1) : IsCell(p, A, c[i], "prev")
    <2>1. \A i \in 1..(n + 1) : i = n + 1 \/ i \in 1..n
      OBVIOUS
    <2>2. QED
      BY <1>1, <2>1 DEF IsCell
  <1>7. ASSUME NEW i \in 0..(n + 1), NEW j \in 0..(n + 1), c[i] = c[j] PROVE i = j
    <2>1. CASE i \in 1..n /\ j \in 1..n
      BY <2>1, <1>7 DEF Chain
    <2>2. CASE ~(i \in 1..n /\ j \in 1..n)
      BY <2>2, <1>1, <1>2, <1>3, <1>7
    <2>3. QED
      BY <2>1, <2>2
  <1>8. QED
    BY <1>1, <1>4, <1>5, <1>6, <1>7 DEF Cells

\* A list is seen the same way if its ends and the links of its pages are the same.
LEMMA ChainSame ==
  ASSUME MemoryAssumption, NEW p \in Procs, NEW A \in SUBSET Pages, NEW B \in SUBSET Pages,
         A \subseteq B, NEW m, NEW fr, NEW x, NEW gr, NEW S, HasChain(m, fr, p, A, S),
         x.list[p] = m.list[p],
         \A v \in A : x.page[gr[v]].link = m.page[fr[v]].link
  PROVE  HasChain(x, gr, p, B, S)
  <1>0. PICK n \in Nat : \E c : Chain(m, fr, p, A, n, c) /\ S = {c[i] : i \in 1..n}
    BY DEF HasChain
  <1>1. PICK c : Chain(m, fr, p, A, n, c) /\ S = {c[i] : i \in 1..n}
    BY <1>0
  <1>2. \A a, d : IsCell(p, A, a, d) => At(x, gr, a, d) = At(m, fr, a, d)
    <2>1. SUFFICES ASSUME NEW a, NEW d, IsCell(p, A, a, d) PROVE At(x, gr, a, d) = At(m, fr, a, d)
      OBVIOUS
    <2>2. CASE a = head(p) \/ a = tail(p)
      <3>1. a[1] = p
        BY <2>2, AddrFacts
      <3>2. QED
        BY <3>1 DEF At
    <2>3. CASE a \in Nodes(A)
      <3>1. a[1] \notin Procs /\ a[1] \in A
        BY <2>3, AddrFacts
      <3>2. QED
        BY <3>1 DEF At
    <2>4. QED
      BY <2>1, <2>2, <2>3 DEF IsCell
  <1>3. /\ \A i \in 0..n : IsCell(p, A, c[i], "next")
        /\ \A i \in 1..(n + 1) : IsCell(p, A, c[i], "prev")
    <2>1. Cells(p, A, n, c)
      BY <1>1, ChainCells
    <2>2. QED
      BY <2>1 DEF Cells
  <1>4. \A i \in 1..n : c[i] \in Nodes(B)
    BY <1>1 DEF Chain, Nodes
  <1>5. ASSUME NEW i \in 0..n
        PROVE  At(x, gr, c[i], "next") = c[i + 1] /\ At(x, gr, c[i + 1], "prev") = c[i]
    <2>1. i + 1 \in 1..(n + 1)
      OBVIOUS
    <2>2. /\ At(x, gr, c[i], "next") = At(m, fr, c[i], "next")
          /\ At(x, gr, c[i + 1], "prev") = At(m, fr, c[i + 1], "prev")
      BY <1>2, <1>3, <2>1
    <2>3. QED
      BY <1>1, <2>2 DEF Chain
  <1>6. Chain(x, gr, p, B, n, c)
    BY <1>1, <1>4, <1>5 DEF Chain
  <1>7. QED
    BY <1>1, <1>6 DEF HasChain

\* A block that is not on the list goes to its end.
LEMMA AppendFacts ==
  ASSUME MemoryAssumption, cur \in Procs, NEW m, Rec(m), MemTypes(m), NEW A, Reach(FrOf(m), A),
         NEW S, HasChain(m, FrOf(m), cur, A, S), NEW b \in Nodes(A), b \notin S
  PROVE  /\ Rewrites(m, list_append(m, cur, b), A)
         /\ HasChain(list_append(m, cur, b), FrOf(m), cur, A, S \cup {b})
  <1> DEFINE fr == FrOf(m)
             tl == tail(cur)
  <1>0. PICK n \in Nat : \E c : Chain(m, fr, cur, A, n, c) /\ S = {c[i] : i \in 1..n}
    BY DEF HasChain
  <1>1. PICK c : Chain(m, fr, cur, A, n, c) /\ S = {c[i] : i \in 1..n}
    BY <1>0
  <1> DEFINE last == c[n]
             m1 == SetLink(m, last, "next", b)
             m2 == SetLink(m1, b, "prev", last)
             m3 == SetLink(m2, b, "next", tl)
             m4 == SetLink(m3, tl, "prev", b)
  <1>a. A \in SUBSET Pages
    BY DEF Reach
  <1>2. /\ \A i \in 0..n : IsCell(cur, A, c[i], "next")
        /\ \A i \in 1..(n + 1) : IsCell(cur, A, c[i], "prev")
        /\ \A i, j \in 0..(n + 1) : c[i] = c[j] => i = j
        /\ \A i \in 0..(n + 1) : c[i] \in Addr
    <2>1. Cells(cur, A, n, c)
      BY <1>1, <1>a, ChainCells
    <2>2. QED
      BY <2>1 DEF Cells
  <1>3. /\ tl = c[n + 1] /\ IsCell(cur, A, tl, "prev") /\ tl \in Addr
        /\ last \in Addr /\ IsCell(cur, A, last, "next") /\ At(m, fr, tl, "prev") = last
    <2>1. n \in 0..n /\ n \in 0..(n + 1) /\ n + 1 \in 0..(n + 1) /\ n + 1 \in 1..(n + 1)
      OBVIOUS
    <2>2. QED
      BY <1>1, <1>2, <2>1 DEF Chain
  <1>4. /\ b \in Addr /\ IsCell(cur, A, b, "prev") /\ IsCell(cur, A, b, "next")
        /\ \A i \in 0..(n + 1) : c[i] # b
    <2>1. b \in Addr /\ b # head(cur) /\ b # tl
      BY <1>a, AddrFacts
    <2>2. \A i \in 0..(n + 1) : i = 0 \/ i = n + 1 \/ i \in 1..n
      OBVIOUS
    <2>3. QED
      BY <1>1, <2>1, <2>2 DEF Chain, IsCell
  <1>5. last # tl /\ last # b /\ tl # b
    BY <1>2, <1>3, <1>4
  <1> HIDE DEF last, tl, fr
  <1>f. fr = FrOf(m) /\ Reach(fr, A)
    BY DEF fr
  <1>6. /\ Rewrites(m, m1, A) /\ FrOf(m1) = fr
        /\ At(m1, fr, last, "next") = b
        /\ \A a, e : IsCell(cur, A, a, e) /\ (a # last \/ e # "next") =>
             At(m1, fr, a, e) = At(m, fr, a, e)
    BY <1>3, <1>4, <1>f, SetLinkFacts
  <1>7. Follow(m, tl, "prev") = last /\ Follow(m1, tl, "prev") = last
    BY <1>3, <1>5, <1>6, <1>f, FollowIs
  <1>r1. Rec(m1) /\ MemTypes(m1)
    BY <1>6 DEF Rewrites, SamePages
  <1>8. list_append(m, cur, b) = m4
    BY <1>7 DEF list_append, tl
  <1> HIDE DEF m1
  <1>9. /\ Rewrites(m1, m2, A) /\ FrOf(m2) = fr
        /\ At(m2, fr, b, "prev") = last
        /\ \A a, e : IsCell(cur, A, a, e) /\ (a # b \/ e # "prev") =>
             At(m2, fr, a, e) = At(m1, fr, a, e)
    BY <1>3, <1>4, <1>6, <1>f, <1>r1, SetLinkFacts
  <1>r2. Rec(m2) /\ MemTypes(m2)
    BY <1>9 DEF Rewrites, SamePages
  <1> HIDE DEF m2
  <1>10. /\ Rewrites(m2, m3, A) /\ FrOf(m3) = fr
         /\ At(m3, fr, b, "next") = tl
         /\ \A a, e : IsCell(cur, A, a, e) /\ (a # b \/ e # "next") =>
              At(m3, fr, a, e) = At(m2, fr, a, e)
    BY <1>3, <1>4, <1>9, <1>f, <1>r2, SetLinkFacts
  <1>r3. Rec(m3) /\ MemTypes(m3)
    BY <1>10 DEF Rewrites, SamePages
  <1> HIDE DEF m3
  <1>11. /\ Rewrites(m3, m4, A) /\ FrOf(m4) = fr
         /\ At(m4, fr, tl, "prev") = b
         /\ \A a, e : IsCell(cur, A, a, e) /\ (a # tl \/ e # "prev") =>
              At(m4, fr, a, e) = At(m3, fr, a, e)
    BY <1>3, <1>4, <1>10, <1>f, <1>r3, SetLinkFacts
  <1> HIDE DEF m4
  <1>12. Rewrites(m, m4, A)
    <2>1. Rewrites(m, m2, A)
      BY <1>6, <1>9, RewritesTrans
    <2>2. Rewrites(m, m3, A)
      BY <2>1, <1>10, RewritesTrans
    <2>3. QED
      BY <2>2, <1>11, RewritesTrans
  <1>13. /\ At(m4, fr, last, "next") = b /\ At(m4, fr, b, "prev") = last
         /\ At(m4, fr, b, "next") = tl /\ At(m4, fr, tl, "prev") = b
    BY <1>3, <1>4, <1>5, <1>6, <1>9, <1>10, <1>11
  <1>14. \A a, e : IsCell(cur, A, a, e) /\ a # b /\ (a # last \/ e # "next") /\ (a # tl \/ e # "prev") =>
           At(m4, fr, a, e) = At(m, fr, a, e)
    BY <1>6, <1>9, <1>10, <1>11
  <1> DEFINE k == [i \in 0..(n + 2) |-> IF i <= n THEN c[i] ELSE IF i = n + 1 THEN b ELSE tl]
  <1>15. /\ \A i \in 0..n : k[i] = c[i]
         /\ k[n + 1] = b /\ k[(n + 1) + 1] = tl
    OBVIOUS
  <1> HIDE DEF k
  <1>16. Chain(m4, fr, cur, A, n + 1, k)
    <2>1. k[0] = head(cur) /\ k[(n + 1) + 1] = tail(cur)
      BY <1>1, <1>15 DEF Chain, tl
    <2>2. \A i \in 1..(n + 1) : i = n + 1 \/ (i \in 1..n /\ i \in 0..n /\ i \in 0..(n + 1))
      OBVIOUS
    <2>3. \A i \in 1..(n + 1) : k[i] \in Nodes(A)
      BY <1>1, <1>15, <2>2 DEF Chain
    <2>4. \A i, j \in 1..(n + 1) : k[i] = k[j] => i = j
      BY <1>2, <1>4, <1>15, <2>2
    <2>5. ASSUME NEW i \in 0..(n + 1)
          PROVE  At(m4, fr, k[i], "next") = k[i + 1] /\ At(m4, fr, k[i + 1], "prev") = k[i]
      <3>1. CASE i = n + 1
        BY <3>1, <1>13, <1>15
      <3>2. CASE i = n
        BY <3>2, <1>13, <1>15 DEF last
      <3>3. CASE i < n
        <4>1. i \in 0..n /\ i + 1 \in 0..n /\ i + 1 \in 1..(n + 1) /\ i \in 0..(n + 1) /\ n \in 0..(n + 1)
              /\ n + 1 \in 0..(n + 1) /\ i # n /\ i + 1 # n + 1 /\ i + 1 \in 0..(n + 1)
          BY <3>3
        <4>2. k[i] = c[i] /\ k[i + 1] = c[i + 1]
          BY <1>15, <4>1
        <4>3. c[i] # last /\ c[i] # b /\ c[i + 1] # b /\ c[i + 1] # tl
          BY <1>2, <1>3, <1>4, <4>1 DEF last
        <4>4. IsCell(cur, A, c[i], "next") /\ IsCell(cur, A, c[i + 1], "prev")
          BY <1>2, <4>1
        <4>5. /\ At(m4, fr, c[i], "next") = At(m, fr, c[i], "next")
              /\ At(m4, fr, c[i + 1], "prev") = At(m, fr, c[i + 1], "prev")
          BY <1>14, <4>3, <4>4
        <4>6. QED
          BY <1>1, <4>1, <4>2, <4>5 DEF Chain
      <3>4. QED
        BY <3>1, <3>2, <3>3
    <2>6. QED
      BY <2>1, <2>3, <2>4, <2>5 DEF Chain
  <1>17. S \cup {b} = {k[i] : i \in 1..(n + 1)}
    <2>1. \A i \in 1..n : k[i] = c[i] /\ i \in 1..(n + 1)
      BY <1>15
    <2>2. \A i \in 1..(n + 1) : i = n + 1 \/ i \in 1..n
      OBVIOUS
    <2>3. n + 1 \in 1..(n + 1)
      OBVIOUS
    <2>4. QED
      BY <1>1, <1>15, <2>1, <2>2, <2>3
  <1>18. HasChain(m4, fr, cur, A, S \cup {b})
    <2>1. n + 1 \in Nat
      OBVIOUS
    <2>2. QED
      BY <1>16, <1>17, <2>1 DEF HasChain
  <1>19. QED
    BY <1>8, <1>12, <1>18 DEF fr

\* A block that is on the list leaves it.
LEMMA RemoveFacts ==
  ASSUME MemoryAssumption, cur \in Procs, NEW m, Rec(m), MemTypes(m), NEW A, Reach(FrOf(m), A),
         NEW S, HasChain(m, FrOf(m), cur, A, S), NEW b \in S
  PROVE  /\ Rewrites(m, list_remove(m, b), A)
         /\ HasChain(list_remove(m, b), FrOf(m), cur, A, S \ {b})
  <1> DEFINE fr == FrOf(m)
  <1>pn. PICK n \in Nat : \E c : Chain(m, fr, cur, A, n, c) /\ S = {c[i] : i \in 1..n}
    BY DEF HasChain
  <1>1. PICK c : Chain(m, fr, cur, A, n, c) /\ S = {c[i] : i \in 1..n}
    BY <1>pn
  <1>a. A \in SUBSET Pages
    BY DEF Reach
  <1>2. /\ \A i \in 0..n : IsCell(cur, A, c[i], "next")
        /\ \A i \in 1..(n + 1) : IsCell(cur, A, c[i], "prev")
        /\ \A i, j \in 0..(n + 1) : c[i] = c[j] => i = j
        /\ \A i \in 0..(n + 1) : c[i] \in Addr
    <2>1. Cells(cur, A, n, c)
      BY <1>1, <1>a, ChainCells
    <2>2. QED
      BY <2>1 DEF Cells
  <1>0. PICK h \in 1..n : b = c[h]
    BY <1>1
  <1> DEFINE pr == c[h - 1]
             nx == c[h + 1]
             m1 == SetLink(m, pr, "next", nx)
             m2 == SetLink(m1, nx, "prev", pr)
  <1>i. h - 1 \in 0..n /\ h \in 0..n /\ h \in 0..(n + 1) /\ h + 1 \in 1..(n + 1) /\ h \in 1..(n + 1)
        /\ h - 1 \in 0..(n + 1) /\ h + 1 \in 0..(n + 1) /\ (h - 1) + 1 = h /\ h # h - 1 /\ h # h + 1
        /\ h - 1 # h + 1
    OBVIOUS
  <1>3. /\ IsCell(cur, A, pr, "next") /\ IsCell(cur, A, nx, "prev") /\ pr \in Addr /\ nx \in Addr
        /\ IsCell(cur, A, b, "next") /\ IsCell(cur, A, b, "prev")
        /\ At(m, fr, b, "next") = nx /\ At(m, fr, b, "prev") = pr
    BY <1>0, <1>1, <1>2, <1>i DEF Chain
  <1>4. b # pr /\ b # nx /\ pr # nx
    BY <1>0, <1>2, <1>i
  <1> HIDE DEF pr, nx, fr
  <1>f. fr = FrOf(m) /\ Reach(fr, A)
    BY DEF fr
  <1>5. /\ Rewrites(m, m1, A) /\ FrOf(m1) = fr
        /\ At(m1, fr, pr, "next") = nx
        /\ \A a, e : IsCell(cur, A, a, e) /\ (a # pr \/ e # "next") =>
             At(m1, fr, a, e) = At(m, fr, a, e)
    BY <1>3, <1>f, SetLinkFacts
  <1>r1. Rec(m1) /\ MemTypes(m1)
    BY <1>5 DEF Rewrites, SamePages
  <1>6. Follow(m, b, "next") = nx /\ Follow(m, b, "prev") = pr
    BY <1>3, <1>f, FollowIs
  <1> HIDE DEF m1
  <1>7. Follow(m1, b, "next") = nx /\ Follow(m1, b, "prev") = pr
    BY <1>3, <1>4, <1>5, <1>f, FollowIs
  <1>8. list_remove(m, b) = m2
    BY <1>6, <1>7 DEF list_remove, m1
  <1>9. /\ Rewrites(m1, m2, A) /\ FrOf(m2) = fr
        /\ At(m2, fr, nx, "prev") = pr
        /\ \A a, e : IsCell(cur, A, a, e) /\ (a # nx \/ e # "prev") =>
             At(m2, fr, a, e) = At(m1, fr, a, e)
    BY <1>3, <1>5, <1>f, <1>r1, SetLinkFacts
  <1> HIDE DEF m2
  <1>10. Rewrites(m, m2, A)
    BY <1>5, <1>9, RewritesTrans
  <1>11. At(m2, fr, pr, "next") = nx /\ At(m2, fr, nx, "prev") = pr
    BY <1>3, <1>5, <1>9
  <1>12. \A a, e : IsCell(cur, A, a, e) /\ (a # pr \/ e # "next") /\ (a # nx \/ e # "prev") =>
           At(m2, fr, a, e) = At(m, fr, a, e)
    BY <1>5, <1>9
  <1> DEFINE k == [i \in 0..n |-> IF i < h THEN c[i] ELSE c[i + 1]]
  <1>13. \A i \in 0..n : k[i] = IF i < h THEN c[i] ELSE c[i + 1]
    OBVIOUS
  <1> HIDE DEF k
  <1>n. n - 1 \in Nat /\ (n - 1) + 1 = n
    BY <1>i
  <1>14. Chain(m2, fr, cur, A, n - 1, k)
    <2>1. k[0] = head(cur) /\ k[(n - 1) + 1] = tail(cur)
      <3>1. 0 \in 0..n /\ 0 < h /\ n \in 0..n /\ ~(n < h)
        BY <1>i
      <3>2. QED
        BY <1>1, <1>13, <1>n, <3>1 DEF Chain
    <2>2. \A i \in 1..(n - 1) : /\ i \in 0..n /\ i \in 1..n /\ i + 1 \in 1..n
                                /\ i \in 0..(n + 1) /\ i + 1 \in 0..(n + 1)
      OBVIOUS
    <2>3. \A i \in 1..(n - 1) : k[i] \in Nodes(A)
      BY <1>1, <1>13, <2>2 DEF Chain
    <2>4. ASSUME NEW i \in 1..(n - 1), NEW j \in 1..(n - 1), k[i] = k[j] PROVE i = j
      <3> DEFINE g == IF i < h THEN i ELSE i + 1
                 e == IF j < h THEN j ELSE j + 1
      <3>0. g \in 0..(n + 1) /\ e \in 0..(n + 1) /\ i \in 0..n /\ j \in 0..n
        BY <2>2
      <3>3. k[i] = c[g] /\ k[j] = c[e]
        BY <1>13, <3>0
      <3> HIDE DEF g, e
      <3>4. g = e
        BY <1>2, <2>4, <3>0, <3>3
      <3>1. (IF i < h THEN i ELSE i + 1) = (IF j < h THEN j ELSE j + 1)
        BY <3>4 DEF g, e
      <3>2. QED
        BY <3>1
    <2>5. ASSUME NEW i \in 0..(n - 1)
          PROVE  At(m2, fr, k[i], "next") = k[i + 1] /\ At(m2, fr, k[i + 1], "prev") = k[i]
      <3>0. i \in 0..n /\ i + 1 \in 0..n /\ i \in 0..(n + 1) /\ i + 1 \in 0..(n + 1) /\ i + 1 \in 1..(n + 1)
            /\ (i + 1) + 1 \in 1..(n + 1) /\ (i + 1) + 1 \in 0..(n + 1)
        OBVIOUS
      <3>1. CASE i = h - 1
        <4>1. i < h /\ ~(i + 1 < h) /\ (i + 1) + 1 = h + 1
          BY <3>1
        <4>2. k[i] = pr /\ k[i + 1] = nx
          BY <1>13, <3>0, <3>1, <4>1 DEF pr, nx
        <4>3. QED
          BY <1>11, <4>2
      <3>2. CASE i < h - 1
        <4>1. i < h /\ i + 1 < h
          BY <3>2
        <4>2. k[i] = c[i] /\ k[i + 1] = c[i + 1]
          BY <1>13, <3>0, <4>1
        <4>3. c[i] # pr /\ c[i + 1] # nx
          BY <1>2, <1>i, <3>0, <3>2 DEF pr, nx
        <4>4. IsCell(cur, A, c[i], "next") /\ IsCell(cur, A, c[i + 1], "prev")
          BY <1>2, <3>0
        <4>5. /\ At(m2, fr, c[i], "next") = At(m, fr, c[i], "next")
              /\ At(m2, fr, c[i + 1], "prev") = At(m, fr, c[i + 1], "prev")
          BY <1>12, <4>3, <4>4
        <4>6. QED
          BY <1>1, <3>0, <4>2, <4>5 DEF Chain
      <3>3. CASE i > h - 1
        <4>1. ~(i < h) /\ ~(i + 1 < h)
          BY <3>3
        <4>2. k[i] = c[i + 1] /\ k[i + 1] = c[(i + 1) + 1]
          BY <1>13, <3>0, <4>1
        <4>3. c[i + 1] # pr /\ c[(i + 1) + 1] # nx
          BY <1>2, <1>i, <3>0, <3>3 DEF pr, nx
        <4>4. IsCell(cur, A, c[i + 1], "next") /\ IsCell(cur, A, c[(i + 1) + 1], "prev")
          BY <1>2, <3>0
        <4>5. /\ At(m2, fr, c[i + 1], "next") = At(m, fr, c[i + 1], "next")
              /\ At(m2, fr, c[(i + 1) + 1], "prev") = At(m, fr, c[(i + 1) + 1], "prev")
          BY <1>12, <4>3, <4>4
        <4>6. QED
          BY <1>1, <3>0, <4>2, <4>5 DEF Chain
      <3>4. QED
        BY <3>1, <3>2, <3>3
    <2>6. QED
      BY <2>1, <2>3, <2>4, <2>5 DEF Chain
  <1>15. S \ {b} = {k[i] : i \in 1..(n - 1)}
    <2>1. ASSUME NEW a \in S, a # b PROVE \E i \in 1..(n - 1) : a = k[i]
      <3>1. PICK j \in 1..n : a = c[j]
        BY <1>1
      <3>2. j # h
        BY <1>0, <2>1, <3>1
      <3>3. CASE j < h
        <4>1. j \in 1..(n - 1) /\ j \in 0..n
          BY <3>3
        <4>2. QED
          BY <1>13, <3>1, <3>3, <4>1
      <3>4. CASE j > h
        <4>1. j - 1 \in 1..(n - 1) /\ j - 1 \in 0..n /\ ~(j - 1 < h) /\ (j - 1) + 1 = j
          BY <3>4
        <4>2. QED
          BY <1>13, <3>1, <4>1
      <3>5. QED
        BY <3>2, <3>3, <3>4
    <2>2. ASSUME NEW i \in 1..(n - 1) PROVE k[i] \in S /\ k[i] # b
      <3>1. i \in 0..n /\ i \in 1..n /\ i + 1 \in 1..n /\ i \in 0..(n + 1) /\ i + 1 \in 0..(n + 1)
        OBVIOUS
      <3>2. CASE i < h
        BY <1>0, <1>1, <1>2, <1>13, <1>i, <3>1, <3>2
      <3>3. CASE ~(i < h)
        BY <1>0, <1>1, <1>2, <1>13, <1>i, <3>1, <3>3
      <3>4. QED
        BY <3>2, <3>3
    <2>3. QED
      BY <2>1, <2>2
  <1>16. HasChain(m2, fr, cur, A, S \ {b})
    BY <1>14, <1>15, <1>n DEF HasChain
  <1>17. QED
    BY <1>8, <1>10, <1>16 DEF fr

\* f is what a walk along p's list visits, turn by turn.
IsWalk(f, m, p, n) ==
  f = [k \in 0..n |-> IF k = 0 THEN Follow(m, head(p), "next")
                      ELSE IF f[k - 1] \in {tail(p), None} THEN f[k - 1]
                      ELSE Follow(m, f[k - 1], "next")]

LEMMA WalkExists ==
  ASSUME NEW m, NEW p, NEW n \in Nat
  PROVE  \E f : IsWalk(f, m, p, n)
  <1> DEFINE T == {i \in Nat : \E f : IsWalk(f, m, p, i)}
  <1>1. 0 \in T
    <2>1. IsWalk([k \in 0..0 |-> Follow(m, head(p), "next")], m, p, 0)
      BY DEF IsWalk
    <2>2. QED
      BY <2>1
  <1>2. ASSUME NEW i \in T PROVE i + 1 \in T
    <2>1. PICK f : IsWalk(f, m, p, i)
      OBVIOUS
    <2> DEFINE g == [k \in 0..(i + 1) |-> IF k = 0 THEN Follow(m, head(p), "next")
                                          ELSE IF f[k - 1] \in {tail(p), None} THEN f[k - 1]
                                          ELSE Follow(m, f[k - 1], "next")]
    <2>2. ASSUME NEW k \in 0..(i + 1), k # 0 PROVE g[k - 1] = f[k - 1]
      <3>1. k - 1 \in 0..i /\ k - 1 \in 0..(i + 1)
        BY <2>2
      <3>2. QED
        BY <3>1, <2>1 DEF IsWalk
    <2>3. IsWalk(g, m, p, i + 1)
      BY <2>2 DEF IsWalk
    <2> HIDE DEF g
    <2>4. QED
      BY <2>3
  <1>3. T = Nat
    BY <1>1, <1>2, Inductive
  <1>4. QED
    BY <1>3

\* Two numbers in base B.
LEMMA BaseFacts ==
  ASSUME NEW B \in Nat, NEW v \in Nat, NEW w \in Nat, NEW i \in 1..B, NEW j \in 1..B,
         v * B + i = w * B + j
  PROVE  v = w /\ i = j
  <1>1. CASE v < w
    <2>1. PICK d \in Nat : w = v + 1 + d
      <3>1. w - v - 1 \in Nat /\ w = v + 1 + (w - v - 1)
        BY <1>1
      <3>2. QED
        BY <3>1
    <2>2. w * B = v * B + B + d * B
      BY <2>1
    <2>3. d * B \in Nat /\ v * B \in Nat
      OBVIOUS
    <2>4. QED
      BY <2>2, <2>3
  <1>2. CASE w < v
    <2>1. PICK d \in Nat : v = w + 1 + d
      <3>1. v - w - 1 \in Nat /\ v = w + 1 + (v - w - 1)
        BY <1>2
      <3>2. QED
        BY <3>1
    <2>2. v * B = w * B + B + d * B
      BY <2>1
    <2>3. d * B \in Nat /\ w * B \in Nat
      OBVIOUS
    <2>4. QED
      BY <2>2, <2>3
  <1>3. CASE v = w
    <2>1. v * B \in Nat
      OBVIOUS
    <2>2. QED
      BY <1>3, <2>1
  <1>4. QED
    BY <1>1, <1>2, <1>3

\* A list has no more nodes than the pages have blocks.
LEMMA ChainLength ==
  ASSUME MemoryAssumption, NEW A \in SUBSET Pages, NEW n \in Nat, NEW c,
         \A i \in 1..n : c[i] \in Nodes(A),
         \A i, j \in 1..n : c[i] = c[j] => i = j
  PROVE  n <= NPages * Blocks /\ NPages * Blocks \in Nat
  <1>0. NPages \in Nat /\ Blocks \in Nat /\ Blocks > 0 /\ Pages = 0..(NPages - 1)
    BY Sizes, AddrFacts
  <1> DEFINE N == NPages * Blocks
             f == [i \in 1..n |-> c[i][1] * Blocks + c[i][2]]
  <1>1. N \in Nat
    BY <1>0
  <1>2. ASSUME NEW i \in 1..n
        PROVE  /\ c[i] = <<c[i][1], c[i][2]>> /\ c[i][1] \in Nat /\ c[i][1] <= NPages - 1
               /\ c[i][2] \in 1..Blocks
    BY <1>0, <1>2, AddrFacts, SMTT(40)
  <1>3. ASSUME NEW i \in 1..n PROVE f[i] \in 1..N
    <2>1. PICK v, k : v = c[i][1] /\ k = c[i][2]
      OBVIOUS
    <2>2. v \in Nat /\ v <= NPages - 1 /\ k \in 1..Blocks
      BY <1>2, <2>1
    <2>3. PICK d \in Nat : NPages = v + 1 + d
      <3>1. NPages - v - 1 \in Nat /\ NPages = v + 1 + (NPages - v - 1)
        BY <1>0, <2>2
      <3>2. QED
        BY <3>1
    <2>4. N = v * Blocks + Blocks + d * Blocks /\ d * Blocks \in Nat /\ v * Blocks \in Nat
      BY <1>0, <2>2, <2>3
    <2>5. v * Blocks + k \in 1..N
      <3> HIDE DEF N
      <3>1. QED
        BY <1>0, <1>1, <2>2, <2>4
    <2>6. QED
      BY <2>1, <2>5
  <1>4. ASSUME NEW i \in 1..n, NEW j \in 1..n, f[i] = f[j] PROVE i = j
    <2>1. PICK v, k, w, l : v = c[i][1] /\ k = c[i][2] /\ w = c[j][1] /\ l = c[j][2]
      OBVIOUS
    <2>2. /\ v \in Nat /\ k \in 1..Blocks /\ w \in Nat /\ l \in 1..Blocks
          /\ c[i] = <<v, k>> /\ c[j] = <<w, l>>
      BY <1>2, <2>1
    <2>3. v * Blocks + k = w * Blocks + l
      BY <1>4, <2>1
    <2>4. v = w /\ k = l
      BY <1>0, <2>2, <2>3, BaseFacts
    <2>5. QED
      BY <2>2, <2>4
  <1>5. f \in Injection(1..n, 1..N)
    <2> HIDE DEF N
    <2>1. f \in [1..n -> 1..N]
      <3>1. f = [i \in 1..n |-> f[i]]
        OBVIOUS
      <3> HIDE DEF f
      <3>2. QED
        BY <1>3, <3>1
    <2> HIDE DEF f
    <2>2. QED
      BY <1>4, <2>1 DEF Injection, IsInjective
  <1> HIDE DEF f, N
  <1>6. /\ IsFiniteSet(1..N) /\ Cardinality(1..N) = IF 1 > N THEN 0 ELSE N - 1 + 1
    <2>1. 1 \in Int /\ N \in Int
      BY <1>1
    <2>2. QED
      BY <2>1, FS_Interval
  <1>7. Cardinality(1..n) = IF 1 > n THEN 0 ELSE n - 1 + 1
    <2>1. 1 \in Int /\ n \in Int
      OBVIOUS
    <2>2. QED
      BY <2>1, FS_Interval
  <1>8. Cardinality(1..n) <= Cardinality(1..N)
    BY <1>5, <1>6, FS_Injection
  <1>9. QED
    BY <1>1, <1>6, <1>7, <1>8 DEF N

\* A walk finds the nodes of the list and comes to its end.
LEMMA WalkFacts ==
  ASSUME MemoryAssumption, cur \in Procs, NEW m, NEW A, Reach(FrOf(m), A),
         NEW S, HasChain(m, FrOf(m), cur, A, S)
  PROVE  /\ Walk(m, cur) = S
         /\ list_empty(m, cur) <=> S = {}
         /\ S # {} => Follow(m, head(cur), "next") \in S
         /\ \A b \in S : Follow(m, Follow(m, b, "next"), "prev") = b
         /\ S \in SUBSET Nodes(A)
  <1> DEFINE fr == FrOf(m)
             N == NPages * Blocks
             node == CHOOSE f : IsWalk(f, m, cur, N)
             tl == tail(cur)
  <1>0. PICK n \in Nat : \E c : Chain(m, fr, cur, A, n, c) /\ S = {c[i] : i \in 1..n}
    BY DEF HasChain
  <1>1. PICK c : Chain(m, fr, cur, A, n, c) /\ S = {c[i] : i \in 1..n}
    BY <1>0
  <1>a. A \in SUBSET Pages
    BY DEF Reach
  <1>2. Cells(cur, A, n, c)
    BY <1>1, <1>a, ChainCells
  <1>3. n <= N /\ N \in Nat
    BY <1>1, <1>a, ChainLength DEF Chain
  <1>4. Walk(m, cur) = {node[k] : k \in DOMAIN node} \ {tl}
    BY DEF Walk, IsWalk
  <1>5. IsWalk(node, m, cur, N)
    BY <1>3, WalkExists
  <1> HIDE DEF node, N
  <1>6. ASSUME NEW i \in 0..n PROVE Follow(m, c[i], "next") = c[i + 1]
    <2>1. IsCell(cur, A, c[i], "next")
      BY <1>2 DEF Cells
    <2>2. Follow(m, c[i], "next") = At(m, fr, c[i], "next")
      BY <2>1, FollowIs
    <2>3. QED
      BY <1>1, <2>2 DEF Chain
  <1>7. ASSUME NEW i \in 0..n PROVE Follow(m, c[i + 1], "prev") = c[i]
    <2>0. i + 1 \in 1..(n + 1)
      OBVIOUS
    <2>1. IsCell(cur, A, c[i + 1], "prev")
      BY <1>2, <2>0 DEF Cells
    <2>2. Follow(m, c[i + 1], "prev") = At(m, fr, c[i + 1], "prev")
      BY <2>1, FollowIs
    <2>3. QED
      BY <1>1, <2>2 DEF Chain
  <1>8. /\ node[0] = Follow(m, head(cur), "next") /\ DOMAIN node = 0..N
        /\ \A k \in 1..N : node[k] = IF node[k - 1] \in {tl, None} THEN node[k - 1]
                                     ELSE Follow(m, node[k - 1], "next")
    BY <1>3, <1>5 DEF IsWalk
  <1>9. c[0] = head(cur) /\ c[n + 1] = tl
    BY <1>1 DEF Chain
  <1> HIDE DEF tl, fr
  <1> DEFINE Inv(k) == node[k] = IF k <= n THEN c[k + 1] ELSE tl
             T == {k \in Nat : k > N \/ Inv(k)}
  <1>10. 0 \in T
    <2>1. 0 \in 0..n /\ 0 + 1 = 1
      OBVIOUS
    <2>2. Follow(m, c[0], "next") = c[1]
      BY <1>6, <2>1
    <2>3. QED
      BY <1>8, <1>9, <2>2
  <1>11. ASSUME NEW k \in T PROVE k + 1 \in T
    <2>1. SUFFICES ASSUME k + 1 <= N PROVE Inv(k + 1)
      <3> HIDE DEF Inv
      <3>1. QED
        BY <1>3
    <2>2. k \in Nat /\ Inv(k) /\ k + 1 \in 1..N /\ (k + 1) - 1 = k
      <3> HIDE DEF Inv
      <3>1. QED
        BY <1>3, <2>1
    <2>3. node[k + 1] = IF node[k] \in {tl, None} THEN node[k] ELSE Follow(m, node[k], "next")
      BY <1>8, <2>2
    <2>4. CASE k < n
      <3>1. k + 1 \in 0..n /\ k + 1 \in 0..(n + 1) /\ n + 1 \in 0..(n + 1) /\ k + 1 # n + 1 /\ k <= n /\ k + 1 <= n
        BY <2>2, <2>4
      <3>2. node[k] = c[k + 1] /\ c[k + 1] # None /\ c[k + 1] # tl
        BY <1>2, <1>9, <2>2, <3>1 DEF Cells
      <3>3. node[k + 1] = c[(k + 1) + 1]
        BY <1>6, <2>3, <3>1, <3>2
      <3>4. QED
        BY <3>1, <3>3
    <2>5. CASE k >= n
      <3>1. node[k] = tl
        <4>1. CASE k = n
          BY <1>9, <2>2, <4>1
        <4>2. CASE k > n
          BY <2>2, <4>2
        <4>3. QED
          BY <2>2, <2>5, <4>1, <4>2
      <3>2. QED
        BY <2>2, <2>3, <2>5, <3>1
    <2>6. QED
      BY <2>2, <2>4, <2>5
  <1>12. \A k \in 0..N : Inv(k)
    <2> HIDE DEF Inv
    <2>1. T \in SUBSET Nat
      OBVIOUS
    <2>2. \A k \in T : k \in 0..N => Inv(k)
      BY <1>3
    <2> HIDE DEF T
    <2>3. T = Nat
      BY <1>10, <1>11, <2>1, Inductive
    <2>4. QED
      BY <1>3, <2>2, <2>3
  <1>13. Walk(m, cur) = S
    <2>1. ASSUME NEW a \in Walk(m, cur) PROVE a \in S
      <3>1. PICK k \in 0..N : a = node[k] /\ a # tl
        BY <1>4, <1>8, <2>1 DEF tl
      <3>2. k <= n /\ a = c[k + 1] /\ k \in Nat
        BY <1>12, <3>1
      <3>3. k # n
        BY <1>9, <3>1, <3>2
      <3>4. k + 1 \in 1..n
        BY <3>2, <3>3
      <3>5. QED
        BY <1>1, <3>2, <3>4
    <2>2. ASSUME NEW a \in S PROVE a \in Walk(m, cur)
      <3>1. PICK i \in 1..n : a = c[i]
        BY <1>1
      <3>2. i - 1 \in 0..N /\ i - 1 <= n /\ (i - 1) + 1 = i
        BY <1>3
      <3>3. a = node[i - 1]
        BY <1>12, <3>1, <3>2
      <3>4. a # tl
        <4>1. i \in 0..(n + 1) /\ n + 1 \in 0..(n + 1) /\ i # n + 1
          OBVIOUS
        <4>2. QED
          BY <1>2, <1>9, <3>1, <4>1 DEF Cells
      <3>5. QED
        BY <1>4, <1>8, <3>2, <3>3, <3>4 DEF tl
    <2>3. QED
      BY <2>1, <2>2
  <1>14. Follow(m, head(cur), "next") = c[1]
    <2>1. 0 \in 0..n /\ 0 + 1 = 1
      OBVIOUS
    <2>2. QED
      BY <1>6, <1>9, <2>1
  <1>15. CASE n = 0
    <2>1. S = {} /\ c[1] = tl
      BY <1>1, <1>9, <1>15
    <2>2. QED
      BY <1>13, <1>14, <2>1 DEF list_empty, tl
  <1>16. CASE n # 0
    <2>1. 1 \in 1..n /\ 1 \in 0..(n + 1) /\ n + 1 \in 0..(n + 1) /\ 1 # n + 1
      BY <1>16
    <2>2. c[1] \in S /\ c[1] # tl
      BY <1>1, <1>2, <1>9, <2>1 DEF Cells
    <2>3. ASSUME NEW b \in S PROVE Follow(m, Follow(m, b, "next"), "prev") = b
      <3>1. PICK i \in 1..n : b = c[i]
        BY <1>1
      <3>2. i \in 0..n
        OBVIOUS
      <3>3. QED
        BY <1>6, <1>7, <3>1, <3>2
    <2>4. S \in SUBSET Nodes(A)
      BY <1>1, <1>2 DEF Cells
    <2>5. QED
      BY <1>13, <1>14, <2>2, <2>3, <2>4 DEF list_empty, tl
  <1>17. QED
    BY <1>15, <1>16

-----------------------------------------------------------------------------
(* Pages, in detail.                                                       *)

\* What y keeps of m: everything but pool, address bitmaps and page tables.
SameRest(m, y) == y.tlb = m.tlb /\ y.page = m.page /\ y.list = m.list

LEMMA FailRest ==
  ASSUME NEW m, Rec(m), NEW w
  PROVE  SameRest(m, Fail(m, w)) /\ Fail(m, w).bad = IF m.bad = "no" THEN w ELSE m.bad
  BY DEF Rec, SameRest, Fail

\* A page that is mapped gets a frame that was free; the rest of memory stays.
LEMMA MapDetail ==
  ASSUME MemoryAssumption, NEW m, FramesOK(m), m.bad = "no",
         NEW p \in Procs, NEW v, MapPage(m, p, v).bad = "no"
  PROVE  /\ v \in Pages /\ m.pte[p][v] = None /\ SameRest(m, MapPage(m, p, v))
         /\ \E f \in Frames \ m.used :
              /\ MapPage(m, p, v).used = m.used \cup {f}
              /\ \A q \in Procs, w \in Pages :
                   MapPage(m, p, v).pte[q][w] = IF q = p /\ w = v THEN f ELSE m.pte[q][w]
  <1> DEFINE f == Min(Frames \ m.used)
             m1 == [m EXCEPT !.used = m.used \cup {f}]
             m2 == [m1 EXCEPT !.pte[p][v] = f]
  <1>0. /\ Rec(m) /\ m.used \in SUBSET Frames /\ m.bits \in BitMaps /\ m.pte \in Tables
    BY DEF FramesOK
  <1>1. m.used # Frames /\ palloc(m) = m1
    <2>1. CASE m.used = Frames
      <3>1. palloc(m) = Fail(m, "full") /\ palloc(m).bad # "no"
        BY <2>1, <1>0, FailFacts DEF palloc
      <3>2. QED
        BY <3>1 DEF MapPage
    <2>2. CASE m.used # Frames
      BY <2>2 DEF palloc
    <2>3. QED
      BY <2>1, <2>2
  <1>2. f \in Frames /\ f \notin m.used
    BY <1>0, <1>1, FreeFrame
  <1> HIDE DEF f
  <1>3. /\ Rec(m1) /\ m1.bad = "no" /\ m1.pte = m.pte /\ SameRest(m, m1)
        /\ m1.used = m.used \cup {f}
    <2> DEFINE U == m.used \cup {f}
    <2> HIDE DEF U
    <2>1. m1 = [m EXCEPT !.used = U]
      BY DEF U
    <2> HIDE DEF m1
    <2>2. /\ Rec(m1) /\ m1.bad = "no" /\ m1.pte = m.pte /\ m1.used = U
          /\ m1.tlb = m.tlb /\ m1.page = m.page /\ m1.list = m.list
      BY <1>0, <2>1 DEF Rec
    <2>3. QED
      BY <2>2 DEF SameRest, U
  <1> HIDE DEF m1
  <1>4. MapPage(m, p, v) = page_table_add(m1, p, v, f)
    BY <1>1, <1>3 DEF MapPage, f
  <1>5. v \in Pages /\ m.pte[p][v] = None /\ MapPage(m, p, v) = m2
    <2>1. CASE v \notin Pages \/ m1.pte[p][v] # None
      <3>1. MapPage(m, p, v) = Fail(m1, "assert")
        BY <2>1, <1>4 DEF page_table_add
      <3>2. QED
        BY <3>1, <1>3, FailFacts
    <2>2. CASE ~(v \notin Pages \/ m1.pte[p][v] # None)
      BY <2>2, <1>3, <1>4 DEF page_table_add
    <2>3. QED
      BY <2>1, <2>2
  <1>6. /\ m2.used = m.used \cup {f} /\ SameRest(m1, m2)
        /\ m2.pte = [m.pte EXCEPT ![p] = [m.pte[p] EXCEPT ![v] = f]]
    BY <1>3 DEF Rec, SameRest
  <1> HIDE DEF m2
  <1>7. /\ m.pte[p] \in [Pages -> Frames \cup {None}]
        /\ m2.pte[p] = [m.pte[p] EXCEPT ![v] = f]
        /\ \A q \in Procs \ {p} : m2.pte[q] = m.pte[q]
    BY <1>0, <1>6 DEF Tables
  <1>8. \A q \in Procs, w \in Pages : m2.pte[q][w] = IF q = p /\ w = v THEN f ELSE m.pte[q][w]
    BY <1>5, <1>7
  <1>9. SameRest(m, m2)
    BY <1>3, <1>6 DEF SameRest
  <1>10. QED
    BY <1>2, <1>5, <1>6, <1>8, <1>9

\* What can go wrong when a page is mapped.
LEMMA MapFails ==
  ASSUME NEW m, Rec(m), NEW p, NEW v
  PROVE  /\ m.bad # "no" => MapPage(m, p, v).bad = m.bad
         /\ m.bad = "no" /\ v \in Pages /\ m.pte[p][v] = None =>
              MapPage(m, p, v).bad \in {"no", "full"}
  <1> DEFINE f == Min(Frames \ m.used)
             m1 == palloc(m)
             m2 == page_table_add(m1, p, v, f)
  <1>1. MapPage(m, p, v) = IF m1.bad # "no" THEN m1 ELSE m2
    BY DEF MapPage
  <1>2. /\ m1.bad = m.bad \/ (m.bad = "no" /\ m1.bad = "full")
        /\ m1.pte = m.pte /\ Rec(m1)
    <2>1. CASE m.used = Frames
      <3>1. m1 = Fail(m, "full")
        BY <2>1 DEF palloc
      <3>2. QED
        BY <3>1, FailRest, FailFacts DEF SamePages
    <2>2. CASE m.used # Frames
      <3> HIDE DEF f
      <3>1. m1 = [m EXCEPT !.used = m.used \cup {f}]
        BY <2>2 DEF palloc, f
      <3> HIDE DEF m1
      <3>2. QED
        BY <3>1 DEF Rec
    <2>3. QED
      BY <2>1, <2>2
  <1> HIDE DEF m1, f
  <1>3. v \in Pages /\ m.pte[p][v] = None => m2.bad = m1.bad
    <2>1. SUFFICES ASSUME v \in Pages, m.pte[p][v] = None PROVE m2.bad = m1.bad
      OBVIOUS
    <2>2. m2 = [m1 EXCEPT !.pte[p][v] = f]
      BY <1>2, <2>1 DEF page_table_add
    <2> HIDE DEF m2
    <2>3. [m1 EXCEPT !.pte[p][v] = f].bad = m1.bad
      BY <1>2 DEF Rec
    <2>4. QED
      BY <2>2, <2>3
  <1> HIDE DEF m2
  <1>4. QED
    BY <1>1, <1>2, <1>3

\* y has the pages of ws in addition to those of m, each in a frame that was free.
Mapping(m, y, ws) ==
  /\ SameRest(m, y) /\ ws \subseteq Pages /\ m.used \subseteq y.used
  /\ \A w \in ws : m.pte[cur][w] = None /\ y.pte[cur][w] \in Frames \ m.used
  /\ \A q \in Procs, w \in Pages : q # cur \/ w \notin ws => y.pte[q][w] = m.pte[q][w]

LEMMA MappingStep ==
  ASSUME MemoryAssumption, cur \in Procs, NEW m, NEW x, NEW ws, Mapping(m, x, ws), FramesOK(x),
         x.bad = "no", NEW v, v \notin ws, MapPage(x, cur, v).bad = "no"
  PROVE  Mapping(m, MapPage(x, cur, v), ws \cup {v})
  <1> DEFINE y == MapPage(x, cur, v)
  <1>1. /\ v \in Pages /\ x.pte[cur][v] = None /\ SameRest(x, y)
        /\ \E f \in Frames \ x.used :
             /\ y.used = x.used \cup {f}
             /\ \A q \in Procs, w \in Pages :
                  y.pte[q][w] = IF q = cur /\ w = v THEN f ELSE x.pte[q][w]
    BY MapDetail
  <1> HIDE DEF y
  <1>2. PICK f \in Frames \ x.used :
             /\ y.used = x.used \cup {f}
             /\ \A q \in Procs, w \in Pages :
                  y.pte[q][w] = IF q = cur /\ w = v THEN f ELSE x.pte[q][w]
    BY <1>1
  <1>3. SameRest(m, y)
    BY <1>1 DEF Mapping, SameRest
  <1>4. ws \cup {v} \subseteq Pages /\ m.used \subseteq y.used
    BY <1>1, <1>2 DEF Mapping
  <1>5. ASSUME NEW w \in ws \cup {v} PROVE m.pte[cur][w] = None /\ y.pte[cur][w] \in Frames \ m.used
    <2>1. CASE w = v
      <3>1. m.pte[cur][v] = x.pte[cur][v]
        BY <1>1 DEF Mapping
      <3>2. y.pte[cur][v] = f
        BY <1>1, <1>2
      <3>3. QED
        BY <1>1, <1>2, <2>1, <3>1, <3>2 DEF Mapping
    <2>2. CASE w # v
      <3>1. w \in ws /\ w \in Pages
        BY <1>4, <2>2
      <3>2. y.pte[cur][w] = x.pte[cur][w]
        BY <1>2, <2>2, <3>1
      <3>3. QED
        BY <3>1, <3>2 DEF Mapping
    <2>3. QED
      BY <2>1, <2>2
  <1>6. ASSUME NEW q \in Procs, NEW w \in Pages, q # cur \/ w \notin ws \cup {v}
        PROVE  y.pte[q][w] = m.pte[q][w]
    BY <1>2, <1>6 DEF Mapping
  <1>7. QED
    BY <1>3, <1>4, <1>5, <1>6 DEF Mapping, y

\* y comes from m by malloc_page: the new pages are cleared, through the frames
\* they are reached by.
Fresh(m, y, ws) ==
  /\ ws \subseteq Pages /\ m.used \subseteq y.used
  /\ \A w \in ws : m.pte[cur][w] = None /\ y.pte[cur][w] \in Frames \ m.used
  /\ \A q \in Procs, w \in Pages : q # cur \/ w \notin ws => y.pte[q][w] = m.pte[q][w]
  /\ y.tlb = m.tlb /\ y.list = m.list /\ y.page \in [Frames -> PageSet]
  /\ \A f \in Frames : y.page[f] = IF \E w \in ws : FrameAt(y, w) = f THEN EmptyPage ELSE m.page[f]

\* There is room for n pages at v.
Fits(m, v, n) ==
  /\ v < NPages - 1
  /\ \A w \in v..(v + n - 1) : w \in Pages /\ m.pte[cur][w] = None

LEMMA EmptyPageType ==
  ASSUME MemoryAssumption
  PROVE  EmptyPage \in PageSet /\ NoLink \in LinkSet /\ EmptyPage.desc = None /\ EmptyPage.cnt = 0
  <1>1. NoLink \in LinkSet
    BY DEF NoLink, LinkSet, Addr
  <1>2. QED
    BY <1>1 DEF EmptyPage, PageSet

LEMMA ClearedFacts ==
  ASSUME MemoryAssumption, NEW x, Rec(x), x.page \in [Frames -> PageSet], NEW ws
  PROVE  LET y == Cleared(x, ws)
         IN /\ SamePages(x, y) /\ y.bad = x.bad /\ y.tlb = x.tlb /\ y.list = x.list
            /\ y.page \in [Frames -> PageSet]
            /\ \A f \in Frames : y.page[f] = IF \E w \in ws : FrameAt(y, w) = f THEN EmptyPage ELSE x.page[f]
  <1> DEFINE fs == {FrameAt(x, w) : w \in ws}
             g == [f \in Frames |-> IF f \in fs THEN EmptyPage ELSE x.page[f]]
             y == Cleared(x, ws)
  <1>1. y = [x EXCEPT !.page = g]
    BY DEF Cleared
  <1>2. g \in [Frames -> PageSet]
    BY EmptyPageType
  <1>3. \A f \in Frames : g[f] = IF \E w \in ws : FrameAt(x, w) = f THEN EmptyPage ELSE x.page[f]
    OBVIOUS
  <1> HIDE DEF g, y
  <1>4. /\ Rec(y) /\ y.used = x.used /\ y.bits = x.bits /\ y.pte = x.pte /\ y.tlb = x.tlb
        /\ y.list = x.list /\ y.bad = x.bad /\ y.page = g
    BY <1>1 DEF Rec
  <1>5. \A w : FrameAt(y, w) = FrameAt(x, w)
    BY <1>4 DEF FrameAt
  <1>6. QED
    BY <1>2, <1>3, <1>4, <1>5 DEF SamePages, y

LEMMA MallocPageDetail ==
  ASSUME MemoryAssumption, cur \in Procs, NEW m, Exact(m), m.bad = "no", MemTypes(m),
         NEW v \in Nat, NEW n \in Nat
  PROVE  LET y == malloc_page(m, v, n)
         IN /\ y.bad = "no" => Fresh(m, y, v..(v + n - 1))
            /\ Fits(m, v, n) => y.bad \in {"no", "full"}
  <1> DEFINE a == vaddr_get(m, v, n)
             step == CHOOSE f : IsMapLoop(f, a, v, n)
             y == step[n]
             ok == Fits(m, v, n)
             Inv(k) == /\ Rec(step[k])
                       /\ step[k].bad = "no" => FramesOK(step[k]) /\ Mapping(m, step[k], v..(v + k - 1))
                       /\ ok => step[k].bad \in {"no", "full"}
             T == {k \in Nat : k > n \/ Inv(k)}
  <1>0. /\ FramesOK(m) /\ Rec(m) /\ m.bits \in BitMaps
        /\ m.bits[cur] = Present(m, cur) /\ v..(v + n - 1) \in SUBSET Int
    BY DEF Exact, FramesOK
  <1>1. /\ Rec(a) /\ a.used = m.used /\ a.pte = m.pte /\ SameRest(m, a)
        /\ a.bits = [m.bits EXCEPT ![cur] = @ \cup (v..(v + n - 1))]
        /\ ok => a.bad = "no"
    <2> DEFINE b == [m.bits EXCEPT ![cur] = @ \cup (v..(v + n - 1))]
               m1 == [m EXCEPT !.bits[cur] = @ \cup (v..(v + n - 1))]
    <2>0. m1 = [m EXCEPT !.bits = b]
      OBVIOUS
    <2> HIDE DEF b, m1
    <2>1. Rec(m1) /\ m1.used = m.used /\ m1.pte = m.pte /\ m1.bits = b /\ m1.bad = m.bad
      BY <1>0, <2>0 DEF Rec
    <2>r. m1.tlb = m.tlb /\ m1.page = m.page /\ m1.list = m.list
      BY <1>0, <2>0 DEF Rec
    <2>2. SamePages(m1, Fail(m1, "assert")) /\ SameRest(m1, Fail(m1, "assert"))
      BY <2>1, FailFacts, FailRest
    <2>3. a = IF v < NPages - 1 THEN m1 ELSE Fail(m1, "assert")
      BY DEF vaddr_get, m1
    <2> HIDE DEF a
    <2>4. ok => v < NPages - 1
      BY DEF Fits
    <2> HIDE DEF ok
    <2>5. QED
      BY <2>1, <2>r, <2>2, <2>3, <2>4 DEF SamePages, SameRest, b
  <1> HIDE DEF a
  <1>2. IsMapLoop(step, a, v, n)
    BY MapLoopExists
  <1>3. malloc_page(m, v, n) = IF y.bad # "no" THEN y ELSE Cleared(y, v..(v + n - 1))
    BY DEF malloc_page, IsMapLoop, a
  <1> HIDE DEF step
  <1>4. step[0] = a /\ \A k \in 1..n : step[k] = MapPage(step[k - 1], cur, v + k - 1)
    BY <1>2 DEF IsMapLoop
  <1>o. ok => \A w \in v..(v + n - 1) : w \in Pages /\ m.pte[cur][w] = None
    BY DEF Fits
  <1> HIDE DEF ok
  <1>5. 0 \in T
    <2>1. FramesOK(a)
      <3>1. a.bits \in BitMaps
        BY <1>0, <1>1 DEF BitMaps
      <3>2. QED
        BY <1>0, <1>1, <3>1 DEF FramesOK
    <2>2. v..(v + 0 - 1) = {}
      OBVIOUS
    <2>3. Mapping(m, a, {})
      BY <1>1 DEF Mapping
    <2>4. Inv(0)
      BY <1>1, <1>4, <2>1, <2>2, <2>3
    <2>5. QED
      BY <2>4
  <1>6. ASSUME NEW k \in T PROVE k + 1 \in T
    <2>1. SUFFICES ASSUME k + 1 <= n PROVE Inv(k + 1)
      <3> HIDE DEF Inv
      <3>1. QED
        OBVIOUS
    <2>2. k \in Nat /\ Inv(k) /\ k + 1 \in 1..n /\ v + (k + 1) - 1 = v + k
      <3> HIDE DEF Inv
      <3>1. QED
        BY <2>1
    <2> DEFINE x == step[k]
               z == step[k + 1]
               w == v + k
               ws == v..(v + k - 1)
    <2>3. z = MapPage(x, cur, w)
      BY <1>4, <2>2
    <2>i. /\ Rec(x) /\ (x.bad = "no" => FramesOK(x) /\ Mapping(m, x, ws))
          /\ ok => x.bad \in {"no", "full"}
      BY <2>2
    <2>r. v..(v + (k + 1) - 1) = ws \cup {w} /\ w \notin ws /\ w \in v..(v + n - 1)
      BY <2>1, <2>2, RangeGrows
    <2> HIDE DEF x, z, w, ws
    <2>4. Rec(z) /\ (x.bad # "no" => z.bad # "no")
      BY <2>i, <2>3, MapStopped
    <2>5. ASSUME z.bad = "no" PROVE FramesOK(z) /\ Mapping(m, z, ws \cup {w})
      <3>1. x.bad = "no" /\ FramesOK(x) /\ Mapping(m, x, ws)
        BY <2>i, <2>4, <2>5
      <3>2. FramesOK(z)
        BY <2>3, <2>5, <3>1, MapFacts
      <3>3. Mapping(m, z, ws \cup {w})
        BY <2>3, <2>5, <2>r, <3>1, MappingStep
      <3>4. QED
        BY <3>2, <3>3
    <2>6. ASSUME ok PROVE z.bad \in {"no", "full"}
      <3>1. CASE x.bad # "no"
        BY <2>3, <2>6, <2>i, <3>1, MapFails
      <3>2. CASE x.bad = "no"
        <4>1. w \in Pages /\ m.pte[cur][w] = None
          BY <1>o, <2>6, <2>r
        <4>2. x.pte[cur][w] = None
          BY <2>i, <2>r, <3>2, <4>1 DEF Mapping
        <4>3. QED
          BY <2>3, <2>i, <3>2, <4>1, <4>2, MapFails
      <3>3. QED
        BY <3>1, <3>2
    <2>7. QED
      BY <2>4, <2>5, <2>6, <2>r DEF z
  <1>7. Inv(n)
    <2> HIDE DEF Inv
    <2>1. T \in SUBSET Nat
      OBVIOUS
    <2> HIDE DEF T
    <2>2. n \in T
      BY <1>5, <1>6, <2>1, Inductive
    <2>3. QED
      BY <2>2 DEF T
  <1> DEFINE W == v..(v + n - 1)
             u == malloc_page(m, v, n)
  <1>i. /\ Rec(y) /\ (y.bad = "no" => FramesOK(y) /\ Mapping(m, y, W))
        /\ ok => y.bad \in {"no", "full"}
    BY <1>7
  <1>8. ASSUME y.bad = "no" PROVE u.bad = "no" /\ Fresh(m, u, W)
    <2>1. u = Cleared(y, W)
      BY <1>3, <1>8
    <2>2. Mapping(m, y, W) /\ Rec(y)
      BY <1>i, <1>8
    <2> HIDE DEF y, u, W
    <2>3. y.page \in [Frames -> PageSet]
      BY <2>2 DEF Mapping, SameRest, MemTypes
    <2>4. /\ SamePages(y, u) /\ u.bad = y.bad /\ u.tlb = y.tlb /\ u.list = y.list
          /\ u.page \in [Frames -> PageSet]
          /\ \A f \in Frames : u.page[f] = IF \E w \in W : FrameAt(u, w) = f THEN EmptyPage ELSE y.page[f]
      BY <2>1, <2>2, <2>3, ClearedFacts
    <2>5. QED
      BY <1>8, <2>2, <2>4 DEF Fresh, Mapping, SameRest, SamePages
  <1>9. QED
    <2>1. y.bad # "no" => u = y
      BY <1>3
    <2> HIDE DEF y, u, W
    <2>2. QED
      BY <1>8, <1>i, <2>1 DEF u, W, ok

\* mfree_page of pages that are there.
LEMMA MfreeDetail ==
  ASSUME MemoryAssumption, cur \in Procs, NEW m, Exact(m), MemTypes(m), NEW v, NEW n, n # 0,
         \A w \in v..(v + n - 1) : w \in Pages /\ m.pte[cur][w] # None
  PROVE  LET y == mfree_page(m, v, n)
             gone == v..(v + n - 1)
         IN /\ y.bad = m.bad /\ y.page = m.page /\ y.list = m.list /\ MemTypes(y)
            /\ \A q \in Procs, w \in Pages :
                 y.pte[q][w] = IF q = cur /\ w \in gone THEN None ELSE m.pte[q][w]
            /\ \A w \in Pages : y.tlb[w] = IF w \in gone THEN FrameAt(m, w) ELSE m.tlb[w]
  <1> DEFINE gone == v..(v + n - 1)
             U == m.used \ {m.pte[cur][w] : w \in gone}
             Q == [w \in Pages |-> IF w \in gone THEN None ELSE m.pte[cur][w]]
             L == [w \in Pages |-> IF w \in gone THEN FrameAt(m, w) ELSE m.tlb[w]]
             B == m.bits[cur] \ gone
             y == [m EXCEPT !.used = U, !.pte[cur] = Q, !.tlb = L, !.bits[cur] = B]
             u == mfree_page(m, v, n)
  <1>0. Rec(m) /\ m.pte \in Tables
    BY DEF Exact, FramesOK
  <1>1. u = y
    BY DEF mfree_page, VaddrLeft
  <1>2. L \in [Pages -> Frames \cup {None}]
    <2>1. \A w \in Pages : m.pte[cur][w] \in Frames \cup {None} /\ m.tlb[w] \in Frames \cup {None}
      BY <1>0 DEF Tables, MemTypes
    <2> HIDE DEF gone
    <2>2. \A w \in Pages : FrameAt(m, w) \in Frames \cup {None}
      BY <2>1 DEF FrameAt
    <2>3. QED
      BY <2>1, <2>2
  <1>3. \A w \in Pages : L[w] = IF w \in gone THEN FrameAt(m, w) ELSE m.tlb[w]
    <2> HIDE DEF gone
    <2>1. QED
      OBVIOUS
  <1>4. \A w \in Pages : Q[w] = IF w \in gone THEN None ELSE m.pte[cur][w]
    <2> HIDE DEF gone
    <2>1. QED
      OBVIOUS
  <1> HIDE DEF U, Q, L, B, gone
  <1>5. /\ y.pte = [m.pte EXCEPT ![cur] = Q] /\ y.tlb = L /\ y.page = m.page
        /\ y.list = m.list /\ y.bad = m.bad
    <2> DEFINE m1 == [m EXCEPT !.used = U]
               m2 == [m1 EXCEPT !.pte[cur] = Q]
               m3 == [m2 EXCEPT !.tlb = L]
               m4 == [m3 EXCEPT !.bits[cur] = B]
    <2>1. y = m4
      OBVIOUS
    <2> HIDE DEF y
    <2>2. /\ Rec(m1) /\ m1.pte = m.pte /\ m1.page = m.page
          /\ m1.list = m.list /\ m1.bad = m.bad
      BY <1>0 DEF Rec
    <2> HIDE DEF m1
    <2>3. /\ Rec(m2) /\ m2.pte = [m.pte EXCEPT ![cur] = Q] /\ m2.page = m.page
          /\ m2.list = m.list /\ m2.bad = m.bad
      BY <2>2 DEF Rec
    <2> HIDE DEF m2
    <2>4. /\ Rec(m3) /\ m3.pte = [m.pte EXCEPT ![cur] = Q] /\ m3.page = m.page
          /\ m3.list = m.list /\ m3.bad = m.bad /\ m3.tlb = L
      BY <2>3 DEF Rec
    <2> HIDE DEF m3
    <2>5. /\ m4.pte = [m.pte EXCEPT ![cur] = Q] /\ m4.page = m.page
          /\ m4.list = m.list /\ m4.bad = m.bad /\ m4.tlb = L
      BY <2>4 DEF Rec
    <2> HIDE DEF m4
    <2>6. QED
      BY <2>1, <2>5
  <1> HIDE DEF y
  <1>6. \A q \in Procs, w \in Pages :
          y.pte[q][w] = IF q = cur /\ w \in gone THEN None ELSE m.pte[q][w]
    <2>1. y.pte[cur] = Q /\ \A q \in Procs \ {cur} : y.pte[q] = m.pte[q]
      BY <1>0, <1>5 DEF Tables
    <2>2. QED
      BY <1>4, <2>1
  <1>7. MemTypes(y)
    BY <1>2, <1>5 DEF MemTypes
  <1> HIDE DEF u
  <1>8. QED
    BY <1>1, <1>3, <1>5, <1>6, <1>7 DEF gone, u

-----------------------------------------------------------------------------
(* The heap of a process.                                                  *)

PageAt(m, p, v) == m.page[m.pte[p][v]]
Arenas(m, p) == {v \in Present(m, p) : PageAt(m, p, v).desc # None}
Free(m, p, H) == Nodes(Arenas(m, p)) \ H
\* The pages of a large block.
Span(m, p, b) == b[1]..(b[1] + PageAt(m, p, b[1]).cnt - 1)

\* The free list has the blocks that p does not hold, an arena counts them, and a large
\* block has all its pages to itself.
ListOK(m, p, H) == HasChain(m, m.pte[p], p, Arenas(m, p), Free(m, p, H))
CountsOK(m, p, H) ==
  \A v \in Arenas(m, p) :
    /\ PageAt(m, p, v).desc = p
    /\ PageAt(m, p, v).cnt = Cardinality(BlocksOf(v) \ H)
LargeOK(m, p, H) ==
  /\ \A b \in H : b[1] \notin Arenas(m, p) =>
       /\ b[2] = 1 /\ PageAt(m, p, b[1]).cnt >= 1
       /\ Span(m, p, b) \subseteq Present(m, p) \ Arenas(m, p)
  /\ \A b, e \in H : b[1] \notin Arenas(m, p) /\ e[1] \notin Arenas(m, p) /\ b # e =>
       Span(m, p, b) \cap Span(m, p, e) = {}
HeapOK(m, p, H) ==
  /\ H \subseteq Nodes(Present(m, p))
  /\ ListOK(m, p, H) /\ CountsOK(m, p, H) /\ LargeOK(m, p, H)

\* y has p's pages and list as m has them.
SameFor(m, y, p) ==
  /\ y.list[p] = m.list[p]
  /\ \A w \in Pages : y.pte[p][w] = m.pte[p][w]
  /\ \A w \in Present(m, p) : PageAt(y, p, w) = PageAt(m, p, w)

LEMMA HeapSame ==
  ASSUME MemoryAssumption, NEW p \in Procs, NEW m, NEW y, SameFor(m, y, p), NEW H, HeapOK(m, p, H)
  PROVE  HeapOK(y, p, H)
  <1>1. Present(y, p) = Present(m, p) /\ Present(m, p) \subseteq Pages
    BY DEF SameFor, Present
  <1>2. \A w \in Present(m, p) : PageAt(y, p, w) = PageAt(m, p, w)
    BY DEF SameFor
  <1>3. Arenas(y, p) = Arenas(m, p)
    BY <1>1, <1>2 DEF Arenas
  <1>4. Arenas(m, p) \subseteq Present(m, p)
    BY DEF Arenas
  <1>5. Free(y, p, H) = Free(m, p, H)
    BY <1>3 DEF Free
  <1>6. ListOK(y, p, H)
    <2>1. \A v \in Arenas(m, p) : y.page[y.pte[p][v]].link = m.page[m.pte[p][v]].link
      BY <1>2, <1>4 DEF PageAt
    <2>2. HasChain(m, m.pte[p], p, Arenas(m, p), Free(m, p, H)) /\ y.list[p] = m.list[p]
      BY DEF HeapOK, ListOK, SameFor
    <2>3. HasChain(y, y.pte[p], p, Arenas(m, p), Free(m, p, H))
      <3> DEFINE A == Arenas(m, p)
                 fr == m.pte[p]
                 gr == y.pte[p]
                 S == Free(m, p, H)
      <3>1. A \in SUBSET Pages /\ A \subseteq A
        BY <1>1, <1>4
      <3>2. HasChain(m, fr, p, A, S) /\ \A v \in A : y.page[gr[v]].link = m.page[fr[v]].link
        BY <2>1, <2>2
      <3> HIDE DEF A, fr, gr, S
      <3>3. HasChain(y, gr, p, A, S)
        BY <2>2, <3>1, <3>2, ChainSame
      <3>4. QED
        BY <3>3 DEF A, gr, S
    <2>4. QED
      BY <1>3, <1>5, <2>3 DEF ListOK
  <1>7. CountsOK(y, p, H)
    BY <1>2, <1>3, <1>4 DEF HeapOK, CountsOK
  <1>8. LargeOK(y, p, H)
    <2>1. \A b \in H : b[1] \in Present(m, p)
      BY DEF HeapOK, Nodes
    <2>2. \A b \in H : PageAt(y, p, b[1]) = PageAt(m, p, b[1]) /\ Span(y, p, b) = Span(m, p, b)
      BY <1>2, <2>1 DEF Span
    <2>3. QED
      BY <1>1, <1>3, <2>2 DEF HeapOK, LargeOK
  <1>9. QED
    BY <1>1, <1>6, <1>7, <1>8 DEF HeapOK

\* What becomes of the links of other blocks does not matter to a list.
LEMMA ChainKept ==
  ASSUME MemoryAssumption, NEW p \in Procs, NEW A \in SUBSET Pages, NEW B \in SUBSET Pages,
         NEW m, NEW fr, NEW x, NEW gr, NEW S, HasChain(m, fr, p, A, S), S \subseteq Nodes(B),
         x.list[p] = m.list[p],
         \A a \in S : \A d \in {"prev", "next"} : At(x, gr, a, d) = At(m, fr, a, d)
  PROVE  HasChain(x, gr, p, B, S)
  <1>0. PICK n \in Nat : \E c : Chain(m, fr, p, A, n, c) /\ S = {c[i] : i \in 1..n}
    BY DEF HasChain
  <1>1. PICK c : Chain(m, fr, p, A, n, c) /\ S = {c[i] : i \in 1..n}
    BY <1>0
  <1>2. c[0] = head(p) /\ c[n + 1] = tail(p)
    BY <1>1 DEF Chain
  <1>3. \A i \in 1..n : c[i] \in S
    BY <1>1
  <1>4. \A d : At(x, gr, head(p), d) = At(m, fr, head(p), d) /\ At(x, gr, tail(p), d) = At(m, fr, tail(p), d)
    <2>1. head(p)[1] = p /\ tail(p)[1] = p
      BY AddrFacts
    <2> DEFINE a == head(p)
               b == tail(p)
    <2> HIDE DEF a, b
    <2>2. a[1] = p /\ b[1] = p
      BY <2>1 DEF a, b
    <2>3. \A d : At(x, gr, a, d) = At(m, fr, a, d) /\ At(x, gr, b, d) = At(m, fr, b, d)
      BY <2>2 DEF At
    <2>4. QED
      BY <2>3 DEF a, b
  <1>5. ASSUME NEW i \in 0..n PROVE At(x, gr, c[i], "next") = At(m, fr, c[i], "next")
    <2>1. i = 0 \/ i \in 1..n
      OBVIOUS
    <2>2. QED
      BY <1>2, <1>3, <1>4, <2>1
  <1>6. ASSUME NEW i \in 0..n PROVE At(x, gr, c[i + 1], "prev") = At(m, fr, c[i + 1], "prev")
    <2>1. i + 1 = n + 1 \/ i + 1 \in 1..n
      OBVIOUS
    <2>2. QED
      BY <1>2, <1>3, <1>4, <2>1
  <1>7. \A i \in 1..n : c[i] \in Nodes(B)
    BY <1>3
  <1>8. Chain(x, gr, p, B, n, c)
    BY <1>1, <1>5, <1>6, <1>7 DEF Chain
  <1>9. QED
    BY <1>1, <1>8 DEF HasChain

-----------------------------------------------------------------------------
(* What an operation of the running process leaves to the others.          *)

\* An old translation of p leads to nobody else's frame.
TlbOwn(m, p) ==
  \A v \in Pages : m.tlb[v] # None => \A q \in Procs \ {p} : \A w \in Pages : m.pte[q][w] # m.tlb[v]
\* No page of p is reached through an old translation.
Clean(m, p) == \A v \in Present(m, p) : m.tlb[v] \in {None, m.pte[p][v]}

\* A frame of another process.
Theirs(m, f) == \E q \in Procs \ {cur} : \E w \in Pages : m.pte[q][w] = f
Local(m, y) ==
  /\ MemTypes(y) /\ TlbOwn(y, cur)
  /\ \A q \in Procs \ {cur} : y.list[q] = m.list[q] /\ \A w \in Pages : y.pte[q][w] = m.pte[q][w]
  /\ \A f \in Frames : Theirs(m, f) => y.page[f] = m.page[f]

LEMMA LocalTrans ==
  ASSUME NEW x, NEW y, NEW z, Local(x, y), Local(y, z)
  PROVE  Local(x, z)
  <1>1. \A f : Theirs(x, f) <=> Theirs(y, f)
    BY DEF Local, Theirs
  <1>2. \A f \in Frames : Theirs(x, f) => z.page[f] = x.page[f]
    BY <1>1 DEF Local
  <1>3. QED
    BY <1>2 DEF Local

LEMMA LocalRefl ==
  ASSUME NEW x, MemTypes(x), TlbOwn(x, cur)
  PROVE  Local(x, x)
  BY DEF Local

\* Whatever page the running process reaches is not another's.
LEMMA ReachOwn ==
  ASSUME MemoryAssumption, cur \in Procs, NEW m, FramesOK(m), MemTypes(m), TlbOwn(m, cur), NEW v \in Pages
  PROVE  /\ FrameAt(m, v) \in Frames \cup {None}
         /\ FrameAt(m, v) # None => ~Theirs(m, FrameAt(m, v))
  <1>1. m.pte[cur][v] \in Frames \cup {None} /\ m.tlb[v] \in Frames \cup {None}
    BY DEF FramesOK, Tables, MemTypes
  <1>2. CASE m.tlb[v] # None
    BY <1>1, <1>2 DEF FrameAt, TlbOwn, Theirs
  <1>3. CASE m.tlb[v] = None
    BY <1>1, <1>3 DEF FrameAt, FramesOK, Theirs
  <1>4. QED
    BY <1>2, <1>3

\* The others see nothing of a local change.
LEMMA LocalSame ==
  ASSUME NEW m, FramesOK(m), NEW y, Local(m, y), NEW q \in Procs \ {cur}
  PROVE  SameFor(m, y, q)
  <1>1. y.list[q] = m.list[q] /\ \A w \in Pages : y.pte[q][w] = m.pte[q][w]
    BY DEF Local
  <1>2. ASSUME NEW w \in Present(m, q) PROVE PageAt(y, q, w) = PageAt(m, q, w)
    <2>1. w \in Pages /\ m.pte[q][w] \in Frames /\ Theirs(m, m.pte[q][w])
      BY DEF Present, FramesOK, Tables, Theirs
    <2>2. QED
      BY <1>1, <2>1 DEF PageAt, Local
  <1>3. QED
    BY <1>1, <1>2 DEF SameFor

\* Links written in pages the running process reaches are a local change.
LEMMA RewritesLocal ==
  ASSUME MemoryAssumption, cur \in Procs, NEW m, FramesOK(m), MemTypes(m), TlbOwn(m, cur),
         NEW A \in SUBSET Pages, NEW y, Rewrites(m, y, A)
  PROVE  Local(m, y)
  <1>1. y.pte = m.pte /\ y.tlb = m.tlb /\ MemTypes(y) /\ \A q \in Procs \ {cur} : y.list[q] = m.list[q]
    BY DEF Rewrites, SamePages
  <1>2. ASSUME NEW f \in Frames, Theirs(m, f) PROVE y.page[f] = m.page[f]
    <2>1. ASSUME NEW v \in A PROVE FrOf(m)[v] # f
      <3>1. FrOf(m)[v] = FrameAt(m, v) /\ v \in Pages /\ f # None
        BY Sizes DEF FrOf
      <3>2. QED
        BY <1>2, <3>1, ReachOwn
    <2>2. QED
      BY <2>1 DEF Rewrites
  <1>3. TlbOwn(y, cur)
    BY <1>1 DEF TlbOwn
  <1>4. QED
    BY <1>1, <1>2, <1>3 DEF Local

\* So is a page that is written as a whole: y has h in frame f.
OnlyPage(m, y, f, h) ==
  /\ SamePages(m, y) /\ y.bad = m.bad /\ y.tlb = m.tlb /\ y.list = m.list /\ FrOf(y) = FrOf(m)
  /\ \A g \in Frames : y.page[g] = IF g = f THEN h ELSE m.page[g]

LEMMA PageLocal ==
  ASSUME MemoryAssumption, NEW m, Rec(m), MemTypes(m), TlbOwn(m, cur), NEW f \in Frames, ~Theirs(m, f),
         NEW h \in PageSet, NEW y, y = [m EXCEPT !.page = [m.page EXCEPT ![f] = h]]
  PROVE  Local(m, y) /\ OnlyPage(m, y, f, h)
  <1>1. /\ Rec(y) /\ y.used = m.used /\ y.bits = m.bits /\ y.pte = m.pte /\ y.tlb = m.tlb
        /\ y.list = m.list /\ y.bad = m.bad /\ y.page = [m.page EXCEPT ![f] = h]
    BY DEF Rec
  <1>2. m.page \in [Frames -> PageSet] /\ m.tlb \in [Pages -> Frames \cup {None}] /\ m.list \in [Procs -> LinkSet]
    BY DEF MemTypes
  <1>3. y.page \in [Frames -> PageSet] /\ \A g \in Frames : y.page[g] = IF g = f THEN h ELSE m.page[g]
    BY <1>1, <1>2
  <1>4. MemTypes(y) /\ TlbOwn(y, cur) /\ FrOf(y) = FrOf(m)
    BY <1>1, <1>2, <1>3 DEF MemTypes, TlbOwn, FrOf, FrameAt
  <1>5. Local(m, y)
    BY <1>1, <1>3, <1>4 DEF Local
  <1>6. QED
    BY <1>1, <1>3, <1>4, <1>5 DEF SamePages, OnlyPage

\* Without old translations the pages are reached through the page table.
LEMMA CleanReach ==
  ASSUME MemoryAssumption, cur \in Procs, NEW m, FramesOK(m), Clean(m, cur), NEW A, A \subseteq Present(m, cur)
  PROVE  /\ A \in SUBSET Pages /\ Reach(FrOf(m), A) /\ Reach(m.pte[cur], A)
         /\ \A v \in A : FrOf(m)[v] = m.pte[cur][v] /\ FrameAt(m, v) = m.pte[cur][v] /\ m.pte[cur][v] \in Frames
  <1>1. A \in SUBSET Pages
    BY DEF Present
  <1>2. ASSUME NEW v \in A
        PROVE  FrOf(m)[v] = m.pte[cur][v] /\ FrameAt(m, v) = m.pte[cur][v] /\ m.pte[cur][v] \in Frames
    <2>1. v \in Pages /\ m.pte[cur][v] # None /\ m.tlb[v] \in {None, m.pte[cur][v]}
      BY DEF Present, Clean
    <2>2. m.pte[cur][v] \in Frames
      BY <2>1 DEF FramesOK, Tables
    <2>3. FrameAt(m, v) = m.pte[cur][v]
      BY <2>1 DEF FrameAt
    <2>4. QED
      BY <2>1, <2>2, <2>3 DEF FrOf
  <1>3. \A v, w \in A : m.pte[cur][v] = m.pte[cur][w] => v = w
    BY <1>1 DEF FramesOK, Present
  <1>4. QED
    BY <1>1, <1>2, <1>3 DEF Reach

LEMMA CleanChain ==
  ASSUME MemoryAssumption, cur \in Procs, NEW m, FramesOK(m), Clean(m, cur),
         NEW A, A \subseteq Present(m, cur), NEW S
  PROVE  HasChain(m, FrOf(m), cur, A, S) <=> HasChain(m, m.pte[cur], cur, A, S)
  <1> DEFINE fr == FrOf(m)
             gr == m.pte[cur]
  <1>1. A \in SUBSET Pages /\ A \subseteq A /\ \A v \in A : m.page[fr[v]].link = m.page[gr[v]].link
    BY CleanReach
  <1> HIDE DEF fr, gr
  <1>2. HasChain(m, fr, cur, A, S) => HasChain(m, gr, cur, A, S)
    BY <1>1, ChainSame
  <1>3. HasChain(m, gr, cur, A, S) => HasChain(m, fr, cur, A, S)
    BY <1>1, ChainSame
  <1>4. QED
    BY <1>2, <1>3 DEF fr, gr

\* What the running process's heap offers to its operations.
LEMMA HeapUse ==
  ASSUME MemoryAssumption, cur \in Procs, NEW m, FramesOK(m), Clean(m, cur), NEW H, HeapOK(m, cur, H)
  PROVE  /\ Arenas(m, cur) \in SUBSET Pages /\ Arenas(m, cur) \subseteq Present(m, cur)
         /\ Reach(FrOf(m), Arenas(m, cur))
         /\ HasChain(m, FrOf(m), cur, Arenas(m, cur), Free(m, cur, H))
  <1>1. Arenas(m, cur) \subseteq Present(m, cur)
    BY DEF Arenas
  <1>2. HasChain(m, m.pte[cur], cur, Arenas(m, cur), Free(m, cur, H))
    BY DEF HeapOK, ListOK
  <1>3. QED
    <2> DEFINE A == Arenas(m, cur)
               S == Free(m, cur, H)
    <2>1. A \subseteq Present(m, cur) /\ HasChain(m, m.pte[cur], cur, A, S)
      BY <1>1, <1>2
    <2> HIDE DEF A, S
    <2>2. A \in SUBSET Pages /\ Reach(FrOf(m), A) /\ HasChain(m, FrOf(m), cur, A, S)
      BY <2>1, CleanReach, CleanChain
    <2>3. QED
      BY <2>1, <2>2 DEF A, S

\* A heap is put together from its parts.
LEMMA HeapMade ==
  ASSUME MemoryAssumption, cur \in Procs, NEW y, FramesOK(y), Clean(y, cur), NEW G, NEW A, NEW S,
         G \subseteq Nodes(Present(y, cur)), Arenas(y, cur) = A, S = Nodes(A) \ G,
         HasChain(y, FrOf(y), cur, A, S), CountsOK(y, cur, G), LargeOK(y, cur, G)
  PROVE  HeapOK(y, cur, G)
  <1>1. A \subseteq Present(y, cur)
    BY DEF Arenas
  <1>2. HasChain(y, y.pte[cur], cur, A, S)
    BY <1>1, CleanChain
  <1>3. ListOK(y, cur, G)
    BY <1>2 DEF ListOK, Free
  <1>4. QED
    BY <1>3 DEF HeapOK

-----------------------------------------------------------------------------
(* Blocks that are taken and given back.                                   *)

\* y has the headers of m, but for a count of k in frame f.
Counted(m, y, f, k) ==
  \A g \in Frames : y.page[g].desc = m.page[g].desc /\ y.page[g].cnt = IF g = f THEN k ELSE m.page[g].cnt

LEMMA PageTaken ==
  ASSUME MemoryAssumption, NEW g \in PageSet, NEW i \in 1..Blocks
  PROVE  LET h == [g EXCEPT !.link[i] = NoLink, !.cnt = Count(@)]
         IN /\ h \in PageSet /\ h.desc = g.desc /\ h.cnt = g.cnt - 1
            /\ \A j \in 1..Blocks \ {i} : h.link[j] = g.link[j]
  <1> DEFINE x == [g EXCEPT !.link = [g.link EXCEPT ![i] = NoLink]]
             h == [x EXCEPT !.cnt = Count(@)]
  <1>1. /\ x \in PageSet /\ x.desc = g.desc /\ x.cnt = g.cnt
        /\ \A j \in 1..Blocks : x.link[j] = IF j = i THEN NoLink ELSE g.link[j]
    BY EmptyPageType, PageWritten
  <1>2. [g EXCEPT !.link[i] = NoLink, !.cnt = Count(@)] = h
    OBVIOUS
  <1> HIDE DEF x
  <1>3. /\ h \in PageSet /\ h.desc = x.desc /\ h.link = x.link /\ h.cnt = x.cnt - 1
    <2> DEFINE k == x.cnt - 1
    <2>1. h = [x EXCEPT !.cnt = k] /\ k \in Int
      BY <1>1 DEF PageSet, Count
    <2> HIDE DEF h, k
    <2>2. /\ h \in PageSet /\ h.desc = x.desc /\ h.link = x.link /\ h.cnt = k
      BY <1>1, <2>1 DEF PageSet
    <2>3. QED
      BY <2>2 DEF k
  <1>4. QED
    BY <1>1, <1>2, <1>3

\* The first free block is taken off the list and counted.
LEMMA TakeFacts ==
  ASSUME MemoryAssumption, cur \in Procs, NEW m, FramesOK(m), m.bad = "no", MemTypes(m), TlbOwn(m, cur),
         NEW A, Reach(FrOf(m), A), NEW S, HasChain(m, FrOf(m), cur, A, S), S # {}
  PROVE  LET b == Follow(m, head(cur), "next")
             y == TakeBlock(m)
             f == FrOf(m)[b[1]]
         IN /\ b \in S /\ S \in SUBSET Nodes(A)
            /\ y.bad = "no" /\ SamePages(m, y) /\ Local(m, y) /\ y.tlb = m.tlb /\ FrOf(y) = FrOf(m)
            /\ HasChain(y, FrOf(y), cur, A, S \ {b})
            /\ Counted(m, y, f, m.page[f].cnt - 1)
  <1> DEFINE b == Follow(m, head(cur), "next")
             fr == FrOf(m)
             f == fr[b[1]]
             m1 == list_remove(m, b)
             h == [m1.page[f] EXCEPT !.link[b[2]] = NoLink, !.cnt = Count(@)]
             y == TakeBlock(m)
  <1>0. Rec(m) /\ A \in SUBSET Pages
    BY DEF FramesOK, Reach
  <1>1. b \in S /\ S \in SUBSET Nodes(A)
    BY WalkFacts
  <1> HIDE DEF b
  <1>2. /\ b \in Nodes(A) /\ b # None /\ b[1] \in A /\ b[2] \in 1..Blocks /\ b[1] \in Pages
        /\ b[1] \notin Procs /\ b = <<b[1], b[2]>>
    BY <1>0, <1>1, AddrFacts
  <1>3. f \in Frames /\ FrameAt(m, b[1]) = f
    BY <1>2 DEF Reach, FrOf
  <1>4. Mapped(m, b)
    BY <1>2, <1>3, Sizes DEF Mapped
  <1>5. Rewrites(m, m1, A) /\ HasChain(m1, fr, cur, A, S \ {b})
    BY <1>0, <1>1, RemoveFacts
  <1> HIDE DEF m1
  <1>6. /\ SamePages(m, m1) /\ m1.bad = "no" /\ m1.tlb = m.tlb /\ MemTypes(m1) /\ Rec(m1)
        /\ m1.pte = m.pte /\ FrOf(m1) = fr /\ FrameAt(m1, b[1]) = f
        /\ Counted(m, m1, f, m.page[f].cnt)
    <2>1. /\ SamePages(m, m1) /\ m1.bad = "no" /\ m1.tlb = m.tlb /\ MemTypes(m1) /\ Rec(m1)
          /\ m1.pte = m.pte
      BY <1>5 DEF Rewrites, SamePages
    <2>2. \A w : FrameAt(m1, w) = FrameAt(m, w)
      BY <2>1 DEF FrameAt
    <2>3. FrOf(m1) = fr
      BY <2>2 DEF FrOf
    <2>4. Counted(m, m1, f, m.page[f].cnt)
      BY <1>3, <1>5 DEF Rewrites, Counted
    <2>5. QED
      BY <1>3, <2>1, <2>2, <2>3, <2>4
  <1>7. Local(m, m1)
    BY <1>0, <1>5, RewritesLocal
  <1>8. ~Theirs(m, f) /\ ~Theirs(m1, f) /\ TlbOwn(m1, cur)
    <2>1. f # None
      BY <1>3, Sizes
    <2>2. ~Theirs(m, f)
      BY <1>2, <1>3, <2>1, ReachOwn
    <2>3. QED
      BY <1>6, <1>7, <2>2 DEF Theirs, Local
  <1>9. y = [m1 EXCEPT !.page[f].link[b[2]] = NoLink, !.page[f].cnt = Count(@)]
    BY <1>2, <1>4, <1>6 DEF TakeBlock, b, m1
  <1>10. y = [m1 EXCEPT !.page = [m1.page EXCEPT ![f] = h]]
    <2> HIDE DEF f, y
    <2>1. QED
      BY <1>6, <1>9, ZenonT(40) DEF Rec
  <1>11. m1.page[f] \in PageSet
    BY <1>3, <1>6 DEF MemTypes
  <1>12. /\ h \in PageSet /\ h.desc = m1.page[f].desc /\ h.cnt = m1.page[f].cnt - 1
         /\ \A j \in 1..Blocks \ {b[2]} : h.link[j] = m1.page[f].link[j]
    <2> DEFINE g == m1.page[f]
               i == b[2]
    <2>1. g \in PageSet /\ i \in 1..Blocks
      BY <1>2, <1>11
    <2> HIDE DEF g, i
    <2>2. LET k == [g EXCEPT !.link[i] = NoLink, !.cnt = Count(@)]
          IN /\ k \in PageSet /\ k.desc = g.desc /\ k.cnt = g.cnt - 1
             /\ \A j \in 1..Blocks \ {i} : k.link[j] = g.link[j]
      BY <2>1, PageTaken
    <2>3. QED
      BY <2>2 DEF g, i
  <1> HIDE DEF h, f, fr, y
  <1>13. /\ Local(m1, y) /\ SamePages(m1, y) /\ y.bad = m1.bad /\ y.tlb = m1.tlb /\ y.list = m1.list
         /\ FrOf(y) = FrOf(m1)
         /\ \A g \in Frames : y.page[g] = IF g = f THEN h ELSE m1.page[g]
    <2>1. h \in PageSet
      BY <1>12
    <2>2. Local(m1, y) /\ OnlyPage(m1, y, f, h)
      BY <1>3, <1>6, <1>8, <1>10, <2>1, PageLocal
    <2>3. QED
      BY <2>2 DEF OnlyPage
  <1>14. Local(m, y) /\ SamePages(m, y)
    BY <1>6, <1>7, <1>13, LocalTrans, SameTrans
  <1>15. Counted(m, y, f, m.page[f].cnt - 1)
    BY <1>3, <1>6, <1>12, <1>13 DEF Counted
  <1>16. HasChain(y, fr, cur, A, S \ {b})
    <2> DEFINE R == S \ {b}
    <2>1. HasChain(m1, fr, cur, A, R) /\ R \subseteq Nodes(A)
      BY <1>1, <1>5
    <2>2. ASSUME NEW a \in R, NEW d \in {"prev", "next"} PROVE At(y, fr, a, d) = At(m1, fr, a, d)
      <3>1. /\ a[1] \in A /\ a[1] \notin Procs /\ a = <<a[1], a[2]>> /\ a[2] \in 1..Blocks /\ a # b
        BY <1>0, <2>1, AddrFacts
      <3>2. fr[a[1]] \in Frames
        BY <3>1 DEF Reach, fr
      <3>3. CASE fr[a[1]] # f
        BY <1>13, <3>1, <3>2, <3>3 DEF At
      <3>4. CASE fr[a[1]] = f
        <4>1. a[1] = b[1]
          BY <1>2, <3>1, <3>4 DEF Reach, fr, f
        <4>2. a[2] # b[2]
          BY <1>2, <3>1, <4>1
        <4>3. QED
          BY <1>12, <1>13, <3>1, <3>2, <3>4, <4>2 DEF At
      <3>5. QED
        BY <3>3, <3>4
    <2> HIDE DEF R
    <2>3. HasChain(y, fr, cur, A, R)
      BY <1>0, <1>13, <2>1, <2>2, ChainKept
    <2>4. QED
      BY <2>3 DEF R
  <1>17. QED
    BY <1>1, <1>6, <1>13, <1>14, <1>15, <1>16 DEF b, y, f, fr

LEMMA PageCounted ==
  ASSUME NEW g \in PageSet, NEW k \in Int
  PROVE  LET h == [g EXCEPT !.cnt = k]
         IN h \in PageSet /\ h.desc = g.desc /\ h.cnt = k /\ h.link = g.link
  BY DEF PageSet

\* A block that is given back goes to the end of the list and is counted.
LEMMA GiveFacts ==
  ASSUME MemoryAssumption, cur \in Procs, NEW m, FramesOK(m), m.bad = "no", MemTypes(m), TlbOwn(m, cur),
         NEW A, Reach(FrOf(m), A), NEW S, HasChain(m, FrOf(m), cur, A, S), NEW b \in Nodes(A), b \notin S,
         NEW f, f = FrOf(m)[b[1]]
  PROVE  LET y == [list_append(m, cur, b) EXCEPT !.page[f].cnt = @ + 1]
         IN /\ y.bad = "no" /\ SamePages(m, y) /\ Local(m, y) /\ y.tlb = m.tlb /\ FrOf(y) = FrOf(m)
            /\ HasChain(y, FrOf(y), cur, A, S \cup {b})
            /\ Counted(m, y, f, m.page[f].cnt + 1)
  <1> DEFINE m1 == list_append(m, cur, b)
             y == [m1 EXCEPT !.page[f].cnt = @ + 1]
             fr == FrOf(m)
             k == m.page[f].cnt + 1
             h == [m1.page[f] EXCEPT !.cnt = k]
  <1>0. Rec(m) /\ A \in SUBSET Pages
    BY DEF FramesOK, Reach
  <1>1. b[1] \in A /\ b[1] \in Pages
    BY <1>0, AddrFacts
  <1>2. f \in Frames /\ f = FrameAt(m, b[1])
    BY <1>1 DEF Reach, FrOf
  <1>3. Rewrites(m, m1, A) /\ HasChain(m1, fr, cur, A, S \cup {b})
    BY <1>0, AppendFacts
  <1>d. y = [m1 EXCEPT !.page[f].cnt = @ + 1]
    OBVIOUS
  <1> HIDE DEF m1, y
  <1>c. Counted(m, m1, f, m.page[f].cnt)
    BY <1>2, <1>3 DEF Rewrites, Counted
  <1>4. /\ SamePages(m, m1) /\ m1.bad = "no" /\ m1.tlb = m.tlb /\ MemTypes(m1) /\ Rec(m1)
        /\ m1.pte = m.pte /\ FrOf(m1) = fr /\ m1.page[f].cnt = m.page[f].cnt
    <2>1. /\ SamePages(m, m1) /\ m1.bad = "no" /\ m1.tlb = m.tlb /\ MemTypes(m1) /\ Rec(m1) /\ m1.pte = m.pte
      BY <1>3 DEF Rewrites, SamePages
    <2>2. FrOf(m1) = FrOf(m)
      BY <2>1 DEF FrOf, FrameAt
    <2>3. QED
      BY <1>2, <1>c, <2>1, <2>2 DEF Counted
  <1>5. Local(m, m1)
    BY <1>0, <1>3, RewritesLocal
  <1>6. ~Theirs(m1, f) /\ TlbOwn(m1, cur)
    <2>1. f # None
      BY <1>2, Sizes
    <2>2. ~Theirs(m, f)
      BY <1>1, <1>2, <2>1, ReachOwn
    <2>3. QED
      BY <1>4, <1>5, <2>2 DEF Theirs, Local
  <1>7. y = [m1 EXCEPT !.page = [m1.page EXCEPT ![f] = h]]
    BY <1>4, <1>d DEF Rec
  <1>8. m1.page[f] \in PageSet /\ k \in Int
    BY <1>2, <1>4 DEF MemTypes, PageSet
  <1> HIDE DEF k
  <1>9. /\ h \in PageSet /\ h.desc = m1.page[f].desc /\ h.cnt = k /\ h.link = m1.page[f].link
    <2> DEFINE g == m1.page[f]
    <2>1. g \in PageSet
      BY <1>8
    <2> HIDE DEF g
    <2>2. LET e == [g EXCEPT !.cnt = k]
          IN e \in PageSet /\ e.desc = g.desc /\ e.cnt = k /\ e.link = g.link
      BY <1>8, <2>1, PageCounted
    <2>3. QED
      BY <2>2 DEF g
  <1> HIDE DEF h, fr
  <1>10. Local(m1, y) /\ OnlyPage(m1, y, f, h)
    BY <1>2, <1>4, <1>6, <1>7, <1>9, PageLocal
  <1>11. /\ SamePages(m1, y) /\ y.bad = m1.bad /\ y.tlb = m1.tlb /\ y.list = m1.list
         /\ FrOf(y) = FrOf(m1)
         /\ \A g \in Frames : y.page[g] = IF g = f THEN h ELSE m1.page[g]
    BY <1>10 DEF OnlyPage
  <1>12. Local(m, y) /\ SamePages(m, y)
    BY <1>4, <1>5, <1>10, <1>11, LocalTrans, SameTrans
  <1>13. Counted(m, y, f, m.page[f].cnt + 1)
    BY <1>2, <1>c, <1>9, <1>11 DEF Counted, k
  <1>14. HasChain(y, fr, cur, A, S \cup {b})
    <2> DEFINE R == S \cup {b}
    <2>1. HasChain(m1, fr, cur, A, R)
      BY <1>3
    <2>2. ASSUME NEW v \in A PROVE y.page[fr[v]].link = m1.page[fr[v]].link
      <3>1. fr[v] \in Frames
        BY DEF Reach, fr
      <3>2. QED
        BY <1>9, <1>11, <3>1
    <2> HIDE DEF R
    <2>3. HasChain(y, fr, cur, A, R)
      BY <1>0, <1>11, <2>1, <2>2, ChainSame
    <2>4. QED
      BY <2>3 DEF R
  <1>15. QED
    BY <1>4, <1>11, <1>12, <1>13, <1>14 DEF fr, y, m1

LEMMA RewritesRefl ==
  ASSUME NEW m, Rec(m), MemTypes(m), NEW A
  PROVE  Rewrites(m, m, A)
  BY DEF Rewrites, SamePages

\* The first k blocks of the arena at v.
Firsts(v, k) == {<<v, i>> : i \in 1..k}

LEMMA FirstsGrow ==
  ASSUME NEW v, NEW k \in Nat
  PROVE  /\ Firsts(v, 0) = {} /\ Firsts(v, k + 1) = Firsts(v, k) \cup {<<v, k + 1>>}
         /\ <<v, k + 1>> \notin Firsts(v, k)
  <1>1. 1..0 = {} /\ 1..(k + 1) = (1..k) \cup {k + 1} /\ k + 1 \notin 1..k
    OBVIOUS
  <1>2. QED
    BY <1>1 DEF Firsts

\* All the blocks of a new arena go on the list, in a loop.
LEMMA AddLoopFacts ==
  ASSUME MemoryAssumption, cur \in Procs, NEW m, Rec(m), MemTypes(m), NEW A, Reach(FrOf(m), A),
         NEW S, HasChain(m, FrOf(m), cur, A, S), NEW v \in A, S \cap BlocksOf(v) = {},
         NEW step, IsAddLoop(step, m, v, Blocks)
  PROVE  /\ Rewrites(m, step[Blocks], A)
         /\ HasChain(step[Blocks], FrOf(m), cur, A, S \cup BlocksOf(v))
  <1> DEFINE Inv(k) == Rewrites(m, step[k], A) /\ HasChain(step[k], FrOf(m), cur, A, S \cup Firsts(v, k))
             T == {k \in Nat : k > Blocks \/ Inv(k)}
  <1>0. Blocks \in Nat /\ BlocksOf(v) = Firsts(v, Blocks)
    BY Sizes DEF BlocksOf, Firsts
  <1>1. step[0] = m /\ \A k \in 1..Blocks : step[k] = AddBlock(step[k - 1], <<v, k>>)
    BY <1>0 DEF IsAddLoop
  <1>2. 0 \in T
    <2>1. S \cup Firsts(v, 0) = S
      BY FirstsGrow
    <2>2. Inv(0)
      BY <1>1, <2>1, RewritesRefl
    <2> HIDE DEF Inv
    <2>3. QED
      BY <2>2
  <1>3. ASSUME NEW k \in T PROVE k + 1 \in T
    <2>1. SUFFICES ASSUME k + 1 <= Blocks PROVE Inv(k + 1)
      <3> HIDE DEF Inv
      <3>1. QED
        BY <1>0
    <2>2. k \in Nat /\ Inv(k) /\ k + 1 \in 1..Blocks /\ (k + 1) - 1 = k
      <3> HIDE DEF Inv
      <3>1. QED
        BY <1>0, <2>1
    <2> DEFINE x == step[k]
               y == step[k + 1]
               b == <<v, k + 1>>
               R == S \cup Firsts(v, k)
    <2>3. y = AddBlock(x, b)
      BY <1>1, <2>2
    <2>4. Rewrites(m, x, A) /\ HasChain(x, FrOf(m), cur, A, R)
      BY <2>2
    <2>5. b \in Nodes(A) /\ b \notin R /\ S \cup Firsts(v, k + 1) = R \cup {b}
      <3>1. b \in BlocksOf(v)
        BY <2>2 DEF BlocksOf
      <3>2. QED
        BY <2>2, <3>1, FirstsGrow DEF Nodes
    <2> HIDE DEF x, y, b, R
    <2>6. FrOf(x) = FrOf(m) /\ Rec(x) /\ MemTypes(x)
      BY <2>4 DEF Rewrites, SamePages, FrOf, FrameAt
    <2>7. Walk(x, cur) = R
      BY <2>4, <2>6, WalkFacts
    <2>8. y = list_append(x, cur, b)
      BY <2>3, <2>5, <2>7 DEF AddBlock, elem_find
    <2>9. Rewrites(x, y, A) /\ HasChain(y, FrOf(x), cur, A, R \cup {b})
      BY <2>4, <2>5, <2>6, <2>8, AppendFacts
    <2>10. Rewrites(m, y, A)
      BY <2>4, <2>9, RewritesTrans
    <2>11. QED
      BY <2>5, <2>6, <2>9, <2>10 DEF y
  <1>4. Inv(Blocks)
    <2> HIDE DEF Inv
    <2>1. T \in SUBSET Nat
      OBVIOUS
    <2> HIDE DEF T
    <2>2. Blocks \in T
      BY <1>0, <1>2, <1>3, <2>1, Inductive
    <2>3. QED
      BY <1>0, <2>2 DEF T
  <1>5. QED
    BY <1>0, <1>4

\* All the blocks of an arena leave the list, in a loop.
LEMMA DropLoopFacts ==
  ASSUME MemoryAssumption, cur \in Procs, NEW m, Rec(m), m.bad = "no", MemTypes(m), NEW A, Reach(FrOf(m), A),
         NEW S, HasChain(m, FrOf(m), cur, A, S), NEW v, BlocksOf(v) \subseteq S,
         NEW step, IsDropLoop(step, m, cur, v, Blocks)
  PROVE  /\ Rewrites(m, step[Blocks], A)
         /\ HasChain(step[Blocks], FrOf(m), cur, A, S \ BlocksOf(v))
  <1> DEFINE Inv(k) == Rewrites(m, step[k], A) /\ HasChain(step[k], FrOf(m), cur, A, S \ Firsts(v, k))
             T == {k \in Nat : k > Blocks \/ Inv(k)}
  <1>0. Blocks \in Nat /\ BlocksOf(v) = Firsts(v, Blocks)
    BY Sizes DEF BlocksOf, Firsts
  <1>1. step[0] = m /\ \A k \in 1..Blocks : step[k] = DropBlock(step[k - 1], cur, <<v, k>>)
    BY <1>0 DEF IsDropLoop
  <1>2. 0 \in T
    <2>1. S \ Firsts(v, 0) = S
      BY FirstsGrow
    <2>2. Inv(0)
      BY <1>1, <2>1, RewritesRefl
    <2> HIDE DEF Inv
    <2>3. QED
      BY <2>2
  <1>3. ASSUME NEW k \in T PROVE k + 1 \in T
    <2>1. SUFFICES ASSUME k + 1 <= Blocks PROVE Inv(k + 1)
      <3> HIDE DEF Inv
      <3>1. QED
        BY <1>0
    <2>2. k \in Nat /\ Inv(k) /\ k + 1 \in 1..Blocks /\ (k + 1) - 1 = k
      <3> HIDE DEF Inv
      <3>1. QED
        BY <1>0, <2>1
    <2> DEFINE x == step[k]
               y == step[k + 1]
               b == <<v, k + 1>>
               R == S \ Firsts(v, k)
    <2>3. y = DropBlock(x, cur, b)
      BY <1>1, <2>2
    <2>4. Rewrites(m, x, A) /\ HasChain(x, FrOf(m), cur, A, R)
      BY <2>2
    <2>5. b \in R /\ S \ Firsts(v, k + 1) = R \ {b}
      <3>1. b \in BlocksOf(v)
        BY <2>2 DEF BlocksOf
      <3>2. QED
        BY <2>2, <3>1, FirstsGrow
    <2> HIDE DEF x, y, b, R
    <2>6. FrOf(x) = FrOf(m) /\ Rec(x) /\ MemTypes(x) /\ x.bad = "no"
      BY <2>4 DEF Rewrites, SamePages, FrOf, FrameAt
    <2>7. Walk(x, cur) = R
      BY <2>4, <2>6, WalkFacts
    <2>8. y = list_remove(x, b)
      BY <2>3, <2>5, <2>6, <2>7 DEF DropBlock, elem_find
    <2>9. Rewrites(x, y, A) /\ HasChain(y, FrOf(x), cur, A, R \ {b})
      BY <2>4, <2>5, <2>6, <2>8, RemoveFacts
    <2>10. Rewrites(m, y, A)
      BY <2>4, <2>9, RewritesTrans
    <2>11. QED
      BY <2>5, <2>6, <2>9, <2>10 DEF y
  <1>4. Inv(Blocks)
    <2> HIDE DEF Inv
    <2>1. T \in SUBSET Nat
      OBVIOUS
    <2> HIDE DEF T
    <2>2. Blocks \in T
      BY <1>0, <1>2, <1>3, <2>1, Inductive
    <2>3. QED
      BY <1>0, <2>2 DEF T
  <1>5. QED
    BY <1>0, <1>4

-----------------------------------------------------------------------------
(* The invariant.                                                          *)

\* The addresses last longer than the frames, for large blocks too.  The code has
\* 753592 pages and at most 32768 frames for users (memory.c:41-43).
Roomy == NFrames + 1 < NPages /\ (NFrames + 1) * MaxLarge <= NPages

\* The heap of everyone who was not hit by a defect is exact; who runs reaches
\* nobody else's frames, and its own only through its page table.
HeapInv ==
  /\ MemInv /\ state[cur] = "live" /\ DOMAIN held = Procs
  /\ panic = "no" =>
       /\ MemTypes(s) /\ TlbOwn(s, cur) /\ (cur \notin tainted => Clean(s, cur))
       /\ \A p \in Procs : Present(s, p) = {} => held[p] = {}
       /\ \A p \in Procs \ tainted : state[p] = "live" => HeapOK(s, p, held[p])
  /\ Roomy => OnlyTaintedFail

\* Forget leaves every page alone that somebody has.
LEMMA ForgetKeeps ==
  ASSUME MemoryAssumption, NEW m, FramesOK(m), MemTypes(m)
  PROVE  LET y == Forget(m)
         IN /\ SamePages(m, y) /\ y.bad = m.bad /\ y.tlb = m.tlb /\ MemTypes(y)
            /\ \A p \in Procs : SameFor(m, y, p)
  <1> DEFINE y == Forget(m)
             K(f) == f \in m.used \/ \E v \in Pages : m.tlb[v] = f
             g == [f \in Frames |-> IF K(f) THEN m.page[f] ELSE EmptyPage]
  <1>0. Rec(m) /\ m.page \in [Frames -> PageSet]
    BY DEF FramesOK, MemTypes
  <1>1. y = [m EXCEPT !.page = g]
    BY DEF Forget
  <1>2. g \in [Frames -> PageSet]
    BY <1>0, EmptyPageType
  <1>3. \A f \in m.used \cap Frames : g[f] = m.page[f]
    OBVIOUS
  <1> HIDE DEF g, y
  <1>4. /\ Rec(y) /\ y.used = m.used /\ y.bits = m.bits /\ y.pte = m.pte /\ y.tlb = m.tlb
        /\ y.list = m.list /\ y.bad = m.bad /\ y.page = g
    BY <1>0, <1>1 DEF Rec
  <1>5. MemTypes(y)
    BY <1>2, <1>4 DEF MemTypes
  <1>6. ASSUME NEW p \in Procs PROVE SameFor(m, y, p)
    <2>1. ASSUME NEW w \in Present(m, p) PROVE PageAt(y, p, w) = PageAt(m, p, w)
      <3>1. w \in Pages /\ m.pte[p][w] \in Frames /\ m.pte[p][w] \in m.used
        BY DEF Present, FramesOK, Tables
      <3>2. QED
        BY <1>3, <1>4, <3>1 DEF PageAt
    <2>2. QED
      BY <1>4, <2>1 DEF SameFor
  <1>7. QED
    BY <1>4, <1>5, <1>6 DEF SamePages, y

LEMMA SameForTrans ==
  ASSUME NEW p, NEW x, NEW y, NEW z, SameFor(x, y, p), SameFor(y, z, p)
  PROVE  SameFor(x, z, p)
  <1>1. Present(y, p) = Present(x, p)
    BY DEF SameFor, Present
  <1>2. QED
    BY <1>1 DEF SameFor

\* What is left of an operation's result once it is over.
LEMMA ResultSame ==
  ASSUME MemoryAssumption, NEW y, FramesOK(y), MemTypes(y), Result(y)
  PROVE  /\ s'.tlb = y.tlb /\ s'.pte = y.pte /\ MemTypes(s')
         /\ \A p \in Procs : SameFor(y, s', p)
  <1> DEFINE x == [y EXCEPT !.bad = "no"]
  <1>0. Rec(y)
    BY DEF FramesOK
  <1>1. /\ Rec(x) /\ x.used = y.used /\ x.bits = y.bits /\ x.pte = y.pte /\ x.tlb = y.tlb
        /\ x.list = y.list /\ x.page = y.page
    BY <1>0 DEF Rec
  <1>2. s' = Forget(x)
    BY DEF Result
  <1> HIDE DEF x
  <1>3. FramesOK(x) /\ MemTypes(x)
    BY <1>1 DEF FramesOK, MemTypes
  <1>4. /\ SamePages(x, s') /\ s'.tlb = x.tlb /\ MemTypes(s')
        /\ \A p \in Procs : SameFor(x, s', p)
    BY <1>2, <1>3, ForgetKeeps
  <1>5. \A p \in Procs : SameFor(y, x, p)
    BY <1>1 DEF SameFor, PageAt
  <1>6. QED
    BY <1>1, <1>4, <1>5, SameForTrans DEF SamePages

\* What an operation of the running process has to show.
LEMMA ResultHeap ==
  ASSUME MemoryAssumption, HeapInv, Runs, MemInv', NEW y, Result(y), UNCHANGED <<cur, state>>,
         DOMAIN held' = Procs, \A p \in Procs \ {cur} : held'[p] = held[p], tainted \subseteq tainted',
         y.bad = "no" => Exact(y) /\ Local(s, y),
         y.bad = "no" /\ cur \notin tainted' => Clean(y, cur) /\ HeapOK(y, cur, held'[cur]),
         y.bad = "no" /\ Present(y, cur) = {} => held'[cur] = {},
         Roomy /\ y.bad \in {"assert", "fault"} => tainted' # {}
  PROVE  HeapInv'
  <1>0. /\ cur \in Procs /\ panic = "no" /\ FramesOK(s) /\ state' = state /\ cur' = cur /\ panic' = y.bad
        /\ \A p \in Procs : Present(s, p) = {} => held[p] = {}
        /\ \A p \in Procs \ tainted : state[p] = "live" => HeapOK(s, p, held[p])
        /\ state[cur] = "live"
    BY DEF HeapInv, MemInv, Runs, Exact, Result
  <1>1. (Roomy => OnlyTaintedFail)'
    BY <1>0 DEF OnlyTaintedFail, Roomy, NPages
  <1>2. ASSUME y.bad = "no"
        PROVE  /\ MemTypes(s') /\ TlbOwn(s', cur) /\ (cur \notin tainted' => Clean(s', cur))
               /\ \A p \in Procs : Present(s', p) = {} => held'[p] = {}
               /\ \A p \in Procs \ tainted' : state[p] = "live" => HeapOK(s', p, held'[p])
    <2>1. FramesOK(y) /\ MemTypes(y) /\ TlbOwn(y, cur) /\ Local(s, y)
      BY <1>2 DEF Exact, Local
    <2>2. /\ s'.tlb = y.tlb /\ s'.pte = y.pte /\ MemTypes(s')
          /\ \A p \in Procs : SameFor(y, s', p)
      BY <2>1, ResultSame
    <2>3. TlbOwn(s', cur) /\ (cur \notin tainted' => Clean(s', cur))
      BY <1>2, <2>1, <2>2 DEF TlbOwn, Clean, Present
    <2>4. \A p \in Procs \ {cur} : SameFor(s, y, p)
      BY <1>0, <2>1, LocalSame
    <2>5. ASSUME NEW p \in Procs, Present(s', p) = {} PROVE held'[p] = {}
      <3>1. Present(y, p) = Present(s', p)
        BY <2>2 DEF Present
      <3>2. CASE p = cur
        BY <1>2, <2>5, <3>1, <3>2
      <3>3. CASE p # cur
        <4>1. Present(s, p) = Present(y, p)
          BY <2>4, <3>3 DEF SameFor, Present
        <4>2. QED
          BY <1>0, <2>5, <3>1, <3>3, <4>1
      <3>4. QED
        BY <3>2, <3>3
    <2>6. ASSUME NEW p \in Procs \ tainted', state[p] = "live" PROVE HeapOK(s', p, held'[p])
      <3> DEFINE G == held'[p]
      <3>1. HeapOK(y, p, G)
        <4>1. CASE p = cur
          BY <1>2, <2>6, <4>1
        <4>2. CASE p # cur
          <5>1. HeapOK(s, p, G) /\ SameFor(s, y, p)
            BY <1>0, <2>4, <2>6, <4>2
          <5> HIDE DEF G
          <5>2. QED
            BY <5>1, HeapSame
        <4>3. QED
          BY <4>1, <4>2
      <3>2. SameFor(y, s', p)
        BY <2>2
      <3> DEFINE z == s'
      <3>3. SameFor(y, z, p)
        BY <3>2
      <3> HIDE DEF G, z
      <3>4. HeapOK(z, p, G)
        BY <3>1, <3>3, HeapSame
      <3>5. QED
        BY <3>4 DEF z, G
    <2>7. QED
      BY <2>2, <2>3, <2>5, <2>6
  <1>3. QED
    BY <1>0, <1>1, <1>2 DEF HeapInv

-----------------------------------------------------------------------------
(* malloc of a large block.                                                *)

\* The pages of ws are new in y, and empty; the others are as in m.
NewPages(m, y, ws) ==
  /\ \A w \in ws : PageAt(y, cur, w) = EmptyPage
  /\ \A w \in Present(m, cur) : PageAt(y, cur, w) = PageAt(m, cur, w)

LEMMA FreshFacts ==
  ASSUME MemoryAssumption, cur \in Procs, NEW m, FramesOK(m), MemTypes(m), TlbOwn(m, cur),
         NEW y, FramesOK(y), NEW ws, Fresh(m, y, ws)
  PROVE  /\ Local(m, y) /\ Present(y, cur) = Present(m, cur) \cup ws /\ Present(m, cur) \cap ws = {}
         /\ \A w \in ws : FrameAt(y, w) \in Frames /\ ~Theirs(y, FrameAt(y, w))
         /\ Clean(m, cur) /\ (\A w \in ws : ~StaleAt(y, w)) => Clean(y, cur) /\ NewPages(m, y, ws)
  <1>1. /\ ws \subseteq Pages /\ y.tlb = m.tlb /\ y.list = m.list /\ y.page \in [Frames -> PageSet]
        /\ \A w \in ws : m.pte[cur][w] = None /\ y.pte[cur][w] \in Frames
        /\ \A q \in Procs, w \in Pages : q # cur \/ w \notin ws => y.pte[q][w] = m.pte[q][w]
        /\ \A f \in Frames : y.page[f] = IF \E w \in ws : FrameAt(y, w) = f THEN EmptyPage ELSE m.page[f]
    BY DEF Fresh
  <1>2. MemTypes(y)
    BY <1>1 DEF MemTypes
  <1>3. TlbOwn(y, cur)
    BY <1>1 DEF TlbOwn
  <1>4. None \notin Frames
    BY Sizes
  <1>5. ASSUME NEW w \in ws PROVE FrameAt(y, w) \in Frames /\ ~Theirs(y, FrameAt(y, w))
    <2>1. w \in Pages /\ FrameAt(y, w) # None
      BY <1>1, <1>4 DEF FrameAt
    <2>2. QED
      BY <1>2, <1>3, <2>1, ReachOwn
  <1>6. Local(m, y)
    <2>1. ASSUME NEW f \in Frames, Theirs(m, f) PROVE y.page[f] = m.page[f]
      <3>1. Theirs(y, f)
        BY <1>1, <2>1 DEF Theirs
      <3>2. ~\E w \in ws : FrameAt(y, w) = f
        BY <1>5, <3>1
      <3>3. QED
        BY <1>1, <3>2
    <2>2. QED
      BY <1>1, <1>2, <1>3, <2>1 DEF Local
  <1>7. Present(y, cur) = Present(m, cur) \cup ws /\ Present(m, cur) \cap ws = {}
    BY <1>1, <1>4 DEF Present
  <1>8. ASSUME Clean(m, cur), \A w \in ws : ~StaleAt(y, w)
        PROVE  Clean(y, cur) /\ NewPages(m, y, ws)
    <2>1. Clean(y, cur)
      BY <1>1, <1>7, <1>8 DEF Clean, StaleAt, Present
    <2>2. \A w \in Present(y, cur) : FrameAt(y, w) = y.pte[cur][w] /\ y.pte[cur][w] \in Frames
      BY <2>1, CleanReach
    <2>3. ASSUME NEW w \in ws PROVE PageAt(y, cur, w) = EmptyPage
      BY <1>1, <1>7, <2>2 DEF PageAt
    <2>4. ASSUME NEW w \in Present(m, cur) PROVE PageAt(y, cur, w) = PageAt(m, cur, w)
      <3>1. w \in Pages /\ w \notin ws /\ y.pte[cur][w] = m.pte[cur][w] /\ y.pte[cur][w] \in Frames
        BY <1>1, <1>7, <2>2 DEF Present
      <3>2. ASSUME NEW u \in ws PROVE FrameAt(y, u) # y.pte[cur][w]
        <4>1. u \in Pages /\ FrameAt(y, u) = y.pte[cur][u] /\ u # w /\ y.pte[cur][u] # None
          BY <1>1, <1>4, <1>7, <2>2, <3>1
        <4>2. QED
          BY <3>1, <4>1 DEF FramesOK
      <3>3. QED
        BY <1>1, <3>1, <3>2 DEF PageAt
    <2>5. QED
      BY <2>1, <2>3, <2>4 DEF NewPages
  <1>9. QED
    BY <1>5, <1>6, <1>7, <1>8

\* A header that is written in a page of the running process.
LEMMA HeaderFacts ==
  ASSUME MemoryAssumption, cur \in Procs, NEW m, FramesOK(m), MemTypes(m), TlbOwn(m, cur),
         NEW f \in Frames, ~Theirs(m, f), NEW d \in Procs \cup {None}, NEW k \in Int
  PROVE  LET y == [m EXCEPT !.page[f].desc = d, !.page[f].cnt = k]
             h == [desc |-> d, cnt |-> k, link |-> m.page[f].link]
         IN Local(m, y) /\ OnlyPage(m, y, f, h) /\ h \in PageSet
  <1> DEFINE g == m.page[f]
             e == [g EXCEPT !.desc = d, !.cnt = k]
             h == [desc |-> d, cnt |-> k, link |-> g.link]
             y == [m EXCEPT !.page[f].desc = d, !.page[f].cnt = k]
  <1>0. Rec(m) /\ m.page \in [Frames -> PageSet]
    BY DEF FramesOK, MemTypes
  <1>1. g \in PageSet
    BY <1>0
  <1>2. y = [m EXCEPT !.page = [m.page EXCEPT ![f] = e]]
    <2> DEFINE P == m.page
               P1 == [P EXCEPT ![f].desc = d]
               P2 == [P1 EXCEPT ![f].cnt = k]
    <2>1. y = [m EXCEPT !.page = P2]
      BY <1>0 DEF Rec
    <2>2. P \in [Frames -> PageSet]
      BY <1>0
    <2> HIDE DEF P
    <2>3. P2 = [P EXCEPT ![f] = [P[f] EXCEPT !.desc = d, !.cnt = k]]
      BY <2>2
    <2>4. QED
      BY <2>1, <2>3 DEF P
  <1> HIDE DEF g, y
  <1>3. e = h /\ h \in PageSet
    <2> DEFINE a == [g EXCEPT !.desc = d]
    <2>1. a = [desc |-> d, cnt |-> g.cnt, link |-> g.link]
      BY <1>1 DEF PageSet
    <2>2. e = [a EXCEPT !.cnt = k]
      OBVIOUS
    <2> HIDE DEF a, e
    <2>3. e = h
      BY <2>1, <2>2
    <2>4. g.link \in [1..Blocks -> LinkSet]
      BY <1>1 DEF PageSet
    <2>5. QED
      BY <2>3, <2>4 DEF PageSet
  <1> HIDE DEF e, h
  <1>4. Local(m, y) /\ OnlyPage(m, y, f, e)
    <2>1. e \in PageSet
      BY <1>3
    <2>2. QED
      BY <1>0, <1>2, <2>1, PageLocal
  <1>5. QED
    BY <1>3, <1>4 DEF y, h, g

\* A page of the running process that is written changes no other page it has.
PageChanged(m, y, v, h) ==
  /\ Present(y, cur) = Present(m, cur)
  /\ \A w \in Present(m, cur) : PageAt(y, cur, w) = IF w = v THEN h ELSE PageAt(m, cur, w)

LEMMA PageOf ==
  ASSUME cur \in Procs, NEW m, FramesOK(m), NEW v \in Present(m, cur), NEW y, NEW h,
         OnlyPage(m, y, m.pte[cur][v], h)
  PROVE  PageChanged(m, y, v, h)
  <1>1. y.pte = m.pte
    BY DEF OnlyPage, SamePages
  <1>2. ASSUME NEW w \in Present(m, cur)
        PROVE  m.pte[cur][w] \in Frames /\ (m.pte[cur][w] = m.pte[cur][v] => w = v)
    BY DEF Present, FramesOK, Tables
  <1>3. QED
    BY <1>1, <1>2 DEF OnlyPage, PageAt, Present, PageChanged

\* A heap with a large block more.
LEMMA LargeMade ==
  ASSUME MemoryAssumption, cur \in Procs, NEW m, NEW H, HeapOK(m, cur, H), NEW y,
         NEW v \in Nat, NEW n \in Nat, n # 0, NEW W, W = v..(v + n - 1),
         y.list[cur] = m.list[cur], W \subseteq Pages,
         Present(y, cur) = Present(m, cur) \cup W, Present(m, cur) \cap W = {},
         \A w \in Present(m, cur) : PageAt(y, cur, w) = PageAt(m, cur, w),
         \A w \in W : PageAt(y, cur, w).desc = None, PageAt(y, cur, v).cnt = n
  PROVE  HeapOK(y, cur, H \cup {<<v, 1>>})
  <1> DEFINE b0 == <<v, 1>>
             G == H \cup {b0}
  <1>0. v \in W /\ b0[1] = v /\ b0[2] = 1 /\ 1 \in 1..Blocks /\ Present(m, cur) \subseteq Pages
    BY AddrFacts DEF Present
  <1>h. H \subseteq Nodes(Present(m, cur)) /\ \A b \in H : b[1] \in Present(m, cur)
    BY DEF HeapOK, Nodes
  <1>1. Arenas(y, cur) = Arenas(m, cur) /\ Arenas(m, cur) \subseteq Present(m, cur)
    BY DEF Arenas
  <1>2. Nodes(Arenas(m, cur)) \ G = Free(m, cur, H)
    BY <1>0, <1>1 DEF Free, Nodes
  <1>3. G \subseteq Nodes(Present(y, cur))
    BY <1>0, <1>h DEF Nodes
  <1>4. ListOK(y, cur, G)
    <2> DEFINE A == Arenas(m, cur)
               fr == m.pte[cur]
               gr == y.pte[cur]
               S == Free(m, cur, H)
    <2>1. A \in SUBSET Pages /\ A \subseteq A /\ HasChain(m, fr, cur, A, S)
      BY <1>0, <1>1 DEF HeapOK, ListOK
    <2>2. \A w \in A : y.page[gr[w]].link = m.page[fr[w]].link
      BY <1>1 DEF PageAt
    <2> HIDE DEF A, fr, gr, S
    <2>3. HasChain(y, gr, cur, A, S)
      BY <2>1, <2>2, ChainSame
    <2>4. QED
      BY <1>1, <1>2, <2>3 DEF ListOK, Free, A, gr, S
  <1>5. CountsOK(y, cur, G)
    <2>1. ASSUME NEW w \in Arenas(m, cur) PROVE BlocksOf(w) \ G = BlocksOf(w) \ H
      <3>1. w # v
        BY <1>0, <1>1
      <3>2. QED
        BY <3>1 DEF BlocksOf
    <2>2. CountsOK(m, cur, H)
      BY DEF HeapOK
    <2> HIDE DEF G
    <2>3. QED
      BY <1>1, <2>1, <2>2 DEF CountsOK
  <1>6. \A b \in H : Span(y, cur, b) = Span(m, cur, b)
    BY <1>h DEF Span
  <1>7. Span(y, cur, b0) = W
    BY <1>0 DEF Span
  <1> HIDE DEF b0
  <1>8. LargeOK(y, cur, G)
    <2>0. LargeOK(m, cur, H)
      BY DEF HeapOK
    <2>1. ASSUME NEW b \in G, b[1] \notin Arenas(m, cur)
          PROVE  /\ b[2] = 1 /\ PageAt(y, cur, b[1]).cnt >= 1
                 /\ Span(y, cur, b) \subseteq Present(y, cur) \ Arenas(m, cur)
      <3>1. CASE b \in H
        <4>1. /\ b[2] = 1 /\ PageAt(m, cur, b[1]).cnt >= 1
              /\ Span(m, cur, b) \subseteq Present(m, cur) \ Arenas(m, cur)
          BY <2>0, <2>1, <3>1 DEF LargeOK
        <4>2. QED
          BY <1>6, <1>h, <3>1, <4>1
      <3>2. CASE b = b0
        BY <1>0, <1>1, <1>7, <3>2
      <3>3. QED
        BY <3>1, <3>2
    <2>2. ASSUME NEW b \in G, NEW e \in G, b[1] \notin Arenas(m, cur), e[1] \notin Arenas(m, cur), b # e
          PROVE  Span(y, cur, b) \cap Span(y, cur, e) = {}
      <3>0. \A c \in H : c[1] \notin Arenas(m, cur) => Span(m, cur, c) \subseteq Present(m, cur)
        BY <2>0 DEF LargeOK
      <3>1. CASE b \in H /\ e \in H
        <4>1. Span(m, cur, b) \cap Span(m, cur, e) = {}
          BY <2>0, <2>2, <3>1 DEF LargeOK
        <4>2. QED
          BY <1>6, <3>1, <4>1
      <3>2. CASE b \in H /\ e = b0
        BY <1>6, <1>7, <2>2, <3>0, <3>2
      <3>3. CASE b = b0 /\ e \in H
        BY <1>6, <1>7, <2>2, <3>0, <3>3
      <3>4. QED
        BY <2>2, <3>1, <3>2, <3>3
    <2>3. QED
      BY <1>1, <2>1, <2>2 DEF LargeOK
  <1>9. HeapOK(y, cur, G)
    BY <1>3, <1>4, <1>5, <1>8 DEF HeapOK
  <1>10. QED
    BY <1>9 DEF b0

-----------------------------------------------------------------------------
(* Room.                                                                   *)

\* Of NFrames + 1 windows of n pages, one has no page with a frame.
LEMMA FreeWindow ==
  ASSUME MemoryAssumption, cur \in Procs, NEW m, FramesOK(m), NEW n \in Nat, n # 0
  PROVE  \E j \in 0..NFrames : (j * n)..(j * n + n - 1) \cap Present(m, cur) = {}
  <1> DEFINE win(j) == (j * n)..(j * n + n - 1)
             pick(j) == CHOOSE u \in win(j) : u \in Present(m, cur)
             g == [j \in 0..NFrames |-> m.pte[cur][pick(j)]]
  <1>1. SUFFICES ASSUME \A j \in 0..NFrames : \E u \in win(j) : u \in Present(m, cur) PROVE FALSE
    OBVIOUS
  <1>2. \A j \in 0..NFrames : pick(j) \in win(j) /\ pick(j) \in Present(m, cur)
    <2>1. SUFFICES ASSUME NEW j \in 0..NFrames PROVE pick(j) \in win(j) /\ pick(j) \in Present(m, cur)
      OBVIOUS
    <2>2. \E u \in win(j) : u \in Present(m, cur)
      BY <1>1
    <2> HIDE DEF win
    <2>3. QED
      BY <2>2
  <1> HIDE DEF pick
  <1>3. NFrames \in Nat /\ NFrames > 0 /\ Frames = 0..(NFrames - 1)
    BY Sizes
  <1>4. \A u \in Present(m, cur) : u \in Pages /\ u \in Nat /\ m.pte[cur][u] \in Frames /\ m.pte[cur][u] # None
    BY Sizes DEF Present, FramesOK, Tables
  <1>5. g \in [0..NFrames -> Frames]
    BY <1>2, <1>4
  <1>6. /\ IsFiniteSet(Frames) /\ IsFiniteSet(0..NFrames)
        /\ Cardinality(Frames) < Cardinality(0..NFrames)
    <2>1. 0 \in Int /\ NFrames - 1 \in Int /\ NFrames \in Int
      BY <1>3
    <2>2. IsFiniteSet(Frames) /\ Cardinality(Frames) = IF 0 > NFrames - 1 THEN 0 ELSE (NFrames - 1) - 0 + 1
      BY <1>3, <2>1, FS_Interval
    <2>3. IsFiniteSet(0..NFrames) /\ Cardinality(0..NFrames) = IF 0 > NFrames THEN 0 ELSE NFrames - 0 + 1
      BY <2>1, FS_Interval
    <2>4. QED
      BY <1>3, <2>2, <2>3
  <1> HIDE DEF g
  <1>7. PICK i, j \in 0..NFrames : i # j /\ g[i] = g[j]
    BY <1>5, <1>6, FS_PigeonHole
  <1>8. pick(i) = pick(j)
    <2>1. m.pte[cur][pick(i)] = m.pte[cur][pick(j)]
      BY <1>7 DEF g
    <2>2. QED
      BY <1>2, <1>4, <2>1 DEF FramesOK
  <1> DEFINE u == pick(i)
  <1>9. u \in Nat /\ u \in win(i) /\ u \in win(j) /\ i \in Nat /\ j \in Nat
    BY <1>2, <1>3, <1>4, <1>8
  <1> HIDE DEF u
  <1>10. /\ i * n \in Nat /\ j * n \in Nat
    BY <1>9
  <1> DEFINE a == u + 1 - i * n
             b == u + 1 - j * n
  <1>11. a \in 1..n /\ b \in 1..n /\ i * n + a = j * n + b
    BY <1>9, <1>10
  <1> HIDE DEF a, b
  <1>12. i = j
    BY <1>9, <1>11, BaseFacts
  <1>13. QED
    BY <1>7, <1>12

\* So what the search finds lies within the address space.
LEMMA RoomFits ==
  ASSUME MemoryAssumption, cur \in Procs, NEW m, Exact(m), NEW n \in Nat, n # 0, n <= MaxLarge, Roomy
  PROVE  bitmap_scan(m.bits[cur], n) \in Nat /\ Fits(m, bitmap_scan(m.bits[cur], n), n)
  <1> DEFINE set == m.bits[cur]
             last == IF n = 1 THEN NBits - 1 ELSE NBits
             runs == {i \in 0..(NBits - 1) : i + n - 1 <= last /\ (i..(i + n - 1)) \cap set = {}}
  <1>0. /\ NBits = NPages /\ NPages \in Nat /\ Pages = 0..(NPages - 1) /\ NFrames \in Nat /\ MaxLarge \in Nat
        /\ set = Present(m, cur) /\ FramesOK(m)
    BY Sizes DEF NPages, Exact
  <1>1. set \in SUBSET Pages /\ set # Pages
    BY AddressesLeft
  <1>2. bitmap_scan(set, n) = FirstRun(set, n)
    BY <1>1, ScanFacts
  <1>3. FirstRun(set, n) = IF runs = {} THEN -1 ELSE Min(runs)
    BY DEF FirstRun
  <1>4. PICK j \in 0..NFrames : (j * n)..(j * n + n - 1) \cap set = {}
    BY <1>0, FreeWindow
  <1>5. /\ j * n \in Nat /\ NFrames * n \in Nat /\ j * n <= NFrames * n /\ NFrames * n + n <= NPages
        /\ NFrames * n < NPages - 1
    <2>1. j \in Nat /\ j <= NFrames
      BY <1>0
    <2>2. j * n \in Nat /\ NFrames * n \in Nat
      BY <1>0, <2>1
    <2>3. j * n <= NFrames * n
      <3>1. NFrames - j \in Nat /\ NFrames = j + (NFrames - j)
        BY <1>0, <2>1
      <3>2. NFrames * n = j * n + (NFrames - j) * n /\ (NFrames - j) * n \in Nat
        BY <3>1, <2>1, <1>0
      <3>3. QED
        BY <2>2, <3>2
    <2>4. (NFrames + 1) * n <= (NFrames + 1) * MaxLarge
      <3>1. MaxLarge - n \in Nat /\ MaxLarge = n + (MaxLarge - n) /\ NFrames + 1 \in Nat
        BY <1>0
      <3>2. /\ (NFrames + 1) * MaxLarge = (NFrames + 1) * n + (NFrames + 1) * (MaxLarge - n)
            /\ (NFrames + 1) * (MaxLarge - n) \in Nat /\ (NFrames + 1) * n \in Nat
        BY <3>1
      <3>3. QED
        BY <3>2
    <2>5. (NFrames + 1) * n = NFrames * n + n /\ (NFrames + 1) * MaxLarge \in Nat
      BY <1>0
    <2>6. NFrames * n + n <= NPages
      BY <1>0, <2>2, <2>4, <2>5 DEF Roomy
    <2>7. CASE n = 1
      BY <1>0, <2>1, <2>2, <2>3, <2>6, <2>7 DEF Roomy
    <2>8. CASE n # 1
      BY <1>0, <2>1, <2>2, <2>3, <2>6, <2>8
    <2>9. QED
      BY <2>2, <2>3, <2>6, <2>7, <2>8
  <1>6. j * n \in runs
    BY <1>0, <1>4, <1>5
  <1>7. runs \in SUBSET Nat
    OBVIOUS
  <1> DEFINE v == Min(runs)
  <1>8. v \in runs /\ v <= j * n /\ v \in Nat
    <2> HIDE DEF runs
    <2>1. QED
      BY <1>6, <1>7, MinFacts
  <1> HIDE DEF v
  <1>9. (v..(v + n - 1)) \cap set = {}
    BY <1>8
  <1> HIDE DEF runs
  <1>10. bitmap_scan(set, n) = v
    BY <1>2, <1>3, <1>6 DEF v
  <1> HIDE DEF set
  <1>11. ASSUME NEW w \in v..(v + n - 1) PROVE w \in Pages /\ m.pte[cur][w] = None
    <2>1. w \in Pages
      BY <1>0, <1>5, <1>8
    <2>2. w \notin Present(m, cur)
      BY <1>0, <1>9
    <2>3. QED
      BY <2>1, <2>2 DEF Present
  <1>12. v < NPages - 1
    BY <1>0, <1>5, <1>8
  <1>13. QED
    BY <1>8, <1>10, <1>11, <1>12 DEF Fits, set

LEMMA LargeFacts ==
  ASSUME MemoryAssumption, cur \in Procs, NEW m, Exact(m), m.bad = "no", MemTypes(m), TlbOwn(m, cur),
         NEW v \in Nat, NEW n \in Nat, n # 0
  PROVE  LET m1 == malloc_page(m, v, n)
             y == IF m1.bad # "no" THEN m1 ELSE [m1 EXCEPT !.page[FrameAt(m1, v)].cnt = n]
         IN /\ y.bad = "no" => Exact(y) /\ Local(m, y) /\ v \in Present(y, cur)
            /\ Fits(m, v, n) => y.bad \in {"no", "full"}
            /\ y.bad = "no" /\ Clean(m, cur) /\ (\A w \in v..(v + n - 1) : ~StaleAt(m1, w)) =>
                 /\ Clean(y, cur)
                 /\ \A H : HeapOK(m, cur, H) => HeapOK(y, cur, H \cup {<<v, 1>>})
  <1> DEFINE m1 == malloc_page(m, v, n)
             W == v..(v + n - 1)
             f == FrameAt(m1, v)
             h == [m1.page[f] EXCEPT !.cnt = n]
             z == [m1 EXCEPT !.page[f].cnt = n]
             y == IF m1.bad # "no" THEN m1 ELSE z
             ok == Fits(m, v, n)
  <1>0. FramesOK(m)
    BY DEF Exact
  <1>1. (m1.bad = "no" => Fresh(m, m1, W)) /\ (ok => m1.bad \in {"no", "full"})
    BY MallocPageDetail
  <1>2. Grown(m, m1)
    BY MallocPageFacts
  <1> HIDE DEF m1, ok
  <1>3. ASSUME m1.bad = "no"
        PROVE  /\ z.bad = "no" /\ Exact(z) /\ Local(m, z) /\ v \in Present(z, cur)
               /\ Clean(m, cur) /\ (\A w \in W : ~StaleAt(m1, w)) =>
                    /\ Clean(z, cur)
                    /\ \A H : HeapOK(m, cur, H) => HeapOK(z, cur, H \cup {<<v, 1>>})
    <2>1. Exact(m1) /\ FramesOK(m1) /\ Rec(m1) /\ Fresh(m, m1, W)
      BY <1>1, <1>2, <1>3 DEF Grown, Exact
    <2>2. v \in W /\ n \in Int
      OBVIOUS
    <2> HIDE DEF W, f, z
    <2>3. /\ Local(m, m1) /\ Present(m1, cur) = Present(m, cur) \cup W /\ Present(m, cur) \cap W = {}
          /\ \A w \in W : FrameAt(m1, w) \in Frames /\ ~Theirs(m1, FrameAt(m1, w))
          /\ Clean(m, cur) /\ (\A w \in W : ~StaleAt(m1, w)) => Clean(m1, cur) /\ NewPages(m, m1, W)
      BY <1>0, <2>1, FreshFacts
    <2>4. f \in Frames /\ ~Theirs(m1, f) /\ MemTypes(m1) /\ TlbOwn(m1, cur)
      BY <2>2, <2>3 DEF f, Local
    <2>5. m1.page[f] \in PageSet
      BY <2>4 DEF MemTypes
    <2>6. h \in PageSet /\ h.desc = m1.page[f].desc /\ h.cnt = n /\ h.link = m1.page[f].link
      <3> DEFINE g == m1.page[f]
      <3>1. g \in PageSet
        BY <2>5
      <3> HIDE DEF g
      <3>2. LET e == [g EXCEPT !.cnt = n]
            IN e \in PageSet /\ e.desc = g.desc /\ e.cnt = n /\ e.link = g.link
        BY <2>2, <3>1, PageCounted
      <3>3. QED
        BY <3>2 DEF g
    <2>7. z = [m1 EXCEPT !.page = [m1.page EXCEPT ![f] = h]]
      BY <2>1 DEF Rec, z
    <2> HIDE DEF h
    <2>8. Local(m1, z) /\ OnlyPage(m1, z, f, h)
      <3>1. h \in PageSet
        BY <2>6
      <3>2. QED
        BY <2>1, <2>4, <2>7, <3>1, PageLocal
    <2>9. Local(m, z) /\ z.bad = "no" /\ SamePages(m1, z) /\ z.tlb = m1.tlb
      BY <1>3, <2>3, <2>8, LocalTrans DEF OnlyPage
    <2>10. Grown(m, z)
      BY <1>2, <1>3, <2>9, SameGrown
    <2>11. Present(z, cur) = Present(m1, cur) /\ Exact(z)
      BY <2>9, <2>10 DEF Present, SamePages, Grown
    <2>12. ASSUME Clean(m, cur), \A w \in W : ~StaleAt(m1, w)
           PROVE  Clean(z, cur) /\ \A H : HeapOK(m, cur, H) => HeapOK(z, cur, H \cup {<<v, 1>>})
      <3>1. Clean(m1, cur) /\ NewPages(m, m1, W)
        BY <2>3, <2>12
      <3>2. Clean(z, cur)
        BY <2>9, <2>11, <3>1 DEF Clean, SamePages
      <3>3. v \in Present(m1, cur) /\ f = m1.pte[cur][v]
        <4>1. v \in Present(m1, cur)
          BY <2>2, <2>3
        <4>2. \A w \in Present(m1, cur) : FrameAt(m1, w) = m1.pte[cur][w] /\ m1.pte[cur][w] \in Frames
          BY <2>1, <3>1, CleanReach
        <4>3. QED
          BY <4>1, <4>2 DEF f
      <3>4. \A w \in Present(m1, cur) : PageAt(z, cur, w) = IF w = v THEN h ELSE PageAt(m1, cur, w)
        <4>1. OnlyPage(m1, z, m1.pte[cur][v], h)
          BY <2>8, <3>3
        <4>2. PageChanged(m1, z, v, h)
          BY <2>1, <3>3, <4>1, PageOf
        <4>3. QED
          BY <4>2 DEF PageChanged
      <3>5. \A w \in Present(m, cur) : PageAt(z, cur, w) = PageAt(m, cur, w)
        BY <2>2, <2>3, <3>1, <3>4 DEF NewPages
      <3>6. (\A w \in W : PageAt(z, cur, w).desc = None) /\ PageAt(z, cur, v).cnt = n
        <4>1. \A w \in W : PageAt(m1, cur, w).desc = None
          BY <3>1, EmptyPageType DEF NewPages
        <4>2. h.desc = None
          BY <2>2, <2>6, <3>3, <4>1 DEF PageAt
        <4>3. QED
          BY <2>2, <2>3, <2>6, <3>4, <4>1, <4>2
      <3>7. W \subseteq Pages /\ z.list[cur] = m.list[cur]
        BY <2>1, <2>8 DEF Fresh, OnlyPage
      <3>8. ASSUME NEW H, HeapOK(m, cur, H) PROVE HeapOK(z, cur, H \cup {<<v, 1>>})
        <4>1. Present(z, cur) = Present(m, cur) \cup W /\ Present(m, cur) \cap W = {}
          BY <2>3, <2>11
        <4>2. W = v..(v + n - 1)
          BY DEF W
        <4>3. QED
          BY <3>5, <3>6, <3>7, <3>8, <4>1, <4>2, LargeMade
      <3>9. QED
        BY <3>2, <3>8
    <2>13. QED
      BY <2>2, <2>3, <2>9, <2>11, <2>12
  <1>4. CASE m1.bad # "no"
    <2>1. y = m1
      BY <1>4
    <2> HIDE DEF y
    <2>2. QED
      BY <1>1, <1>4, <2>1 DEF y, m1, ok
  <1>5. CASE m1.bad = "no"
    <2>1. y = z
      BY <1>5
    <2> HIDE DEF y, z, W
    <2>2. QED
      BY <1>3, <1>5, <2>1 DEF y, z, m1, ok, W, f
  <1>6. QED
    BY <1>4, <1>5

\* A large block: the search finds room for it, or malloc returns NULL.
LEMMA LargeHeap ==
  ASSUME MemoryAssumption, HeapInv, MemInv', NEW n \in 1..MaxLarge, sys_malloc_large(n)
  PROVE  HeapInv'
  <1> DEFINE v == bitmap_scan(s.bits[cur], n)
             m1 == malloc_page(s, v, n)
             y == IF m1.bad # "no" THEN m1 ELSE [m1 EXCEPT !.page[FrameAt(m1, v)].cnt = n]
             hit == {p \in {cur} : \E w \in v..(v + n - 1) : StaleAt(m1, w)}
  <1>1. UsesHeap /\ UNCHANGED <<cur, state>>
    BY Zenon DEF sys_malloc_large
  <1>2. IF v = -1 THEN UNCHANGED <<s, held, tainted, panic>>
        ELSE /\ Result(y)
             /\ held' = [held EXCEPT ![cur] = @ \cup {<<v, 1>>}]
             /\ tainted' = tainted \cup hit
    BY DEF sys_malloc_large
  <1>3. /\ cur \in Procs /\ Exact(s) /\ s.bad = "no" /\ Rec(s) /\ MemTypes(s) /\ TlbOwn(s, cur)
        /\ Clean(s, cur) /\ HeapOK(s, cur, held[cur]) /\ DOMAIN held = Procs /\ Runs /\ panic = "no"
        /\ cur \notin tainted
    BY <1>1 DEF HeapInv, MemInv, UsesHeap, Runs
  <1>n. n \in Nat /\ n # 0 /\ n <= MaxLarge
    BY Sizes
  <1>4. v \in Nat \cup {-1} /\ (Roomy => Fits(s, v, n))
    BY <1>3, <1>n, ScanRange, RoomFits
  <1>5. CASE v = -1
    <2>1. UNCHANGED <<cur, state, s, held, tainted, panic>>
      BY <1>1, <1>2, <1>5
    <2>2. QED
      BY <2>1 DEF HeapInv, OnlyTaintedFail
  <1>6. CASE v # -1
    <2>0. v \in Nat
      BY <1>4, <1>6
    <2>1. /\ Result(y) /\ held' = [held EXCEPT ![cur] = @ \cup {<<v, 1>>}] /\ tainted' = tainted \cup hit
      BY <1>2, <1>6
    <2> HIDE DEF v
    <2>2. /\ y.bad = "no" => Exact(y) /\ Local(s, y) /\ v \in Present(y, cur)
          /\ Fits(s, v, n) => y.bad \in {"no", "full"}
          /\ y.bad = "no" /\ Clean(s, cur) /\ (\A w \in v..(v + n - 1) : ~StaleAt(m1, w)) =>
               /\ Clean(y, cur)
               /\ \A H : HeapOK(s, cur, H) => HeapOK(y, cur, H \cup {<<v, 1>>})
      BY <1>3, <1>n, <2>0, LargeFacts
    <2> HIDE DEF y
    <2>3. /\ DOMAIN held' = Procs /\ held'[cur] = held[cur] \cup {<<v, 1>>}
          /\ \A p \in Procs \ {cur} : held'[p] = held[p]
      BY <1>3, <2>1
    <2>4. /\ tainted \subseteq tainted'
          /\ cur \notin tainted' => \A w \in v..(v + n - 1) : ~StaleAt(m1, w)
      BY <2>1
    <2> HIDE DEF hit, m1
    <2>5. y.bad = "no" /\ cur \notin tainted' => Clean(y, cur) /\ HeapOK(y, cur, held'[cur])
      BY <1>3, <2>2, <2>3, <2>4
    <2>6. y.bad = "no" /\ Present(y, cur) = {} => held'[cur] = {}
      BY <2>2
    <2>7. Roomy /\ y.bad \in {"assert", "fault"} => tainted' # {}
      BY <1>4, <2>2
    <2>8. y.bad = "no" => Exact(y) /\ Local(s, y)
      BY <2>2
    <2>9. QED
      BY <1>1, <1>3, <2>1, <2>3, <2>4, <2>5, <2>6, <2>7, <2>8, ResultHeap
  <1>7. QED
    BY <1>5, <1>6

-----------------------------------------------------------------------------
(* malloc of a small block.                                                *)

\* An arena has Blocks blocks.
LEMMA BlockCount ==
  ASSUME MemoryAssumption, NEW v
  PROVE  IsFiniteSet(BlocksOf(v)) /\ Cardinality(BlocksOf(v)) = Blocks /\ Nodes({v}) = BlocksOf(v)
  <1> DEFINE T == {k \in Nat : IsFiniteSet(Firsts(v, k)) /\ Cardinality(Firsts(v, k)) = k}
  <1>1. 0 \in T
    BY FirstsGrow, FS_EmptySet
  <1>2. ASSUME NEW k \in T PROVE k + 1 \in T
    <2> DEFINE F == Firsts(v, k)
               x == <<v, k + 1>>
    <2>1. k \in Nat /\ IsFiniteSet(F) /\ Cardinality(F) = k
      OBVIOUS
    <2>2. Firsts(v, k + 1) = F \cup {x} /\ x \notin F
      BY <2>1, FirstsGrow
    <2> HIDE DEF F, x
    <2>3. IsFiniteSet(F \cup {x}) /\ Cardinality(F \cup {x}) = IF x \in F THEN Cardinality(F) ELSE Cardinality(F) + 1
      BY <2>1, FS_AddElement
    <2>4. QED
      BY <2>1, <2>2, <2>3
  <1>3. Blocks \in T
    <2>1. T \in SUBSET Nat /\ Blocks \in Nat
      BY Sizes
    <2> HIDE DEF T
    <2>2. QED
      BY <1>1, <1>2, <2>1, Inductive
  <1>4. BlocksOf(v) = Firsts(v, Blocks)
    BY DEF BlocksOf, Firsts
  <1>5. Nodes({v}) = BlocksOf(v)
    <2>1. \A b \in Nodes({v}) : b[1] = v /\ b[2] \in 1..Blocks /\ b = <<b[1], b[2]>>
      BY DEF Nodes
    <2>2. \A b \in Nodes({v}) : b \in BlocksOf(v)
      BY <2>1 DEF BlocksOf
    <2>3. \A b \in BlocksOf(v) : b \in Nodes({v})
      BY DEF BlocksOf, Nodes
    <2>4. QED
      BY <2>2, <2>3
  <1>6. QED
    BY <1>3, <1>4, <1>5

\* A heap without free blocks, with an arena more.
LEMMA ArenaMade ==
  ASSUME MemoryAssumption, cur \in Procs, NEW m, NEW H, HeapOK(m, cur, H), Free(m, cur, H) = {},
         NEW y, FramesOK(y), Clean(y, cur), NEW v \in Pages,
         Present(y, cur) = Present(m, cur) \cup {v}, v \notin Present(m, cur),
         \A w \in Present(m, cur) : PageAt(y, cur, w) = PageAt(m, cur, w),
         PageAt(y, cur, v).desc = cur, PageAt(y, cur, v).cnt = Blocks,
         HasChain(y, FrOf(y), cur, {v}, BlocksOf(v))
  PROVE  HeapOK(y, cur, H)
  <1> DEFINE B == Arenas(m, cur) \cup {v}
  <1>0. cur # None /\ Present(m, cur) \subseteq Pages
    BY DEF MemoryAssumption, Present
  <1>h. H \subseteq Nodes(Present(m, cur)) /\ \A b \in H : b[1] \in Present(m, cur)
    BY DEF HeapOK, Nodes
  <1>1. Arenas(y, cur) = B /\ Arenas(m, cur) \subseteq Present(m, cur) /\ B \in SUBSET Pages /\ {v} \subseteq B
    BY <1>0 DEF Arenas
  <1>2. H \cap BlocksOf(v) = {} /\ H \cap Nodes({v}) = {}
    BY <1>h DEF BlocksOf, Nodes
  <1>3. Nodes(B) \ H = BlocksOf(v)
    <2>1. Nodes(B) = Nodes(Arenas(m, cur)) \cup Nodes({v})
      BY DEF Nodes
    <2>2. Nodes(Arenas(m, cur)) \subseteq H
      BY DEF Free
    <2>3. QED
      BY <1>2, <2>1, <2>2, BlockCount
  <1>4. HasChain(y, FrOf(y), cur, B, BlocksOf(v))
    <2> DEFINE S == BlocksOf(v)
               fr == FrOf(y)
               A == {v}
    <2>1. HasChain(y, fr, cur, A, S) /\ A \in SUBSET Pages /\ A \subseteq B /\ B \in SUBSET Pages
      BY <1>1
    <2> HIDE DEF S, fr, A, B
    <2>2. HasChain(y, fr, cur, B, S)
      BY <2>1, ChainSame
    <2>3. QED
      BY <2>2 DEF S, fr
  <1>5. CountsOK(y, cur, H)
    <2>1. ASSUME NEW w \in B
          PROVE  PageAt(y, cur, w).desc = cur /\ PageAt(y, cur, w).cnt = Cardinality(BlocksOf(w) \ H)
      <3>1. CASE w = v
        <4>1. BlocksOf(v) \ H = BlocksOf(v)
          BY <1>2
        <4>2. QED
          BY <3>1, <4>1, BlockCount
      <3>2. CASE w \in Arenas(m, cur)
        <4>1. CountsOK(m, cur, H)
          BY DEF HeapOK
        <4>2. QED
          BY <1>1, <3>2, <4>1 DEF CountsOK
      <3>3. QED
        BY <3>1, <3>2
    <2>2. QED
      BY <1>1, <2>1 DEF CountsOK
  <1>6. LargeOK(y, cur, H)
    <2>0. LargeOK(m, cur, H)
      BY DEF HeapOK
    <2>1. \A b \in H : Span(y, cur, b) = Span(m, cur, b) /\ PageAt(y, cur, b[1]) = PageAt(m, cur, b[1])
      BY <1>h DEF Span
    <2>2. Present(y, cur) \ B = Present(m, cur) \ Arenas(m, cur)
      OBVIOUS
    <2>3. \A b \in H : b[1] \notin B => b[1] \notin Arenas(m, cur)
      OBVIOUS
    <2> HIDE DEF B
    <2>4. QED
      BY <1>1, <2>0, <2>1, <2>2, <2>3 DEF LargeOK
  <1>7. H \subseteq Nodes(Present(y, cur))
    BY <1>h DEF Nodes
  <1> HIDE DEF B
  <1>8. QED
    <2> DEFINE S == BlocksOf(v)
    <2>1. S = Nodes(B) \ H /\ HasChain(y, FrOf(y), cur, B, S)
      BY <1>3, <1>4
    <2> HIDE DEF S
    <2>2. QED
      BY <1>1, <1>5, <1>6, <1>7, <2>1, HeapMade

\* A new arena, all its blocks on a list that was empty; if its page is reached
\* through an old translation, they lie in the frame that one leads to.
LEMMA ArenaFacts ==
  ASSUME MemoryAssumption, cur \in Procs, NEW m, Exact(m), m.bad = "no", MemTypes(m), TlbOwn(m, cur),
         NEW v \in Nat, HasChain(m, FrOf(m), cur, {}, {})
  PROVE  LET y == NewArena(m, v)
         IN /\ y.bad = "no" => /\ Exact(y) /\ Local(m, y) /\ v \in Present(y, cur)
                               /\ Reach(FrOf(y), {v}) /\ HasChain(y, FrOf(y), cur, {v}, BlocksOf(v))
            /\ Fits(m, v, 1) => y.bad \in {"no", "full"}
            /\ y.bad = "no" /\ Clean(m, cur) /\ ~StaleAt(y, v) =>
                 /\ Clean(y, cur)
                 /\ \A H : HeapOK(m, cur, H) /\ Free(m, cur, H) = {} => HeapOK(y, cur, H)
  <1> DEFINE m1 == malloc_page(m, v, 1)
             f == FrameAt(m1, v)
             m2 == [m1 EXCEPT !.page[f].desc = cur, !.page[f].cnt = Blocks]
             step == CHOOSE g : IsAddLoop(g, m2, v, Blocks)
             z == step[Blocks]
             y == NewArena(m, v)
             ok == Fits(m, v, 1)
             A == {v}
  <1>0. FramesOK(m) /\ v..(v + 1 - 1) = A /\ 1 \in Nat
    BY DEF Exact
  <1>1. (m1.bad = "no" => Fresh(m, m1, A)) /\ (ok => m1.bad \in {"no", "full"})
    BY <1>0, MallocPageDetail
  <1>2. Grown(m, m1) /\ Grown(m, y)
    BY <1>0, MallocPageFacts, NewArenaFacts
  <1>3. y = IF m1.bad # "no" THEN m1 ELSE z
    BY DEF NewArena, IsAddLoop
  <1>4. IsAddLoop(step, m2, v, Blocks)
    BY Sizes, AddLoopExists
  <1> HIDE DEF m1, ok, step, y
  <1>5. ASSUME m1.bad = "no"
        PROVE  /\ z.bad = "no" /\ Exact(z) /\ Local(m, z) /\ v \in Present(z, cur)
               /\ Reach(FrOf(z), A) /\ HasChain(z, FrOf(z), cur, A, BlocksOf(v))
               /\ Clean(m, cur) /\ ~StaleAt(z, v) =>
                    /\ Clean(z, cur)
                    /\ \A H : HeapOK(m, cur, H) /\ Free(m, cur, H) = {} => HeapOK(z, cur, H)
    <2>1. Exact(m1) /\ FramesOK(m1) /\ Rec(m1) /\ Fresh(m, m1, A)
      BY <1>1, <1>2, <1>5 DEF Grown, Exact
    <2>2. v \in A /\ A \in SUBSET Pages /\ v \in Pages
      BY <2>1 DEF Fresh
    <2>3. /\ Local(m, m1) /\ Present(m1, cur) = Present(m, cur) \cup A /\ Present(m, cur) \cap A = {}
          /\ \A w \in A : FrameAt(m1, w) \in Frames /\ ~Theirs(m1, FrameAt(m1, w))
          /\ Clean(m, cur) /\ (\A w \in A : ~StaleAt(m1, w)) => Clean(m1, cur) /\ NewPages(m, m1, A)
      <3> HIDE DEF A
      <3>1. QED
        BY <1>0, <2>1, FreshFacts
    <2>4. f \in Frames /\ ~Theirs(m1, f) /\ MemTypes(m1) /\ TlbOwn(m1, cur) /\ Blocks \in Int
      BY <2>2, <2>3, Sizes DEF f, Local
    <2> DEFINE h == [desc |-> cur, cnt |-> Blocks, link |-> m1.page[f].link]
    <2>5. Local(m1, m2) /\ OnlyPage(m1, m2, f, h)
      <3> HIDE DEF f
      <3>1. QED
        BY <2>1, <2>4, HeaderFacts
    <2>h. h.desc = cur /\ h.cnt = Blocks
      OBVIOUS
    <2> HIDE DEF h, m2
    <2>6. /\ SamePages(m1, m2) /\ m2.bad = "no" /\ m2.list = m1.list /\ m2.tlb = m1.tlb /\ m2.pte = m1.pte
          /\ FrOf(m2) = FrOf(m1) /\ MemTypes(m2) /\ TlbOwn(m2, cur) /\ Rec(m2)
      BY <1>5, <2>5 DEF OnlyPage, Local, SamePages
    <2>7. Reach(FrOf(m2), A)
      <3>1. FrOf(m2)[v] = f
        BY <2>2, <2>6 DEF FrOf, f
      <3>2. QED
        BY <2>2, <2>4, <3>1 DEF Reach
    <2>8. HasChain(m2, FrOf(m2), cur, A, {})
      <3> DEFINE fr == FrOf(m)
                 gr == FrOf(m2)
                 E == {}
      <3>1. HasChain(m, fr, cur, E, E) /\ E \in SUBSET Pages /\ E \subseteq A /\ m2.list[cur] = m.list[cur]
        BY <2>1, <2>6 DEF Fresh
      <3>2. \A w \in E : m2.page[gr[w]].link = m.page[fr[w]].link
        OBVIOUS
      <3> HIDE DEF fr, gr, E, A
      <3>3. HasChain(m2, gr, cur, A, E)
        BY <2>2, <3>1, <3>2, ChainSame
      <3>4. QED
        BY <3>3 DEF gr, E
    <2>9. Rewrites(m2, z, A) /\ HasChain(z, FrOf(m2), cur, A, BlocksOf(v))
      <3> DEFINE S == {}
      <3>1. HasChain(m2, FrOf(m2), cur, A, S) /\ S \cap BlocksOf(v) = {} /\ S \cup BlocksOf(v) = BlocksOf(v)
        BY <2>8
      <3> HIDE DEF S, A
      <3>2. Rewrites(m2, step[Blocks], A) /\ HasChain(step[Blocks], FrOf(m2), cur, A, S \cup BlocksOf(v))
        BY <1>4, <2>2, <2>6, <2>7, <3>1, AddLoopFacts
      <3>3. QED
        BY <3>1, <3>2
    <2> HIDE DEF z
    <2>10. /\ SamePages(m2, z) /\ z.bad = "no" /\ z.tlb = m2.tlb /\ z.pte = m2.pte /\ FrOf(z) = FrOf(m2)
      BY <2>6, <2>9 DEF Rewrites, SamePages, FrOf, FrameAt
    <2>11. SamePages(m1, z) /\ Grown(m, z) /\ Exact(z) /\ FramesOK(z) /\ FramesOK(m2)
      <3>1. SamePages(m1, z)
        BY <2>6, <2>10, SameTrans
      <3>2. Grown(m, z) /\ Grown(m, m2)
        BY <1>2, <1>5, <2>6, <3>1, SameGrown
      <3>3. QED
        BY <2>6, <2>10, <3>1, <3>2 DEF Grown, Exact
    <2>12. Local(m, z)
      <3>1. Local(m2, z)
        <4> HIDE DEF A
        <4>1. QED
          BY <2>2, <2>6, <2>9, <2>11, RewritesLocal
      <3>2. QED
        BY <2>3, <2>5, <3>1, LocalTrans
    <2>13. Present(z, cur) = Present(m, cur) \cup A /\ v \in Present(z, cur)
      BY <2>2, <2>3, <2>6, <2>10 DEF Present
    <2>14. ASSUME Clean(m, cur), ~StaleAt(z, v)
           PROVE  /\ Clean(z, cur)
                  /\ \A H : HeapOK(m, cur, H) /\ Free(m, cur, H) = {} => HeapOK(z, cur, H)
      <3>1. \A w \in A : ~StaleAt(m1, w)
        BY <2>6, <2>10, <2>14 DEF StaleAt
      <3>2. Clean(m1, cur) /\ NewPages(m, m1, A)
        BY <2>3, <2>14, <3>1
      <3>3. Clean(z, cur)
        BY <2>6, <2>10, <3>2 DEF Clean, Present
      <3>4. v \in Present(m1, cur) /\ f = m1.pte[cur][v]
        <4>1. v \in Present(m1, cur)
          BY <2>2, <2>3
        <4>2. \A w \in Present(m1, cur) : FrameAt(m1, w) = m1.pte[cur][w] /\ m1.pte[cur][w] \in Frames
          BY <2>1, <3>2, CleanReach
        <4>3. QED
          BY <4>1, <4>2 DEF f
      <3> HIDE DEF f
      <3>5. Present(m2, cur) = Present(m1, cur) /\ \A w \in Present(m1, cur) : PageAt(m2, cur, w) = IF w = v THEN h ELSE PageAt(m1, cur, w)
        <4>1. OnlyPage(m1, m2, m1.pte[cur][v], h)
          BY <2>5, <3>4
        <4>2. PageChanged(m1, m2, v, h)
          BY <2>1, <3>4, <4>1, PageOf
        <4>3. QED
          BY <4>2 DEF PageChanged
      <3>6. ASSUME NEW w \in Present(m, cur) PROVE PageAt(z, cur, w) = PageAt(m, cur, w)
        <4>1. w \in Present(m1, cur) /\ w # v /\ w \in Pages
          BY <2>3 DEF Present
        <4>2. m1.pte[cur][w] \in Frames /\ m1.pte[cur][w] # f
          BY <2>1, <3>4, <4>1 DEF Present, FramesOK, Tables
        <4>3. \A u \in A : FrOf(m2)[u] # m1.pte[cur][w]
          <5>1. FrOf(m2)[v] = f
            BY <2>2, <2>6 DEF FrOf, f
          <5>2. QED
            BY <4>2, <5>1
        <4>4. z.page[m1.pte[cur][w]] = m2.page[m1.pte[cur][w]]
          BY <2>9, <4>2, <4>3 DEF Rewrites
        <4>5. PageAt(z, cur, w) = PageAt(m2, cur, w)
          BY <2>6, <2>10, <4>4 DEF PageAt
        <4>6. QED
          BY <3>2, <3>5, <4>1, <4>5 DEF NewPages
      <3>7. PageAt(z, cur, v).desc = cur /\ PageAt(z, cur, v).cnt = Blocks
        <4>1. /\ z.page[f].desc = m2.page[f].desc /\ z.page[f].cnt = m2.page[f].cnt
          BY <2>4, <2>9 DEF Rewrites
        <4>2. z.pte[cur][v] = f /\ m2.pte[cur][v] = f
          BY <2>6, <2>10, <3>4
        <4>3. PageAt(m2, cur, v) = h
          BY <3>4, <3>5
        <4>4. QED
          BY <2>h, <4>1, <4>2, <4>3 DEF PageAt
      <3>8. ASSUME NEW H, HeapOK(m, cur, H), Free(m, cur, H) = {} PROVE HeapOK(z, cur, H)
        <4>1. Present(z, cur) = Present(m, cur) \cup {v} /\ v \notin Present(m, cur)
          BY <2>2, <2>3, <2>13
        <4>2. HasChain(z, FrOf(z), cur, {v}, BlocksOf(v))
          BY <2>9, <2>10
        <4>3. QED
          BY <2>2, <2>11, <3>3, <3>6, <3>7, <3>8, <4>1, <4>2, ArenaMade
      <3>9. QED
        BY <3>3, <3>8
    <2>15. QED
      BY <2>7, <2>9, <2>10, <2>11, <2>12, <2>13, <2>14
  <1>6. CASE m1.bad # "no"
    <2>1. y = m1
      BY <1>3, <1>6
    <2>2. QED
      BY <1>1, <1>6, <2>1 DEF y, ok
  <1>7. CASE m1.bad = "no"
    <2>1. y = z
      BY <1>3, <1>7
    <2> HIDE DEF z
    <2>2. QED
      BY <1>5, <1>7, <2>1 DEF y, ok
  <1>8. QED
    BY <1>6, <1>7

\* A heap in which a block of the arena at v has changed hands.
LEMMA CountedHeap ==
  ASSUME MemoryAssumption, cur \in Procs, NEW m, FramesOK(m), NEW H, HeapOK(m, cur, H),
         NEW y, FramesOK(y), Clean(y, cur), SamePages(m, y), NEW v \in Arenas(m, cur), NEW G, NEW k,
         Counted(m, y, m.pte[cur][v], k), k = Cardinality(BlocksOf(v) \ G),
         NEW b, b \in Nodes({v}), G \ {b} = H \ {b}, NEW S, S = Nodes(Arenas(m, cur)) \ G,
         HasChain(y, FrOf(y), cur, Arenas(m, cur), S)
  PROVE  HeapOK(y, cur, G)
  <1>0. b[1] = v /\ Present(m, cur) \subseteq Pages /\ y.pte = m.pte
    BY DEF Nodes, Present, SamePages
  <1>1. Present(y, cur) = Present(m, cur) /\ Arenas(m, cur) \subseteq Present(m, cur)
    BY <1>0 DEF Present, Arenas
  <1>2. ASSUME NEW w \in Present(m, cur)
        PROVE  /\ PageAt(y, cur, w).desc = PageAt(m, cur, w).desc
               /\ PageAt(y, cur, w).cnt = IF w = v THEN k ELSE PageAt(m, cur, w).cnt
    <2>1. m.pte[cur][w] \in Frames /\ (m.pte[cur][w] = m.pte[cur][v] => w = v)
      BY <1>1 DEF Present, FramesOK, Tables
    <2>2. QED
      BY <1>0, <2>1 DEF Counted, PageAt
  <1>3. Arenas(y, cur) = Arenas(m, cur)
    BY <1>1, <1>2 DEF Arenas
  <1>4. G \subseteq Nodes(Present(y, cur))
    <2>1. H \subseteq Nodes(Present(m, cur)) /\ b \in Nodes(Present(m, cur))
      BY <1>1 DEF HeapOK, Nodes
    <2>2. QED
      BY <1>1, <2>1
  <1>5. CountsOK(y, cur, G)
    <2>0. CountsOK(m, cur, H)
      BY DEF HeapOK
    <2>1. ASSUME NEW w \in Arenas(m, cur)
          PROVE  PageAt(y, cur, w).desc = cur /\ PageAt(y, cur, w).cnt = Cardinality(BlocksOf(w) \ G)
      <3>1. CASE w = v
        BY <1>1, <1>2, <2>0, <3>1 DEF CountsOK
      <3>2. CASE w # v
        <4>1. b \notin BlocksOf(w)
          BY <1>0, <3>2 DEF BlocksOf
        <4>2. BlocksOf(w) \ G = BlocksOf(w) \ H
          BY <4>1
        <4>3. QED
          BY <1>1, <1>2, <2>0, <3>2, <4>2 DEF CountsOK
      <3>3. QED
        BY <3>1, <3>2
    <2>2. QED
      BY <1>3, <2>1 DEF CountsOK
  <1>6. LargeOK(y, cur, G)
    <2>0. LargeOK(m, cur, H) /\ \A e \in G : e[1] \in Present(m, cur)
      BY <1>1, <1>4 DEF HeapOK, Nodes
    <2>1. ASSUME NEW e \in G, e[1] \notin Arenas(m, cur)
          PROVE  /\ e \in H /\ PageAt(y, cur, e[1]).cnt = PageAt(m, cur, e[1]).cnt
                 /\ Span(y, cur, e) = Span(m, cur, e)
      <3>1. e # b /\ e[1] # v
        BY <1>0, <2>1
      <3>2. QED
        BY <1>2, <2>0, <3>1 DEF Span
    <2>2. QED
      BY <1>1, <1>3, <2>0, <2>1 DEF LargeOK
  <1>7. QED
    <2> DEFINE A == Arenas(m, cur)
    <2>1. Arenas(y, cur) = A /\ S = Nodes(A) \ G /\ HasChain(y, FrOf(y), cur, A, S)
      BY <1>3
    <2> HIDE DEF A
    <2>2. QED
      BY <1>4, <1>5, <1>6, <2>1, HeapMade

\* malloc takes the first free block.
LEMMA TakeHeap ==
  ASSUME MemoryAssumption, cur \in Procs, NEW m, FramesOK(m), m.bad = "no", MemTypes(m), TlbOwn(m, cur),
         Clean(m, cur), NEW H, HeapOK(m, cur, H), Free(m, cur, H) # {}
  PROVE  /\ Clean(TakeBlock(m), cur)
         /\ HeapOK(TakeBlock(m), cur, H \cup {Follow(m, head(cur), "next")})
  <1> DEFINE A == Arenas(m, cur)
             S == Free(m, cur, H)
             b == Follow(m, head(cur), "next")
             v == b[1]
             f == FrOf(m)[v]
             y == TakeBlock(m)
             G == H \cup {b}
             k == m.page[f].cnt - 1
  <1>1. /\ A \in SUBSET Pages /\ A \subseteq Present(m, cur) /\ Reach(FrOf(m), A)
        /\ HasChain(m, FrOf(m), cur, A, S) /\ S # {}
    BY HeapUse
  <1>s. S = Nodes(A) \ H
    BY DEF Free
  <1> HIDE DEF A, S
  <1>2. /\ b \in S /\ S \in SUBSET Nodes(A)
        /\ y.bad = "no" /\ SamePages(m, y) /\ Local(m, y) /\ y.tlb = m.tlb /\ FrOf(y) = FrOf(m)
        /\ HasChain(y, FrOf(y), cur, A, S \ {b})
        /\ Counted(m, y, f, k)
    BY <1>1, TakeFacts
  <1> HIDE DEF b, y
  <1>3. v \in A /\ b \in Nodes({v}) /\ b \in BlocksOf(v) /\ b \notin H
    <2>1. b[1] \in A /\ b[2] \in 1..Blocks /\ b = <<b[1], b[2]>>
      BY <1>1, <1>2, AddrFacts
    <2>2. QED
      BY <1>2, <1>s, <2>1 DEF Nodes, BlocksOf
  <1>4. f = m.pte[cur][v] /\ v \in Present(m, cur)
    BY <1>1, <1>3, CleanReach
  <1>5. FramesOK(y) /\ Clean(y, cur)
    BY <1>2 DEF FramesOK, SamePages, Clean, Present
  <1>6. k = Cardinality(BlocksOf(v) \ G)
    <2> DEFINE F == BlocksOf(v) \ H
    <2>1. m.page[f].cnt = Cardinality(F)
      <3>1. CountsOK(m, cur, H)
        BY DEF HeapOK
      <3>2. QED
        BY <1>3, <1>4, <3>1 DEF CountsOK, PageAt, A
    <2>2. IsFiniteSet(F) /\ b \in F /\ BlocksOf(v) \ G = F \ {b}
      <3>1. F \in SUBSET BlocksOf(v) /\ IsFiniteSet(BlocksOf(v))
        BY BlockCount
      <3>2. IsFiniteSet(F)
        BY <3>1, FS_Subset
      <3>3. QED
        BY <1>3, <3>2
    <2> HIDE DEF F
    <2>3. Cardinality(F \ {b}) = Cardinality(F) - 1
      BY <2>2, FS_RemoveElement
    <2>4. QED
      BY <2>1, <2>2, <2>3
  <1>7. /\ G \ {b} = H \ {b} /\ S \ {b} = Nodes(A) \ G
    BY <1>s
  <1>8. HeapOK(y, cur, G)
    <2> DEFINE R == S \ {b}
    <2>1. R = Nodes(Arenas(m, cur)) \ G /\ HasChain(y, FrOf(y), cur, Arenas(m, cur), R)
      BY <1>2, <1>7 DEF A
    <2>2. v \in Arenas(m, cur) /\ Counted(m, y, m.pte[cur][v], k)
      BY <1>2, <1>3, <1>4 DEF A
    <2> HIDE DEF R, G, k, v
    <2>3. QED
      BY <1>2, <1>3, <1>5, <1>6, <1>7, <2>1, <2>2, CountedHeap
  <1>9. QED
    BY <1>5, <1>8 DEF y, b

\* The list that malloc takes a block from: the blocks that are free, or else
\* those of a new arena.
Ready(m, x) ==
  /\ Exact(x) /\ x.bad = "no" /\ Local(m, x) /\ Present(x, cur) # {}
  /\ \E A, S : Reach(FrOf(x), A) /\ HasChain(x, FrOf(x), cur, A, S) /\ S # {}

LEMMA ReadyFacts ==
  ASSUME MemoryAssumption, cur \in Procs, NEW m, Exact(m), m.bad = "no", MemTypes(m), TlbOwn(m, cur),
         Clean(m, cur), NEW H, HeapOK(m, cur, H), NEW v \in Nat
  PROVE  LET x == IF list_empty(m, cur) THEN NewArena(m, v) ELSE m
         IN /\ x.bad = "no" => Ready(m, x)
            /\ Fits(m, v, 1) => x.bad \in {"no", "full"}
            /\ x.bad = "no" /\ (list_empty(m, cur) => ~StaleAt(x, v)) =>
                 Clean(x, cur) /\ HeapOK(x, cur, H) /\ Free(x, cur, H) # {}
  <1> DEFINE e == list_empty(m, cur)
             A == Arenas(m, cur)
             S == Free(m, cur, H)
             n == NewArena(m, v)
             x == IF e THEN n ELSE m
             ok == Fits(m, v, 1)
             B == BlocksOf(v)
  <1>0. FramesOK(m)
    BY DEF Exact
  <1>1. /\ A \in SUBSET Pages /\ A \subseteq Present(m, cur) /\ Reach(FrOf(m), A)
        /\ HasChain(m, FrOf(m), cur, A, S)
    BY <1>0, HeapUse
  <1>a. (S = Free(m, cur, H) /\ S = Nodes(A) \ H)
    BY DEF Free
  <1> HIDE DEF A, S
  <1>2. e <=> S = {}
    BY <1>1, WalkFacts
  <1>b. B # {} /\ B = Nodes({v})
    <2>1. <<v, 1>> \in B
      BY Sizes DEF B, BlocksOf
    <2>2. QED
      BY <2>1, BlockCount
  <1> HIDE DEF e, n, ok, B
  <1>3. CASE ~e
    <2>1. x = m /\ S # {}
      BY <1>2, <1>3
    <2>2. A # {}
      BY <1>a, <2>1 DEF Nodes
    <2>3. Local(m, m) /\ Present(m, cur) # {}
      BY <1>1, <2>2, LocalRefl
    <2>4. Ready(m, m)
      BY <1>1, <2>1, <2>3 DEF Ready
    <2> HIDE DEF x
    <2>5. QED
      BY <1>a, <1>3, <2>1, <2>4 DEF x, e, n
  <1>4. CASE e
    <2>1. x = n /\ S = {}
      BY <1>2, <1>4
    <2>2. HasChain(m, FrOf(m), cur, {}, {})
      <3> DEFINE fr == FrOf(m)
                 E == {}
      <3>1. HasChain(m, fr, cur, A, E) /\ E \in SUBSET Pages /\ E \subseteq Nodes(E) /\ \A a : a \notin E
        BY <1>1, <2>1
      <3> HIDE DEF fr, E
      <3>2. HasChain(m, fr, cur, E, E)
        BY <1>1, <3>1, ChainKept
      <3>3. QED
        BY <3>2 DEF fr, E
    <2>3. /\ n.bad = "no" => /\ Exact(n) /\ Local(m, n) /\ v \in Present(n, cur)
                             /\ Reach(FrOf(n), {v}) /\ HasChain(n, FrOf(n), cur, {v}, B)
          /\ ok => n.bad \in {"no", "full"}
          /\ n.bad = "no" /\ Clean(m, cur) /\ ~StaleAt(n, v) =>
               /\ Clean(n, cur)
               /\ \A G : HeapOK(m, cur, G) /\ Free(m, cur, G) = {} => HeapOK(n, cur, G)
      BY <2>2, ArenaFacts DEF n, ok, B
    <2>4. n.bad = "no" => Ready(m, n)
      BY <1>b, <2>3 DEF Ready
    <2>5. ASSUME n.bad = "no", ~StaleAt(n, v)
          PROVE  Clean(n, cur) /\ HeapOK(n, cur, H) /\ Free(n, cur, H) # {}
      <3>1. Clean(n, cur) /\ HeapOK(n, cur, H)
        BY <1>a, <2>1, <2>3, <2>5
      <3> DEFINE D == Arenas(n, cur)
                 F == Free(n, cur, H)
      <3>2. /\ Reach(FrOf(n), D) /\ HasChain(n, FrOf(n), cur, D, F)
        BY <2>3, <2>5, <3>1, HeapUse DEF Exact
      <3> HIDE DEF D, F
      <3>3. list_empty(n, cur) <=> F = {}
        BY <3>2, WalkFacts
      <3>4. list_empty(n, cur) <=> B = {}
        BY <2>3, <2>5, WalkFacts
      <3>5. QED
        BY <1>b, <3>1, <3>3, <3>4 DEF F
    <2> HIDE DEF x
    <2>6. QED
      BY <1>4, <2>1, <2>3, <2>4, <2>5 DEF x, e, n, ok
  <1>5. QED
    BY <1>3, <1>4

LEMMA SmallHeap ==
  ASSUME MemoryAssumption, HeapInv, MemInv', sys_malloc_small
  PROVE  HeapInv'
  <1> DEFINE v == bitmap_scan(s.bits[cur], 1)
             x == IF list_empty(s, cur) THEN NewArena(s, v) ELSE s
             y == IF x.bad # "no" THEN x ELSE TakeBlock(x)
             b == Follow(x, head(cur), "next")
             hit == {p \in {cur} : list_empty(s, cur) /\ StaleAt(x, v)}
             H == held[cur]
  <1>1. UsesHeap /\ UNCHANGED <<cur, state>> /\ Result(y)
    BY DEF sys_malloc_small
  <1>2. held' = [held EXCEPT ![cur] = @ \cup {b}] /\ tainted' = tainted \cup hit
    BY DEF sys_malloc_small
  <1>3. /\ cur \in Procs /\ Exact(s) /\ s.bad = "no" /\ Rec(s) /\ MemTypes(s) /\ TlbOwn(s, cur)
        /\ Clean(s, cur) /\ HeapOK(s, cur, H) /\ DOMAIN held = Procs /\ Runs /\ panic = "no"
        /\ cur \notin tainted
    BY <1>1 DEF HeapInv, MemInv, UsesHeap, Runs
  <1>4. v \in Nat /\ (Roomy => Fits(s, v, 1))
    <2>1. 1 \in Nat /\ 1 # 0 /\ 1 <= MaxLarge
      BY DEF MemoryAssumption
    <2>2. QED
      BY <1>3, <2>1, ScanRange, RoomFits
  <1>5. /\ DOMAIN held' = Procs /\ held'[cur] = H \cup {b}
        /\ \A p \in Procs \ {cur} : held'[p] = held[p]
    BY <1>2, <1>3
  <1>6. /\ tainted \subseteq tainted'
        /\ cur \notin tainted' => (list_empty(s, cur) => ~StaleAt(x, v))
    BY <1>2
  <1> HIDE DEF v, H
  <1>7. /\ x.bad = "no" => Ready(s, x)
        /\ Fits(s, v, 1) => x.bad \in {"no", "full"}
        /\ x.bad = "no" /\ (list_empty(s, cur) => ~StaleAt(x, v)) =>
             Clean(x, cur) /\ HeapOK(x, cur, H) /\ Free(x, cur, H) # {}
    BY <1>3, <1>4, ReadyFacts
  <1> HIDE DEF hit, x
  <1>8. CASE x.bad # "no"
    <2>1. y = x
      BY <1>8
    <2> HIDE DEF y
    <2>2. Roomy /\ y.bad \in {"assert", "fault"} => tainted' # {}
      BY <1>4, <1>7, <1>8, <2>1
    <2>3. QED
      BY <1>1, <1>3, <1>5, <1>6, <1>8, <2>1, <2>2, ResultHeap
  <1>9. CASE x.bad = "no"
    <2>1. y = TakeBlock(x) /\ Ready(s, x)
      BY <1>7, <1>9
    <2>2. Exact(x) /\ FramesOK(x) /\ MemTypes(x) /\ TlbOwn(x, cur) /\ Local(s, x) /\ Present(x, cur) # {}
      BY <2>1 DEF Ready, Exact, Local
    <2>3. y.bad = "no" /\ SamePages(x, y) /\ Local(x, y)
      <3>1. PICK A, S : Reach(FrOf(x), A) /\ HasChain(x, FrOf(x), cur, A, S) /\ S # {}
        BY <2>1 DEF Ready
      <3>2. QED
        BY <1>3, <1>9, <2>1, <2>2, <3>1, TakeFacts
    <2>4. Exact(y) /\ Local(s, y) /\ Present(y, cur) # {}
      <3>1. Grown(x, y)
        BY <1>9, <2>2, <2>3, GrownRefl, SameGrown
      <3>2. QED
        BY <2>2, <2>3, <3>1, LocalTrans DEF Grown, SamePages, Present
    <2>5. ASSUME cur \notin tainted' PROVE Clean(y, cur) /\ HeapOK(y, cur, held'[cur])
      <3>1. Clean(x, cur) /\ HeapOK(x, cur, H) /\ Free(x, cur, H) # {}
        BY <1>6, <1>7, <1>9, <2>5
      <3>2. Clean(TakeBlock(x), cur) /\ HeapOK(TakeBlock(x), cur, H \cup {b})
        BY <1>3, <1>9, <2>2, <3>1, TakeHeap
      <3>3. QED
        BY <1>5, <2>1, <3>2
    <2> HIDE DEF y
    <2>6. QED
      BY <1>1, <1>3, <1>5, <1>6, <2>3, <2>4, <2>5, ResultHeap
  <1>10. QED
    BY <1>8, <1>9

-----------------------------------------------------------------------------
(* free.                                                                   *)

\* The pages of gone are unmapped, and may still be reached.
Gone(m, y, gone) ==
  /\ y.bad = "no" /\ Exact(y) /\ Local(m, y) /\ y.list = m.list /\ FrOf(y) = FrOf(m) /\ y.page = m.page
  /\ Present(y, cur) = Present(m, cur) \ gone
  /\ \A w \in Present(y, cur) : PageAt(y, cur, w) = PageAt(m, cur, w)
  /\ Clean(m, cur) => Clean(y, cur)

LEMMA GoneFacts ==
  ASSUME MemoryAssumption, cur \in Procs, NEW m, Exact(m), m.bad = "no", MemTypes(m), TlbOwn(m, cur),
         NEW v, NEW n, n # 0, v..(v + n - 1) \subseteq Present(m, cur)
  PROVE  Gone(m, mfree_page(m, v, n), v..(v + n - 1))
  <1> DEFINE gone == v..(v + n - 1)
             y == mfree_page(m, v, n)
  <1>0. FramesOK(m) /\ gone \subseteq Pages /\ \A w \in gone : w \in Pages /\ m.pte[cur][w] # None
    BY DEF Exact, Present
  <1>1. /\ y.bad = m.bad /\ y.page = m.page /\ y.list = m.list /\ MemTypes(y)
        /\ \A q \in Procs, w \in Pages :
             y.pte[q][w] = IF q = cur /\ w \in gone THEN None ELSE m.pte[q][w]
        /\ \A w \in Pages : y.tlb[w] = IF w \in gone THEN FrameAt(m, w) ELSE m.tlb[w]
    BY <1>0, MfreeDetail
  <1>2. Grown(m, y)
    BY MfreePageFacts
  <1> HIDE DEF gone, y
  <1>3. Exact(y) /\ y.bad = "no"
    BY <1>1, <1>2 DEF Grown
  <1>4. \A w \in gone : FrameAt(m, w) # None /\ ~Theirs(m, FrameAt(m, w))
    <2>1. \A w \in gone : FrameAt(m, w) # None
      BY <1>0 DEF FrameAt
    <2>2. QED
      BY <1>0, <2>1, ReachOwn
  <1>5. TlbOwn(y, cur)
    <2>1. SUFFICES ASSUME NEW u \in Pages, y.tlb[u] # None, NEW q \in Procs \ {cur}, NEW w \in Pages
                   PROVE  y.pte[q][w] # y.tlb[u]
      BY DEF TlbOwn
    <2>2. y.pte[q][w] = m.pte[q][w]
      BY <1>1
    <2>3. CASE u \in gone
      BY <1>1, <1>4, <2>1, <2>2, <2>3 DEF Theirs
    <2>4. CASE u \notin gone
      BY <1>1, <2>1, <2>2, <2>4 DEF TlbOwn
    <2>5. QED
      BY <2>3, <2>4
  <1>6. Local(m, y)
    BY <1>1, <1>5 DEF Local
  <1>7. FrOf(y) = FrOf(m)
    <2>1. ASSUME NEW w \in Pages PROVE FrameAt(y, w) = FrameAt(m, w)
      <3>1. CASE w \in gone
        BY <1>1, <1>4, <3>1 DEF FrameAt
      <3>2. CASE w \notin gone
        BY <1>1, <3>2 DEF FrameAt
      <3>3. QED
        BY <3>1, <3>2
    <2>2. QED
      BY <2>1 DEF FrOf
  <1>8. Present(y, cur) = Present(m, cur) \ gone
    BY <1>1 DEF Present
  <1>9. \A w \in Present(y, cur) : w \in Pages /\ w \notin gone /\ y.pte[cur][w] = m.pte[cur][w]
    BY <1>1, <1>8 DEF Present
  <1>10. \A w \in Present(y, cur) : PageAt(y, cur, w) = PageAt(m, cur, w)
    BY <1>1, <1>9 DEF PageAt
  <1>11. Clean(m, cur) => Clean(y, cur)
    BY <1>1, <1>8, <1>9 DEF Clean
  <1>12. QED
    BY <1>1, <1>3, <1>6, <1>7, <1>8, <1>10, <1>11 DEF Gone, gone, y

\* A heap with a large block less.
LEMMA LargeFreed ==
  ASSUME MemoryAssumption, cur \in Procs, NEW m, FramesOK(m), MemTypes(m), Clean(m, cur), NEW H, HeapOK(m, cur, H),
         NEW b \in H, b[1] \notin Arenas(m, cur), NEW y, Gone(m, y, Span(m, cur, b))
  PROVE  HeapOK(y, cur, H \ {b})
  <1> DEFINE G == H \ {b}
             gone == Span(m, cur, b)
             A == Arenas(m, cur)
  <1>1. /\ H \subseteq Nodes(Present(m, cur)) /\ \A e \in H : e[1] \in Present(m, cur) /\ e[2] \in 1..Blocks
        /\ Present(m, cur) \subseteq Pages /\ LargeOK(m, cur, H) /\ A \subseteq Present(m, cur)
    BY DEF HeapOK, Nodes, Present, Arenas
  <1>2. gone \subseteq Present(m, cur) \ A
    BY <1>1 DEF LargeOK
  <1>3. /\ Present(y, cur) = Present(m, cur) \ gone /\ y.list = m.list
        /\ \A w \in Present(y, cur) : PageAt(y, cur, w) = PageAt(m, cur, w)
    BY DEF Gone
  <1> HIDE DEF gone
  <1>4. Arenas(y, cur) = A
    BY <1>1, <1>2, <1>3 DEF Arenas
  <1>5. ASSUME NEW e \in G, e[1] \notin A PROVE e[1] \notin gone /\ Span(m, cur, e) \cap gone = {}
    <2>1. PageAt(m, cur, e[1]).cnt >= 1 /\ Span(m, cur, e) \cap gone = {}
      BY <1>1, <1>5 DEF LargeOK, gone
    <2>2. e[1] \in Int
      BY <1>1, Sizes
    <2>3. e[1] \in Span(m, cur, e)
      <3> DEFINE k == PageAt(m, cur, e[1]).cnt
                 u == e[1]
      <3>1. k >= 1 /\ u \in Int /\ k \in Int
        <4>1. k \in Int
          <5>1. m.pte[cur][e[1]] \in Frames
            BY <1>1 DEF Present, FramesOK, Tables
          <5>2. QED
            BY <5>1 DEF PageAt, MemTypes, PageSet
        <4>2. QED
          BY <2>1, <2>2, <4>1
      <3> HIDE DEF k, u
      <3>2. u \in u..(u + k - 1)
        BY <3>1
      <3>3. QED
        BY <3>2 DEF Span, u, k
    <2>4. QED
      BY <2>1, <2>3
  <1>6. \A e \in G : e[1] \in Present(y, cur)
    BY <1>1, <1>2, <1>3, <1>5
  <1>7. G \subseteq Nodes(Present(y, cur))
    BY <1>1, <1>6 DEF Nodes
  <1>8. CountsOK(y, cur, G)
    <2>1. CountsOK(m, cur, H)
      BY DEF HeapOK
    <2>2. ASSUME NEW w \in A
          PROVE  PageAt(y, cur, w).desc = cur /\ PageAt(y, cur, w).cnt = Cardinality(BlocksOf(w) \ G)
      <3>1. b \notin BlocksOf(w)
        BY DEF BlocksOf
      <3>2. BlocksOf(w) \ G = BlocksOf(w) \ H
        BY <3>1
      <3>3. w \in Present(y, cur)
        BY <1>1, <1>2, <1>3
      <3>4. QED
        BY <1>3, <2>1, <3>2, <3>3 DEF CountsOK
    <2>3. QED
      BY <1>4, <2>2 DEF CountsOK
  <1>9. LargeOK(y, cur, G)
    <2>1. \A e \in G : Span(y, cur, e) = Span(m, cur, e) /\ PageAt(y, cur, e[1]) = PageAt(m, cur, e[1])
      BY <1>3, <1>6 DEF Span
    <2>2. \A e \in G : e[1] \notin A => Span(m, cur, e) \subseteq Present(y, cur) \ A
      BY <1>1, <1>3, <1>5 DEF LargeOK
    <2> HIDE DEF A
    <2>3. QED
      BY <1>1, <1>4, <2>1, <2>2 DEF LargeOK, A
  <1>10. QED
    <2> DEFINE S == Free(m, cur, H)
    <2>1. /\ A \in SUBSET Pages /\ A \subseteq Present(m, cur) /\ HasChain(m, FrOf(m), cur, A, S)
      BY HeapUse
    <2>2. S = Nodes(A) \ G
      <3>1. b \notin Nodes(A)
        BY DEF Nodes
      <3>2. QED
        BY <3>1 DEF Free
    <2>3. FramesOK(y) /\ Clean(y, cur) /\ y.page = m.page /\ FrOf(y) = FrOf(m)
      BY DEF Gone, Exact
    <2> HIDE DEF A, S, G
    <2>4. HasChain(y, FrOf(y), cur, A, S)
      <3> DEFINE fr == FrOf(y)
      <3>1. HasChain(m, fr, cur, A, S) /\ A \subseteq A /\ \A v \in A : y.page[fr[v]].link = m.page[fr[v]].link
        BY <2>1, <2>3
      <3> HIDE DEF fr
      <3>2. HasChain(y, fr, cur, A, S)
        BY <1>3, <2>1, <3>1, ChainSame
      <3>3. QED
        BY <3>2 DEF fr
    <2>5. HeapOK(y, cur, G)
      BY <1>4, <1>7, <1>8, <1>9, <2>2, <2>3, <2>4, HeapMade
    <2>6. QED
      BY <2>5 DEF G

\* A heap with an arena less, whose blocks were all free.
LEMMA ArenaFreed ==
  ASSUME MemoryAssumption, cur \in Procs, NEW m, FramesOK(m), MemTypes(m), Clean(m, cur), NEW G, HeapOK(m, cur, G),
         NEW v \in Arenas(m, cur), BlocksOf(v) \cap G = {}, NEW x, Rewrites(m, x, Arenas(m, cur)),
         HasChain(x, FrOf(m), cur, Arenas(m, cur), Free(m, cur, G) \ BlocksOf(v)),
         NEW y, Gone(x, y, {v})
  PROVE  HeapOK(y, cur, G)
  <1> DEFINE A == Arenas(m, cur)
             B == A \ {v}
             S == Free(m, cur, G) \ BlocksOf(v)
  <1>1. /\ G \subseteq Nodes(Present(m, cur)) /\ \A e \in G : e[1] \in Present(m, cur) /\ e[2] \in 1..Blocks
        /\ Present(m, cur) \subseteq Pages /\ LargeOK(m, cur, G) /\ CountsOK(m, cur, G)
        /\ A \subseteq Present(m, cur) /\ v \in A
    BY DEF HeapOK, Nodes, Present, Arenas
  <1>2. x.pte = m.pte /\ x.tlb = m.tlb /\ FrOf(x) = FrOf(m) /\ Present(x, cur) = Present(m, cur) /\ Clean(x, cur)
    BY DEF Rewrites, SamePages, FrOf, FrameAt, Present, Clean
  <1>3. ASSUME NEW w \in Present(m, cur)
        PROVE  PageAt(x, cur, w).desc = PageAt(m, cur, w).desc /\ PageAt(x, cur, w).cnt = PageAt(m, cur, w).cnt
    <2>1. m.pte[cur][w] \in Frames
      BY DEF Present, FramesOK, Tables
    <2>2. QED
      BY <1>2, <2>1 DEF Rewrites, PageAt
  <1>4. /\ Present(y, cur) = Present(m, cur) \ {v} /\ y.list = x.list /\ y.page = x.page /\ FrOf(y) = FrOf(m)
        /\ FramesOK(y) /\ Clean(y, cur)
        /\ \A w \in Present(y, cur) : PageAt(y, cur, w) = PageAt(x, cur, w)
    BY <1>2 DEF Gone, Exact
  <1>5. \A w \in Present(y, cur) :
          /\ w \in Present(m, cur) /\ w # v
          /\ PageAt(y, cur, w).desc = PageAt(m, cur, w).desc /\ PageAt(y, cur, w).cnt = PageAt(m, cur, w).cnt
    BY <1>3, <1>4
  <1>6. Arenas(y, cur) = B
    BY <1>4, <1>5 DEF Arenas
  <1>7. \A e \in G : e[1] # v
    <2>1. \A e \in G : e = <<e[1], e[2]>>
      BY <1>1 DEF Nodes
    <2>2. QED
      BY <1>1, <2>1 DEF BlocksOf
  <1>8. G \subseteq Nodes(Present(y, cur)) /\ \A e \in G : e[1] \in Present(y, cur)
    BY <1>1, <1>4, <1>7 DEF Nodes
  <1>9. S = Nodes(B) \ G
    <2>1. \A e \in Nodes(A) : e \in BlocksOf(v) <=> e[1] = v
      <3>1. \A e \in Nodes(A) : e = <<e[1], e[2]>> /\ e[2] \in 1..Blocks
        BY DEF Nodes
      <3>2. QED
        BY <3>1 DEF BlocksOf
    <2>2. \A e \in Nodes(A) : e \in Nodes(B) <=> e[1] # v
      BY DEF Nodes
    <2>3. Nodes(B) \subseteq Nodes(A)
      BY DEF Nodes
    <2>4. QED
      BY <2>1, <2>2, <2>3 DEF Free
  <1>10. CountsOK(y, cur, G)
    BY <1>1, <1>4, <1>5, <1>6 DEF CountsOK
  <1>11. LargeOK(y, cur, G)
    <2>1. \A e \in G : Span(y, cur, e) = Span(m, cur, e) /\ PageAt(y, cur, e[1]).cnt = PageAt(m, cur, e[1]).cnt
      BY <1>5, <1>8 DEF Span
    <2>2. \A e \in G : e[1] \notin B => e[1] \notin A
      BY <1>7
    <2>3. Present(y, cur) \ B = Present(m, cur) \ A
      BY <1>1, <1>4
    <2> HIDE DEF A, B
    <2>4. QED
      BY <1>1, <1>6, <2>1, <2>2, <2>3 DEF LargeOK, A
  <1>12. HasChain(y, FrOf(y), cur, B, S)
    <2> DEFINE fr == FrOf(y)
    <2>1. HasChain(x, fr, cur, A, S) /\ S \subseteq Nodes(B) /\ A \in SUBSET Pages /\ B \in SUBSET Pages
      BY <1>1, <1>4, <1>9
    <2>2. \A a, d : At(y, fr, a, d) = At(x, fr, a, d)
      BY <1>4 DEF At
    <2> HIDE DEF fr, A, B, S
    <2>3. HasChain(y, fr, cur, B, S)
      BY <1>4, <2>1, <2>2, ChainKept
    <2>4. QED
      BY <2>3 DEF fr
  <1> HIDE DEF A, B, S
  <1>13. QED
    BY <1>4, <1>6, <1>8, <1>9, <1>10, <1>11, <1>12, HeapMade

\* The last block of an arena that comes back takes it off the list and out of memory.
LEMMA DropHeap ==
  ASSUME MemoryAssumption, cur \in Procs, NEW m, Exact(m), m.bad = "no", MemTypes(m), TlbOwn(m, cur),
         Clean(m, cur), NEW G, HeapOK(m, cur, G), NEW v \in Arenas(m, cur), PageAt(m, cur, v).cnt = Blocks
  PROVE  LET y == DropArena(m, cur, v)
         IN y.bad = "no" /\ Exact(y) /\ Local(m, y) /\ Clean(y, cur) /\ HeapOK(y, cur, G)
  <1> DEFINE A == Arenas(m, cur)
             S == Free(m, cur, G)
             step == CHOOSE g : IsDropLoop(g, m, cur, v, Blocks)
             x == step[Blocks]
             y == mfree_page(x, v, 1)
  <1>0. FramesOK(m) /\ Rec(m)
    BY DEF Exact, FramesOK
  <1>1. /\ A \in SUBSET Pages /\ A \subseteq Present(m, cur) /\ Reach(FrOf(m), A) /\ HasChain(m, FrOf(m), cur, A, S)
    BY <1>0, HeapUse
  <1>2. DropArena(m, cur, v) = IF x.bad # "no" THEN x ELSE y
    BY DEF DropArena, IsDropLoop
  <1>3. IsDropLoop(step, m, cur, v, Blocks)
    BY Sizes, DropLoopExists
  <1>4. BlocksOf(v) \cap G = {}
    <2> DEFINE F == BlocksOf(v) \ G
    <2>1. Cardinality(F) = Blocks
      BY DEF HeapOK, CountsOK
    <2>2. IsFiniteSet(BlocksOf(v)) /\ Cardinality(BlocksOf(v)) = Blocks /\ F \in SUBSET BlocksOf(v)
      BY BlockCount
    <2>3. F = BlocksOf(v)
      <3> DEFINE X == BlocksOf(v)
      <3>1. IsFiniteSet(X) /\ F \in SUBSET X /\ Cardinality(F) = Cardinality(X)
        BY <2>1, <2>2
      <3> HIDE DEF F, X
      <3>2. F = X
        BY <3>1, FS_Subset
      <3>3. QED
        BY <3>2 DEF X
    <2>4. QED
      BY <2>3
  <1>5. BlocksOf(v) \subseteq S
    <2>1. BlocksOf(v) \subseteq Nodes(A)
      BY DEF BlocksOf, Nodes
    <2>2. QED
      BY <1>4, <2>1 DEF Free
  <1> HIDE DEF step, A, S
  <1>6. Rewrites(m, x, A) /\ HasChain(x, FrOf(m), cur, A, S \ BlocksOf(v))
    BY <1>0, <1>1, <1>3, <1>5, DropLoopFacts
  <1> HIDE DEF x
  <1>7. x.bad = "no" /\ SamePages(m, x) /\ MemTypes(x) /\ Local(m, x) /\ TlbOwn(x, cur) /\ x.tlb = m.tlb
    <2>1. Local(m, x)
      BY <1>0, <1>1, <1>6, RewritesLocal
    <2>2. QED
      BY <1>6, <2>1 DEF Rewrites, Local
  <1>8. Exact(x) /\ Present(x, cur) = Present(m, cur) /\ Clean(x, cur)
    <2>1. Grown(m, x)
      BY <1>7, GrownRefl, SameGrown
    <2>2. QED
      BY <1>7, <2>1 DEF Grown, SamePages, Present, Clean
  <1>9. Gone(x, y, {v})
    <2>1. v \in Present(m, cur) /\ v \in Int
      BY <1>1, Sizes DEF A
    <2>2. v..(v + 1 - 1) = {v} /\ 1 # 0
      BY <2>1
    <2> DEFINE k == 1
    <2>3. v..(v + k - 1) = {v} /\ k # 0 /\ v..(v + k - 1) \subseteq Present(x, cur)
      BY <1>8, <2>1, <2>2
    <2> HIDE DEF k
    <2>4. Gone(x, mfree_page(x, v, k), v..(v + k - 1))
      BY <1>7, <1>8, <2>3, GoneFacts
    <2>5. QED
      BY <2>3, <2>4 DEF k
  <1> HIDE DEF y
  <1>10. y.bad = "no" /\ Exact(y) /\ Local(m, y) /\ Clean(y, cur)
    BY <1>7, <1>8, <1>9, LocalTrans DEF Gone
  <1>11. HeapOK(y, cur, G)
    BY <1>0, <1>4, <1>6, <1>9, ArenaFreed DEF A, S
  <1>12. QED
    BY <1>2, <1>7, <1>10, <1>11

\* A heap to which a block has come back.
Given(m, f, b) == [list_append(m, cur, b) EXCEPT !.page[f].cnt = @ + 1]

LEMMA GiveHeap ==
  ASSUME MemoryAssumption, cur \in Procs, NEW m, FramesOK(m), m.bad = "no", MemTypes(m), TlbOwn(m, cur),
         Clean(m, cur), NEW H, HeapOK(m, cur, H), NEW b \in H, b[1] \in Arenas(m, cur),
         NEW f, f = m.pte[cur][b[1]]
  PROVE  LET y == Given(m, f, b)
         IN /\ y.bad = "no" /\ SamePages(m, y) /\ Local(m, y) /\ Clean(y, cur) /\ HeapOK(y, cur, H \ {b})
            /\ b[1] \in Arenas(y, cur)
  <1> DEFINE y == Given(m, f, b)
             A == Arenas(m, cur)
             S == Free(m, cur, H)
             v == b[1]
             G == H \ {b}
             k == m.page[f].cnt + 1
  <1>1. /\ A \in SUBSET Pages /\ A \subseteq Present(m, cur) /\ Reach(FrOf(m), A) /\ HasChain(m, FrOf(m), cur, A, S)
    BY HeapUse
  <1>2. v \in A /\ b[2] \in 1..Blocks /\ b = <<v, b[2]>>
    BY DEF HeapOK, Nodes
  <1>3. b \in Nodes(A) /\ b \in Nodes({v}) /\ b \in BlocksOf(v) /\ b \notin S
    BY <1>2 DEF Nodes, BlocksOf, Free
  <1>4. f = FrOf(m)[v] /\ f \in Frames
    <2>1. \A w \in A : FrOf(m)[w] = m.pte[cur][w] /\ m.pte[cur][w] \in Frames
      BY <1>1, CleanReach
    <2>2. QED
      BY <1>2, <2>1
  <1>s. S = Nodes(A) \ H
    BY DEF Free
  <1> HIDE DEF A, S, y
  <1>5. /\ y.bad = "no" /\ SamePages(m, y) /\ Local(m, y) /\ y.tlb = m.tlb /\ FrOf(y) = FrOf(m)
        /\ HasChain(y, FrOf(y), cur, A, S \cup {b}) /\ Counted(m, y, f, k)
    BY <1>1, <1>3, <1>4, GiveFacts DEF y, Given
  <1>6. FramesOK(y) /\ Clean(y, cur)
    BY <1>5, SMTT(40) DEF FramesOK, SamePages, Clean, Present
  <1>7. k = Cardinality(BlocksOf(v) \ G)
    <2> DEFINE F == BlocksOf(v) \ H
    <2>1. m.page[f].cnt = Cardinality(F)
      <3>1. CountsOK(m, cur, H)
        BY DEF HeapOK
      <3>2. QED
        BY <1>2, <3>1 DEF CountsOK, PageAt, A
    <2>2. IsFiniteSet(F) /\ b \notin F /\ BlocksOf(v) \ G = F \cup {b}
      <3>1. F \in SUBSET BlocksOf(v) /\ IsFiniteSet(BlocksOf(v))
        BY BlockCount
      <3>2. IsFiniteSet(F)
        BY <3>1, FS_Subset
      <3>3. QED
        BY <1>3, <3>2
    <2> HIDE DEF F
    <2>3. Cardinality(F \cup {b}) = Cardinality(F) + 1
      BY <2>2, FS_AddElement
    <2>4. QED
      BY <2>1, <2>2, <2>3
  <1>8. G \ {b} = H \ {b} /\ S \cup {b} = Nodes(A) \ G
    BY <1>3, <1>s
  <1>9. HeapOK(y, cur, G)
    <2> DEFINE R == S \cup {b}
    <2>1. R = Nodes(Arenas(m, cur)) \ G /\ HasChain(y, FrOf(y), cur, Arenas(m, cur), R)
      BY <1>5, <1>8 DEF A
    <2>2. v \in Arenas(m, cur) /\ Counted(m, y, m.pte[cur][v], k)
      BY <1>2, <1>5 DEF A
    <2> HIDE DEF R, G, k, v
    <2>3. QED
      BY <1>3, <1>5, <1>6, <1>7, <1>8, <2>1, <2>2, CountedHeap
  <1>10. v \in Arenas(y, cur)
    <2>1. v \in Present(y, cur) /\ y.pte = m.pte
      BY <1>1, <1>2, <1>5 DEF SamePages, Present
    <2>2. PageAt(y, cur, v).desc = PageAt(m, cur, v).desc
      BY <1>4, <1>5, <2>1 DEF PageAt, Counted
    <2>3. QED
      BY <1>2, <2>1, <2>2 DEF Arenas, A
  <1>11. QED
    BY <1>5, <1>6, <1>9, <1>10 DEF y

LEMMA FreeHeap ==
  ASSUME MemoryAssumption, HeapInv, MemInv', NEW b, sys_free(b)
  PROVE  HeapInv'
  <1> DEFINE H == held[cur]
             f == FrameAt(s, b[1])
             v == b[1]
             c == s.page[f].cnt
             d == s.page[f].desc
             y == IF f = None THEN Fail(s, "fault")
                  ELSE IF d = None THEN mfree_page(s, v, c) ELSE FreeBlock(s, b)
             G == H \ {b}
  <1>1. /\ UsesHeap /\ UNCHANGED <<cur, state, tainted>> /\ Result(y) /\ b \in H
        /\ held' = [held EXCEPT ![cur] = @ \ {b}]
    BY DEF sys_free
  <1>2. /\ cur \in Procs /\ Exact(s) /\ FramesOK(s) /\ s.bad = "no" /\ MemTypes(s) /\ TlbOwn(s, cur)
        /\ Clean(s, cur) /\ HeapOK(s, cur, H) /\ DOMAIN held = Procs /\ Runs /\ state[cur] = "live"
        /\ cur \notin tainted
    BY <1>1 DEF HeapInv, MemInv, UsesHeap, Runs, Exact
  <1>3. /\ DOMAIN held' = Procs /\ held'[cur] = G
        /\ \A p \in Procs \ {cur} : held'[p] = held[p]
    BY <1>1, <1>2
  <1> HIDE DEF H
  <1>4. v \in Present(s, cur) /\ v \in Pages
    BY <1>1, <1>2 DEF HeapOK, Nodes, Present
  <1>5. f = s.pte[cur][v] /\ f \in Frames /\ f # None
    <2>1. \A w \in Present(s, cur) : FrameAt(s, w) = s.pte[cur][w] /\ s.pte[cur][w] \in Frames
      BY <1>2, CleanReach
    <2>2. QED
      BY <1>4, <2>1, Sizes
  <1>6. SUFFICES y.bad = "no" /\ Exact(y) /\ Local(s, y) /\ Clean(y, cur) /\ HeapOK(y, cur, G)
    <2> HIDE DEF y, G
    <2> SUFFICES ASSUME y.bad = "no", Exact(y), Local(s, y), Clean(y, cur), HeapOK(y, cur, G) PROVE HeapInv'
      OBVIOUS
    <2>1. Present(y, cur) = {} => G = {}
      BY DEF HeapOK, Nodes
    <2>2. QED
      BY <1>1, <1>2, <1>3, <2>1, ResultHeap
  <1>7. CASE d = None
    <2>1. y = mfree_page(s, v, c)
      BY <1>5, <1>7
    <2>2. v \notin Arenas(s, cur)
      BY <1>5, <1>7 DEF Arenas, PageAt
    <2>3. c = PageAt(s, cur, v).cnt
      BY <1>5 DEF PageAt
    <2> HIDE DEF c, y
    <2>4. c # 0 /\ v..(v + c - 1) \subseteq Present(s, cur) /\ v..(v + c - 1) = Span(s, cur, b)
      <3>1. LargeOK(s, cur, H)
        BY <1>2 DEF HeapOK
      <3>2. c >= 1
        BY <1>1, <2>2, <2>3, <3>1 DEF LargeOK
      <3>3. c \in Int
        BY <1>2, <1>5 DEF MemTypes, PageSet, c
      <3>4. QED
        BY <1>1, <2>2, <2>3, <3>1, <3>2, <3>3 DEF LargeOK, Span
    <2>5. Gone(s, y, Span(s, cur, b))
      BY <1>2, <2>1, <2>4, GoneFacts
    <2>6. HeapOK(y, cur, G)
      BY <1>1, <1>2, <2>2, <2>5, LargeFreed
    <2>7. QED
      BY <1>2, <2>5, <2>6 DEF Gone
  <1>8. CASE d # None
    <2>1. v \in Arenas(s, cur)
      BY <1>4, <1>5, <1>8 DEF Arenas, PageAt
    <2>2. d = cur
      BY <1>2, <1>5, <2>1 DEF HeapOK, CountsOK, PageAt
    <2> DEFINE x == Given(s, f, b)
    <2>3. y = IF x.bad = "no" /\ x.page[f].cnt = Blocks THEN DropArena(x, cur, v) ELSE x
      BY <1>2, <1>5, <1>8, <2>2 DEF FreeBlock, Given
    <2> HIDE DEF f, G
    <2>4. /\ x.bad = "no" /\ SamePages(s, x) /\ Local(s, x) /\ Clean(x, cur) /\ HeapOK(x, cur, G)
          /\ v \in Arenas(x, cur)
      <3>1. /\ cur \in Procs /\ FramesOK(s) /\ s.bad = "no" /\ MemTypes(s) /\ TlbOwn(s, cur) /\ Clean(s, cur)
            /\ HeapOK(s, cur, H) /\ b \in H /\ b[1] \in Arenas(s, cur) /\ f = s.pte[cur][b[1]]
        BY <1>1, <1>2, <1>5, <2>1
      <3>2. LET z == Given(s, f, b)
            IN /\ z.bad = "no" /\ SamePages(s, z) /\ Local(s, z) /\ Clean(z, cur) /\ HeapOK(z, cur, H \ {b})
               /\ b[1] \in Arenas(z, cur)
        BY <3>1, GiveHeap
      <3>3. QED
        BY <3>2 DEF G
    <2> HIDE DEF x, y
    <2>5. Exact(x) /\ MemTypes(x) /\ TlbOwn(x, cur)
      <3>1. Grown(s, x)
        BY <1>2, <2>4, GrownRefl, SameGrown
      <3>2. QED
        BY <2>4, <3>1 DEF Grown, Local
    <2>6. CASE x.page[f].cnt # Blocks
      BY <2>3, <2>4, <2>5, <2>6
    <2>7. CASE x.page[f].cnt = Blocks
      <3>1. PageAt(x, cur, v).cnt = Blocks
        BY <1>5, <2>4, <2>7 DEF PageAt, SamePages
      <3>2. LET z == DropArena(x, cur, v)
            IN z.bad = "no" /\ Exact(z) /\ Local(x, z) /\ Clean(z, cur) /\ HeapOK(z, cur, G)
        BY <1>2, <2>4, <2>5, <3>1, DropHeap
      <3>3. y = DropArena(x, cur, v)
        BY <2>3, <2>4, <2>7
      <3>4. QED
        BY <2>4, <3>2, <3>3, LocalTrans
    <2>8. QED
      BY <2>6, <2>7
  <1>9. QED
    BY <1>7, <1>8

-----------------------------------------------------------------------------
(* execv.                                                                  *)

\* A page for the program.
LEMMA GetPageDetail ==
  ASSUME MemoryAssumption, cur \in Procs, NEW m, Exact(m), m.bad = "no", NEW v \in Nat
  PROVE  LET y == get_a_page(m, v)
         IN /\ y.bad = "no" => Mapping(m, y, {v})
            /\ v \in Pages /\ m.pte[cur][v] = None => y.bad \in {"no", "full"}
  <1> DEFINE b == [m.bits EXCEPT ![cur] = @ \cup {v}]
             x == [m EXCEPT !.bits[cur] = @ \cup {v}]
             y == get_a_page(m, v)
  <1>0. /\ FramesOK(m) /\ Rec(m) /\ m.bits \in BitMaps /\ v \in Int
    BY DEF Exact, FramesOK
  <1>1. x = [m EXCEPT !.bits = b]
    OBVIOUS
  <1>2. y = MapPage(x, cur, v)
    BY DEF get_a_page
  <1> HIDE DEF b, x, y
  <1>3. /\ Rec(x) /\ x.used = m.used /\ x.pte = m.pte /\ x.bits = b /\ x.bad = "no"
        /\ x.tlb = m.tlb /\ x.page = m.page /\ x.list = m.list
    BY <1>0, <1>1 DEF Rec
  <1>4. b \in BitMaps
    BY <1>0 DEF BitMaps, b
  <1>5. FramesOK(x)
    BY <1>0, <1>3, <1>4 DEF FramesOK
  <1>6. v \in Pages /\ m.pte[cur][v] = None => y.bad \in {"no", "full"}
    BY <1>2, <1>3, MapFails
  <1>7. ASSUME y.bad = "no" PROVE Mapping(m, y, {v})
    <2>1. Mapping(x, x, {})
      BY DEF Mapping, SameRest
    <2> DEFINE E == {}
    <2>2. Mapping(x, x, E) /\ v \notin E /\ E \cup {v} = {v}
      BY <2>1
    <2> HIDE DEF E
    <2>3. Mapping(x, y, E \cup {v})
      BY <1>2, <1>3, <1>5, <1>7, <2>2, MappingStep
    <2>4. Mapping(x, y, {v})
      BY <2>2, <2>3
    <2>5. QED
      BY <1>3, <2>4 DEF Mapping, SameRest
  <1>8. QED
    BY <1>6, <1>7 DEF y

\* The program's pages are the process's own.
LEMMA LoadFacts ==
  ASSUME MemoryAssumption, cur \in Procs, NEW m, Exact(m), m.bad = "no", MemTypes(m), TlbOwn(m, cur),
         NEW v \in Nat, NEW n \in Nat, v..(v + n - 1) \subseteq Pages, segment_load(m, v, n).bad = "no"
  PROVE  Local(m, segment_load(m, v, n))
  <1> DEFINE step == CHOOSE g : IsLoadLoop(g, m, v, n)
             y == step[n]
             W == v..(v + n - 1)
             z == Cleared(y, W)
             Kept(x) == /\ Exact(x) /\ SameRest(m, x)
                        /\ \A q \in Procs \ {cur} : \A w \in Pages : x.pte[q][w] = m.pte[q][w]
             Inv(k) == step[k].bad = "no" => Kept(step[k])
             T == {k \in Nat : k > n \/ Inv(k)}
  <1>1. segment_load(m, v, n) = IF y.bad # "no" THEN y ELSE z
    BY DEF segment_load, IsLoadLoop
  <1>2. IsLoadLoop(step, m, v, n)
    BY LoadLoopExists
  <1> HIDE DEF step
  <1>3. step[0] = m /\ \A k \in 1..n : step[k] = LoadPage(step[k - 1], v, v + k - 1)
    BY <1>2 DEF IsLoadLoop
  <1>4. 0 \in T
    <2>1. Kept(m)
      BY DEF SameRest
    <2> HIDE DEF Kept
    <2>2. QED
      BY <1>3, <2>1
  <1>5. ASSUME NEW k \in T PROVE k + 1 \in T
    <2>1. SUFFICES ASSUME k + 1 <= n PROVE Inv(k + 1)
      <3> HIDE DEF Inv
      <3>1. QED
        OBVIOUS
    <2>2. k \in Nat /\ k + 1 \in 1..n /\ Inv(k)
      BY <2>1
    <2> DEFINE x == step[k]
               u == step[k + 1]
    <2>3. u = LoadPage(x, v, v + k)
      BY <1>3, <2>2
    <2>4. x.bad = "no" => Kept(x)
      BY <2>2
    <2>5. SUFFICES ASSUME u.bad = "no" PROVE Kept(u)
      OBVIOUS
    <2> HIDE DEF x, u
    <2>6. u = x \/ (x.bad = "no" /\ u = get_a_page(x, v))
      BY <2>3 DEF LoadPage
    <2>7. CASE u = x
      BY <2>4, <2>5, <2>7
    <2>8. CASE x.bad = "no" /\ u = get_a_page(x, v)
      <3>1. Exact(x) /\ SameRest(m, x) /\ \A q \in Procs \ {cur} : \A w \in Pages : x.pte[q][w] = m.pte[q][w]
        BY <2>4, <2>8
      <3>2. Grown(x, u) /\ Mapping(x, u, {v})
        BY <2>5, <2>8, <3>1, GetPageFacts, GetPageDetail
      <3>3. QED
        BY <2>5, <3>1, <3>2 DEF Grown, Mapping, SameRest
    <2>9. QED
      BY <2>6, <2>7, <2>8
  <1>6. Inv(n)
    <2>1. T \in SUBSET Nat
      OBVIOUS
    <2> HIDE DEF T, Inv
    <2>2. n \in T
      BY <1>4, <1>5, <2>1, Inductive
    <2>3. QED
      BY <2>2 DEF T
  <1>7. y.bad = "no" => Kept(y)
    BY <1>6
  <1> HIDE DEF y, W, Inv, T
  <1>8. y.bad = "no" /\ segment_load(m, v, n) = z
    BY <1>1
  <1>9. Exact(y) /\ SameRest(m, y) /\ \A q \in Procs \ {cur} : \A w \in Pages : y.pte[q][w] = m.pte[q][w]
    BY <1>7, <1>8
  <1>10. FramesOK(y) /\ Rec(y) /\ MemTypes(y) /\ TlbOwn(y, cur) /\ Local(m, y)
    <2>1. FramesOK(y) /\ Rec(y)
      BY <1>9 DEF Exact, FramesOK
    <2>2. MemTypes(y) /\ TlbOwn(y, cur)
      BY <1>9 DEF MemTypes, SameRest, TlbOwn
    <2>3. QED
      BY <1>9, <2>1, <2>2 DEF Local, SameRest
  <1>11. /\ SamePages(y, z) /\ z.tlb = y.tlb /\ z.list = y.list /\ z.page \in [Frames -> PageSet]
         /\ \A f \in Frames : z.page[f] = IF \E w \in W : FrameAt(z, w) = f THEN EmptyPage ELSE y.page[f]
    BY <1>10, ClearedFacts DEF MemTypes
  <1> HIDE DEF z
  <1>12. MemTypes(z) /\ TlbOwn(z, cur) /\ FramesOK(z)
    BY <1>10, <1>11 DEF MemTypes, TlbOwn, SamePages, FramesOK
  <1>13. ASSUME NEW f \in Frames, Theirs(y, f) PROVE z.page[f] = y.page[f]
    <2>1. ASSUME NEW w \in W PROVE FrameAt(z, w) # f
      <3>1. w \in Pages /\ f # None /\ Theirs(z, f)
        BY <1>11, <1>13, Sizes, SMTT(40) DEF W, Theirs, SamePages
      <3>2. QED
        BY <1>12, <3>1, ReachOwn
    <2>2. QED
      BY <1>11, <2>1
  <1>14. Local(y, z)
    BY <1>11, <1>12, <1>13 DEF Local, SamePages
  <1>15. QED
    BY <1>8, <1>10, <1>14, LocalTrans

\* A program of one page in a process without pages.
LEMMA LoadOne ==
  ASSUME MemoryAssumption, cur \in Procs, NEW m, Exact(m), m.bad = "no", MemTypes(m), TlbOwn(m, cur),
         Present(m, cur) = {}
  PROVE  LET y == segment_load(m, 0, 1)
         IN /\ y.bad \in {"no", "full"}
            /\ y.bad = "no" /\ ~StaleAt(y, 0) /\ HeapOK(m, cur, {}) => Clean(y, cur) /\ HeapOK(y, cur, {})
  <1> DEFINE n == 1
             v == 0
             step == CHOOSE g : IsLoadLoop(g, m, v, n)
             x == get_a_page(m, v)
             z == Cleared(x, {v})
             y == segment_load(m, v, n)
  <1>0. v \in Pages /\ m.pte[cur][v] = None /\ v..(v + n - 1) = {v} /\ v \in Nat /\ n \in Nat
    BY Sizes DEF Present
  <1>1. y = IF step[n].bad # "no" THEN step[n] ELSE Cleared(step[n], v..(v + n - 1))
    BY DEF segment_load, IsLoadLoop
  <1>2. IsLoadLoop(step, m, v, n)
    BY LoadLoopExists
  <1> HIDE DEF step
  <1>3. step[n] = LoadPage(m, v, v)
    BY <1>2 DEF IsLoadLoop
  <1>4. step[n] = x
    BY <1>0, <1>3 DEF LoadPage
  <1>5. y = IF x.bad # "no" THEN x ELSE z
    BY <1>0, <1>1, <1>4
  <1> HIDE DEF y, v, n
  <1>6. (x.bad = "no" => Mapping(m, x, {v})) /\ x.bad \in {"no", "full"} /\ Grown(m, x)
    BY <1>0, GetPageDetail, GetPageFacts
  <1> HIDE DEF x
  <1>7. CASE x.bad # "no"
    BY <1>5, <1>6, <1>7 DEF y, v, n
  <1>8. CASE x.bad = "no"
    <2> DEFINE W == {v}
    <2>1. Mapping(m, x, W) /\ Exact(x) /\ Rec(x) /\ x.page \in [Frames -> PageSet]
      BY <1>6, <1>8 DEF Grown, Mapping, SameRest, MemTypes
    <2> HIDE DEF W
    <2>2. y = Cleared(x, W)
      BY <1>5, <1>8 DEF W
    <2>3. /\ SamePages(x, y) /\ y.bad = x.bad /\ y.tlb = x.tlb /\ y.list = x.list
          /\ y.page \in [Frames -> PageSet]
          /\ \A f \in Frames : y.page[f] = IF \E w \in W : FrameAt(y, w) = f THEN EmptyPage ELSE x.page[f]
      BY <2>1, <2>2, ClearedFacts
    <2>4. Fresh(m, y, W)
      BY <2>1, <2>3 DEF Fresh, Mapping, SameRest, SamePages
    <2>5. FramesOK(m) /\ FramesOK(y)
      BY <2>1, <2>3 DEF Exact, FramesOK, SamePages
    <2>6. /\ Present(y, cur) = Present(m, cur) \cup W
          /\ Clean(m, cur) /\ (\A w \in W : ~StaleAt(y, w)) => Clean(y, cur) /\ NewPages(m, y, W)
      BY <2>4, <2>5, FreshFacts
    <2>7. ASSUME ~StaleAt(y, v), HeapOK(m, cur, {}) PROVE Clean(y, cur) /\ HeapOK(y, cur, {})
      <3>1. Clean(y, cur) /\ NewPages(m, y, W) /\ Present(y, cur) = W
        BY <2>6, <2>7 DEF Clean, W
      <3>2. Arenas(y, cur) = {} /\ Arenas(m, cur) = {}
        BY <3>1, EmptyPageType DEF Arenas, NewPages
      <3>3. Free(y, cur, {}) = {} /\ Free(m, cur, {}) = {}
        BY <3>2 DEF Free, Nodes
      <3>4. ListOK(y, cur, {})
        <4> DEFINE E == {}
                   fr == m.pte[cur]
                   gr == y.pte[cur]
        <4>1. HasChain(m, fr, cur, E, E) /\ E \in SUBSET Pages /\ E \subseteq E /\ \A w : w \notin E
          BY <2>7, <3>2, <3>3 DEF HeapOK, ListOK
        <4>2. y.list[cur] = m.list[cur]
          BY <2>4 DEF Fresh
        <4> HIDE DEF E, fr, gr
        <4>3. HasChain(y, gr, cur, E, E)
          BY <4>1, <4>2, ChainSame
        <4>4. QED
          BY <3>2, <3>3, <4>3 DEF ListOK, E, gr
      <3>5. CountsOK(y, cur, {}) /\ LargeOK(y, cur, {})
        BY <3>2 DEF CountsOK, LargeOK
      <3>6. QED
        BY <3>1, <3>4, <3>5 DEF HeapOK
    <2>8. QED
      BY <1>8, <2>3, <2>7 DEF y, v, n
  <1>9. QED
    BY <1>7, <1>8

LEMMA ExecHeap ==
  ASSUME MemoryAssumption, HeapInv, MemInv', NEW n \in 1..MaxSegment, sys_execv(n)
  PROVE  HeapInv'
  <1> DEFINE y == segment_load(s, 0, n)
             hit == {p \in {cur} : s.bits[p] # {} \/ n > 1 \/ StaleAt(y, 0)}
  <1>1. Runs /\ UNCHANGED <<cur, state>> /\ Result(y)
    BY DEF sys_execv
  <1>2. tainted' = tainted \cup hit /\ held' = [held EXCEPT ![cur] = {}]
    BY DEF sys_execv
  <1>3. /\ cur \in Procs /\ Exact(s) /\ s.bad = "no" /\ MemTypes(s) /\ TlbOwn(s, cur)
        /\ DOMAIN held = Procs /\ state[cur] = "live"
        /\ cur \notin tainted => HeapOK(s, cur, held[cur])
        /\ Present(s, cur) = {} => held[cur] = {}
    BY <1>1 DEF HeapInv, MemInv, Runs
  <1>4. /\ DOMAIN held' = Procs /\ held'[cur] = {}
        /\ \A p \in Procs \ {cur} : held'[p] = held[p]
    BY <1>2, <1>3
  <1>5. /\ tainted \subseteq tainted'
        /\ cur \notin tainted' => cur \notin tainted /\ s.bits[cur] = {} /\ ~(n > 1) /\ ~StaleAt(y, 0)
    BY <1>2
  <1>6. n \in Nat /\ 0 \in Nat /\ 0..(0 + n - 1) \subseteq Pages
    <2>1. n \in Nat /\ n <= NPages
      BY Sizes DEF MemoryAssumption, NPages
    <2>2. QED
      BY <2>1, Sizes
  <1>7. y.bad = "no" => Exact(y) /\ Local(s, y)
    <2>1. Grown(s, y)
      BY <1>3, <1>6, SegmentFacts
    <2>2. y.bad = "no" => Local(s, y)
      BY <1>3, <1>6, LoadFacts
    <2>3. QED
      BY <2>1, <2>2 DEF Grown
  <1>8. ASSUME cur \notin tainted'
        PROVE  /\ y.bad \in {"no", "full"}
               /\ y.bad = "no" => Clean(y, cur) /\ HeapOK(y, cur, {})
    <2>1. n = 1
      BY <1>5, <1>8
    <2>2. Present(s, cur) = {} /\ HeapOK(s, cur, {}) /\ ~StaleAt(y, 0)
      BY <1>3, <1>5, <1>8 DEF Exact
    <2>3. LET z == segment_load(s, 0, 1)
          IN /\ z.bad \in {"no", "full"}
             /\ z.bad = "no" /\ ~StaleAt(z, 0) /\ HeapOK(s, cur, {}) => Clean(z, cur) /\ HeapOK(z, cur, {})
      BY <1>3, <2>2, LoadOne
    <2>4. QED
      BY <2>1, <2>2, <2>3
  <1> HIDE DEF y, hit
  <1>9. Roomy /\ y.bad \in {"assert", "fault"} => tainted' # {}
    BY <1>8
  <1>10. y.bad = "no" /\ cur \notin tainted' => Clean(y, cur) /\ HeapOK(y, cur, held'[cur])
    BY <1>4, <1>8
  <1>11. QED
    BY <1>1, <1>4, <1>5, <1>7, <1>9, <1>10, ResultHeap

-----------------------------------------------------------------------------
(* fork.                                                                   *)

\* What the loop of the copy keeps of m while it fills the pages of c.
Copying(m, x, c) ==
  /\ FramesOK(x) /\ x.bits = m.bits /\ x.tlb = m.tlb /\ x.list = m.list /\ x.page \in [Frames -> PageSet]
  /\ m.used \subseteq x.used /\ \A f \in m.used : x.page[f] = m.page[f]
  /\ \A q \in Procs \ {c} : \A w \in Pages : x.pte[q][w] = m.pte[q][w]

LEMMA CopyTurn ==
  ASSUME MemoryAssumption, cur \in Procs, NEW m, Exact(m), MemTypes(m), NEW c \in Procs,
         NEW x, Copying(m, x, c), x.bad = "no", NEW v, CopyPage(m, x, c, v).bad = "no"
  PROVE  Copying(m, CopyPage(m, x, c, v), c)
  <1> DEFINE from == IF v = Min(m.bits[cur]) THEN FrameAt(m, v) ELSE m.pte[cur][v]
             g == m.page[from]
             x1 == MapPage(x, c, v)
             u == x1.pte[c][v]
             x2 == [x1 EXCEPT !.page[u] = g]
             y == CopyPage(m, x, c, v)
  <1>0. /\ FramesOK(x) /\ Rec(x) /\ m.bits[cur] = Present(m, cur) /\ FramesOK(m)
        /\ m.page \in [Frames -> PageSet] /\ m.used \subseteq Frames
    BY DEF Copying, Exact, FramesOK, MemTypes
  <1>1. y = IF v \notin m.bits[cur] \/ x.bad # "no" THEN x ELSE IF x1.bad # "no" THEN x1 ELSE x2
    BY DEF CopyPage
  <1>2. CASE v \notin m.bits[cur]
    BY <1>1, <1>2
  <1>3. CASE v \in m.bits[cur]
    <2>1. g \in PageSet
      <3>1. v \in Pages /\ m.pte[cur][v] \in Frames /\ m.tlb[v] \in Frames \cup {None}
        BY <1>0, <1>3 DEF Present, FramesOK, Tables, MemTypes
      <3>2. from \in Frames
        BY <3>1 DEF FrameAt
      <3>3. QED
        BY <1>0, <3>2
    <2> HIDE DEF g, x1
    <2>2. x1.bad = "no" /\ y = x2
      BY <1>1, <1>3
    <2>3. /\ v \in Pages /\ x.pte[c][v] = None /\ SameRest(x, x1)
          /\ \E f \in Frames \ x.used :
               /\ x1.used = x.used \cup {f}
               /\ \A q \in Procs, w \in Pages : x1.pte[q][w] = IF q = c /\ w = v THEN f ELSE x.pte[q][w]
      BY <1>0, <2>2, MapDetail DEF x1
    <2>4. FramesOK(x1) /\ x1.bits = x.bits /\ Rec(x1)
      BY <1>0, <2>2, MapFacts DEF x1, FramesOK
    <2>5. PICK f \in Frames \ x.used :
             /\ x1.used = x.used \cup {f}
             /\ \A q \in Procs, w \in Pages : x1.pte[q][w] = IF q = c /\ w = v THEN f ELSE x.pte[q][w]
      BY <2>3
    <2>6. u = f /\ f \notin m.used
      BY <2>3, <2>5 DEF Copying
    <2>7. x2 = [x1 EXCEPT !.page = [x1.page EXCEPT ![f] = g]]
      BY <2>6
    <2> HIDE DEF x2, u, y
    <2>8. /\ Rec(x2) /\ x2.used = x1.used /\ x2.bits = x1.bits /\ x2.pte = x1.pte /\ x2.tlb = x1.tlb
          /\ x2.list = x1.list /\ x2.bad = x1.bad /\ x2.page = [x1.page EXCEPT ![f] = g]
      BY <2>4, <2>7 DEF Rec
    <2>9. FramesOK(x2)
      BY <2>4, <2>8 DEF FramesOK
    <2>10. x1.page = x.page /\ x.page \in [Frames -> PageSet] /\ x1.tlb = m.tlb /\ x1.list = m.list
      BY <2>3 DEF SameRest, Copying
    <2>11. x2.page \in [Frames -> PageSet] /\ \A h \in m.used : x2.page[h] = m.page[h]
      BY <1>0, <2>1, <2>6, <2>8, <2>10 DEF Copying
    <2>12. m.used \subseteq x2.used /\ \A q \in Procs \ {c} : \A w \in Pages : x2.pte[q][w] = m.pte[q][w]
      BY <2>5, <2>8 DEF Copying
    <2>13. Copying(m, x2, c)
      BY <2>4, <2>8, <2>9, <2>10, <2>11, <2>12 DEF Copying
    <2>14. QED
      BY <2>2, <2>13 DEF y
  <1>4. QED
    BY <1>2, <1>3

LEMMA CopyRec ==
  ASSUME NEW m, NEW x, Rec(x), NEW c, NEW v
  PROVE  Rec(CopyPage(m, x, c, v))
  <1> DEFINE from == IF v = Min(m.bits[cur]) THEN FrameAt(m, v) ELSE m.pte[cur][v]
             x1 == MapPage(x, c, v)
             x2 == [x1 EXCEPT !.page[x1.pte[c][v]] = m.page[from]]
             y == CopyPage(m, x, c, v)
  <1>1. y = IF v \notin m.bits[cur] \/ x.bad # "no" THEN x ELSE IF x1.bad # "no" THEN x1 ELSE x2
    BY DEF CopyPage
  <1>2. Rec(x1)
    BY MapStopped
  <1> HIDE DEF x1, from
  <1>3. Rec(x2)
    BY <1>2 DEF Rec
  <1> HIDE DEF x2, y
  <1>4. QED
    BY <1>1, <1>2, <1>3 DEF y

\* y is m with a child c, whose list is empty.
Copied(m, y, c) ==
  /\ MemTypes(y) /\ y.tlb = NoTlb /\ y.list[c] = EmptyList(c) /\ Present(y, c) = m.bits[cur]
  /\ Exact(y) /\ \A q \in Procs \ {c} : SameFor(m, y, q)

LEMMA ListTypes ==
  ASSUME MemoryAssumption, NEW p \in Procs
  PROVE  EmptyList(p) \in LinkSet /\ NoTlb \in [Pages -> Frames \cup {None}]
  <1>1. head(p) \in Addr /\ tail(p) \in Addr
    BY AddrFacts, Sizes DEF Addr, head, tail
  <1>2. QED
    BY <1>1 DEF EmptyList, LinkSet, NoTlb

LEMMA CopyFacts ==
  ASSUME MemoryAssumption, cur \in Procs, NEW m, Exact(m), m.bad = "no", MemTypes(m),
         NEW c \in Procs, c # cur, Present(m, c) = {}
  PROVE  LET y == CopyPages(m, c)
         IN (y.bad = "no" => Copied(m, y, c)) /\ (m.bits[cur] = {} => y.bad = "no")
  <1> DEFINE step == CHOOSE g : IsCopyLoop(g, m, m, c, NPages)
             pages == m.bits[cur]
             y == step[NPages]
             z == [y EXCEPT !.bits[c] = pages, !.list[c] = EmptyList(c), !.tlb = NoTlb]
             Inv(k) == /\ Rec(step[k]) /\ (step[k].bad = "no" => Copying(m, step[k], c))
                       /\ (pages = {} => step[k] = m)
             T == {k \in Nat : k > NPages \/ Inv(k)}
  <1>n. NPages \in Nat
    BY Sizes
  <1>1. CopyPages(m, c) = z
    BY DEF CopyPages, IsCopyLoop
  <1>2. IsCopyLoop(step, m, m, c, NPages)
    BY <1>n, CopyLoopExists
  <1> HIDE DEF step
  <1>3. step[0] = m /\ \A k \in 1..NPages : step[k] = CopyPage(m, step[k - 1], c, k - 1)
    BY <1>n, <1>2, SMTT(40) DEF IsCopyLoop
  <1>4. 0 \in T
    <2>1. Copying(m, m, c) /\ Rec(m)
      BY DEF Copying, Exact, FramesOK, MemTypes
    <2>2. QED
      BY <1>3, <2>1
  <1>5. ASSUME NEW k \in T PROVE k + 1 \in T
    <2>1. SUFFICES ASSUME k + 1 <= NPages PROVE Inv(k + 1)
      <3> HIDE DEF Inv
      <3>1. QED
        BY <1>n
    <2>2. k \in Nat /\ Inv(k) /\ k + 1 \in 1..NPages
      BY <1>n, <2>1
    <2> DEFINE x == step[k]
               u == step[k + 1]
    <2>3. /\ u = CopyPage(m, x, c, k) /\ Rec(x)
          /\ (x.bad = "no" => Copying(m, x, c)) /\ (pages = {} => x = m)
      BY <1>3, <2>2
    <2>4. SUFFICES Rec(u) /\ (u.bad = "no" => Copying(m, u, c)) /\ (pages = {} => u = m)
      OBVIOUS
    <2> HIDE DEF x, u
    <2>5. (x.bad # "no" \/ k \notin pages) => u = x
      BY <2>3 DEF CopyPage
    <2>6. u.bad = "no" /\ x.bad = "no" => Copying(m, u, c)
      <3> DEFINE w == k
      <3>1. u = CopyPage(m, x, c, w)
        BY <2>3
      <3> HIDE DEF w
      <3>2. QED
        BY <2>3, <3>1, CopyTurn
    <2>7. Rec(u)
      BY <2>3, CopyRec
    <2>8. QED
      BY <2>3, <2>5, <2>6, <2>7
  <1>6. Inv(NPages)
    <2>1. T \in SUBSET Nat
      OBVIOUS
    <2> HIDE DEF T, Inv
    <2>2. NPages \in T
      BY <1>n, <1>4, <1>5, <2>1, Inductive
    <2>3. QED
      BY <1>n, <2>2 DEF T
  <1>7. Rec(y) /\ (y.bad = "no" => Copying(m, y, c)) /\ (pages = {} => y = m)
    BY <1>6
  <1> HIDE DEF y, Inv, T
  <1>8. /\ z.bad = y.bad /\ z.pte = y.pte /\ z.page = y.page /\ z.tlb = NoTlb
        /\ z.bits = [y.bits EXCEPT ![c] = pages] /\ z.list = [y.list EXCEPT ![c] = EmptyList(c)]
    <2> HIDE DEF pages
    <2> DEFINE z1 == [y EXCEPT !.bits[c] = pages]
               z2 == [z1 EXCEPT !.list[c] = EmptyList(c)]
               z3 == [z2 EXCEPT !.tlb = NoTlb]
    <2>1. z = z3
      OBVIOUS
    <2> HIDE DEF z
    <2>2. /\ Rec(z1) /\ z1.bad = y.bad /\ z1.pte = y.pte /\ z1.page = y.page /\ z1.list = y.list
          /\ z1.bits = [y.bits EXCEPT ![c] = pages]
      BY <1>7 DEF Rec
    <2> HIDE DEF z1
    <2>3. /\ Rec(z2) /\ z2.bad = z1.bad /\ z2.pte = z1.pte /\ z2.page = z1.page /\ z2.bits = z1.bits
          /\ z2.list = [z1.list EXCEPT ![c] = EmptyList(c)]
      BY <2>2 DEF Rec
    <2> HIDE DEF z2
    <2>4. /\ z3.bad = z2.bad /\ z3.pte = z2.pte /\ z3.page = z2.page /\ z3.bits = z2.bits
          /\ z3.list = z2.list /\ z3.tlb = NoTlb
      BY <2>3 DEF Rec
    <2> HIDE DEF z3
    <2>5. QED
      BY <2>1, <2>2, <2>3, <2>4
  <1> HIDE DEF z
  <1>9. pages = {} => z.bad = "no"
    BY <1>7, <1>8
  <1>10. ASSUME z.bad = "no" PROVE Copied(m, z, c)
    <2>1. Copying(m, y, c)
      BY <1>7, <1>8, <1>10
    <2>2. Exact(z)
      BY <1>1, <1>10, CopyPagesFacts
    <2>3. Present(z, c) = pages
      <3>1. z.bits[c] = pages
        BY <1>8, <2>1 DEF Copying, FramesOK, BitMaps
      <3>2. QED
        BY <2>2, <3>1 DEF Exact
    <2>4. /\ z.list \in [Procs -> LinkSet] /\ z.list[c] = EmptyList(c)
          /\ \A q \in Procs \ {c} : z.list[q] = m.list[q]
      BY <1>8, <2>1, ListTypes DEF Copying, MemTypes
    <2>5. MemTypes(z)
      BY <1>8, <2>1, <2>4, ListTypes DEF MemTypes, Copying
    <2>6. ASSUME NEW q \in Procs \ {c} PROVE SameFor(m, z, q)
      <3>1. \A w \in Pages : z.pte[q][w] = m.pte[q][w]
        BY <1>8, <2>1 DEF Copying
      <3>2. ASSUME NEW w \in Present(m, q) PROVE PageAt(z, q, w) = PageAt(m, q, w)
        <4>1. w \in Pages /\ m.pte[q][w] \in m.used
          BY DEF Present, Exact, FramesOK, Tables
        <4>2. QED
          BY <1>8, <2>1, <3>1, <4>1 DEF PageAt, Copying
      <3>3. QED
        BY <2>4, <3>1, <3>2 DEF SameFor
    <2>7. QED
      BY <1>8, <2>2, <2>3, <2>4, <2>5, <2>6 DEF Copied
  <1>11. QED
    BY <1>1, <1>9, <1>10

\* A process without pages and with an empty list has a heap.
LEMMA EmptyHeap ==
  ASSUME MemoryAssumption, NEW p \in Procs, NEW m, Present(m, p) = {}, m.list[p] = EmptyList(p)
  PROVE  HeapOK(m, p, {})
  <1> DEFINE fr == m.pte[p]
             c == [i \in 0..1 |-> IF i = 0 THEN head(p) ELSE tail(p)]
  <1>1. Arenas(m, p) = {} /\ Free(m, p, {}) = {}
    BY DEF Arenas, Free, Nodes
  <1>2. c[0] = head(p) /\ c[0 + 1] = tail(p)
    OBVIOUS
  <1>3. At(m, fr, head(p), "next") = tail(p) /\ At(m, fr, tail(p), "prev") = head(p)
    <2>1. head(p)[1] = p /\ tail(p)[1] = p
      BY DEF head, tail
    <2>2. EmptyList(p).next = tail(p) /\ EmptyList(p).prev = head(p)
      BY DEF EmptyList
    <2>3. QED
      BY <2>1, <2>2 DEF At
  <1>4. 1..0 = {} /\ 0..0 = {0} /\ 0 \in Nat
    OBVIOUS
  <1> HIDE DEF c, fr
  <1>5. Chain(m, fr, p, {}, 0, c)
    BY <1>2, <1>3, <1>4 DEF Chain
  <1>6. {c[i] : i \in 1..0} = {}
    BY <1>4
  <1>7. HasChain(m, fr, p, {}, {})
    BY <1>4, <1>5, <1>6 DEF HasChain
  <1>8. ListOK(m, p, {})
    BY <1>1, <1>7 DEF ListOK, fr
  <1>9. QED
    BY <1>1, <1>8 DEF HeapOK, CountsOK, LargeOK

LEMMA NoTlbFacts ==
  ASSUME NEW m, m.tlb = NoTlb, NEW p
  PROVE  TlbOwn(m, p) /\ Clean(m, p)
  BY DEF NoTlb, TlbOwn, Clean, Present

\* The child has the heap of its parent only if that is empty.
LEMMA ForkHeap ==
  ASSUME MemoryAssumption, HeapInv, MemInv', NEW c \in Procs, sys_fork(c)
  PROVE  HeapInv'
  <1> DEFINE y == CopyPages(s, c)
             hit == {p \in {cur, c} : s.bits[cur] # {}}
  <1>1. /\ Runs /\ state[c] = "unused" /\ cur' = cur /\ Result(y)
        /\ state' = [state EXCEPT ![c] = "live"]
        /\ held' = [held EXCEPT ![c] = held[cur]] /\ tainted' = tainted \cup hit
    BY DEF sys_fork
  <1>2. /\ cur \in Procs /\ Exact(s) /\ s.bad = "no" /\ MemTypes(s) /\ c # cur /\ Present(s, c) = {}
        /\ state \in [Procs -> {"unused", "live", "zombie"}] /\ DOMAIN held = Procs /\ state[cur] = "live"
        /\ \A p \in Procs : Present(s, p) = {} => held[p] = {}
        /\ \A p \in Procs \ tainted : state[p] = "live" => HeapOK(s, p, held[p])
    BY <1>1 DEF HeapInv, MemInv, Runs
  <1>3. (y.bad = "no" => Copied(s, y, c)) /\ (s.bits[cur] = {} => y.bad = "no")
    BY <1>2, CopyFacts
  <1> HIDE DEF y
  <1>4. /\ tainted \subseteq tainted' /\ (s.bits[cur] # {} => {cur, c} \subseteq tainted')
        /\ DOMAIN held' = Procs /\ held'[c] = held[cur] /\ \A p \in Procs \ {c} : held'[p] = held[p]
        /\ state'[cur] = "live" /\ \A p \in Procs \ {c} : state'[p] = state[p]
        /\ panic' = y.bad
    BY <1>1, <1>2 DEF Result
  <1>5. (Roomy => OnlyTaintedFail)'
    BY <1>3, <1>4 DEF OnlyTaintedFail, Roomy, NPages
  <1>6. ASSUME y.bad = "no"
        PROVE  /\ MemTypes(s') /\ TlbOwn(s', cur) /\ Clean(s', cur)
               /\ \A p \in Procs : Present(s', p) = {} => held'[p] = {}
               /\ \A p \in Procs \ tainted' : state'[p] = "live" => HeapOK(s', p, held'[p])
    <2>1. /\ MemTypes(y) /\ y.tlb = NoTlb /\ y.list[c] = EmptyList(c) /\ Present(y, c) = Present(s, cur)
          /\ FramesOK(y) /\ \A q \in Procs \ {c} : SameFor(s, y, q)
      BY <1>2, <1>3, <1>6 DEF Copied, Exact
    <2>2. /\ s'.tlb = y.tlb /\ s'.pte = y.pte /\ MemTypes(s') /\ \A p \in Procs : SameFor(y, s', p)
      BY <1>1, <2>1, ResultSame
    <2>3. TlbOwn(s', cur) /\ Clean(s', cur)
      BY <2>1, <2>2, NoTlbFacts
    <2>4. \A p \in Procs \ {c} : Present(y, p) = Present(s, p)
      BY <2>1 DEF SameFor, Present
    <2>5. \A p \in Procs : Present(s', p) = Present(y, p)
      BY <2>2 DEF Present
    <2>6. ASSUME NEW p \in Procs, Present(s', p) = {} PROVE held'[p] = {}
      BY <1>2, <1>4, <2>1, <2>4, <2>5, <2>6
    <2>7. ASSUME NEW p \in Procs \ tainted', state'[p] = "live" PROVE HeapOK(s', p, held'[p])
      <3> DEFINE G == held'[p]
                 z == s'
      <3>1. HeapOK(y, p, G)
        <4>1. CASE p = c
          <5>1. s.bits[cur] = {} /\ Present(s, cur) = {}
            BY <1>2, <1>4, <2>7, <4>1 DEF Exact
          <5>2. G = {} /\ Present(y, p) = {} /\ y.list[p] = EmptyList(p)
            BY <1>2, <1>4, <2>1, <4>1, <5>1
          <5>3. QED
            BY <5>2, EmptyHeap
        <4>2. CASE p # c
          <5>1. HeapOK(s, p, G) /\ SameFor(s, y, p)
            BY <1>2, <1>4, <2>1, <2>7, <4>2
          <5> HIDE DEF G
          <5>2. QED
            BY <5>1, HeapSame
        <4>3. QED
          BY <4>1, <4>2
      <3>2. SameFor(y, z, p)
        BY <2>2
      <3> HIDE DEF G, z
      <3>3. HeapOK(z, p, G)
        BY <3>1, <3>2, HeapSame
      <3>4. QED
        BY <3>3 DEF z, G
    <2>8. QED
      BY <2>2, <2>3, <2>6, <2>7
  <1>7. QED
    BY <1>1, <1>4, <1>5, <1>6 DEF HeapInv

-----------------------------------------------------------------------------
(* Other processes run.                                                    *)

\* A process that is switched to starts without old translations.
LEMMA OtherRuns ==
  ASSUME MemoryAssumption, HeapInv, MemInv', panic = "no", panic' = "no", NEW x, Rec(x), s' = Forget(x),
         x.tlb = NoTlb, x.page = s.page, x.list = s.list,
         \A p \in Procs : state'[p] = "live" => state[p] = "live" /\ SameFor(s, x, p) /\ held'[p] = held[p],
         \A p \in Procs : state'[p] # "live" => held'[p] = {},
         state'[cur'] = "live", DOMAIN held' = Procs, tainted' = tainted
  PROVE  HeapInv'
  <1>1. /\ Exact(s') /\ FramesOK(s') /\ MemTypes(s)
        /\ \A p \in Procs : Present(s, p) = {} => held[p] = {}
        /\ \A p \in Procs \ tainted : state[p] = "live" => HeapOK(s, p, held[p])
    BY DEF HeapInv, MemInv, Exact
  <1>2. SamePages(x, s')
    BY ForgetSame
  <1>3. FramesOK(x) /\ MemTypes(x)
    BY <1>1, <1>2, ListTypes, Sizes DEF SamePages, FramesOK, MemTypes
  <1>4. /\ s'.tlb = NoTlb /\ MemTypes(s') /\ \A p \in Procs : SameFor(x, s', p)
    BY <1>3, ForgetKeeps
  <1>5. \A p : TlbOwn(s', p) /\ Clean(s', p)
    BY <1>4, NoTlbFacts
  <1>6. ASSUME NEW p \in Procs, Present(s', p) = {} PROVE held'[p] = {}
    <2>1. CASE state'[p] # "live"
      BY <2>1
    <2>2. CASE state'[p] = "live"
      <3>1. SameFor(s, x, p) /\ held'[p] = held[p] /\ SameFor(x, s', p)
        BY <1>4, <2>2
      <3>2. Present(s', p) = Present(s, p)
        BY <3>1 DEF SameFor, Present
      <3>3. QED
        BY <1>1, <1>6, <3>1, <3>2
    <2>3. QED
      BY <2>1, <2>2
  <1>7. ASSUME NEW p \in Procs \ tainted', state'[p] = "live" PROVE HeapOK(s', p, held'[p])
    <2> DEFINE G == held'[p]
               z == s'
    <2>1. HeapOK(s, p, G) /\ SameFor(s, x, p) /\ SameFor(x, z, p)
      BY <1>1, <1>4, <1>7
    <2> HIDE DEF G, z
    <2>2. HeapOK(x, p, G)
      BY <2>1, HeapSame
    <2>3. HeapOK(z, p, G)
      BY <2>1, <2>2, HeapSame
    <2>4. QED
      BY <2>3 DEF G, z
  <1>8. OnlyTaintedFail'
    BY DEF OnlyTaintedFail
  <1>9. QED
    BY <1>4, <1>5, <1>6, <1>7, <1>8 DEF HeapInv

LEMMA SwitchHeap ==
  ASSUME MemoryAssumption, HeapInv, MemInv', NEW p \in Procs, schedule(p)
  PROVE  HeapInv'
  <1> DEFINE x == [s EXCEPT !.tlb = NoTlb]
  <1>1. /\ cur' = p /\ state[p] = "live" /\ s' = Forget(x) /\ state' = state /\ held' = held
        /\ tainted' = tainted /\ panic' = panic /\ panic = "no"
    BY DEF schedule
  <1>2. /\ Rec(x) /\ x.tlb = NoTlb /\ x.pte = s.pte /\ x.page = s.page /\ x.list = s.list
    BY DEF HeapInv, MemInv, Rec
  <1> HIDE DEF x
  <1>3. \A q \in Procs : SameFor(s, x, q)
    BY <1>2 DEF SameFor, PageAt
  <1>4. /\ DOMAIN held = Procs /\ \A q \in Procs : Present(s, q) = {} => held[q] = {}
        /\ \A q \in Procs : state[q] # "live" => Present(s, q) = {}
    BY <1>1 DEF HeapInv, MemInv
  <1>5. QED
    BY <1>1, <1>2, <1>3, <1>4, OtherRuns

\* exit takes nothing from the others.
LEMMA ExitHeap ==
  ASSUME MemoryAssumption, HeapInv, MemInv', NEW q \in Procs, sys_exit(q)
  PROVE  HeapInv'
  <1> DEFINE U == s.used \ Released(cur)
             x == [s EXCEPT !.used = U, !.pte[cur] = NoMap, !.bits[cur] = {}, !.tlb = NoTlb]
  <1>1. /\ Runs /\ state[q] = "live" /\ q # cur /\ cur' = q /\ s' = Forget(x)
        /\ state' = [state EXCEPT ![cur] = "zombie"] /\ held' = [held EXCEPT ![cur] = {}]
        /\ panic' = panic /\ tainted' = tainted /\ panic = "no"
    BY DEF sys_exit, Runs
  <1>2. /\ cur \in Procs /\ Rec(s) /\ s.pte \in Tables /\ DOMAIN held = Procs
        /\ state \in [Procs -> {"unused", "live", "zombie"}]
        /\ \A p \in Procs : Present(s, p) = {} => held[p] = {}
        /\ \A p \in Procs : state[p] # "live" => Present(s, p) = {}
    BY <1>1 DEF HeapInv, MemInv, Exact, FramesOK
  <1>3. /\ Rec(x) /\ x.tlb = NoTlb /\ x.page = s.page /\ x.list = s.list
        /\ x.pte = [s.pte EXCEPT ![cur] = NoMap]
    <2> HIDE DEF U
    <2> DEFINE x1 == [s EXCEPT !.used = U]
               x2 == [x1 EXCEPT !.pte[cur] = NoMap]
               x3 == [x2 EXCEPT !.bits[cur] = {}]
               x4 == [x3 EXCEPT !.tlb = NoTlb]
    <2>1. x = x4
      OBVIOUS
    <2> HIDE DEF x
    <2>2. Rec(x1) /\ x1.page = s.page /\ x1.list = s.list /\ x1.pte = s.pte
      BY <1>2 DEF Rec
    <2> HIDE DEF x1
    <2>3. Rec(x2) /\ x2.page = x1.page /\ x2.list = x1.list /\ x2.pte = [x1.pte EXCEPT ![cur] = NoMap]
      BY <2>2 DEF Rec
    <2> HIDE DEF x2
    <2>4. Rec(x3) /\ x3.page = x2.page /\ x3.list = x2.list /\ x3.pte = x2.pte
      BY <2>3 DEF Rec
    <2> HIDE DEF x3
    <2>5. Rec(x4) /\ x4.page = x3.page /\ x4.list = x3.list /\ x4.pte = x3.pte /\ x4.tlb = NoTlb
      BY <2>4 DEF Rec
    <2> HIDE DEF x4
    <2>6. QED
      BY <2>1, <2>2, <2>3, <2>4, <2>5
  <1> HIDE DEF x
  <1>4. \A p \in Procs \ {cur} : SameFor(s, x, p)
    BY <1>2, <1>3 DEF SameFor, PageAt, Tables
  <1>5. /\ DOMAIN held' = Procs /\ held'[cur] = {} /\ state'[cur] # "live"
        /\ \A p \in Procs \ {cur} : held'[p] = held[p] /\ state'[p] = state[p]
    BY <1>1, <1>2
  <1>6. /\ \A p \in Procs : state'[p] = "live" => state[p] = "live" /\ SameFor(s, x, p) /\ held'[p] = held[p]
        /\ \A p \in Procs : state'[p] # "live" => held'[p] = {}
        /\ state'[cur'] = "live" /\ panic' = "no"
    BY <1>1, <1>2, <1>4, <1>5
  <1>7. QED
    BY <1>1, <1>3, <1>5, <1>6, OtherRuns

LEMMA WaitHeap ==
  ASSUME HeapInv, MemInv', NEW p \in Procs, sys_wait(p)
  PROVE  HeapInv'
  <1>1. /\ state[p] = "zombie" /\ state' = [state EXCEPT ![p] = "unused"]
        /\ UNCHANGED <<cur, s, held, tainted, panic>>
    BY DEF sys_wait
  <1>2. state'[cur] = "live" /\ \A q \in Procs : state'[q] = "live" => state[q] = "live"
    BY <1>1 DEF HeapInv, MemInv
  <1>3. OnlyTaintedFail' = OnlyTaintedFail
    BY <1>1 DEF OnlyTaintedFail
  <1>4. QED
    BY <1>1, <1>2, <1>3 DEF HeapInv

LEMMA HeapInitial ==
  ASSUME MemoryAssumption, Init
  PROVE  HeapInv
  <1>1. /\ MemInv /\ state[cur] = "live" /\ DOMAIN held = Procs /\ tainted = {} /\ panic = "no"
        /\ \A p \in Procs : held[p] = {}
    BY MemInitial, Sizes DEF Init
  <1>2. /\ s.tlb = NoTlb /\ s.page = [f \in Frames |-> EmptyPage]
        /\ s.list = [p \in Procs |-> EmptyList(p)] /\ s.pte = [p \in Procs |-> NoMap]
    BY DEF Init
  <1>3. MemTypes(s)
    BY <1>2, ListTypes, EmptyPageType, Sizes DEF MemTypes
  <1>4. \A p \in Procs : Present(s, p) = {} /\ s.list[p] = EmptyList(p)
    BY <1>2 DEF Present, NoMap
  <1>5. \A p \in Procs : HeapOK(s, p, held[p])
    BY <1>1, <1>4, EmptyHeap
  <1>6. TlbOwn(s, cur) /\ Clean(s, cur)
    BY <1>2, NoTlbFacts
  <1>7. QED
    BY <1>1, <1>3, <1>5, <1>6 DEF HeapInv, OnlyTaintedFail

\* Every step keeps the invariant.
LEMMA HeapStep ==
  ASSUME MemoryAssumption, HeapInv, [Next]_vars
  PROVE  HeapInv'
  <1>0. MemInv'
    BY MemStep DEF HeapInv
  <1>1. CASE UNCHANGED vars
    <2>1. UNCHANGED <<cur, state, s, held, tainted, panic>>
      BY <1>1 DEF vars
    <2>2. OnlyTaintedFail' = OnlyTaintedFail
      BY <2>1 DEF OnlyTaintedFail
    <2>3. QED
      BY <1>0, <2>1, <2>2 DEF HeapInv
  <1>2. CASE \E n \in 1..MaxLarge : sys_malloc_large(n)
    BY <1>0, <1>2, LargeHeap
  <1>3. CASE sys_malloc_small
    BY <1>0, <1>3, SmallHeap
  <1>4. CASE \E b \in held[cur] : sys_free(b)
    BY <1>0, <1>4, FreeHeap
  <1>5. CASE \E n \in 1..MaxSegment : sys_execv(n)
    BY <1>0, <1>5, ExecHeap
  <1>6. CASE \E p \in Procs : sys_fork(p) \/ schedule(p) \/ sys_exit(p) \/ sys_wait(p)
    BY <1>0, <1>6, ForkHeap, SwitchHeap, ExitHeap, WaitHeap
  <1>7. QED
    BY <1>1, <1>2, <1>3, <1>4, <1>5, <1>6 DEF Next

-----------------------------------------------------------------------------
(* The theorems about the heap.                                            *)

\* The invariant says what the properties ask for.
LEMMA HeapShown ==
  ASSUME MemoryAssumption, HeapInv
  PROVE  HeapExact /\ (Roomy => OnlyTaintedFail)
  <1>1. Roomy => OnlyTaintedFail
    BY DEF HeapInv
  <1>2. ASSUME panic = "no", cur \notin tainted
        PROVE  /\ Walk(s, cur) = FreeOf(cur)
               /\ \A b \in FreeOf(cur) : Follow(s, Follow(s, b, "next"), "prev") = b
               /\ \A v \in ArenasOf(cur) :
                    s.page[s.pte[cur][v]].cnt = Cardinality(BlocksOf(v) \cap FreeOf(cur))
    <2> DEFINE H == held[cur]
               A == Arenas(s, cur)
               S == Free(s, cur, H)
    <2>1. cur \in Procs /\ FramesOK(s) /\ Clean(s, cur) /\ HeapOK(s, cur, H)
      BY <1>2 DEF HeapInv, MemInv, Exact
    <2>2. Reach(FrOf(s), A) /\ HasChain(s, FrOf(s), cur, A, S)
      BY <2>1, HeapUse
    <2>3. ArenasOf(cur) = A
      BY DEF ArenasOf, Arenas, Present, PageAt
    <2>4. FreeOf(cur) = S
      <3>1. ASSUME NEW b \in UNION {BlocksOf(v) : v \in A} PROVE b \in Nodes(A)
        BY <3>1 DEF BlocksOf, Nodes
      <3>2. ASSUME NEW b \in Nodes(A) PROVE b \in UNION {BlocksOf(v) : v \in A}
        <4>1. b[1] \in A /\ b[2] \in 1..Blocks /\ b = <<b[1], b[2]>>
          BY DEF Nodes
        <4>2. b \in BlocksOf(b[1])
          BY <4>1 DEF BlocksOf
        <4>3. QED
          BY <4>1, <4>2
      <3>3. UNION {BlocksOf(v) : v \in A} = Nodes(A)
        BY <3>1, <3>2
      <3>4. QED
        BY <2>3, <3>3 DEF FreeOf, Free
    <2>5. ASSUME NEW v \in A PROVE s.page[s.pte[cur][v]].cnt = Cardinality(BlocksOf(v) \cap S)
      <3>1. BlocksOf(v) \subseteq Nodes(A)
        BY DEF BlocksOf, Nodes
      <3>2. BlocksOf(v) \cap S = BlocksOf(v) \ H
        BY <3>1 DEF Free
      <3>3. QED
        BY <2>1, <3>2 DEF HeapOK, CountsOK, PageAt
    <2> HIDE DEF A, S
    <2>6. Walk(s, cur) = S /\ \A b \in S : Follow(s, Follow(s, b, "next"), "prev") = b
      BY <2>1, <2>2, WalkFacts
    <2>7. QED
      BY <2>3, <2>4, <2>5, <2>6
  <1>3. QED
    BY <1>1, <1>2 DEF HeapExact

\* Over any sequence of calls, the heap of every process that no defect has hit is
\* exact, and what is left behind an old translation is nobody else's (memory.c, fork.c).
THEOREM HeapInvariant == Spec => []HeapInv
  <1>1. Init => HeapInv
    BY HeapInitial, MemoryAssumption
  <1>2. HeapInv /\ [Next]_vars => HeapInv'
    BY HeapStep, MemoryAssumption
  <1>3. QED
    BY <1>1, <1>2, PTL DEF Spec

\* The walk along the free list of the process that runs finds every block of its
\* arenas that it does not hold and no other, the way back is right, and every
\* arena counts its free blocks (sys_malloc and sys_free, memory.c:259-331, 402-434).
THEOREM HeapAlwaysExact == Spec => []HeapExact
  <1>1. HeapInv => HeapExact
    BY HeapShown, MemoryAssumption
  <1>2. QED
    BY <1>1, HeapInvariant, PTL

\* With more addresses than the frames can fill, no assertion of the allocator fails
\* and no address is invalid unless a process was hit by a defect (memory.c, fork.c, exec.c).
THEOREM OnlyTaintedFails ==
  ASSUME Roomy
  PROVE  Spec => []OnlyTaintedFail
  <1>1. HeapInv => OnlyTaintedFail
    BY HeapShown, MemoryAssumption
  <1>2. QED
    BY <1>1, HeapInvariant, PTL
=============================================================================
