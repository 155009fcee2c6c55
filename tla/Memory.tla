------------------------------- MODULE Memory -------------------------------
(***************************************************************************)
(* The user memory of kernel/memory.c: the page pool, a process's address  *)
(* bitmap and page table, the arenas of sys_malloc and sys_free with their *)
(* doubly linked free lists, what fork and execv (userprog/fork.c,         *)
(* userprog/exec.c) make of them, and their release at exit (wait_exit.c). *)
(*                                                                         *)
(* An operation runs under user_pool.lock and touches only its own         *)
(* process's memory besides, so each is one step.  One block size stands   *)
(* for the seven.  The pages are those of the heap and of programs that    *)
(* execv has loaded; stacks and the kernel's own pages are left out.       *)
(*                                                                         *)
(* A free list has its two ends in the process's task_struct (kernel       *)
(* memory, the same for everyone) and its nodes inside the free blocks,    *)
(* whose addresses mean something else in every address space.             *)
(***************************************************************************)
EXTENDS Bitmap

CONSTANTS Procs,       \* task_structs
          Init1,       \* the first process
          NFrames,     \* frames of user_pool
          Blocks,      \* blocks_per_arena
          MaxLarge,    \* bound: pages of one large allocation
          MaxSegment,  \* bound: pages of a program
          None         \* no frame, no descriptor, NULL

ASSUME MemoryAssumption ==
  /\ Init1 \in Procs /\ None \notin Procs
  /\ {NFrames, ByteBits, NBytes, Blocks, MaxLarge, MaxSegment} \subseteq Nat \ {0}
  \* mem_pool_init counts frames in 16 bits; an address space has 753592 pages.
  /\ NFrames < NBits
  /\ None \notin 0..(NFrames - 1)
  \* A program is linked within the address space.
  /\ MaxSegment <= NBits
  \* Addresses: task_structs lie in the kernel's pages, NULL in nobody's.
  /\ Procs \cap 0..NBits = {}
  /\ None \notin (Procs \cup 0..NBits) \X (0..(Blocks + 1))

VARIABLES cur,      \* the running process
          state,    \* of a task_struct: "unused", "live", "zombie"
          s,        \* memory, as the operations below pass it along
          held,     \* held[p]: the pointers p has from malloc and not freed
          tainted,  \* history: processes hit by one of the defects below
          panic     \* "no", "full" (no memory), "assert", "fault"

vars == <<cur, state, s, held, tainted, panic>>

Frames == 0..(NFrames - 1)
\* The pages of an address space, one bit each (a bound).
NPages == NBits
Pages  == 0..(NPages - 1)

(* The address of block i of the arena at page v is <<v, i>>; that of the  *)
(* ends of p's free list are <<p, 0>> and <<p, Blocks + 1>>.               *)
head(p) == <<p, 0>>
tail(p) == <<p, Blocks + 1>>
BlocksOf(v) == {<<v, i>> : i \in 1..Blocks}

NoLink == [prev |-> None, next |-> None]
EmptyPage == [desc |-> None, cnt |-> 0, link |-> [i \in 1..Blocks |-> NoLink]]

(* s.used: user_pool's bitmap; s.bits[p]: p's address bitmap; s.pte[p][v]: *)
(* the frame of page v, or None; s.tlb[v]: the frame an earlier            *)
(* translation of v still leads to, or None; s.page[f]: the arena in frame *)
(* f; s.list[p]: head.next and tail.prev of p's descriptor; s.bad: what an *)
(* operation has run into.                                                 *)
NoTlb == [v \in Pages |-> None]
NoMap == [v \in Pages |-> None]
\* block_desc_init.
EmptyList(p) == [prev |-> head(p), next |-> tail(p)]

Init ==
  /\ cur = Init1
  /\ state = [p \in Procs |-> IF p = Init1 THEN "live" ELSE "unused"]
  /\ s = [used |-> {}, bits |-> [p \in Procs |-> {}], pte |-> [p \in Procs |-> NoMap],
          tlb |-> NoTlb, page |-> [f \in Frames |-> EmptyPage],
          list |-> [p \in Procs |-> EmptyList(p)], bad |-> "no"]
  /\ held = [p \in Procs |-> {}]
  /\ tainted = {} /\ panic = "no"

Fail(m, why) == [m EXCEPT !.bad = IF @ = "no" THEN why ELSE @]

-----------------------------------------------------------------------------
(* Addresses.  A page that was freed is still found through the TLB until  *)
(* the next switch: page_table_pte_remove invalidates the page that holds  *)
(* its variable vaddr.                                                     *)

FrameAt(m, v) == IF m.tlb[v] # None THEN m.tlb[v] ELSE m.pte[cur][v]
StaleAt(m, v) == m.tlb[v] # None /\ m.tlb[v] # m.pte[cur][v]

Mapped(m, a) == a # None /\ (a[1] \in Procs \/ FrameAt(m, a[1]) # None)

Follow(m, a, d) ==
  CASE ~Mapped(m, a)    -> None
    [] a[1] \in Procs   -> m.list[a[1]][d]
    [] OTHER            -> m.page[FrameAt(m, a[1])].link[a[2]][d]

SetLink(m, a, d, x) ==
  CASE ~Mapped(m, a)    -> Fail(m, "fault")
    [] a[1] \in Procs   -> [m EXCEPT !.list[a[1]][d] = x]
    [] OTHER            -> [m EXCEPT !.page[FrameAt(m, a[1])].link[a[2]][d] = x]

-----------------------------------------------------------------------------
(* lib/kernel/list.c.                                                      *)

list_append(m, p, b) ==
  LET m1 == SetLink(m, Follow(m, tail(p), "prev"), "next", b)
      m2 == SetLink(m1, b, "prev", Follow(m1, tail(p), "prev"))
      m3 == SetLink(m2, b, "next", tail(p))
  IN SetLink(m3, tail(p), "prev", b)

\* (Faulty variant: the way back is not repaired.)
list_remove_half(m, b) == SetLink(m, Follow(m, b, "prev"), "next", Follow(m, b, "next"))
list_remove(m, b) ==
  LET m1 == SetLink(m, Follow(m, b, "prev"), "next", Follow(m, b, "next"))
  IN SetLink(m1, Follow(m1, b, "next"), "prev", Follow(m1, b, "prev"))

list_empty(m, p) == Follow(m, head(p), "next") = tail(p)

\* What a walk along p's list from head visits before tail.
Walk(m, p) ==
  LET node[n \in 0..(NPages * Blocks)] ==
        IF n = 0 THEN Follow(m, head(p), "next")
        ELSE LET last == node[n - 1]
             IN IF last \in {tail(p), None} THEN last ELSE Follow(m, last, "next")
  IN {node[n] : n \in DOMAIN node} \ {tail(p)}

elem_find(m, p, b) == b \in Walk(m, p)

-----------------------------------------------------------------------------
(* Pages.                                                                  *)

\* palloc.  A full pool stops the kernel: bitmap_scan asserts.
palloc(m) ==
  IF m.used = Frames THEN Fail(m, "full")
  ELSE [m EXCEPT !.used = @ \cup {Min(Frames \ @)}]

\* The page past the last one is the kernel's, and present.
page_table_add(m, p, v, f) ==
  IF v \notin Pages \/ m.pte[p][v] # None THEN Fail(m, "assert")
  ELSE [m EXCEPT !.pte[p][v] = f]

\* One turn of the loop of malloc_page: a frame for page v of p.
MapPage(m, p, v) ==
  LET m1 == palloc(m)
  IN IF m1.bad # "no" THEN m1
     ELSE page_table_add(m1, p, v, Min(Frames \ m.used))

\* vaddr_get, once the search has found the pages v..v+n-1: the last page of
\* the address space fails its assertion.
vaddr_get(m, v, n) ==
  LET m1 == [m EXCEPT !.bits[cur] = @ \cup (v..(v + n - 1))]
  IN IF v < NPages - 1 THEN m1 ELSE Fail(m1, "assert")

\* memset over the pages of ws, through whatever frames they are reached.
Cleared(m, ws) ==
  LET fs == {FrameAt(m, w) : w \in ws}
  IN [m EXCEPT !.page = [f \in Frames |-> IF f \in fs THEN EmptyPage ELSE @[f]]]

\* malloc_page at the pages v..v+n-1, and memset.
malloc_page(m, v, n) ==
  LET step[k \in 0..n] ==
        IF k = 0 THEN vaddr_get(m, v, n) ELSE MapPage(step[k - 1], cur, v + k - 1)
      all == step[n]
  IN IF all.bad # "no" THEN all ELSE Cleared(all, v..(v + n - 1))

\* mfree_page: pfree, page_table_pte_remove and vaddr_remove.
VaddrLeft(set, v, n) == set \ (v..(v + n - 1))
mfree_page(m, v, n) ==
  LET gone == v..(v + n - 1)
  IN IF n = 0 \/ \E w \in gone : w \notin Pages \/ m.pte[cur][w] = None
     THEN Fail(m, IF n = 0 THEN "assert" ELSE "fault")
     ELSE [m EXCEPT !.used = @ \ {m.pte[cur][w] : w \in gone},
                    !.pte[cur] = [w \in Pages |-> IF w \in gone THEN None ELSE @[w]],
                    !.tlb = [w \in Pages |-> IF w \in gone THEN FrameAt(m, w) ELSE @[w]],
                    !.bits[cur] = VaddrLeft(@, v, n)]

-----------------------------------------------------------------------------
(* sys_malloc and sys_free.                                                *)

\* A frame that nothing leads to is taken to be empty.  It is read again only
\* by a process that clears the page through a stale translation instead.
Forget(m) ==
  [m EXCEPT !.page = [f \in Frames |->
     IF f \in m.used \/ \E v \in Pages : m.tlb[v] = f THEN @[f] ELSE EmptyPage]]

\* What an operation leaves; the panic stops everything.
Result(m) ==
  /\ s' = Forget([m EXCEPT !.bad = "no"])
  /\ panic' = m.bad

Runs == panic = "no" /\ state[cur] = "live"

\* A process that a defect has hit does not use its heap any more (a bound).
UsesHeap == Runs /\ cur \notin tainted

\* A large block: the header at its first page.  Without n free addresses in
\* a row vaddr_get, and so sys_malloc, returns NULL.
sys_malloc_large(n) ==
  /\ UsesHeap
  /\ LET v  == bitmap_scan(s.bits[cur], n)
         m1 == malloc_page(s, v, n)
     IN IF v = -1 THEN UNCHANGED <<s, held, tainted, panic>>
        ELSE /\ Result(IF m1.bad # "no" THEN m1
                       ELSE [m1 EXCEPT !.page[FrameAt(m1, v)].cnt = n])
             /\ held' = [held EXCEPT ![cur] = @ \cup {<<v, 1>>}]
             /\ tainted' = tainted \cup {p \in {cur} : \E w \in v..(v + n - 1) : StaleAt(m1, w)}
  /\ UNCHANGED <<cur, state>>

\* A new arena at page v, all its blocks on the free list.
AddBlock(m, b) ==
  IF elem_find(m, cur, b) THEN Fail(m, "assert") ELSE list_append(m, cur, b)
NewArena(m, v) ==
  LET m1 == malloc_page(m, v, 1)
      m2 == [m1 EXCEPT !.page[FrameAt(m1, v)].desc = cur,
                       !.page[FrameAt(m1, v)].cnt = Blocks]
      add[i \in 0..Blocks] == IF i = 0 THEN m2 ELSE AddBlock(add[i - 1], <<v, i>>)
  IN IF m1.bad # "no" THEN m1 ELSE add[Blocks]

\* The first free block: off the list, cleared, counted.  (Faulty variant: not
\* counted.)
Count_kept(c) == c
Count(c) == c - 1
TakeBlock(m) ==
  LET b  == Follow(m, head(cur), "next")
      m1 == list_remove(m, b)
  IN IF ~Mapped(m, b) \/ b[1] \in Procs \/ m1.bad # "no" THEN Fail(m1, "fault")
     ELSE [m1 EXCEPT !.page[FrameAt(m1, b[1])].link[b[2]] = NoLink,
                     !.page[FrameAt(m1, b[1])].cnt = Count(@)]

sys_malloc_small ==
  /\ UsesHeap
  /\ LET v  == bitmap_scan(s.bits[cur], 1)
         m1 == IF list_empty(s, cur) THEN NewArena(s, v) ELSE s
         m2 == IF m1.bad # "no" THEN m1 ELSE TakeBlock(m1)
     IN /\ Result(m2)
        /\ held' = [held EXCEPT ![cur] = @ \cup {Follow(m1, head(cur), "next")}]
        /\ tainted' = tainted \cup {p \in {cur} : list_empty(s, cur) /\ StaleAt(m1, v)}
  /\ UNCHANGED <<cur, state>>

\* An arena whose blocks are all free leaves the list and is unmapped.
DropBlock(m, p, b) ==
  IF m.bad # "no" THEN m
  ELSE IF ~elem_find(m, p, b) THEN Fail(m, "assert") ELSE list_remove(m, b)
DropArena(m, p, v) ==
  LET off[i \in 0..Blocks] == IF i = 0 THEN m ELSE DropBlock(off[i - 1], p, <<v, i>>)
      all == off[Blocks]
  IN IF all.bad # "no" THEN all ELSE mfree_page(all, v, 1)

\* A block goes to the list of the descriptor its arena names.
FreeBlock(m, b) ==
  LET f  == FrameAt(m, b[1])
      d  == m.page[f].desc
      m1 == [list_append(m, d, b) EXCEPT !.page[f].cnt = @ + 1]
  IN IF state[d] = "unused" THEN Fail(m, "fault")
     ELSE IF m1.bad = "no" /\ m1.page[f].cnt = Blocks THEN DropArena(m1, d, b[1])
     ELSE m1

sys_free(b) ==
  /\ UsesHeap /\ b \in held[cur]
  /\ LET f == FrameAt(s, b[1])
     IN Result(IF f = None THEN Fail(s, "fault")
               ELSE IF s.page[f].desc = None THEN mfree_page(s, b[1], s.page[f].cnt)
               ELSE FreeBlock(s, b))
  /\ held' = [held EXCEPT ![cur] = @ \ {b}]
  /\ UNCHANGED <<cur, state, tainted>>

-----------------------------------------------------------------------------
(* Processes.                                                              *)

\* fork: the child's address bitmap is a copy, its descriptors are empty, every
\* page is copied.  The copy switches address spaces, which empties the TLB;
\* only the first page is still read through it.
CopyPage(m, x, c, v) ==
  LET from == IF v = Min(m.bits[cur]) THEN FrameAt(m, v) ELSE m.pte[cur][v]
      x1 == MapPage(x, c, v)
  IN IF v \notin m.bits[cur] \/ x.bad # "no" THEN x
     ELSE IF x1.bad # "no" THEN x1
     ELSE [x1 EXCEPT !.page[x1.pte[c][v]] = m.page[from]]
CopyPages(m, c) ==
  LET done[k \in 0..NPages] == IF k = 0 THEN m ELSE CopyPage(m, done[k - 1], c, k - 1)
  IN [done[NPages] EXCEPT !.bits[c] = m.bits[cur], !.list[c] = EmptyList(c), !.tlb = NoTlb]

sys_fork(c) ==
  /\ Runs /\ state[c] = "unused"
  /\ Result(CopyPages(s, c))
  /\ state' = [state EXCEPT ![c] = "live"]
  /\ held' = [held EXCEPT ![c] = held[cur]]
  /\ tainted' = tainted \cup {p \in {cur, c} : s.bits[cur] # {}}
  /\ UNCHANGED cur

\* get_a_page at page v.
get_a_page(m, v) == MapPage([m EXCEPT !.bits[cur] = @ \cup {v}], cur, v)

\* segment_load of the pages v..v+n-1: for each that is absent it asks for the
\* page of the segment's address, always the first.  Then the file is read in.
LoadPage(m, v, w) ==
  IF m.bad # "no" \/ m.pte[cur][w] # None THEN m ELSE get_a_page(m, v)
segment_load(m, v, n) ==
  LET step[k \in 0..n] == IF k = 0 THEN m ELSE LoadPage(step[k - 1], v, v + k - 1)
      all == step[n]
  IN IF all.bad # "no" THEN all ELSE Cleared(all, v..(v + n - 1))

\* sys_execv of a program that can be loaded, linked at the first page: what was
\* there is overwritten; page table, address bitmap and free lists stay.  It is
\* hit by a defect if it has a heap, if a page is reached through a stale
\* translation, or if more than one page is absent.
sys_execv(n) ==
  /\ Runs
  /\ LET m1 == segment_load(s, 0, n)
     IN /\ Result(m1)
        /\ tainted' = tainted \cup {p \in {cur} :
             s.bits[p] # {} \/ n > 1 \/ StaleAt(m1, 0)}
  /\ held' = [held EXCEPT ![cur] = {}]
  /\ UNCHANGED <<cur, state>>

\* A switch loads the page directory: the TLB is empty.
schedule(p) ==
  /\ panic = "no" /\ state[p] = "live"
  /\ cur' = p
  /\ s' = Forget([s EXCEPT !.tlb = NoTlb])
  /\ UNCHANGED <<state, held, tainted, panic>>

\* release_prog_resource: the frames of all present pages.  (Faulty variant:
\* they are kept.)
Released_none(p) == {}
Released(p) == {s.pte[p][v] : v \in Pages} \ {None}
sys_exit(q) ==
  /\ Runs /\ cur # Init1 /\ state[q] = "live" /\ q # cur
  /\ state' = [state EXCEPT ![cur] = "zombie"]
  /\ s' = Forget([s EXCEPT !.used = @ \ Released(cur), !.pte[cur] = NoMap,
                           !.bits[cur] = {}, !.tlb = NoTlb])
  /\ held' = [held EXCEPT ![cur] = {}]
  /\ cur' = q
  /\ UNCHANGED <<tainted, panic>>

\* The parent's wait frees the task_struct.
sys_wait(p) ==
  /\ Runs /\ state[p] = "zombie"
  /\ state' = [state EXCEPT ![p] = "unused"]
  /\ UNCHANGED <<cur, s, held, tainted, panic>>

Next ==
  \/ \E n \in 1..MaxLarge : sys_malloc_large(n)
  \/ sys_malloc_small
  \/ \E b \in held[cur] : sys_free(b)
  \/ \E n \in 1..MaxSegment : sys_execv(n)
  \/ \E p \in Procs : sys_fork(p) \/ schedule(p) \/ sys_exit(p) \/ sys_wait(p)

Spec == Init /\ [][Next]_vars

-----------------------------------------------------------------------------
(* Properties.                                                             *)

Live == {p \in Procs : state[p] = "live"}
Mappings == {m \in Live \X Pages : s.pte[m[1]][m[2]] # None}

\* The pool's bitmap is exact: a frame is taken when one page of one process
\* is mapped to it and never by two, through malloc, free, fork and exit
\* (memory.c:122-173, 333-400; fork.c:35-65; wait_exit.c:22-41).
FrameOwnedOnce ==
  panic = "no" =>
    /\ s.used = {s.pte[m[1]][m[2]] : m \in Mappings}
    /\ \A m, n \in Mappings : s.pte[m[1]][m[2]] = s.pte[n[1]][n[2]] => m = n

\* The address bitmap and the page table agree: what vaddr_get finds free can
\* be mapped (memory.c:81-106, 133-152, 352-367).
BitsMatchTable ==
  panic = "no" => \A p \in Live : s.bits[p] = {v \in Pages : s.pte[p][v] # None}

\* Pool, address bitmap and page tables are in step over any sequence of calls.
PagesExact == FrameOwnedOnce /\ BitsMatchTable

\* The heap of a process that neither forked with a heap nor met a stale
\* translation is exact: the walk along the free list finds every block of its
\* arenas that the process does not hold and nothing else, both ways, and the
\* arena's count agrees (memory.c:259-331, 402-434).
ArenasOf(p) == {v \in Pages : s.pte[p][v] # None /\ s.page[s.pte[p][v]].desc # None}
FreeOf(p) == (UNION {BlocksOf(v) : v \in ArenasOf(p)}) \ held[p]
HeapExact ==
  panic = "no" /\ cur \notin tainted =>
    /\ Walk(s, cur) = FreeOf(cur)
    /\ \A b \in FreeOf(cur) : Follow(s, Follow(s, b, "next"), "prev") = b
    /\ \A v \in ArenasOf(cur) :
         s.page[s.pte[cur][v]].cnt = Cardinality(BlocksOf(v) \cap FreeOf(cur))

\* No assertion of the allocator fails and no address is invalid unless a
\* process was hit by one of the defects: a fork with a heap (fork.c:21), a
\* stale translation (memory.c:349), an execv with a heap, or one of a program
\* with more than one page (exec.c:70).
OnlyTaintedFail == panic \in {"assert", "fault"} => tainted # {}

\* bitmap_scan finds the lowest run of clear bits in the address bitmap of any
\* process, whatever has been taken and given back (bitmap.c:21-56).
ScanExact ==
  panic = "no" =>
    \A p \in Live, n \in 1..(MaxLarge + 1) : bitmap_scan(s.bits[p], n) = FirstRun(s.bits[p], n)
=============================================================================
