------------------------------- MODULE Bitmap -------------------------------
(***************************************************************************)
(* The search of lib/kernel/bitmap.c, as the loops of the code do it.  A   *)
(* bitmap is the set of its bits that are 1; the bits come in bytes.       *)
(***************************************************************************)
EXTENDS Integers, FiniteSets, FiniteSetsExt

CONSTANTS ByteBits,  \* bits of a byte: 8
          NBytes     \* btmp_bytes_len

NBits == ByteBits * NBytes
ByteOf(i) == (i * ByteBits)..(i * ByteBits + ByteBits - 1)

\* (Faulty variant: a bit that is taken does not end the run.)
RunLength_kept(set, bit, count) == IF bit \notin set THEN count + 1 ELSE count
RunLength(set, bit, count) == IF bit \notin set THEN count + 1 ELSE 0

\* One turn of the loop of the search: count clear bits have come in a row
\* before bit, and the loop ends when there are cnt.
ScanTurn(set, cnt, bit, x) ==
  LET count == RunLength(set, bit, x.count)
  IN IF x.found # -1 THEN x
     ELSE [count |-> count, found |-> IF count = cnt THEN bit - cnt + 1 ELSE -1]

\* The first byte that is not full (an assertion fails if all are), the first
\* clear bit in it, and from there on run by run.  The loop goes one bit past
\* the end: in a process's address bitmap that bit is clear, since the bitmap ends
\* within a zeroed page (process.c:63-66).
bitmap_scan(set, cnt) ==
  LET idx_byte == Min({i \in 0..(NBytes - 1) : ~(ByteOf(i) \subseteq set)})
      start == Min(ByteOf(idx_byte) \ set)
      loop[k \in 0..(NBits - start)] ==
        IF k = 0 THEN [count |-> 1, found |-> -1]
        ELSE ScanTurn(set, cnt, start + k, loop[k - 1])
  IN IF cnt = 1 THEN start ELSE loop[NBits - start].found

\* What the search is for: the lowest run of cnt clear bits, which may take in
\* the bit past the end, or -1.
FirstRun(set, cnt) ==
  LET last == IF cnt = 1 THEN NBits - 1 ELSE NBits
      runs == {i \in 0..(NBits - 1) : i + cnt - 1 <= last /\ (i..(i + cnt - 1)) \cap set = {}}
  IN IF runs = {} THEN -1 ELSE Min(runs)
=============================================================================
