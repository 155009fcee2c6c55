-------------------------------- MODULE List --------------------------------
(***************************************************************************)
(* The lists of lib/kernel/list.c as sequences, head first.  An element    *)
(* stands for the node embedded in it.                                     *)
(***************************************************************************)
EXTENDS Naturals, Sequences, Functions

list_push(s, t)   == <<t>> \o s
list_append(s, t) == Append(s, t)
elem_find(s, t)   == t \in Range(s)

\* The node of t is unlinked; t is in the list.
list_remove(s, t) ==
  LET i == CHOOSE k \in DOMAIN s : s[k] = t
  IN [k \in 1..(Len(s) - 1) |-> IF k < i THEN s[k] ELSE s[k + 1]]

\* The first element for which func returns true, S being those for which it
\* does; there is one.
list_traversal(s, S) ==
  LET i == CHOOSE k \in DOMAIN s : s[k] \in S /\ \A j \in 1..(k - 1) : s[j] \notin S
  IN s[i]
=============================================================================
