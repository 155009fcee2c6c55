----------------------------- MODULE MCDirTree -----------------------------
(* The directory tree on a small disk; names are interchangeable.          *)
EXTENDS DirTree, TLC

Symmetry == Permutations(Names)
=============================================================================
