---------------------------- MODULE MCFileTable ----------------------------
(* Symmetry for model checking FileTable: memory, files and all processes  *)
(* but the first are interchangeable.                                      *)
EXTENDS FileTable, TLC

Interchangeable ==
  Permutations(Mem) \cup Permutations(Files) \cup Permutations(Procs \ {First})
=============================================================================
