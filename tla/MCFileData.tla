----------------------------- MODULE MCFileData -----------------------------
(* Offsets for model checking FileData; descriptors are interchangeable.   *)
EXTENDS FileData

MCOffsets == {-1}
Interchangeable == Permutations(Fds)
=============================================================================
