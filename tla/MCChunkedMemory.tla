-------------------------- MODULE MCChunkedMemory --------------------------
(* Rows, and writers, are interchangeable.                                  *)
EXTENDS ChunkedMemory, TLC
Symmetric == Permutations(Rows) \cup Permutations(Writers)
=============================================================================
