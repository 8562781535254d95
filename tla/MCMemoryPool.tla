---------------------------- MODULE MCMemoryPool ----------------------------
(* MemoryPool on small sets of threads and blocks. *)
EXTENDS MemoryPool, TLC

Symmetry == Permutations(Threads) \cup Permutations(Blocks)
=============================================================================
