-------------------------- MODULE MCLockFreeStack --------------------------
(* LockFreeStack on small sets of threads and nodes. *)
EXTENDS LockFreeStack, TLC

Symmetry == Permutations(Threads) \cup Permutations(Nodes)
=============================================================================
