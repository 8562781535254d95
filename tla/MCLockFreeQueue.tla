-------------------------- MODULE MCLockFreeQueue --------------------------
(* LockFreeQueue on small sets of threads and values.                      *)
EXTENDS LockFreeQueue, TLC

Symmetry == Permutations(Threads) \cup Permutations(Values)
=============================================================================
