------------------------- MODULE MCSessionLifecycle -------------------------
(* SessionLifecycle with few threads, slots, connections and packets. *)
EXTENDS SessionLifecycle, TLC

Symmetry == Permutations(Workers)
=============================================================================
