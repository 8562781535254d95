---------------------------- MODULE AbstractMap ----------------------------
(***************************************************************************)
(* What Map.h and HashTable.h promise their callers: a function from the   *)
(* keys present to their values.  insert of a key that is present only     *)
(* replaces its value; erase of one that is absent does nothing.           *)
(***************************************************************************)
CONSTANTS Keys, Values

VARIABLE map   \* its domain is the set of keys present

Init == map = [k \in {} |-> k]

Insert(k, v) == map' = [j \in DOMAIN map \cup {k} |-> IF j = k THEN v ELSE map[j]]

Erase(k) == map' = [j \in DOMAIN map \ {k} |-> map[j]]

Next == \E k \in Keys : Erase(k) \/ \E v \in Values : Insert(k, v)

Spec == Init /\ [][Next]_map
=============================================================================
