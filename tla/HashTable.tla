----------------------------- MODULE HashTable -----------------------------
(***************************************************************************)
(* HashTable.h: chains of nodes, the newest first, in the bucket that the  *)
(* hash of the key names.  One call runs at a time, so a call is a step.   *)
(* The hash is any function: what the table promises does not depend on    *)
(* how FNV-1a spreads the keys, only on its giving the same answer twice.  *)
(***************************************************************************)
EXTENDS Integers, Sequences, FiniteSets, SequencesExt

CONSTANTS Keys, Values,
          Buckets,     \* the indices of m_buckets
          hashOf       \* hashOf[k]: the bucket of key k

HashAssumption == hashOf \in [Keys -> Buckets]

VARIABLES chains,   \* chains[b]: the nodes of bucket b, <<key, value>> each
          size      \* m_count

tableVars == <<chains, size>>

NotFound == 0

Init == /\ chains = [b \in Buckets |-> <<>>]
        /\ size = 0

Chain(k) == chains[hashOf[k]]

Positions(k) == {i \in DOMAIN Chain(k) : Chain(k)[i][1] = k}

Has(k) == Positions(k) # {}

(* Where the walk along the chain stops *)
Position(k) == CHOOSE i \in Positions(k) : \A j \in Positions(k) : i <= j

find(k) == IF Has(k) THEN Chain(k)[Position(k)][2] ELSE NotFound

InsertOverwrites(k, v) == /\ Has(k)
                          /\ chains' = [chains EXCEPT ![hashOf[k]][Position(k)] = <<k, v>>]
                          /\ UNCHANGED size

InsertLinks(k, v) == /\ ~Has(k)
                     /\ chains' = [chains EXCEPT ![hashOf[k]] = <<<<k, v>>>> \o @]
                     /\ size' = size + 1

insert(k, v) == InsertOverwrites(k, v) \/ InsertLinks(k, v)

(* Mutant: the bucket is made to begin after the erased node, as it is     *)
(* right only for the first node of a chain.                               *)
UnlinkFront(k) == /\ Has(k)
                  /\ chains' = [chains EXCEPT ![hashOf[k]] = SubSeq(@, Position(k) + 1, Len(@))]
                  /\ size' = size - 1

EraseUnlinks(k) == /\ Has(k)
                   /\ chains' = [chains EXCEPT ![hashOf[k]] = RemoveAt(@, Position(k))]
                   /\ size' = size - 1

EraseNothing(k) == ~Has(k) /\ UNCHANGED tableVars

erase(k) == EraseUnlinks(k) \/ EraseNothing(k)

Next == \E k \in Keys : erase(k) \/ \E v \in Values : insert(k, v)

Spec == Init /\ [][Next]_tableVars

-----------------------------------------------------------------------------
(* Properties *)

Present == {k \in Keys : Has(k)}

(* Every node is in the bucket of its key, no key has two, and the count   *)
(* is that of the nodes.                                                   *)
Chained ==
  /\ \A b \in Buckets : \A i, j \in DOMAIN chains[b] :
       /\ chains[b][i][1] \in Keys /\ hashOf[chains[b][i][1]] = b
       /\ chains[b][i][1] = chains[b][j][1] => i = j
  /\ size = Cardinality(Present)

(* What find answers is a map, whatever the collisions. *)
AsMap == INSTANCE AbstractMap WITH map <- [k \in Present |-> find(k)]
Refinement == AsMap!Spec
=============================================================================
