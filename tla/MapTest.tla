------------------------------ MODULE MapTest ------------------------------
(***************************************************************************)
(* The two maps and who uses them: testMap and testHashTable of            *)
(* Benchmark.cpp, the same program with either container, and a caller     *)
(* that inserts and erases as it likes, as the server does with the map of *)
(* its sessions.                                                           *)
(*                                                                         *)
(* `content` is a history variable: the map the user of the container has  *)
(* in mind, on which every insert and erase does what AbstractMap says.    *)
(***************************************************************************)
EXTENDS Integers, FiniteSets

CONSTANTS Keys,        \* 0, 1, 2 ...
          CallerKeys,  \* what the caller inserts and erases
          Entries,     \* <<key, value>> pairs the caller inserts
          Buckets, hashOf

VARIABLES container,   \* "map", "table"
          phase,       \* of the test; "caller" when there is none
          total,       \* the test's count
          i,           \* its loop variable
          ok,          \* its verdict
          content,
          tree, value, count, fix,   \* the map
          chains, size               \* the hash table

user      == <<container, phase, total, i, ok, content>>
treeVars  == <<tree, value, count, fix>>
tableVars == <<chains, size>>
mapVars   == <<user, treeVars, tableVars>>

ValueOf(k) == k * 7 + 1

Values == {ValueOf(k) : k \in Keys} \cup {e[2] : e \in Entries}

Map    == INSTANCE RedBlackTree
Table  == INSTANCE HashTable
Wanted == INSTANCE AbstractMap WITH map <- content

(* Both containers are made empty, though a test has only one.             *)
Fresh == Map!Init /\ Table!Init /\ Wanted!Init

Begin(which, what, n) == /\ container = which /\ phase = what
                         /\ total = n /\ i = 0 /\ ok = TRUE

-----------------------------------------------------------------------------
(* The container *)

Insert(k, v) == /\ Wanted!Insert(k, v)
                /\ \/ container = "map"   /\ Map!insert(k, v)   /\ UNCHANGED tableVars
                   \/ container = "table" /\ Table!insert(k, v) /\ UNCHANGED treeVars

Erase(k) == /\ Wanted!Erase(k)
            /\ \/ container = "map"   /\ Map!erase(k)   /\ UNCHANGED tableVars
               \/ container = "table" /\ Table!erase(k) /\ UNCHANGED treeVars

(* The call of the map that is under way goes on. *)
MapGoesOn == Map!Fixup /\ UNCHANGED <<user, tableVars>>

Find(k)  == IF container = "map" THEN Map!find(k) ELSE Table!find(k)
getCount == IF container = "map" THEN count ELSE size
Returned == fix = Map!Idle

-----------------------------------------------------------------------------
(* The caller *)

Call == /\ phase = "caller"
        /\ \/ \E e \in Entries : Insert(e[1], e[2])
           \/ \E k \in CallerKeys : Erase(k)
        /\ UNCHANGED <<container, phase, total, i, ok>>

-----------------------------------------------------------------------------
(* testMap, testHashTable *)

TestInserts == /\ phase = "insert" /\ i < total
               /\ Insert(i, ValueOf(i))
               /\ i' = i + 1
               /\ UNCHANGED <<container, phase, total, ok>>

TestErases == /\ phase = "erase" /\ i < total
              /\ Erase(i)
              /\ i' = i + 2
              /\ UNCHANGED <<container, phase, total, ok>>

(* A loop ends, and the next begins; the count is compared in between. *)
Turns(from, to, verdict) == /\ phase = from /\ Returned
                            /\ phase' = to /\ i' = 0 /\ ok' = verdict
                            /\ UNCHANGED <<container, total, content, treeVars, tableVars>>

InsertsEnd == i = total /\ Turns("insert", "find", getCount = total)
FindsEnd   == (i = total \/ ~ok) /\ Turns("find", "erase", ok)
ErasesEnd  == /\ i >= total
              /\ Turns("erase", "findAgain",
                       ok /\ getCount = total - ((total + 1) \div 2))

Finds(in, verdict) == /\ phase = in /\ i < total /\ ok
                      /\ ok' = verdict
                      /\ i' = i + 1
                      /\ UNCHANGED <<container, phase, total, content, treeVars, tableVars>>

TestFinds == Finds("find", Find(i) = ValueOf(i))

TestFindsAgain ==
  Finds("findAgain", Find(i) = IF i % 2 = 0 THEN 0 ELSE ValueOf(i))

Finished == phase = "findAgain" /\ (i = total \/ ~ok)

Test == \/ TestInserts \/ InsertsEnd \/ TestFinds \/ FindsEnd
        \/ TestErases \/ ErasesEnd \/ TestFindsAgain

Next == MapGoesOn \/ Call \/ Test

-----------------------------------------------------------------------------
(* Properties *)

(* At every moment, in the middle of a rebalancing too, a search finds     *)
(* what the user has inserted and not erased, with its last value, and     *)
(* nothing else.                                                           *)
Agrees == \A k \in Keys : Find(k) = IF k \in DOMAIN content THEN content[k] ELSE 0

(* The test's verdict *)
Passes == ok
=============================================================================
