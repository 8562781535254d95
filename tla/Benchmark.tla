----------------------------- MODULE Benchmark -----------------------------
(***************************************************************************)
(* Benchmark.cpp, runLockFreeStructureTests: the four tests of the         *)
(* containers.  Each makes its containers and threads and has joined and   *)
(* destroyed them before the next one starts, so a behaviour here is that  *)
(* of any one of them; the stack and the queue test share the names of     *)
(* their local variables.  In place of a test there may be a caller that   *)
(* uses one of the maps.                                                   *)
(***************************************************************************)
EXTENDS Integers, Sequences, FiniteSets

CONSTANTS Producers, Consumers, None, CountPerThread, Capacity,
          Keys, CallerKeys, Entries, Buckets, hashOf

ASSUME BenchmarkAssumption ==
  /\ CountPerThread \in Nat
  /\ Capacity \in Nat \ {0}
  /\ Producers \cap Consumers = {} /\ Consumers # {}
  /\ None \notin Producers \X Nat
  /\ IsFiniteSet(Keys) /\ Keys = 0..(Cardinality(Keys) - 1)
  /\ CallerKeys \subseteq Keys /\ \A e \in Entries : e[1] \in Keys
  /\ hashOf \in [Keys -> Buckets]

VARIABLES running,     \* the test: "stack", "queue" or "maps"
          content, owned, call, sent, state, producersDone, seen,
          container, phase, total, i, ok, wanted,
          tree, value, count, fix, chains, size

threadVars == <<content, owned, call, sent, state, producersDone, seen>>
mapVars == <<container, phase, total, i, ok, wanted, tree, value, count, fix, chains, size>>
vars == <<running, threadVars, mapVars>>

Stack == INSTANCE StackTest
Queue == INSTANCE QueueTest
Maps  == INSTANCE MapTest WITH content <- wanted

Counts == 0..Cardinality(Keys)

Init ==
  \/ /\ running = "stack"
     /\ Stack!Init /\ Maps!Fresh /\ Maps!Begin("map", "none", 0)
  \/ /\ running = "queue"
     /\ Queue!Init /\ owned = {} /\ Maps!Fresh /\ Maps!Begin("map", "none", 0)
  \/ /\ running = "maps"
     /\ Stack!Init /\ Maps!Fresh
     /\ \E c \in {"map", "table"} : \/ \E n \in Counts : Maps!Begin(c, "insert", n)
                                    \/ Maps!Begin(c, "caller", 0)

-----------------------------------------------------------------------------

(* A thread of the stack or the queue test *)
Producer(p) == /\ \/ running = "stack" /\ Stack!Producer(p)
                  \/ running = "queue" /\ Queue!Producer(p) /\ UNCHANGED owned
               /\ UNCHANGED <<running, mapVars>>

Consumer(c) == /\ \/ running = "stack" /\ Stack!Consumer(c)
                  \/ running = "queue" /\ Queue!Consumer(c) /\ UNCHANGED owned
               /\ UNCHANGED <<running, mapVars>>

Joins == /\ \/ running = "stack" /\ Stack!JoinProducers
            \/ running = "queue" /\ Queue!JoinProducers /\ UNCHANGED owned
         /\ UNCHANGED <<running, mapVars>>

UsesMap == /\ running = "maps"
           /\ Maps!Next
           /\ UNCHANGED <<running, threadVars>>

Ended == /\ \/ running = "stack" /\ Stack!Finished
            \/ running = "queue" /\ Queue!Finished
            \/ running = "maps" /\ Maps!Finished
         /\ UNCHANGED vars

Next == \/ \E p \in Producers : Producer(p)
        \/ \E c \in Consumers : Consumer(c)
        \/ Joins \/ UsesMap \/ Ended

Spec == Init /\ [][Next]_vars

(* The operating system runs every thread. *)
FairSpec == /\ Spec
            /\ \A p \in Producers : WF_vars(Producer(p))
            /\ \A c \in Consumers : WF_vars(Consumer(c))
            /\ WF_vars(Joins)

-----------------------------------------------------------------------------
(* Properties *)

(* Every node and every value comes out exactly once, though consumers     *)
(* stop as soon as a pop and a second look tell them that all is over.     *)
EverySeenOnce == /\ running = "stack" => Stack!EverySeenOnce
                 /\ running = "queue" => Queue!EverySeenOnce

(* Whatever the sequence of calls, a map finds what was inserted and not   *)
(* erased, in the middle of a rebalancing too, and the tests of both maps  *)
(* find what they expect, for up to as many keys as there are.             *)
Agrees == Maps!Agrees /\ Maps!Passes

(* The tree stays searchable, its count right, and red-black but for the   *)
(* node at which the rebalancing is.                                       *)
TreeSound == Maps!Map!Searchable /\ Maps!Map!RedBlack

(* The tests with threads end: neither retries nor second looks go on for  *)
(* ever.                                                                   *)
Terminates == /\ running = "stack" ~> Stack!Finished
              /\ running = "queue" ~> Queue!Finished
=============================================================================
