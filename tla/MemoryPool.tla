----------------------------- MODULE MemoryPool -----------------------------
(***************************************************************************)
(* MemoryPool.h: blocks that are made once and then recycled through a     *)
(* LockFreeStack.  The free list is AtomicStack, which LockFreeStack       *)
(* implements; a pop or push of it and each interlocked counter is a step  *)
(* of its own.  The blocks not made yet are nobody's.                      *)
(***************************************************************************)
EXTENDS Naturals, Sequences, FiniteSets

CONSTANTS Threads,
          Blocks,      \* the addresses `new PoolNode` may return
          Null,        \* nullptr
          MaxInUse     \* bound: blocks the callers hold or ask for at a time

ASSUME PoolAssumption == /\ Null \notin Blocks
                         /\ IsFiniteSet(Threads) /\ Threads # {}
                         /\ MaxInUse \in Nat

VARIABLES content, owned, call,     \* m_freeList
          pc, node,                 \* each thread: where it is, its local node
          made,                     \* blocks new has returned
          held,                     \* blocks in the hands of the callers
          allocCount, useCount

freeList == <<content, owned, call>>
vars == <<content, owned, call, pc, node, made, held, allocCount, useCount>>

FreeList == INSTANCE AtomicStack WITH Nodes <- Blocks

Init == /\ FreeList!Init
        /\ pc = [t \in Threads |-> "idle"]
        /\ node = [t \in Threads |-> Null]
        /\ made = {} /\ held = {}
        /\ allocCount = 0 /\ useCount = 0

Goto(t, label, n) == pc' = [pc EXCEPT ![t] = label] /\ node' = [node EXCEPT ![t] = n]

Allocating == {t \in Threads : pc[t] \in {"pop", "miss", "new", "count", "use"}}

-----------------------------------------------------------------------------
(* alloc *)

Alloc(t) == /\ pc[t] = "idle"
            /\ Cardinality(held) + Cardinality(Allocating) < MaxInUse
            /\ FreeList!InvokePop(t)
            /\ Goto(t, "pop", Null)
            /\ UNCHANGED <<made, held, allocCount, useCount>>

AllocReuse(t) == /\ pc[t] = "pop"
                 /\ FreeList!DoPop(t)
                 /\ Goto(t, "use", content[Len(content)])
                 /\ UNCHANGED <<made, held, allocCount, useCount>>

AllocMiss(t) == /\ pc[t] = "pop"
                /\ FreeList!DoPopEmpty(t)
                /\ Goto(t, "miss", Null)
                /\ UNCHANGED <<made, held, allocCount, useCount>>

AllocNull(t) == /\ pc[t] = "miss"
                /\ FreeList!ReturnEmpty(t)
                /\ Goto(t, "new", Null)
                /\ UNCHANGED <<made, held, allocCount, useCount>>

AllocNew(t, b) == /\ pc[t] = "new"
                  /\ b \notin made
                  /\ made' = made \cup {b}
                  /\ Goto(t, "count", b)
                  /\ UNCHANGED <<freeList, held, allocCount, useCount>>

(* Mutant: a new block is not counted. *)
AllocUncounted(t) == /\ pc[t] = "count"
                     /\ Goto(t, "use", node[t])
                     /\ UNCHANGED <<freeList, made, held, allocCount, useCount>>

AllocCount(t) == /\ pc[t] = "count"
                 /\ allocCount' = allocCount + 1
                 /\ Goto(t, "use", node[t])
                 /\ UNCHANGED <<freeList, made, held, useCount>>

AllocUse(t) == /\ pc[t] = "use"
               /\ useCount' = useCount + 1
               /\ held' = held \cup {node[t]}
               /\ Goto(t, "idle", Null)
               /\ UNCHANGED <<freeList, made, allocCount>>

-----------------------------------------------------------------------------
(* free, of a block any thread may have allocated *)

(* Mutant: the block is still in its holder's hands. *)
FreeKeeps(t, b) == /\ pc[t] = "idle"
                   /\ b \in held
                   /\ useCount' = useCount - 1
                   /\ Goto(t, "push", b)
                   /\ UNCHANGED <<freeList, made, held, allocCount>>

Free(t, b) == /\ pc[t] = "idle"
              /\ b \in held
              /\ held' = held \ {b}
              /\ useCount' = useCount - 1
              /\ Goto(t, "push", b)
              /\ UNCHANGED <<freeList, made, allocCount>>

(* Mutant: the block does not go back to the free list. *)
FreeLeaks(t) == /\ pc[t] = "push"
                /\ Goto(t, "idle", Null)
                /\ UNCHANGED <<freeList, made, held, allocCount, useCount>>

FreePush(t) == /\ pc[t] = "push"
               /\ FreeList!InvokePush(t, node[t])
               /\ Goto(t, "pushing", node[t])
               /\ UNCHANGED <<made, held, allocCount, useCount>>

FreeDone(t) == /\ pc[t] = "pushing"
               /\ FreeList!DoPush(t)
               /\ Goto(t, "idle", Null)
               /\ UNCHANGED <<made, held, allocCount, useCount>>

-----------------------------------------------------------------------------

Next == \E t \in Threads :
          \/ Alloc(t) \/ AllocReuse(t) \/ AllocMiss(t) \/ AllocNull(t)
          \/ AllocCount(t) \/ AllocUse(t) \/ FreePush(t) \/ FreeDone(t)
          \/ \E b \in Blocks : AllocNew(t, b) \/ Free(t, b)

Spec == Init /\ [][Next]_vars

-----------------------------------------------------------------------------
(* Properties *)

Stacked == {content[i] : i \in 1..Len(content)}
Moving == {t \in Threads : pc[t] \in {"count", "use", "push", "pushing"}}

(* A block alloc returned belongs to one caller until it is freed: it is   *)
(* not in the free list, no other call has it in hand, and every block     *)
(* ever made is free, held, or on its way.                                 *)
OneHolder == /\ Stacked \cap held = {}
             /\ \A t \in Moving : node[t] \notin held \cup Stacked
             /\ \A t, u \in Moving : node[t] = node[u] => t = u
             /\ made = Stacked \cup held \cup {node[t] : t \in Moving}

(* The counters: blocks in use never outnumber the blocks made, at any     *)
(* moment another thread may look, and both are exact between calls.       *)
CountersOK == /\ useCount = Cardinality(held)
              /\ useCount <= allocCount
              /\ allocCount + Cardinality({t \in Threads : pc[t] = "count"}) = Cardinality(made)

(* The pool reuses: it never makes more blocks than were asked for at the  *)
(* same time, but for those on their way back while a pop found nothing.   *)
BlocksBounded == Cardinality(made) <= MaxInUse + Cardinality(Threads) - 1
=============================================================================
