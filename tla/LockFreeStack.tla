--------------------------- MODULE LockFreeStack ---------------------------
(***************************************************************************)
(* LockFreeStack.h: the Treiber stack whose head is a pointer and a tag    *)
(* that one 128-bit compare-and-swap replaces together.  It chains the     *)
(* pushed objects through their own `next` field, so a node that is popped *)
(* and pushed again is the same address: the tag is what tells the two     *)
(* lives apart (the ABA comment of the header).                            *)
(*                                                                         *)
(* Every access to shared memory is a step of its own: the copy            *)
(* oldHead = m_head is two loads, of the pointer and of the tag, in either *)
(* order (the torn read the comment on push speaks of); the write of       *)
(* node->next, the read of oldHead.ptr->next and the CAS are one step each.*)
(*                                                                         *)
(* `owned` and `content` are history variables.  `owned` is the set of     *)
(* nodes in the hands of callers; a caller pushes a node it owns, as       *)
(* removeSession and MemoryPool::free do.  `content` is the stack a        *)
(* reader of the head and the next fields should find, the top last.       *)
(***************************************************************************)
EXTENDS Naturals, Sequences

CONSTANTS Threads,   \* the threads that call push and pop
          Nodes,     \* the objects chained through their next field
          Null,      \* nullptr
          MaxTag     \* bound: no call starts once the tag has reached MaxTag

ASSUME NullAssumption == Null \notin Nodes
ASSUME MaxTagAssumption == MaxTag \in Nat

VARIABLES headPtr,   \* m_head.ptr
          headTag,   \* m_head.tag
          next,      \* next[n]: the field of node n
          pc,        \* pc[t]: where thread t is
          node,      \* node[t]: push's argument
          loaded,    \* loaded[t]: the halves of oldHead already copied
          oldPtr,    \* oldPtr[t], oldTag[t]: oldHead
          oldTag,
          newPtr,    \* newPtr[t]: newHead.ptr
          owned,
          content

shared == <<headPtr, headTag, next>>
local  == <<pc, node, loaded, oldPtr, oldTag, newPtr>>
vars   == <<headPtr, headTag, next, pc, node, loaded, oldPtr, oldTag, newPtr,
            owned, content>>

Halves == {"ptr", "tag"}
NodeOrNull == Nodes \cup {Null}

Init == /\ headPtr = Null
        /\ headTag = 0
        /\ next \in [Nodes -> {Null}]
        /\ pc = [t \in Threads |-> "idle"]
        /\ node = [t \in Threads |-> Null]
        /\ loaded = [t \in Threads |-> {}]
        /\ oldPtr = [t \in Threads |-> Null]
        /\ oldTag = [t \in Threads |-> 0]
        /\ newPtr = [t \in Threads |-> Null]
        /\ owned = Nodes
        /\ content = <<>>

-----------------------------------------------------------------------------
(* The two halves of  oldHead = m_head. *)

LoadPtr(t) == /\ pc[t] \in {"push", "pop"}
              /\ "ptr" \notin loaded[t]
              /\ oldPtr' = [oldPtr EXCEPT ![t] = headPtr]
              /\ loaded' = [loaded EXCEPT ![t] = @ \cup {"ptr"}]
              /\ UNCHANGED <<shared, pc, node, oldTag, newPtr, owned, content>>

LoadTag(t) == /\ pc[t] \in {"push", "pop"}
              /\ "tag" \notin loaded[t]
              /\ oldTag' = [oldTag EXCEPT ![t] = headTag]
              /\ loaded' = [loaded EXCEPT ![t] = @ \cup {"tag"}]
              /\ UNCHANGED <<shared, pc, node, oldPtr, newPtr, owned, content>>

(* Mutant: a CAS of the pointer alone, without the tag. *)
PointerIsOld(t) == headPtr = oldPtr[t]

(* What cas compares: both halves of the head, at once. *)
HeadIsOld(t) == headPtr = oldPtr[t] /\ headTag = oldTag[t]

(* A call ends: its locals go out of scope. *)
Return(t) == /\ pc' = [pc EXCEPT ![t] = "idle"]
             /\ node' = [node EXCEPT ![t] = Null]
             /\ loaded' = [loaded EXCEPT ![t] = {}]
             /\ oldPtr' = [oldPtr EXCEPT ![t] = Null]
             /\ oldTag' = [oldTag EXCEPT ![t] = 0]
             /\ newPtr' = [newPtr EXCEPT ![t] = Null]

(* Mutant: the head is copied only once, before the loop. *)
RetryStale(t, label) == /\ ~HeadIsOld(t)
                        /\ pc' = [pc EXCEPT ![t] = label]
                        /\ UNCHANGED <<shared, node, loaded, oldPtr, oldTag, newPtr, owned, content>>

(* The CAS fails and the do-while loop starts over with a new copy. *)
Retry(t, label) == /\ ~HeadIsOld(t)
                   /\ pc' = [pc EXCEPT ![t] = label]
                   /\ loaded' = [loaded EXCEPT ![t] = {}]
                   /\ UNCHANGED <<shared, node, oldPtr, oldTag, newPtr, owned, content>>

(* Mutant: the tag is copied but not advanced. *)
SwingSameTag(t, ptr) == /\ HeadIsOld(t)
                        /\ headPtr' = ptr
                        /\ headTag' = oldTag[t]

(* The CAS succeeds: the head becomes ptr with the copied tag plus one. *)
Swing(t, ptr) == /\ HeadIsOld(t)
                 /\ headPtr' = ptr
                 /\ headTag' = oldTag[t] + 1

-----------------------------------------------------------------------------
(* push *)

BeginPush(t, n) == /\ pc[t] = "idle"
                   /\ headTag < MaxTag
                   /\ n \in owned
                   /\ owned' = owned \ {n}
                   /\ node' = [node EXCEPT ![t] = n]
                   /\ pc' = [pc EXCEPT ![t] = "push"]
                   /\ UNCHANGED <<shared, loaded, oldPtr, oldTag, newPtr, content>>

(* node->next = oldHead.ptr; newHead.ptr = node *)
Link(t) == /\ pc[t] = "push"
           /\ loaded[t] = Halves
           /\ next' = [next EXCEPT ![node[t]] = oldPtr[t]]
           /\ newPtr' = [newPtr EXCEPT ![t] = node[t]]
           /\ pc' = [pc EXCEPT ![t] = "pushCas"]
           /\ UNCHANGED <<headPtr, headTag, node, loaded, oldPtr, oldTag, owned, content>>

PushCas(t) == /\ pc[t] = "pushCas"
              /\ Swing(t, newPtr[t])
              /\ content' = Append(content, node[t])
              /\ Return(t)
              /\ UNCHANGED <<next, owned>>

PushRetry(t) == pc[t] = "pushCas" /\ Retry(t, "push")

-----------------------------------------------------------------------------
(* pop *)

BeginPop(t) == /\ pc[t] = "idle"
               /\ headTag < MaxTag
               /\ pc' = [pc EXCEPT ![t] = "pop"]
               /\ UNCHANGED <<shared, node, loaded, oldPtr, oldTag, newPtr, owned, content>>

(* if (oldHead.ptr == nullptr) return nullptr *)
PopEmpty(t) == /\ pc[t] = "pop"
               /\ loaded[t] = Halves
               /\ oldPtr[t] = Null
               /\ Return(t)
               /\ UNCHANGED <<shared, owned, content>>

(* newHead.ptr = oldHead.ptr->next *)
Follow(t) == /\ pc[t] = "pop"
             /\ loaded[t] = Halves
             /\ oldPtr[t] # Null
             /\ newPtr' = [newPtr EXCEPT ![t] = next[oldPtr[t]]]
             /\ pc' = [pc EXCEPT ![t] = "popCas"]
             /\ UNCHANGED <<shared, node, loaded, oldPtr, oldTag, owned, content>>

(* Mutant: pop returns the new head instead of the old one. *)
PopCasReturnsNew(t) == /\ pc[t] = "popCas"
                       /\ Swing(t, newPtr[t])
                       /\ content' = SubSeq(content, 1, Len(content) - 1)
                       /\ owned' = owned \cup {newPtr[t]}
                       /\ Return(t)
                       /\ UNCHANGED next

PopCas(t) == /\ pc[t] = "popCas"
             /\ Swing(t, newPtr[t])
             /\ content' = SubSeq(content, 1, Len(content) - 1)
             /\ owned' = owned \cup {oldPtr[t]}
             /\ Return(t)
             /\ UNCHANGED next

PopRetry(t) == pc[t] = "popCas" /\ Retry(t, "pop")

-----------------------------------------------------------------------------

(* A step of a call in progress. *)
Step(t) == \/ LoadPtr(t) \/ LoadTag(t)
           \/ Link(t) \/ PushCas(t) \/ PushRetry(t)
           \/ PopEmpty(t) \/ Follow(t) \/ PopCas(t) \/ PopRetry(t)

(* The bound is reached and every call has returned: nothing is left to do. *)
Terminating == /\ headTag >= MaxTag
               /\ \A t \in Threads : pc[t] = "idle"
               /\ UNCHANGED vars

Next == \/ \E t \in Threads : \/ \E n \in Nodes : BeginPush(t, n)
                              \/ BeginPop(t)
                              \/ Step(t)
        \/ Terminating

Spec == Init /\ [][Next]_vars

(* The scheduler runs some thread that is inside a call; it may neglect    *)
(* any particular one of them for ever.                                    *)
FairSpec == Spec /\ WF_vars(\E t \in Threads : Step(t))

-----------------------------------------------------------------------------
(* Properties *)

TypeOK == /\ headPtr \in NodeOrNull
          /\ headTag \in Nat
          /\ next \in [Nodes -> NodeOrNull]
          /\ pc \in [Threads -> {"idle", "push", "pushCas", "pop", "popCas"}]
          /\ node \in [Threads -> NodeOrNull]
          /\ loaded \in [Threads -> SUBSET Halves]
          /\ oldPtr \in [Threads -> NodeOrNull]
          /\ oldTag \in [Threads -> Nat]
          /\ newPtr \in [Threads -> NodeOrNull]
          /\ owned \in SUBSET Nodes
          /\ content \in Seq(Nodes)

Below(i) == IF i = 1 THEN Null ELSE content[i - 1]

(* The chain in memory is the stack: following next from m_head visits the *)
(* pushed nodes in LIFO order and ends in nullptr, whatever the            *)
(* interleaving of pushes and pops and however often a node is recycled.   *)
Represents == /\ headPtr = Below(Len(content) + 1)
              /\ \A i \in 1..Len(content) : next[content[i]] = Below(i)

Stacked == {content[i] : i \in 1..Len(content)}
Pushing(t) == pc[t] \in {"push", "pushCas"}

(* No node is lost, duplicated or handed to two callers: each is at one    *)
(* place of the stack, or in one push, or owned by the callers.            *)
Partition ==
  /\ \A i, j \in 1..Len(content) : content[i] = content[j] => i = j
  /\ Stacked \cap owned = {}
  /\ \A t \in Threads : Pushing(t) =>
        /\ node[t] \in Nodes \ (Stacked \cup owned)
        /\ \A u \in Threads : Pushing(u) /\ node[u] = node[t] => u = t
  /\ \A n \in Nodes : n \in Stacked \cup owned \/ \E t \in Threads : Pushing(t) /\ node[t] = n

(* What each thread's copy of the head still says about it, true of no     *)
(* property by itself but needed to carry them over a step: the copied tag *)
(* is never ahead of the head; a push about to CAS has linked its node to  *)
(* the pointer it copied; a pop about to CAS, if the head has not moved,   *)
(* knows the node below it.                                                *)
CopyOK(t) ==
  /\ pc[t] = "idle" => loaded[t] = {}
  /\ "tag" \in loaded[t] => oldTag[t] <= headTag
  /\ pc[t] \in {"pushCas", "popCas"} => loaded[t] = Halves
  /\ pc[t] = "pushCas" => newPtr[t] = node[t] /\ next[node[t]] = oldPtr[t]
  /\ pc[t] = "popCas" => /\ oldPtr[t] \in Nodes
                         /\ HeadIsOld(t) => newPtr[t] = next[oldPtr[t]]

IndInv == TypeOK /\ Represents /\ Partition /\ \A t \in Threads : CopyOK(t)

(* The tag identifies the head: it only grows, and the head never changes  *)
(* under an unchanged tag.  This is what makes the CAS of a head copied    *)
(* in two halves safe.                                                     *)
TagIdentifiesHead == [][ /\ headTag' >= headTag
                         /\ headTag' = headTag => headPtr' = headPtr ]_vars

(* push and pop are linearizable: every behaviour of the code, seen        *)
(* through this mapping, is a behaviour of AtomicStack.  A pop that copied *)
(* a null pointer took effect when it copied it.                           *)
Call(t) == CASE pc[t] = "idle" -> [op |-> "idle", arg |-> Null]
             [] Pushing(t) -> [op |-> "push", arg |-> node[t]]
             [] OTHER -> IF "ptr" \in loaded[t] /\ oldPtr[t] = Null
                         THEN [op |-> "empty", arg |-> Null]
                         ELSE [op |-> "pop", arg |-> Null]

Abstract == INSTANCE AtomicStack WITH call <- [t \in Threads |-> Call(t)]

Refinement == Abstract!Spec

(* Lock-freedom: if calls are pending, one of them returns, even when the  *)
(* scheduler never runs some thread stalled in the middle of its call.     *)
LockFreedom == \/ []<>(\A t \in Threads : pc[t] = "idle")
               \/ []<><<\E t \in Threads : pc[t] # "idle" /\ pc'[t] = "idle">>_vars
=============================================================================
