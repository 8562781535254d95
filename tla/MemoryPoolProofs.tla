-------------------------- MODULE MemoryPoolProofs --------------------------
(***************************************************************************)
(* Theorems about MemoryPool, for any threads, any blocks and any bound on *)
(* the blocks in use: every block ever made has exactly one holder, the    *)
(* counters count what they say, and few blocks are made.                  *)
(***************************************************************************)
EXTENDS MemoryPool, SequenceTheorems, FiniteSetTheorems, TLAPS

Labels == {"idle", "pop", "miss", "new", "count", "use", "push", "pushing"}

(* What the variables hold; a call that is moving a block has it in node.  *)
TypeOK == /\ content \in Seq(Blocks)
          /\ made \subseteq Blocks /\ held \subseteq Blocks
          /\ pc \in [Threads -> Labels]
          /\ node \in [Threads -> Blocks \cup {Null}]
          /\ DOMAIN call = Threads
          /\ \A t \in Moving : node[t] \in Blocks

(* No block is in the free list twice. *)
StackedOnce == \A i, j \in 1..Len(content) : content[i] = content[j] => i = j

(* A thread inside the stack pushes the block it has in hand. *)
CallMatches == \A t \in Threads : pc[t] = "pushing" => call[t] = FreeList!Push(node[t])

PoolInv == TypeOK /\ StackedOnce /\ CallMatches /\ OneHolder

-----------------------------------------------------------------------------
(* The free list *)

(* Taking the top of a list without repetitions leaves all the others.     *)
LEMMA TakeTop ==
  ASSUME TypeOK, StackedOnce, content # <<>>, content' = FreeList!Without(content)
  PROVE  /\ content' \in Seq(Blocks)
         /\ StackedOnce'
         /\ Stacked' = Stacked \ {content[Len(content)]}
         /\ content[Len(content)] \in Stacked
         /\ content[Len(content)] \in Blocks
  <1>1. content \in Seq(Blocks) /\ Len(content) \in Nat \ {0}
    BY SMT DEF TypeOK
  <1>2. /\ content' \in Seq(Blocks)
        /\ Len(content') = Len(content) - 1
        /\ \A i \in 1..(Len(content) - 1) : content'[i] = content[i]
    <2> DEFINE n == Len(content) - 1
    <2>1. n \in Nat /\ n <= Len(content) /\ n \in Int
      BY <1>1, SMT
    <2>2. \A i \in 1..n : content[i] \in Blocks
      BY <1>1, <2>1, SMT
    <2> HIDE DEF n
    <2>3. /\ SubSeq(content, 1, n) \in Seq(Blocks)
          /\ Len(SubSeq(content, 1, n)) = n
          /\ \A i \in 1..n : SubSeq(content, 1, n)[i] = content[i]
      BY <2>1, <2>2, SubSeqProperties
    <2> QED BY <2>3 DEF FreeList!Without, n
  <1>3. StackedOnce'
    BY <1>1, <1>2, SMT DEF StackedOnce
  <1>4. content[Len(content)] \in Stacked /\ content[Len(content)] \in Blocks
    BY <1>1, SMT DEF Stacked
  <1>5. ASSUME NEW b PROVE b \in Stacked' <=> b \in Stacked \ {content[Len(content)]}
    <2>1. b \in Stacked' <=> \E i \in 1..(Len(content) - 1) : content[i] = b
      BY <1>1, <1>2, SMT DEF Stacked
    <2>2. \A i \in 1..(Len(content) - 1) : content[i] # content[Len(content)]
      BY <1>1, SMT DEF StackedOnce
    <2>3. \A i \in 1..Len(content) : i = Len(content) \/ i \in 1..(Len(content) - 1)
      BY <1>1, SMT
    <2>4. \A i \in 1..(Len(content) - 1) : i \in 1..Len(content)
      BY <1>1, SMT
    <2> QED BY <2>1, <2>2, <2>3, <2>4, Zenon DEF Stacked
  <1> QED BY <1>2, <1>3, <1>4, <1>5

(* Appending a block that is not in the list. *)
LEMMA AddTop ==
  ASSUME TypeOK, StackedOnce, NEW b \in Blocks, b \notin Stacked,
         content' = Append(content, b)
  PROVE  /\ content' \in Seq(Blocks)
         /\ StackedOnce'
         /\ Stacked' = Stacked \cup {b}
  <1>1. content \in Seq(Blocks) /\ Len(content) \in Nat
    BY DEF TypeOK
  <1>2. /\ content' \in Seq(Blocks)
        /\ Len(content') = Len(content) + 1
        /\ \A i \in 1..Len(content) : content'[i] = content[i]
        /\ content'[Len(content) + 1] = b
    BY <1>1, SMT
  <1> QED BY <1>1, <1>2, SMT DEF Stacked, StackedOnce

-----------------------------------------------------------------------------
(* The steps *)

(* Every thread is idle and nothing has been made. *)
LEMMA PoolInit == Init => PoolInv
  BY DEF Init, FreeList!Init, PoolInv, TypeOK, StackedOnce, CallMatches, OneHolder,
         Stacked, Moving, Labels

(* A step of one thread that leaves the free list, the blocks made and     *)
(* those held alone, and moves no block into or out of the thread's hand.  *)
LEMMA QuietStep ==
  ASSUME PoolInv, NEW t \in Threads, NEW label \in Labels \ {"pushing"}, NEW n,
         Goto(t, label, n), UNCHANGED <<content, made, held>>,
         DOMAIN call' = Threads, \A u \in Threads \ {t} : call'[u] = call[u],
         \/ /\ t \notin Moving /\ label \notin {"count", "use", "push"} /\ n = Null
         \/ /\ t \in Moving /\ label \in {"count", "use", "push"} /\ n = node[t]
  PROVE  PoolInv'
  <1>1. TypeOK'
    BY DEF PoolInv, TypeOK, Goto, Moving, Labels
  <1>2. StackedOnce' /\ Stacked' = Stacked
    BY DEF PoolInv, StackedOnce, Stacked
  <1>3. CallMatches'
    BY DEF PoolInv, TypeOK, CallMatches, Goto
  <1>4. Moving' = Moving /\ \A u \in Moving : node'[u] = node[u]
    BY DEF PoolInv, TypeOK, Goto, Moving
  <1>5. OneHolder'
    BY <1>2, <1>4 DEF PoolInv, OneHolder
  <1> QED BY <1>1, <1>2, <1>3, <1>5 DEF PoolInv

(* What a thread's step leaves in its hands and in the others'.            *)
LEMMA Hands ==
  ASSUME TypeOK, NEW t \in Threads, NEW label \in Labels, NEW n \in Blocks \cup {Null},
         Goto(t, label, n)
  PROVE  /\ pc' \in [Threads -> Labels] /\ node' \in [Threads -> Blocks \cup {Null}]
         /\ pc'[t] = label /\ node'[t] = n
         /\ \A u \in Threads \ {t} : pc'[u] = pc[u] /\ node'[u] = node[u]
         /\ Moving' = IF label \in {"count", "use", "push", "pushing"} THEN Moving \cup {t}
                      ELSE Moving \ {t}
  <1>1. pc' = [pc EXCEPT ![t] = label] /\ node' = [node EXCEPT ![t] = n]
    BY DEF Goto
  <1> QED BY <1>1 DEF TypeOK, Moving

(* A block is made: nobody has it yet. *)
LEMMA NewStep == ASSUME PoolInv, NEW t \in Threads, NEW b \in Blocks, AllocNew(t, b)
                 PROVE  PoolInv'
  <1>1. /\ pc[t] = "new" /\ b \notin made /\ made' = made \cup {b} /\ Goto(t, "count", b)
        /\ UNCHANGED <<content, call, held>>
    BY DEF AllocNew, freeList
  <1>2. /\ pc' \in [Threads -> Labels] /\ node' \in [Threads -> Blocks \cup {Null}]
        /\ pc'[t] = "count" /\ node'[t] = b
        /\ \A u \in Threads \ {t} : pc'[u] = pc[u] /\ node'[u] = node[u]
        /\ Moving' = Moving \cup {t}
    BY <1>1, Hands DEF PoolInv, Labels
  <1>3. t \notin Moving
    BY <1>1 DEF Moving
  <1>4. Stacked' = Stacked /\ StackedOnce'
    BY <1>1 DEF Stacked, StackedOnce, PoolInv
  <1>5. TypeOK'
    <2>1. \A u \in Moving' : node'[u] \in Blocks
      BY <1>2 DEF PoolInv, TypeOK, Moving
    <2> QED BY <1>1, <1>2, <2>1 DEF PoolInv, TypeOK, Labels
  <1>6. CallMatches'
    BY <1>1, <1>2 DEF PoolInv, CallMatches
  <1>7. OneHolder'
    <2>1. b \notin held /\ b \notin Stacked /\ \A u \in Moving : node[u] # b
      BY <1>1 DEF PoolInv, OneHolder
    <2> QED BY <1>1, <1>2, <1>3, <1>4, <2>1 DEF PoolInv, OneHolder, Moving
  <1> QED BY <1>4, <1>5, <1>6, <1>7 DEF PoolInv

(* The block in hand goes to the caller. *)
LEMMA UseStep == ASSUME PoolInv, NEW t \in Threads, AllocUse(t) PROVE PoolInv'
  <1>1. /\ pc[t] = "use" /\ held' = held \cup {node[t]} /\ Goto(t, "idle", Null)
        /\ UNCHANGED <<content, call, made>>
    BY DEF AllocUse, freeList
  <1>2. /\ pc' \in [Threads -> Labels] /\ node' \in [Threads -> Blocks \cup {Null}]
        /\ pc'[t] = "idle"
        /\ \A u \in Threads \ {t} : pc'[u] = pc[u] /\ node'[u] = node[u]
        /\ Moving' = Moving \ {t}
    BY <1>1, Hands DEF PoolInv, Labels
  <1>3. t \in Moving /\ node[t] \in Blocks
    BY <1>1 DEF PoolInv, TypeOK, Moving
  <1>4. Stacked' = Stacked /\ StackedOnce'
    BY <1>1 DEF Stacked, StackedOnce, PoolInv
  <1>5. TypeOK'
    BY <1>1, <1>2, <1>3 DEF PoolInv, TypeOK, Moving
  <1>6. CallMatches'
    BY <1>1, <1>2 DEF PoolInv, CallMatches
  <1>7. OneHolder'
    BY <1>1, <1>2, <1>3, <1>4 DEF PoolInv, OneHolder, Moving
  <1> QED BY <1>4, <1>5, <1>6, <1>7 DEF PoolInv

(* A caller gives its block up. *)
LEMMA FreeStep == ASSUME PoolInv, NEW t \in Threads, NEW b \in Blocks, Free(t, b)
                  PROVE  PoolInv'
  <1>1. /\ pc[t] = "idle" /\ b \in held /\ held' = held \ {b} /\ Goto(t, "push", b)
        /\ UNCHANGED <<content, call, made>>
    BY DEF Free, freeList
  <1>2. /\ pc' \in [Threads -> Labels] /\ node' \in [Threads -> Blocks \cup {Null}]
        /\ pc'[t] = "push" /\ node'[t] = b
        /\ \A u \in Threads \ {t} : pc'[u] = pc[u] /\ node'[u] = node[u]
        /\ Moving' = Moving \cup {t}
    BY <1>1, Hands DEF PoolInv, Labels
  <1>3. t \notin Moving
    BY <1>1 DEF Moving
  <1>4. Stacked' = Stacked /\ StackedOnce'
    BY <1>1 DEF Stacked, StackedOnce, PoolInv
  <1>5. TypeOK'
    <2>1. \A u \in Moving' : node'[u] \in Blocks
      BY <1>2 DEF PoolInv, TypeOK, Moving
    <2> QED BY <1>1, <1>2, <2>1 DEF PoolInv, TypeOK, Labels
  <1>6. CallMatches'
    BY <1>1, <1>2 DEF PoolInv, CallMatches
  <1>7. OneHolder'
    <2>1. b \notin Stacked /\ \A u \in Moving : node[u] # b
      BY <1>1 DEF PoolInv, OneHolder
    <2> QED BY <1>1, <1>2, <1>3, <1>4, <2>1 DEF PoolInv, OneHolder, Moving
  <1> QED BY <1>4, <1>5, <1>6, <1>7 DEF PoolInv

(* A block comes from the top of the free list. *)
LEMMA ReuseStep == ASSUME PoolInv, NEW t \in Threads, AllocReuse(t) PROVE PoolInv'
  <1> DEFINE top == content[Len(content)]
  <1>1. /\ pc[t] = "pop" /\ content # <<>> /\ content' = FreeList!Without(content)
        /\ DOMAIN call' = DOMAIN call /\ \A u \in Threads \ {t} : call'[u] = call[u]
        /\ Goto(t, "use", top) /\ UNCHANGED <<made, held>>
    BY DEF AllocReuse, FreeList!DoPop, PoolInv, TypeOK
  <1>2. /\ content' \in Seq(Blocks) /\ StackedOnce' /\ Stacked' = Stacked \ {top}
        /\ top \in Stacked /\ top \in Blocks
    BY <1>1, TakeTop DEF PoolInv
  <1> HIDE DEF top
  <1>3. /\ pc' \in [Threads -> Labels] /\ node' \in [Threads -> Blocks \cup {Null}]
        /\ pc'[t] = "use" /\ node'[t] = top
        /\ \A u \in Threads \ {t} : pc'[u] = pc[u] /\ node'[u] = node[u]
        /\ Moving' = Moving \cup {t}
    BY <1>1, <1>2, Hands DEF PoolInv, Labels
  <1>4. t \notin Moving
    BY <1>1 DEF Moving
  <1>5. TypeOK'
    <2>1. \A u \in Moving' : node'[u] \in Blocks
      BY <1>2, <1>3 DEF PoolInv, TypeOK, Moving
    <2> QED BY <1>1, <1>2, <1>3, <2>1 DEF PoolInv, TypeOK
  <1>6. CallMatches'
    BY <1>1, <1>3 DEF PoolInv, CallMatches
  <1>7. OneHolder'
    <2>1. top \notin held /\ \A u \in Moving : node[u] # top
      BY <1>2 DEF PoolInv, OneHolder
    <2>2. {node'[u] : u \in Moving'} = {node[u] : u \in Moving} \cup {top}
      BY <1>3, <1>4 DEF Moving
    <2>3. Stacked' \cup {top} = Stacked
      BY <1>2
    <2>4. \A u \in Moving' : node'[u] \notin held' \cup Stacked'
      BY <1>1, <1>2, <1>3, <1>4, <2>1 DEF PoolInv, OneHolder, Moving
    <2>5. \A u, v \in Moving' : node'[u] = node'[v] => u = v
      BY <1>1, <1>2, <1>3, <1>4, <2>1 DEF PoolInv, OneHolder, Moving
    <2> QED BY <1>1, <1>2, <2>2, <2>3, <2>4, <2>5 DEF PoolInv, OneHolder
  <1> QED BY <1>2, <1>5, <1>6, <1>7 DEF PoolInv

(* free hands its block to the stack. *)
LEMMA PushStep == ASSUME PoolInv, NEW t \in Threads, FreePush(t) PROVE PoolInv'
  <1>1. /\ pc[t] = "push" /\ call' = [call EXCEPT ![t] = FreeList!Push(node[t])]
        /\ Goto(t, "pushing", node[t]) /\ UNCHANGED <<content, made, held>>
    BY DEF FreePush, FreeList!InvokePush
  <1>2. t \in Moving /\ node[t] \in Blocks
    BY <1>1 DEF PoolInv, TypeOK, Moving
  <1>3. /\ pc' \in [Threads -> Labels] /\ node' \in [Threads -> Blocks \cup {Null}]
        /\ pc'[t] = "pushing" /\ node'[t] = node[t]
        /\ \A u \in Threads \ {t} : pc'[u] = pc[u] /\ node'[u] = node[u]
        /\ Moving' = Moving \cup {t}
    BY <1>1, <1>2, Hands DEF PoolInv, Labels
  <1>4. Moving' = Moving /\ \A u \in Threads : node'[u] = node[u]
    BY <1>2, <1>3
  <1>5. Stacked' = Stacked /\ StackedOnce'
    BY <1>1 DEF Stacked, StackedOnce, PoolInv
  <1>6. /\ DOMAIN call' = Threads /\ call'[t] = FreeList!Push(node[t])
        /\ \A u \in Threads \ {t} : call'[u] = call[u]
    BY <1>1 DEF PoolInv, TypeOK
  <1>7. TypeOK'
    <2>1. \A u \in Moving' : node'[u] \in Blocks
      BY <1>4 DEF PoolInv, TypeOK, Moving
    <2> QED BY <1>1, <1>3, <1>6, <2>1 DEF PoolInv, TypeOK
  <1>8. CallMatches'
    <2>1. ASSUME NEW u \in Threads, pc'[u] = "pushing"
          PROVE  call'[u] = FreeList!Push(node'[u])
      <3>1. CASE u = t
        BY <1>3, <1>6, <3>1
      <3>2. CASE u # t
        BY <1>3, <1>6, <2>1, <3>2 DEF PoolInv, CallMatches
      <3> QED BY <3>1, <3>2
    <2> QED BY <2>1 DEF CallMatches
  <1>9. OneHolder'
    BY <1>1, <1>4, <1>5 DEF PoolInv, OneHolder, Moving
  <1> QED BY <1>5, <1>7, <1>8, <1>9 DEF PoolInv

(* The stack has taken the block. *)
LEMMA DoneStep == ASSUME PoolInv, NEW t \in Threads, FreeDone(t) PROVE PoolInv'
  <1> DEFINE b == node[t]
  <1>1. /\ pc[t] = "pushing" /\ Goto(t, "idle", Null) /\ UNCHANGED <<made, held>>
        /\ DOMAIN call' = DOMAIN call /\ \A u \in Threads \ {t} : call'[u] = call[u]
        /\ \E n \in Blocks : call[t] = FreeList!Push(n) /\ content' = Append(content, n)
    BY DEF FreeDone, FreeList!DoPush, PoolInv, TypeOK
  <1>2. t \in Moving /\ b \in Blocks /\ b \notin Stacked \cup held
    BY <1>1 DEF PoolInv, TypeOK, OneHolder, Moving
  <1>3. content' = Append(content, b)
    <2>1. call[t] = FreeList!Push(b)
      BY <1>1 DEF PoolInv, CallMatches
    <2>2. \A n : FreeList!Push(n) = FreeList!Push(b) => n = b
      BY DEF FreeList!Push
    <2> QED BY <1>1, <2>1, <2>2
  <1> HIDE DEF b
  <1>4. content' \in Seq(Blocks) /\ StackedOnce' /\ Stacked' = Stacked \cup {b}
    BY <1>2, <1>3, AddTop DEF PoolInv
  <1>5. /\ pc' \in [Threads -> Labels] /\ node' \in [Threads -> Blocks \cup {Null}]
        /\ pc'[t] = "idle"
        /\ \A u \in Threads \ {t} : pc'[u] = pc[u] /\ node'[u] = node[u]
        /\ Moving' = Moving \ {t}
    BY <1>1, Hands DEF PoolInv, Labels
  <1>6. TypeOK'
    <2>1. \A u \in Moving' : node'[u] \in Blocks
      BY <1>5 DEF PoolInv, TypeOK, Moving
    <2> QED BY <1>1, <1>4, <1>5, <2>1 DEF PoolInv, TypeOK
  <1>7. CallMatches'
    BY <1>1, <1>5 DEF PoolInv, CallMatches
  <1>8. OneHolder'
    <2>1. {node[u] : u \in Moving} = {node'[u] : u \in Moving'} \cup {b}
      BY <1>2, <1>5 DEF Moving, b
    <2>2. \A u \in Moving' : node'[u] # b
      BY <1>2, <1>5 DEF PoolInv, OneHolder, Moving, b
    <2>3. \A u \in Moving' : node'[u] \notin held' \cup Stacked'
      BY <1>1, <1>4, <1>5, <2>2 DEF PoolInv, OneHolder, Moving
    <2>4. \A u, v \in Moving' : node'[u] = node'[v] => u = v
      BY <1>5 DEF PoolInv, OneHolder, Moving
    <2> QED BY <1>1, <1>2, <1>4, <2>1, <2>3, <2>4 DEF PoolInv, OneHolder
  <1> QED BY <1>4, <1>6, <1>7, <1>8 DEF PoolInv

-----------------------------------------------------------------------------
(* The theorems *)

(* Every step of the pool keeps each block in one place: the steps above,  *)
(* and those that move none.                                               *)
LEMMA PoolNext == PoolInv /\ [Next]_vars => PoolInv'
  <1> SUFFICES ASSUME PoolInv, [Next]_vars PROVE PoolInv'
    OBVIOUS
  <1>1. CASE UNCHANGED vars
    BY <1>1 DEF vars, PoolInv, TypeOK, StackedOnce, CallMatches, OneHolder, Stacked, Moving
  <1>2. ASSUME NEW t \in Threads, Alloc(t) PROVE PoolInv'
    <2>1. /\ pc[t] = "idle" /\ Goto(t, "pop", Null) /\ UNCHANGED <<content, made, held>>
          /\ DOMAIN call' = Threads /\ \A u \in Threads \ {t} : call'[u] = call[u]
      BY <1>2 DEF Alloc, FreeList!InvokePop, PoolInv, TypeOK
    <2>2. t \notin Moving
      BY <2>1 DEF Moving
    <2> QED BY <2>1, <2>2, QuietStep DEF Labels
  <1>3. ASSUME NEW t \in Threads, AllocMiss(t) PROVE PoolInv'
    <2>1. /\ pc[t] = "pop" /\ Goto(t, "miss", Null) /\ UNCHANGED <<content, made, held>>
          /\ DOMAIN call' = Threads /\ \A u \in Threads \ {t} : call'[u] = call[u]
      BY <1>3 DEF AllocMiss, FreeList!DoPopEmpty, PoolInv, TypeOK
    <2>2. t \notin Moving
      BY <2>1 DEF Moving
    <2> QED BY <2>1, <2>2, QuietStep DEF Labels
  <1>4. ASSUME NEW t \in Threads, AllocNull(t) PROVE PoolInv'
    <2>1. /\ pc[t] = "miss" /\ Goto(t, "new", Null) /\ UNCHANGED <<content, made, held>>
          /\ DOMAIN call' = Threads /\ \A u \in Threads \ {t} : call'[u] = call[u]
      BY <1>4 DEF AllocNull, FreeList!ReturnEmpty, PoolInv, TypeOK
    <2>2. t \notin Moving
      BY <2>1 DEF Moving
    <2> QED BY <2>1, <2>2, QuietStep DEF Labels
  <1>5. ASSUME NEW t \in Threads, AllocCount(t) PROVE PoolInv'
    <2>1. /\ pc[t] = "count" /\ Goto(t, "use", node[t])
          /\ UNCHANGED <<content, made, held, call>>
      BY <1>5 DEF AllocCount, freeList
    <2>2. t \in Moving
      BY <2>1 DEF Moving
    <2>3. DOMAIN call' = Threads /\ \A u \in Threads \ {t} : call'[u] = call[u]
      BY <2>1 DEF PoolInv, TypeOK
    <2> QED BY <2>1, <2>2, <2>3, QuietStep DEF Labels
  <1>6. ASSUME NEW t \in Threads,
               \/ AllocReuse(t) \/ AllocUse(t) \/ FreePush(t) \/ FreeDone(t)
               \/ \E b \in Blocks : AllocNew(t, b) \/ Free(t, b)
        PROVE  PoolInv'
    BY <1>6, ReuseStep, UseStep, PushStep, DoneStep, NewStep, FreeStep
  <1> QED BY <1>1, <1>2, <1>3, <1>4, <1>5, <1>6 DEF Next

(* A block the pool gives out is nobody else's until it is freed, and      *)
(* none is lost: alloc and free, called from any thread.                   *)
THEOREM BlockHasOneHolder == Spec => []OneHolder
  <1>1. PoolInv => OneHolder
    BY DEF PoolInv
  <1> QED BY PoolInit, PoolNext, <1>1, PTL DEF Spec

-----------------------------------------------------------------------------
(* The counters *)

At(labels) == {t \in Threads : pc[t] \in labels}
One(b) == IF b THEN 1 ELSE 0

Counting == At({"count"})
Missed == At({"miss", "new"})        \* found the free list empty, will make a block
Returning == At({"push", "pushing"})

(* The counters are exact.  alloc calls and held blocks stay within the    *)
(* bound the callers keep; and a call that found the list empty still has  *)
(* room for the block it is going to make.                                 *)
Counts == /\ IsFiniteSet(made) /\ allocCount \in Nat
          /\ useCount = Cardinality(held)
          /\ allocCount + Cardinality(Counting) = Cardinality(made)
          /\ Cardinality(held) + Cardinality(Allocating) <= MaxInUse
          /\ Cardinality(made) + Cardinality(Missed) <= MaxInUse + Cardinality(Threads) - 1

CountInv == PoolInv /\ Counts

(* A step of one thread changes a count of threads by that thread alone.   *)
LEMMA MoveOne ==
  ASSUME NEW L, NEW t \in Threads, NEW label, NEW n,
         pc \in [Threads -> Labels], Goto(t, label, n)
  PROVE  /\ Cardinality(At(L)) \in Nat /\ Cardinality(At(L))' \in Nat
         /\ Cardinality(At(L))' = Cardinality(At(L)) + One(label \in L) - One(pc[t] \in L)
  <1> DEFINE A == At(L)
             B == At(L)'
             C == At(L) \ {t}
  <1>1. IsFiniteSet(A) /\ Cardinality(A) \in Nat
    BY PoolAssumption, FS_Subset, FS_CardinalityType DEF At
  <1>2. /\ IsFiniteSet(C) /\ Cardinality(C) \in Nat
        /\ Cardinality(C) = IF t \in A THEN Cardinality(A) - 1 ELSE Cardinality(A)
    BY <1>1, FS_RemoveElement, FS_CardinalityType
  <1>3. /\ t \in A <=> pc[t] \in L
        /\ B = IF label \in L THEN C \cup {t} ELSE C
        /\ t \notin C
    BY DEF At, Goto
  <1>4. Cardinality(C \cup {t}) = Cardinality(C) + 1
    BY <1>2, <1>3, FS_AddElement
  <1>5. Cardinality(B) \in Nat /\ Cardinality(B) = Cardinality(C) + One(label \in L)
    BY <1>2, <1>3, <1>4 DEF One
  <1> HIDE DEF A, B, C
  <1>6. Cardinality(B) = Cardinality(A) + One(label \in L) - One(pc[t] \in L)
    BY <1>1, <1>2, <1>3, <1>5 DEF One
  <1> QED BY <1>1, <1>5, <1>6 DEF A, B

(* The blocks in the hands of some of the moving threads: one each.        *)
LEMMA InHand ==
  ASSUME OneHolder, NEW S \in SUBSET Moving
  PROVE  /\ IsFiniteSet({node[t] : t \in S}) /\ IsFiniteSet(S)
         /\ Cardinality({node[t] : t \in S}) = Cardinality(S)
  <1> DEFINE T == {node[t] : t \in S}
             f == [t \in S |-> node[t]]
  <1>1. IsFiniteSet(S)
    BY PoolAssumption, FS_Subset DEF Moving
  <1>2. f \in [S -> T] /\ \A b \in T : \E t \in S : f[t] = b
    OBVIOUS
  <1>3. \A t, u \in S : f[t] = f[u] => t = u
    BY DEF OneHolder
  <1> HIDE DEF f, T
  <1>4. f \in Bijection(S, T)
    <2>1. IsInjective(f)
      BY <1>2, <1>3, Zenon DEF IsInjective
    <2> QED BY <1>2, <2>1, Zenon DEF Bijection, Injection, Surjection
  <1>5. ExistsBijection(S, T)
    BY <1>4 DEF ExistsBijection
  <1> QED BY <1>1, <1>5, FS_Bijection DEF T
(* Finite sets with nothing in common. *)
LEMMA Apart ==
  ASSUME NEW S, NEW T, IsFiniteSet(S), IsFiniteSet(T), S \cap T = {}
  PROVE  /\ IsFiniteSet(S \cup T) /\ Cardinality(S) \in Nat /\ Cardinality(T) \in Nat
         /\ Cardinality(S \cup T) = Cardinality(S) + Cardinality(T)
  <1>1. /\ IsFiniteSet(S \cup T)
        /\ Cardinality(S \cup T) = Cardinality(S) + Cardinality(T) - Cardinality(S \cap T)
    BY FS_Union
  <1>2. Cardinality(S \cap T) = 0
    BY FS_EmptySet
  <1>3. Cardinality(S) \in Nat /\ Cardinality(T) \in Nat
    BY FS_CardinalityType
  <1> QED BY <1>1, <1>2, <1>3

(* The blocks callers hold and those in hand are apart, and are made.      *)
LEMMA HeldAndInHand ==
  ASSUME CountInv, NEW S \in SUBSET Moving
  PROVE  /\ IsFiniteSet(held) /\ Cardinality(held) \in Nat
         /\ IsFiniteSet(S) /\ Cardinality(S) \in Nat /\ Cardinality(made) \in Nat
         /\ Cardinality(held) + Cardinality(S) <= Cardinality(made)
         /\ Stacked = {} /\ S = Moving
            => Cardinality(made) = Cardinality(held) + Cardinality(S)
  <1> DEFINE T == {node[t] : t \in S}
  <1>1. IsFiniteSet(made) /\ held \subseteq made /\ T \subseteq made /\ held \cap T = {}
    BY DEF CountInv, PoolInv, OneHolder, Counts
  <1>2. IsFiniteSet(T) /\ IsFiniteSet(S) /\ Cardinality(T) = Cardinality(S)
    BY InHand DEF CountInv, PoolInv
  <1>3. Stacked = {} /\ S = Moving => made = held \cup T
    BY DEF CountInv, PoolInv, OneHolder
  <1> HIDE DEF T
  <1>4. /\ IsFiniteSet(held) /\ Cardinality(held) \in Nat
        /\ Cardinality(S) \in Nat /\ Cardinality(made) \in Nat
    BY <1>1, <1>2, FS_Subset, FS_CardinalityType
  <1>5. Cardinality(held \cup T) = Cardinality(held) + Cardinality(S)
    BY <1>1, <1>2, <1>4, Apart
  <1>6. Cardinality(held \cup T) <= Cardinality(made)
    <2>1. held \cup T \in SUBSET made
      BY <1>1
    <2> QED BY <1>1, <2>1, FS_Subset
  <1> QED BY <1>2, <1>3, <1>4, <1>5, <1>6

(* When a pop finds the list empty, every block made is held or in hand,   *)
(* so there are few: each caller that moves one to it is an alloc call     *)
(* other than this, or one of the other threads returning its block.       *)
LEMMA EmptyList ==
  ASSUME CountInv, NEW t \in Threads, pc[t] = "pop", content = <<>>
  PROVE  Cardinality(made) + Cardinality(Missed) + 1 <= MaxInUse + Cardinality(Threads) - 1
  <1>1. Stacked = {}
    BY DEF Stacked
  <1>2. /\ IsFiniteSet(Moving) /\ Cardinality(Moving) \in Nat /\ Cardinality(held) \in Nat
        /\ Cardinality(made) = Cardinality(held) + Cardinality(Moving)
    BY <1>1, HeldAndInHand
  <1>3. /\ IsFiniteSet(Threads) /\ IsFiniteSet(Missed) /\ IsFiniteSet(Allocating)
        /\ IsFiniteSet(Returning)
    BY PoolAssumption, FS_Subset DEF Missed, Allocating, Returning, At
  <1>4. /\ Cardinality(Threads) \in Nat /\ Cardinality(Missed) \in Nat
        /\ Cardinality(Allocating) \in Nat /\ Cardinality(Returning) \in Nat
    BY <1>3, FS_CardinalityType
  <1>5. IsFiniteSet(Allocating \ {t}) /\ Cardinality(Allocating \ {t}) = Cardinality(Allocating) - 1
    <2>1. t \in Allocating
      BY DEF Allocating
    <2> QED BY <1>3, <2>1, FS_RemoveElement
  <1>6. Cardinality(Returning) <= Cardinality(Threads) - 1
    <2>1. Returning \in SUBSET (Threads \ {t})
      BY DEF Returning, At
    <2>2. IsFiniteSet(Threads \ {t}) /\ Cardinality(Threads \ {t}) = Cardinality(Threads) - 1
      BY <1>3, FS_RemoveElement
    <2> QED BY <2>1, <2>2, FS_Subset
  <1>7. Cardinality(Moving \cup Missed) = Cardinality(Moving) + Cardinality(Missed)
    <2>1. Moving \cap Missed = {}
      BY DEF Moving, Missed, At
    <2> QED BY <1>2, <1>3, <2>1, Apart
  <1>8. Cardinality(Moving \cup Missed) <= Cardinality(Allocating) - 1 + Cardinality(Returning)
    <2> DEFINE U == (Allocating \ {t}) \cup Returning
    <2>1. Moving \cup Missed \in SUBSET U
      BY DEF Moving, Missed, Allocating, Returning, At
    <2>2. (Allocating \ {t}) \cap Returning = {}
      BY DEF Allocating, Returning, At
    <2>3. IsFiniteSet(U) /\ Cardinality(U) = Cardinality(Allocating) - 1 + Cardinality(Returning)
      BY <1>3, <1>5, <2>2, Apart
    <2> HIDE DEF U
    <2> QED BY <2>1, <2>3, FS_Subset
  <1>9. Cardinality(held) + Cardinality(Allocating) <= MaxInUse
    BY DEF CountInv, Counts
  <1> QED
    <2> HIDE DEF Moving, Missed, Allocating, Returning
    <2> QED BY <1>2, <1>4, <1>6, <1>7, <1>8, <1>9, PoolAssumption, SMTT(30)

(* What a step of one thread does to the counts of threads.                *)
LEMMA Tally ==
  ASSUME PoolInv, NEW t \in Threads, NEW label, NEW n, Goto(t, label, n)
  PROVE  /\ Cardinality(Counting) \in Nat /\ Cardinality(Counting)' \in Nat
         /\ Cardinality(Missed) \in Nat /\ Cardinality(Missed)' \in Nat
         /\ Cardinality(Allocating) \in Nat /\ Cardinality(Allocating)' \in Nat
         /\ Cardinality(Counting)' = Cardinality(Counting)
              + One(label = "count") - One(pc[t] = "count")
         /\ Cardinality(Missed)' = Cardinality(Missed)
              + One(label \in {"miss", "new"}) - One(pc[t] \in {"miss", "new"})
         /\ Cardinality(Allocating)' = Cardinality(Allocating)
              + One(label \in {"pop", "miss", "new", "count", "use"})
              - One(pc[t] \in {"pop", "miss", "new", "count", "use"})
  <1>1. pc \in [Threads -> Labels]
    BY DEF PoolInv, TypeOK
  <1>2. Allocating = At({"pop", "miss", "new", "count", "use"})
    BY DEF Allocating, At
  <1>3. Allocating' = At({"pop", "miss", "new", "count", "use"})'
    BY DEF Allocating, At
  <1>4. /\ Cardinality(Counting) \in Nat /\ Cardinality(Counting)' \in Nat
        /\ Cardinality(Counting)' = Cardinality(Counting)
             + One(label \in {"count"}) - One(pc[t] \in {"count"})
    BY <1>1, MoveOne DEF Counting
  <1>5. /\ Cardinality(Missed) \in Nat /\ Cardinality(Missed)' \in Nat
        /\ Cardinality(Missed)' = Cardinality(Missed)
             + One(label \in {"miss", "new"}) - One(pc[t] \in {"miss", "new"})
    BY <1>1, MoveOne DEF Missed
  <1>6. /\ Cardinality(Allocating) \in Nat /\ Cardinality(Allocating)' \in Nat
        /\ Cardinality(Allocating)' = Cardinality(Allocating)
             + One(label \in {"pop", "miss", "new", "count", "use"})
             - One(pc[t] \in {"pop", "miss", "new", "count", "use"})
    BY <1>1, <1>2, <1>3, MoveOne
  <1>7. One(label \in {"count"}) = One(label = "count") /\ One(pc[t] \in {"count"}) = One(pc[t] = "count")
    BY DEF One
  <1> QED BY <1>4, <1>5, <1>6, <1>7
(* Nothing is made, held or called. *)
LEMMA CountInit == Init => Counts
  <1> SUFFICES ASSUME Init PROVE Counts
    OBVIOUS
  <1>1. made = {} /\ held = {} /\ Counting = {} /\ Missed = {} /\ Allocating = {}
    BY DEF Init, Counting, Missed, Allocating, At
  <1>2. Cardinality({}) = 0 /\ IsFiniteSet({})
    BY FS_EmptySet
  <1>3. Cardinality(Threads) \in Nat /\ Cardinality(Threads) # 0
    BY PoolAssumption, FS_CardinalityType, FS_EmptySet
  <1>4. allocCount = 0 /\ useCount = 0 /\ MaxInUse \in Nat
    BY PoolAssumption DEF Init
  <1> QED BY <1>1, <1>2, <1>3, <1>4 DEF Counts

(* A step that makes, gives out and takes back no block, between labels    *)
(* that count alike.                                                       *)
LEMMA CountQuiet ==
  ASSUME CountInv, NEW t \in Threads, NEW label, NEW n, Goto(t, label, n),
         UNCHANGED <<made, held, allocCount, useCount>>,
         label = "count" <=> pc[t] = "count",
         label \in {"miss", "new"} <=> pc[t] \in {"miss", "new"},
         label \in {"pop", "miss", "new", "count", "use"}
           <=> pc[t] \in {"pop", "miss", "new", "count", "use"}
  PROVE  Counts'
  <1>1. /\ Cardinality(Counting)' = Cardinality(Counting)
        /\ Cardinality(Missed)' = Cardinality(Missed)
        /\ Cardinality(Allocating)' = Cardinality(Allocating)
    BY Tally DEF CountInv, One
  <1> QED BY <1>1 DEF CountInv, Counts

(* Every step keeps the counts. *)
LEMMA CountNext == CountInv /\ [Next]_vars => Counts'
  <1> SUFFICES ASSUME CountInv, [Next]_vars PROVE Counts'
    OBVIOUS
  <1> PoolInv
    BY DEF CountInv
  <1> IsFiniteSet(held) /\ Cardinality(held) \in Nat /\ Cardinality(made) \in Nat
    BY HeldAndInHand DEF CountInv
  <1> MaxInUse \in Nat /\ Cardinality(Threads) \in Nat
    BY PoolAssumption, FS_CardinalityType
  <1>1. CASE UNCHANGED vars
    BY <1>1 DEF vars, CountInv, Counts, Counting, Missed, Allocating, At
  <1>2. ASSUME NEW t \in Threads, Alloc(t) PROVE Counts'
    <2>1. /\ pc[t] = "idle" /\ Goto(t, "pop", Null) /\ UNCHANGED <<made, held, allocCount, useCount>>
          /\ Cardinality(held) + Cardinality(Allocating) < MaxInUse
      BY <1>2 DEF Alloc
    <2>2. /\ Cardinality(Counting)' = Cardinality(Counting)
          /\ Cardinality(Missed)' = Cardinality(Missed)
          /\ Cardinality(Allocating) \in Nat
          /\ Cardinality(Allocating)' = Cardinality(Allocating) + 1
      BY <2>1, Tally DEF One
    <2> QED BY <2>1, <2>2 DEF CountInv, Counts
  <1>3. ASSUME NEW t \in Threads, AllocMiss(t) PROVE Counts'
    <2>1. /\ pc[t] = "pop" /\ Goto(t, "miss", Null) /\ UNCHANGED <<made, held, allocCount, useCount>>
          /\ content = <<>>
      BY <1>3 DEF AllocMiss, FreeList!DoPopEmpty
    <2>2. /\ Cardinality(Counting)' = Cardinality(Counting)
          /\ Cardinality(Missed) \in Nat
          /\ Cardinality(Missed)' = Cardinality(Missed) + 1
          /\ Cardinality(Allocating)' = Cardinality(Allocating)
      <3>1. /\ One(pc[t] = "count") = 0 /\ One(pc[t] \in {"miss", "new"}) = 0
            /\ One(pc[t] \in {"pop", "miss", "new", "count", "use"}) = 1
        BY <2>1 DEF One
      <3>2. /\ One("miss" = "count") = 0 /\ One("miss" \in {"miss", "new"}) = 1
            /\ One("miss" \in {"pop", "miss", "new", "count", "use"}) = 1
        BY DEF One
      <3> QED BY <2>1, <3>1, <3>2, Tally
    <2>3. Cardinality(made) + Cardinality(Missed) + 1 <= MaxInUse + Cardinality(Threads) - 1
      BY <2>1, EmptyList
    <2> QED BY <2>1, <2>2, <2>3 DEF CountInv, Counts
  <1>4. ASSUME NEW t \in Threads, NEW b \in Blocks, AllocNew(t, b) PROVE Counts'
    <2>1. /\ pc[t] = "new" /\ b \notin made /\ made' = made \cup {b} /\ Goto(t, "count", b)
          /\ UNCHANGED <<held, allocCount, useCount>>
      BY <1>4 DEF AllocNew
    <2>2. /\ Cardinality(Counting) \in Nat /\ Cardinality(Missed) \in Nat
          /\ Cardinality(Counting)' = Cardinality(Counting) + 1
          /\ Cardinality(Missed)' = Cardinality(Missed) - 1
          /\ Cardinality(Allocating)' = Cardinality(Allocating)
      BY <2>1, Tally DEF One
    <2>3. IsFiniteSet(made') /\ Cardinality(made') = Cardinality(made) + 1
      BY <2>1, FS_AddElement DEF CountInv, Counts
    <2> QED BY <2>1, <2>2, <2>3 DEF CountInv, Counts
  <1>5. ASSUME NEW t \in Threads, AllocCount(t) PROVE Counts'
    <2>1. /\ pc[t] = "count" /\ allocCount' = allocCount + 1 /\ Goto(t, "use", node[t])
          /\ UNCHANGED <<made, held, useCount>>
      BY <1>5 DEF AllocCount
    <2>2. /\ Cardinality(Counting) \in Nat
          /\ Cardinality(Counting)' = Cardinality(Counting) - 1
          /\ Cardinality(Missed)' = Cardinality(Missed)
          /\ Cardinality(Allocating)' = Cardinality(Allocating)
      BY <2>1, Tally DEF One
    <2> QED BY <2>1, <2>2 DEF CountInv, Counts
  <1>6. ASSUME NEW t \in Threads, AllocUse(t) PROVE Counts'
    <2>1. /\ pc[t] = "use" /\ useCount' = useCount + 1 /\ held' = held \cup {node[t]}
          /\ Goto(t, "idle", Null) /\ UNCHANGED <<made, allocCount>>
      BY <1>6 DEF AllocUse
    <2>2. /\ Cardinality(Counting)' = Cardinality(Counting)
          /\ Cardinality(Missed)' = Cardinality(Missed)
          /\ Cardinality(Allocating) \in Nat
          /\ Cardinality(Allocating)' = Cardinality(Allocating) - 1
      BY <2>1, Tally DEF One
    <2>3. node[t] \notin held
      BY <2>1 DEF PoolInv, OneHolder, Moving
    <2>4. Cardinality(held') = Cardinality(held) + 1
      BY <2>1, <2>3, FS_AddElement
    <2> QED BY <2>1, <2>2, <2>4 DEF CountInv, Counts
  <1>7. ASSUME NEW t \in Threads, NEW b \in Blocks, Free(t, b) PROVE Counts'
    <2>1. /\ pc[t] = "idle" /\ b \in held /\ held' = held \ {b} /\ useCount' = useCount - 1
          /\ Goto(t, "push", b) /\ UNCHANGED <<made, allocCount>>
      BY <1>7 DEF Free
    <2>2. /\ Cardinality(Counting)' = Cardinality(Counting)
          /\ Cardinality(Missed)' = Cardinality(Missed)
          /\ Cardinality(Allocating) \in Nat
          /\ Cardinality(Allocating)' = Cardinality(Allocating)
      BY <2>1, Tally DEF One
    <2>3. Cardinality(held') = Cardinality(held) - 1
      BY <2>1, FS_RemoveElement
    <2> QED BY <2>1, <2>2, <2>3 DEF CountInv, Counts
  <1>8. ASSUME NEW t \in Threads,
               AllocReuse(t) \/ AllocNull(t) \/ FreePush(t) \/ FreeDone(t)
        PROVE  Counts'
    <2>1. UNCHANGED <<made, held, allocCount, useCount>>
      BY <1>8 DEF AllocReuse, AllocNull, FreePush, FreeDone
    <2>2. \/ pc[t] = "pop" /\ \E n : Goto(t, "use", n)
          \/ pc[t] = "miss" /\ \E n : Goto(t, "new", n)
          \/ pc[t] = "push" /\ \E n : Goto(t, "pushing", n)
          \/ pc[t] = "pushing" /\ \E n : Goto(t, "idle", n)
      BY <1>8 DEF AllocReuse, AllocNull, FreePush, FreeDone
    <2> QED BY <2>1, <2>2, CountQuiet
  <1> QED BY <1>1, <1>2, <1>3, <1>4, <1>5, <1>6, <1>7, <1>8 DEF Next

(* The counter of blocks in use is what callers hold, that of blocks made  *)
(* lacks only those of the calls between new and the increment, and no     *)
(* thread ever reads more in use than made: alloc and free.                *)
THEOREM CountersAreExact == Spec => []CountersOK
  <1>1. Init => CountInv
    BY PoolInit, CountInit DEF CountInv
  <1>2. CountInv /\ [Next]_vars => CountInv'
    BY PoolNext, CountNext DEF CountInv
  <1>3. CountInv => CountersOK
    <2> SUFFICES ASSUME CountInv PROVE CountersOK
      OBVIOUS
    <2>1. Counting \in SUBSET Moving /\ Counting = {t \in Threads : pc[t] = "count"}
      BY DEF Counting, Moving, At
    <2>2. /\ Cardinality(held) \in Nat /\ Cardinality(Counting) \in Nat /\ Cardinality(made) \in Nat
          /\ Cardinality(held) + Cardinality(Counting) <= Cardinality(made)
      BY <2>1, HeldAndInHand
    <2>3. /\ useCount = Cardinality(held) /\ allocCount \in Nat
          /\ allocCount + Cardinality(Counting) = Cardinality(made)
      BY DEF CountInv, Counts
    <2> HIDE DEF Counting
    <2> QED BY <2>1, <2>2, <2>3 DEF CountersOK
  <1> QED BY <1>1, <1>2, <1>3, PTL DEF Spec

(* The pool makes a block only for a call that found none, so it makes no  *)
(* more than the callers use at a time and the other threads can have on   *)
(* their way back: alloc.                                                  *)
THEOREM FewBlocksMade == Spec => []BlocksBounded
  <1>1. Init => CountInv
    BY PoolInit, CountInit DEF CountInv
  <1>2. CountInv /\ [Next]_vars => CountInv'
    BY PoolNext, CountNext DEF CountInv
  <1>3. CountInv => BlocksBounded
    <2> SUFFICES ASSUME CountInv PROVE BlocksBounded
      OBVIOUS
    <2>1. IsFiniteSet(Missed)
      BY PoolAssumption, FS_Subset DEF Missed, At
    <2>2. Cardinality(Missed) \in Nat /\ Cardinality(made) \in Nat /\ Cardinality(Threads) \in Nat
      BY <2>1, PoolAssumption, FS_CardinalityType DEF CountInv, Counts
    <2>3. Cardinality(made) + Cardinality(Missed) <= MaxInUse + Cardinality(Threads) - 1
      BY DEF CountInv, Counts
    <2> QED BY <2>2, <2>3, PoolAssumption DEF BlocksBounded
  <1> QED BY <1>1, <1>2, <1>3, PTL DEF Spec
=============================================================================
