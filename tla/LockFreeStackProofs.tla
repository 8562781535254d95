------------------------- MODULE LockFreeStackProofs -------------------------
(***************************************************************************)
(* LockFreeStack for any sets of threads and nodes and any bound on the    *)
(* tag: the chain in memory is the stack, no node is lost or handed out    *)
(* twice, the tag identifies the head, and push and pop are linearizable.  *)
(*                                                                         *)
(* The inductive invariant is IndInv.  Only two actions move the head.     *)
(* Each needs to know that a thread whose copy still equals the head also  *)
(* knows the node below the head, and that is what CopyOK carries: a head  *)
(* that has moved carries a larger tag, so a stale copy stays stale.       *)
(***************************************************************************)
EXTENDS LockFreeStack, SequenceTheorems, TLAPS

USE DEF Halves, NodeOrNull

-----------------------------------------------------------------------------
(* Init *)

(* The initial state, an empty stack, satisfies the inductive invariant.   *)
LEMMA InitInv == Init => IndInv
  <1> SUFFICES ASSUME Init PROVE IndInv
    OBVIOUS
  <1>1. TypeOK
    BY DEF Init, TypeOK
  <1>2. Represents
    BY DEF Init, Represents, Below
  <1>3. Partition
    BY DEF Init, Partition, Stacked, Pushing
  <1>4. \A t \in Threads : CopyOK(t)
    BY DEF Init, CopyOK
  <1> QED BY <1>1, <1>2, <1>3, <1>4 DEF IndInv

-----------------------------------------------------------------------------
(* Steps that leave the head, the chain and the ownership of nodes alone   *)

(* Represents and Partition depend on no other variable than these.        *)
LEMMA QuietStep ==
  ASSUME IndInv, UNCHANGED <<shared, owned, content>>,
         \A t \in Threads : /\ Pushing(t)' <=> Pushing(t)
                            /\ Pushing(t) => node'[t] = node[t]
  PROVE  Represents' /\ Partition'
  <1>1. Represents'
    BY DEF IndInv, Represents, Below, shared
  <1>2. Stacked' = Stacked
    BY DEF Stacked
  <1>3. Partition'
    BY <1>2 DEF IndInv, Partition
  <1> QED BY <1>1, <1>3

(* Copying the pointer half of the head, as push and pop do first.         *)
LEMMA LoadPtrInv ==
  ASSUME IndInv, NEW t \in Threads, LoadPtr(t) PROVE IndInv'
  <1>1. TypeOK'
    BY DEF IndInv, TypeOK, LoadPtr, shared
  <1>2. Represents' /\ Partition'
    BY QuietStep DEF LoadPtr, Pushing
  <1>3. \A u \in Threads : CopyOK(u)'
    BY DEF IndInv, TypeOK, LoadPtr, shared, CopyOK, HeadIsOld
  <1> QED BY <1>1, <1>2, <1>3 DEF IndInv

(* Copying the tag half: the copied tag is not ahead of the head's.        *)
LEMMA LoadTagInv ==
  ASSUME IndInv, NEW t \in Threads, LoadTag(t) PROVE IndInv'
  <1>1. TypeOK'
    BY DEF IndInv, TypeOK, LoadTag, shared
  <1>2. Represents' /\ Partition'
    BY QuietStep DEF LoadTag, Pushing
  <1>3. \A u \in Threads : CopyOK(u)'
    BY DEF IndInv, TypeOK, LoadTag, shared, CopyOK, HeadIsOld
  <1> QED BY <1>1, <1>2, <1>3 DEF IndInv

(* A failed CAS forgets the copy.                                          *)
LEMMA RetryInv ==
  ASSUME IndInv, NEW t \in Threads, PushRetry(t) \/ PopRetry(t) PROVE IndInv'
  <1>1. TypeOK'
    BY DEF IndInv, TypeOK, PushRetry, PopRetry, Retry, shared
  <1>2. Represents' /\ Partition'
    BY QuietStep DEF PushRetry, PopRetry, Retry, Pushing, IndInv, TypeOK
  <1>3. \A u \in Threads : CopyOK(u)'
    BY DEF IndInv, TypeOK, PushRetry, PopRetry, Retry, shared, CopyOK, HeadIsOld
  <1> QED BY <1>1, <1>2, <1>3 DEF IndInv

(* The call of pop.                                                        *)
LEMMA BeginPopInv ==
  ASSUME IndInv, NEW t \in Threads, BeginPop(t) PROVE IndInv'
  <1>1. TypeOK'
    BY DEF IndInv, TypeOK, BeginPop, shared
  <1>2. Represents' /\ Partition'
    BY QuietStep DEF BeginPop, Pushing, IndInv, TypeOK
  <1>3. \A u \in Threads : CopyOK(u)'
    BY DEF IndInv, TypeOK, BeginPop, shared, CopyOK, HeadIsOld
  <1> QED BY <1>1, <1>2, <1>3 DEF IndInv

(* The read of the next field: the pop now knows the node below its copy.  *)
LEMMA FollowInv ==
  ASSUME IndInv, NEW t \in Threads, Follow(t) PROVE IndInv'
  <1>1. TypeOK'
    BY DEF IndInv, TypeOK, Follow, shared
  <1>2. Represents' /\ Partition'
    BY QuietStep DEF Follow, Pushing, IndInv, TypeOK
  <1>3. \A u \in Threads : CopyOK(u)'
    BY DEF IndInv, TypeOK, Follow, shared, CopyOK, HeadIsOld
  <1> QED BY <1>1, <1>2, <1>3 DEF IndInv

(* pop returns nullptr.                                                    *)
LEMMA PopEmptyInv ==
  ASSUME IndInv, NEW t \in Threads, PopEmpty(t) PROVE IndInv'
  <1>1. TypeOK'
    BY DEF IndInv, TypeOK, PopEmpty, Return, shared
  <1>2. Represents' /\ Partition'
    BY QuietStep DEF PopEmpty, Return, Pushing, IndInv, TypeOK
  <1>3. \A u \in Threads : CopyOK(u)'
    BY DEF IndInv, TypeOK, PopEmpty, Return, shared, CopyOK, HeadIsOld
  <1> QED BY <1>1, <1>2, <1>3 DEF IndInv

-----------------------------------------------------------------------------
(* Steps that move a node                                                  *)

(* The call of push: the node leaves the hands of the callers.             *)
LEMMA BeginPushInv ==
  ASSUME IndInv, NEW t \in Threads, NEW n \in Nodes, BeginPush(t, n) PROVE IndInv'
  <1>1. TypeOK'
    BY DEF IndInv, TypeOK, BeginPush, shared
  <1>2. Represents'
    BY DEF IndInv, Represents, Below, BeginPush, shared
  <1>3. Stacked' = Stacked
    BY DEF BeginPush, Stacked
  <1>4. Partition'
    BY <1>3 DEF IndInv, TypeOK, Partition, BeginPush, Pushing
  <1>5. \A u \in Threads : CopyOK(u)'
    BY DEF IndInv, TypeOK, BeginPush, shared, CopyOK, HeadIsOld
  <1> QED BY <1>1, <1>2, <1>4, <1>5 DEF IndInv

(* The node being linked is in no other hands: neither the chain nor the   *)
(* node another thread is about to push or pop changes.                    *)
LEMMA LinkInv ==
  ASSUME IndInv, NEW t \in Threads, Link(t) PROVE IndInv'
  <1>1. node[t] \in Nodes \ Stacked
    BY DEF IndInv, Partition, Link, Pushing
  <1>2. TypeOK'
    BY <1>1 DEF IndInv, TypeOK, Link, shared
  <1>3. \A i \in 1..Len(content) : next'[content[i]] = next[content[i]]
    BY <1>1 DEF IndInv, TypeOK, Link, Stacked
  <1>4. Represents'
    BY <1>3 DEF IndInv, Represents, Below, Link
  <1>5. Stacked' = Stacked
    BY DEF Link, Stacked
  <1>6. Partition'
    BY <1>5 DEF IndInv, TypeOK, Partition, Link, Pushing
  <1>7. ASSUME NEW u \in Threads PROVE CopyOK(u)'
    <2>1. CASE u = t
      BY <2>1, <1>1 DEF IndInv, TypeOK, Link, CopyOK
    <2>2. CASE u # t
      <3>1. pc[u] = "pushCas" => next'[node[u]] = next[node[u]]
        BY <2>2, <1>1 DEF IndInv, TypeOK, Partition, Link, Pushing
      <3>2. pc[u] = "popCas" /\ HeadIsOld(u) => next'[oldPtr[u]] = next[oldPtr[u]]
        <4> SUFFICES ASSUME pc[u] = "popCas", HeadIsOld(u)
                     PROVE  oldPtr[u] # node[t]
          BY <1>1 DEF IndInv, TypeOK, Link
        <4>1. headPtr \in Nodes
          BY DEF IndInv, CopyOK, HeadIsOld
        <4>2. headPtr \in Stacked
          BY <4>1, NullAssumption DEF IndInv, TypeOK, Represents, Below, Stacked
        <4> QED BY <4>2, <1>1 DEF HeadIsOld
      <3> QED BY <2>2, <3>1, <3>2 DEF IndInv, TypeOK, Link, CopyOK, HeadIsOld
    <2> QED BY <2>1, <2>2
  <1> QED BY <1>2, <1>4, <1>6, <1>7 DEF IndInv

(* The tag grew: a copy that equalled the old head equals no later one.    *)
LEMMA StaleCopies ==
  ASSUME IndInv, NEW t \in Threads, HeadIsOld(t), headTag' = oldTag[t] + 1,
         NEW u \in Threads, "tag" \in loaded[u], oldTag'[u] = oldTag[u]
  PROVE  oldTag'[u] <= headTag' /\ headTag' # oldTag'[u]
  BY DEF IndInv, TypeOK, CopyOK, HeadIsOld

(* The successful CAS of push puts its node on top of the chain.           *)
LEMMA PushCasInv ==
  ASSUME IndInv, NEW t \in Threads, PushCas(t) PROVE IndInv'
  <1>1. /\ node[t] \in Nodes \ (Stacked \cup owned)
        /\ newPtr[t] = node[t]
        /\ next[node[t]] = headPtr
    BY DEF IndInv, Partition, PushCas, Pushing, CopyOK, Swing, HeadIsOld
  <1>2. /\ content' \in Seq(Nodes)
        /\ Len(content') = Len(content) + 1
        /\ content'[Len(content')] = node[t]
        /\ \A i \in 1..Len(content) : content'[i] = content[i]
    BY <1>1 DEF IndInv, TypeOK, PushCas
  <1>3. TypeOK'
    BY <1>1, <1>2 DEF IndInv, TypeOK, PushCas, Swing, Return
  <1>4. Represents'
    BY <1>1, <1>2 DEF IndInv, TypeOK, Represents, Below, PushCas, Swing
  <1>a. 1..Len(content') = 1..Len(content) \cup {Len(content')}
    BY <1>2 DEF IndInv, TypeOK
  <1>5. Stacked' = Stacked \cup {node[t]}
    <2>1. Stacked' = {content'[i] : i \in 1..Len(content')}
      BY DEF Stacked
    <2>2. \A i \in 1..Len(content) : content'[i] \in Stacked
      BY <1>2 DEF Stacked
    <2>3. Stacked' \subseteq Stacked \cup {node[t]}
      BY <2>1, <2>2, <1>a, <1>2
    <2>4. Stacked \subseteq Stacked'
      BY <2>1, <1>a, <1>2 DEF Stacked
    <2>5. node[t] \in Stacked'
      BY <2>1, <1>a, <1>2
    <2> QED BY <2>3, <2>4, <2>5
  <1>6. \A i, j \in 1..Len(content') : content'[i] = content'[j] => i = j
    <2>1. \A i \in 1..Len(content) : content'[i] # content'[Len(content')]
      BY <1>1, <1>2 DEF Stacked
    <2>2. \A i, j \in 1..Len(content) : content'[i] = content'[j] => i = j
      BY <1>2 DEF IndInv, Partition
    <2> QED BY <2>1, <2>2, <1>a
  <1>7. Partition'
    BY <1>1, <1>5, <1>6 DEF IndInv, TypeOK, Partition, PushCas, Return, Pushing
  <1>8. ASSUME NEW u \in Threads PROVE CopyOK(u)'
    <2>1. CASE u = t
      BY <2>1 DEF IndInv, TypeOK, PushCas, Return, CopyOK
    <2>2. CASE u # t
      BY <2>2, StaleCopies DEF IndInv, TypeOK, PushCas, Swing, Return, CopyOK, HeadIsOld
    <2> QED BY <2>1, <2>2
  <1> QED BY <1>3, <1>4, <1>7, <1>8 DEF IndInv

(* The successful CAS of pop hands the top of the chain to its caller.     *)
LEMMA PopCasInv ==
  ASSUME IndInv, NEW t \in Threads, PopCas(t) PROVE IndInv'
  <1>1. /\ oldPtr[t] = headPtr
        /\ headPtr \in Nodes
        /\ newPtr[t] = next[headPtr]
    BY DEF IndInv, PopCas, CopyOK, Swing, HeadIsOld
  <1>2. Len(content) > 0 /\ content[Len(content)] = headPtr
    BY <1>1, NullAssumption DEF IndInv, TypeOK, Represents, Below
  <1>l. Len(content) \in Nat \ {0} /\ Len(content) \in 1..Len(content)
    BY <1>2 DEF IndInv, TypeOK
  <1>3. /\ content' \in Seq(Nodes)
        /\ Len(content') = Len(content) - 1
        /\ \A i \in 1..Len(content') : content'[i] = content[i]
    <2> DEFINE n == Len(content) - 1
    <2>1. n \in Nat /\ \A i \in 1..n : content[i] \in Nodes
      BY <1>2 DEF IndInv, TypeOK
    <2> HIDE DEF n
    <2>2. /\ SubSeq(content, 1, n) \in Seq(Nodes)
          /\ Len(SubSeq(content, 1, n)) = n
          /\ \A i \in 1..n : SubSeq(content, 1, n)[i] = content[i]
      BY <2>1, SubSeqProperties
    <2> QED BY <2>2 DEF PopCas, n
  <1>4. TypeOK'
    <2>1. /\ headPtr' \in NodeOrNull /\ headTag' \in Nat
          /\ owned' \in SUBSET Nodes
      BY <1>1 DEF IndInv, TypeOK, PopCas, Swing
    <2>2. /\ pc' \in [Threads -> {"idle", "push", "pushCas", "pop", "popCas"}]
          /\ node' \in [Threads -> NodeOrNull]
          /\ loaded' \in [Threads -> SUBSET Halves]
          /\ oldPtr' \in [Threads -> NodeOrNull]
          /\ oldTag' \in [Threads -> Nat]
          /\ newPtr' \in [Threads -> NodeOrNull]
      BY DEF IndInv, TypeOK, PopCas, Return
    <2> QED BY <1>3, <2>1, <2>2 DEF IndInv, TypeOK, PopCas
  <1>5. Represents'
    <2>1. headPtr' = next[content[Len(content)]]
      BY <1>1, <1>2 DEF PopCas, Swing
    <2>2. next[content[Len(content)]] = Below(Len(content))
      BY <1>l DEF IndInv, Represents
    <2>3. Below(Len(content)) = Below(Len(content) + 1)'
      BY <1>l, <1>3 DEF Below
    <2>a. \A i \in 1..Len(content') : /\ i \in 1..Len(content)
                                      /\ i # 1 => i - 1 \in 1..Len(content')
      BY <1>l, <1>3
    <2>4. \A i \in 1..Len(content') : Below(i)' = Below(i) /\ next[content[i]] = Below(i)
      BY <2>a, <1>3 DEF IndInv, Represents, Below
    <2>5. \A i \in 1..Len(content') : next'[content'[i]] = Below(i)'
      BY <1>3, <2>4 DEF PopCas
    <2> QED BY <2>1, <2>2, <2>3, <2>5 DEF Represents
  <1>6. Stacked' = Stacked \ {headPtr}
    <2>0. Stacked' = {content'[i] : i \in 1..Len(content')}
      BY DEF Stacked
    <2>1. 1..Len(content) = 1..Len(content') \cup {Len(content)}
      BY <1>2, <1>3 DEF IndInv, TypeOK
    <2>2. \A i \in 1..Len(content') : content[i] # headPtr
      <3>1. \A i \in 1..Len(content') : i \in 1..Len(content) /\ i # Len(content)
        BY <1>l, <1>3
      <3> QED BY <1>2, <1>l, <3>1 DEF IndInv, Partition
    <2>3. Stacked' \subseteq Stacked \ {headPtr}
      BY <1>3, <2>0, <2>1, <2>2 DEF Stacked
    <2>4. Stacked \ {headPtr} \subseteq Stacked'
      BY <1>2, <1>3, <2>0, <2>1 DEF Stacked
    <2> QED BY <2>3, <2>4
  <1>7. headPtr \in Stacked
    BY <1>2, <1>l DEF Stacked
  <1>8. \A i, j \in 1..Len(content') : content'[i] = content'[j] => i = j
    <2>1. \A i \in 1..Len(content') : i \in 1..Len(content)
      BY <1>l, <1>3
    <2> QED BY <1>3, <2>1 DEF IndInv, Partition
  <1>9. Partition'
    <2>1. \A u \in Threads : Pushing(u)' <=> Pushing(u)
      BY DEF IndInv, TypeOK, PopCas, Return, Pushing
    <2>2. \A u \in Threads : Pushing(u) => node'[u] = node[u]
      BY DEF IndInv, TypeOK, PopCas, Return, Pushing
    <2>3. Stacked' \cup owned' = Stacked \cup owned /\ Stacked' \cap owned' = {}
      BY <1>1, <1>6, <1>7 DEF IndInv, Partition, PopCas
    <2> QED BY <1>8, <2>1, <2>2, <2>3 DEF IndInv, Partition
  <1>10. ASSUME NEW u \in Threads PROVE CopyOK(u)'
    <2>1. CASE u = t
      BY <2>1 DEF IndInv, TypeOK, PopCas, Return, CopyOK
    <2>2. CASE u # t
      BY <2>2, StaleCopies DEF IndInv, TypeOK, PopCas, Swing, Return, CopyOK, HeadIsOld
    <2> QED BY <2>1, <2>2
  <1> QED BY <1>4, <1>5, <1>9, <1>10 DEF IndInv

-----------------------------------------------------------------------------
(* Safety *)

(* Every step of push and pop keeps the inductive invariant.               *)
LEMMA NextInv == IndInv /\ [Next]_vars => IndInv'
  <1> SUFFICES ASSUME IndInv, [Next]_vars PROVE IndInv'
    OBVIOUS
  <1>1. ASSUME NEW t \in Threads, NEW n \in Nodes, BeginPush(t, n) PROVE IndInv'
    BY <1>1, BeginPushInv
  <1>2. ASSUME NEW t \in Threads, BeginPop(t) PROVE IndInv'
    BY <1>2, BeginPopInv
  <1>3. ASSUME NEW t \in Threads, Step(t) PROVE IndInv'
    BY <1>3, LoadPtrInv, LoadTagInv, LinkInv, PushCasInv, RetryInv,
       PopEmptyInv, FollowInv, PopCasInv DEF Step
  <1>4. CASE UNCHANGED vars
    BY <1>4 DEF vars, IndInv, TypeOK, Represents, Below, Partition, Stacked,
                Pushing, CopyOK, HeadIsOld
  <1> QED BY <1>1, <1>2, <1>3, <1>4 DEF Next, Terminating

(* The inductive invariant holds in every reachable state, for any threads *)
(* and nodes: what push and pop know of the head they copied, the shape of *)
(* the chain and the place of every node.                                  *)
THEOREM Inductive == Spec => []IndInv
  BY InitInv, NextInv, PTL DEF Spec

(* Pointers stay pointers to nodes and tags natural numbers.               *)
THEOREM TypeCorrect == Spec => []TypeOK
  <1>1. IndInv => TypeOK
    BY DEF IndInv
  <1> QED BY <1>1, Inductive, PTL

(* In every reachable state the head and the next fields spell the pushed  *)
(* nodes in LIFO order, whatever the interleaving of the calls.            *)
THEOREM ChainIsStack == Spec => []Represents
  <1>1. IndInv => Represents
    BY DEF IndInv
  <1> QED BY <1>1, Inductive, PTL

(* In every reachable state each node is in exactly one place: no session  *)
(* or pool block is leaked, or given to two callers of pop.                *)
THEOREM NodesArePartitioned == Spec => []Partition
  <1>1. IndInv => Partition
    BY DEF IndInv
  <1> QED BY <1>1, Inductive, PTL

(* The tag never decreases, and the head never changes under one tag.      *)
THEOREM TagGrows == Spec => TagIdentifiesHead
  <1> DEFINE Grows == /\ headTag' >= headTag
                      /\ headTag' = headTag => headPtr' = headPtr
  <1>1. IndInv /\ [Next]_vars => [Grows]_vars
    <2> SUFFICES ASSUME IndInv, Next PROVE Grows
      BY DEF vars
    <2>1. headTag \in Nat
      BY DEF IndInv, TypeOK
    <2>2. ASSUME UNCHANGED <<headPtr, headTag>> PROVE Grows
      BY <2>1, <2>2
    <2>3. ASSUME NEW t \in Threads, PushCas(t) \/ PopCas(t) PROVE Grows
      BY <2>1, <2>3 DEF PushCas, PopCas, Swing, HeadIsOld
    <2> QED BY <2>2, <2>3 DEF Next, Terminating, Step, BeginPush, BeginPop, LoadPtr,
         LoadTag, Link, PushRetry, PopRetry, Retry, PopEmpty, Follow, shared, vars
  <1> QED BY <1>1, Inductive, PTL DEF Spec, TagIdentifiesHead

-----------------------------------------------------------------------------
(* Linearizability *)

(* The empty chain is the empty abstract stack, with no call in progress.  *)
LEMMA InitRefines == Init => Abstract!Init
  <1> SUFFICES ASSUME Init PROVE Abstract!Init
    OBVIOUS
  <1>1. \A t \in Threads : Call(t) = Abstract!Idle
    BY DEF Init, Call, Pushing, Abstract!Idle
  <1> QED BY <1>1 DEF Init, Abstract!Init

(* Abstract calls are compared thread by thread.                           *)
AbstractCall == [t \in Threads |-> Call(t)]

(* Copying a half of the head takes effect only when it finds the stack    *)
(* empty.                                                                  *)
LEMMA LoadRefines ==
  ASSUME IndInv, NEW t \in Threads, LoadPtr(t) \/ LoadTag(t)
  PROVE  [Abstract!Next]_(Abstract!vars)
  <1>1. \A u \in Threads \ {t} : Call(u)' = Call(u)
    BY DEF IndInv, TypeOK, LoadPtr, LoadTag, Call, Pushing
  <1>2. CASE LoadPtr(t) /\ pc[t] = "pop" /\ headPtr = Null
    <2>1. content = <<>>
      BY <1>2, NullAssumption DEF IndInv, TypeOK, Represents, Below
    <2>2. Call(t) = Abstract!Pop /\ Call(t)' = Abstract!Empty
      BY <1>2 DEF IndInv, TypeOK, LoadPtr, Call, Pushing, Abstract!Pop, Abstract!Empty
    <2>3. AbstractCall' = [AbstractCall EXCEPT ![t] = Abstract!Empty]
      BY <1>1, <2>2 DEF AbstractCall
    <2> QED BY <1>2, <2>1, <2>2, <2>3 DEF LoadPtr, AbstractCall, Abstract!Next, Abstract!DoPopEmpty
  <1>3. CASE ~(LoadPtr(t) /\ pc[t] = "pop" /\ headPtr = Null)
    <2>1. Call(t)' = Call(t)
      BY <1>3 DEF IndInv, TypeOK, LoadPtr, LoadTag, Call, Pushing
    <2>2. AbstractCall' = AbstractCall
      BY <1>1, <2>1 DEF AbstractCall
    <2> QED BY <2>2 DEF LoadPtr, LoadTag, AbstractCall, Abstract!vars
  <1> QED BY <1>2, <1>3

(* Retries, and the writes and reads of next, are invisible.               *)
LEMMA SilentRefines ==
  ASSUME IndInv, NEW t \in Threads,
         Link(t) \/ Follow(t) \/ PushRetry(t) \/ PopRetry(t)
  PROVE  UNCHANGED Abstract!vars
  <1>1. \A u \in Threads \ {t} : Call(u)' = Call(u)
    BY DEF IndInv, TypeOK, Link, Follow, PushRetry, PopRetry, Retry, Call, Pushing
  <1>2. Call(t)' = Call(t)
    <2>1. CASE Link(t) \/ PushRetry(t)
      BY <2>1 DEF IndInv, TypeOK, Link, PushRetry, Retry, Call, Pushing
    <2>2. CASE Follow(t)
      BY <2>2, NullAssumption DEF IndInv, TypeOK, Follow, Call, Pushing
    <2>3. CASE PopRetry(t)
      BY <2>3, NullAssumption DEF IndInv, TypeOK, CopyOK, PopRetry, Retry, Call, Pushing
    <2> QED BY <2>1, <2>2, <2>3
  <1>3. AbstractCall' = AbstractCall
    BY <1>1, <1>2 DEF AbstractCall
  <1> QED BY <1>3 DEF AbstractCall, Abstract!vars, Link, Follow, PushRetry, PopRetry, Retry

(* The call of push or pop is an invocation of the abstract operation.     *)
LEMMA BeginRefines ==
  ASSUME IndInv, NEW t \in Threads,
         BeginPop(t) \/ \E n \in Nodes : BeginPush(t, n)
  PROVE  Abstract!Next
  <1>1. \A u \in Threads \ {t} : Call(u)' = Call(u)
    BY DEF IndInv, TypeOK, BeginPop, BeginPush, Call, Pushing
  <1>2. Call(t) = Abstract!Idle
    BY DEF BeginPop, BeginPush, Call, Pushing, Abstract!Idle
  <1>3. CASE BeginPop(t)
    <2>1. Call(t)' = Abstract!Pop
      BY <1>3 DEF IndInv, TypeOK, CopyOK, BeginPop, Call, Pushing, Abstract!Pop
    <2>2. AbstractCall' = [AbstractCall EXCEPT ![t] = Abstract!Pop]
      BY <1>1, <2>1 DEF AbstractCall
    <2> QED BY <1>2, <1>3, <2>2 DEF AbstractCall, BeginPop, Abstract!Next, Abstract!InvokePop
  <1>4. ASSUME NEW n \in Nodes, BeginPush(t, n) PROVE Abstract!Next
    <2>1. Call(t)' = Abstract!Push(n)
      BY <1>4 DEF IndInv, TypeOK, BeginPush, Call, Pushing, Abstract!Push
    <2>2. AbstractCall' = [AbstractCall EXCEPT ![t] = Abstract!Push(n)]
      BY <1>1, <2>1 DEF AbstractCall
    <2> QED BY <1>2, <1>4, <2>2 DEF AbstractCall, BeginPush, Abstract!Next, Abstract!InvokePush
  <1> QED BY <1>3, <1>4

(* A successful CAS, and the return of nullptr, are the effects of calls.  *)
LEMMA ReturnRefines ==
  ASSUME IndInv, NEW t \in Threads, PushCas(t) \/ PopCas(t) \/ PopEmpty(t)
  PROVE  Abstract!Next
  <1>1. \A u \in Threads \ {t} : Call(u)' = Call(u)
    BY DEF IndInv, TypeOK, PushCas, PopCas, PopEmpty, Return, Call, Pushing
  <1>2. Call(t)' = Abstract!Idle
    BY DEF IndInv, TypeOK, PushCas, PopCas, PopEmpty, Return, Call, Pushing, Abstract!Idle
  <1>3. AbstractCall' = [AbstractCall EXCEPT ![t] = Abstract!Idle]
    BY <1>1, <1>2 DEF AbstractCall
  <1>4. CASE PushCas(t)
    <2>1. node[t] \in Nodes /\ Call(t) = Abstract!Push(node[t])
      BY <1>4 DEF IndInv, Partition, PushCas, Call, Pushing, Abstract!Push
    <2> QED BY <1>3, <1>4, <2>1 DEF AbstractCall, PushCas, Abstract!Next, Abstract!DoPush
  <1>5. CASE PopCas(t)
    <2>1. oldPtr[t] = headPtr /\ headPtr \in Nodes
      BY <1>5 DEF IndInv, CopyOK, PopCas, Swing, HeadIsOld
    <2>2. Call(t) = Abstract!Pop
      BY <1>5, <2>1, NullAssumption DEF PopCas, Call, Pushing, Abstract!Pop
    <2>3. content # <<>> /\ Abstract!Top(content) = headPtr
      BY <2>1, NullAssumption DEF IndInv, TypeOK, Represents, Below, Abstract!Top
    <2> QED BY <1>3, <1>5, <2>1, <2>2, <2>3
            DEF AbstractCall, PopCas, Abstract!Next, Abstract!DoPop, Abstract!Without
  <1>6. CASE PopEmpty(t)
    <2>1. Call(t) = Abstract!Empty
      BY <1>6 DEF PopEmpty, Call, Pushing, Abstract!Empty
    <2> QED BY <1>3, <1>6, <2>1 DEF AbstractCall, PopEmpty, Abstract!Next, Abstract!ReturnEmpty
  <1> QED BY <1>4, <1>5, <1>6

(* push and pop are linearizable: LockFreeStack implements AtomicStack.    *)
THEOREM Linearizable == Spec => Refinement
  <1>1. IndInv /\ [Next]_vars => [Abstract!Next]_(Abstract!vars)
    <2> SUFFICES ASSUME IndInv, [Next]_vars PROVE [Abstract!Next]_(Abstract!vars)
      OBVIOUS
    <2>1. ASSUME NEW t \in Threads, NEW n \in Nodes, BeginPush(t, n)
          PROVE  Abstract!Next
      BY <2>1, BeginRefines
    <2>2. ASSUME NEW t \in Threads, BeginPop(t) PROVE Abstract!Next
      BY <2>2, BeginRefines
    <2>3. ASSUME NEW t \in Threads, Step(t) PROVE [Abstract!Next]_(Abstract!vars)
      BY <2>3, LoadRefines, SilentRefines, ReturnRefines DEF Step
    <2>4. CASE UNCHANGED vars
      BY <2>4 DEF vars, Abstract!vars, Call, Pushing
    <2> QED BY <2>1, <2>2, <2>3, <2>4 DEF Next, Terminating
  <1> QED BY <1>1, InitRefines, Inductive, PTL DEF Spec, Refinement, Abstract!Spec
=============================================================================
