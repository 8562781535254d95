--------------------------- MODULE BenchmarkProofs ---------------------------
(***************************************************************************)
(* Theorems about the two programs beside the server.  About Benchmark,    *)
(* for any number of threads, items, keys and buckets and any hash: the    *)
(* tests of the stack and of the queue see every item once, though their   *)
(* consumers stop on nothing but two looks, and the hash table is a map    *)
(* under any sequence of calls, the test's own included.  About            *)
(* PathSearch, for grids of any size, any walls and any costs of a step:   *)
(* A* finds a shortest path if there is one and never closes a cell too    *)
(* early, and what JPS returns is a path as well.                          *)
(***************************************************************************)
EXTENDS Benchmark, PathSearch, SequenceTheorems, FiniteSetTheorems,
        WellFoundedInduction, NaturalsInduction, TLAPS

(* What the producers push: node, or value, n of producer p.               *)
Items   == Producers \X (0..(CountPerThread - 1))
Threads == Producers \cup Consumers

In(s, v) == \E k \in 1..Len(s) : s[k] = v
Once(s)  == \A k, l \in 1..Len(s) : s[k] = s[l] => k = l

Inside(v) == In(content, v)

-----------------------------------------------------------------------------
(* The queue test *)

QueueTypes ==
  /\ content \in Seq(Items)
  /\ call \in [Threads -> [op : {"idle", "push", "put", "pop", "took"}, val : Items \cup {None}]]
  /\ sent \in [Producers -> 0..CountPerThread]
  /\ state \in [Consumers -> {"first", "failed", "second", "done"}]
  /\ producersDone \in BOOLEAN
  /\ seen \in [Items -> {0, 1}]

(* A call in progress is of its thread's kind, a push is of the value      *)
(* whose turn it is, and a consumer that failed or ended has no call.      *)
QueueCalls ==
  /\ \A p \in Producers : /\ call[p].op \in {"idle", "push", "put"}
                          /\ call[p].op # "idle" => /\ sent[p] < CountPerThread
                                                    /\ call[p].val = <<p, sent[p]>>
  /\ \A c \in Consumers : /\ call[c].op \in {"idle", "pop", "took"}
                          /\ call[c].op = "took" => call[c].val \in Items
                          /\ state[c] \in {"failed", "done"} => call[c].op = "idle"

(* c has taken v from the queue and not returned it.                       *)
Holds(c, v) == call[c].op = "took" /\ call[c].val = v

(* v has been written to a cell.                                           *)
HasPut(v) == \/ v[2] < sent[v[1]]
             \/ v[2] = sent[v[1]] /\ call[v[1]].op = "put"

(* A value that was put is in one place: in the queue, with one consumer,  *)
(* or seen; a value that was not is in none.                               *)
QueuePlaces ==
  /\ Once(content)
  /\ \A c, d \in Consumers, v \in Items : Holds(c, v) /\ Holds(d, v) => c = d
  /\ \A v \in Items, c \in Consumers : ~(Inside(v) /\ Holds(c, v))
  /\ \A v \in Items : seen[v] = 1 => ~Inside(v) /\ \A c \in Consumers : ~Holds(c, v)
  /\ \A v \in Items : IF HasPut(v) THEN seen[v] = 1 \/ Inside(v) \/ \E c \in Consumers : Holds(c, v)
                      ELSE seen[v] = 0 /\ ~Inside(v) /\ \A c \in Consumers : ~Holds(c, v)

(* The flag is set when all is pushed, a consumer takes its second look    *)
(* after that, and ends on an empty queue.                                 *)
QueueEnds ==
  /\ producersDone => \A p \in Producers : sent[p] = CountPerThread
  /\ \A c \in Consumers : state[c] \in {"second", "done"} => producersDone
  /\ \A c \in Consumers : state[c] = "done" => content = <<>>

QueueInv == QueueTypes /\ QueueCalls /\ QueuePlaces /\ QueueEnds

-----------------------------------------------------------------------------
(* The stack test *)

StackTypes ==
  /\ content \in Seq(Items)
  /\ call \in [Threads -> [op : {"idle", "push", "pop", "empty"}, arg : Items \cup {None}]]
  /\ sent \in [Producers -> 0..CountPerThread]
  /\ state \in [Consumers -> {"look", "failed", "sawDone", "done"}]
  /\ producersDone \in BOOLEAN
  /\ seen \in [Items -> {0, 1}]

(* A push in progress is of the node made last.                            *)
StackCalls ==
  /\ \A p \in Producers :
       /\ call[p].op \in {"idle", "push"}
       /\ call[p].op = "push" => sent[p] > 0 /\ call[p].arg = <<p, sent[p] - 1>>
  /\ \A c \in Consumers : call[c].op # "push"

(* The node is made and stacked. *)
HasPushed(n) == \/ n[2] < sent[n[1]] - 1
                \/ n[2] < sent[n[1]] /\ call[n[1]].op # "push"

(* A node that was stacked is in the stack or seen, once; a node that was  *)
(* not is in neither.                                                      *)
StackPlaces ==
  /\ Once(content)
  /\ \A n \in Items : IF HasPushed(n) THEN Inside(n) <=> seen[n] = 0
                      ELSE seen[n] = 0 /\ ~Inside(n)

(* The flag is set when all is stacked, a consumer takes its last look     *)
(* after that, and ends on an empty stack.                                 *)
StackEnds ==
  /\ producersDone => \A p \in Producers : sent[p] = CountPerThread /\ call[p].op = "idle"
  /\ \A c \in Consumers : state[c] \in {"sawDone", "done"} => producersDone
  /\ \A c \in Consumers : state[c] = "done" => content = <<>>

StackInv == StackTypes /\ StackCalls /\ StackPlaces /\ StackEnds

(* What holds of the threads of either test.                               *)
ThreadInv == /\ running \in {"stack", "queue", "maps"}
             /\ running = "stack" => StackInv
             /\ running = "queue" => QueueInv

-----------------------------------------------------------------------------
(* Init *)

LEMMA Started == Init => ThreadInv
  <1> SUFFICES ASSUME Init PROVE ThreadInv
    OBVIOUS
  <1>0. CountPerThread \in Nat /\ Producers \cap Consumers = {}
    BY BenchmarkAssumption
  <1>1. ASSUME running = "stack" PROVE StackInv
    <2>1. Stack!Init
      BY <1>1 DEF Init
    <2>2. content = <<>> /\ call = [t \in Threads |-> [op |-> "idle", arg |-> None]]
      BY <2>1 DEF Stack!Init, Stack!Stack!Init, Stack!Stack!Idle, Stack!Nodes, Threads, Items
    <2>3. /\ sent = [p \in Producers |-> 0] /\ state = [c \in Consumers |-> "look"]
          /\ producersDone = FALSE /\ seen = [n \in Items |-> 0]
      BY <2>1 DEF Stack!Init, Stack!Nodes, Items
    <2>4. StackTypes
      <3>0. producersDone \in BOOLEAN
        BY <2>3, Zenon
      <3>1. content \in Seq(Items)
        BY <2>2
      <3>2. call \in [Threads -> [op : {"idle", "push", "pop", "empty"}, arg : Items \cup {None}]]
        BY <2>2
      <3>3. 0 \in 0..CountPerThread
        BY <1>0
      <3> QED BY <3>0, <3>1, <3>2, <3>3, <2>3 DEF StackTypes
    <2>5. StackCalls
      BY <1>0, <2>2, <2>3 DEF StackCalls, Threads
    <2>6. StackPlaces
      BY <1>0, <2>2, <2>3 DEF StackPlaces, Once, In, Inside, HasPushed, Items, Threads
    <2>7. StackEnds
      BY <1>0, <2>2, <2>3 DEF StackEnds, Threads
    <2> QED BY <2>4, <2>5, <2>6, <2>7 DEF StackInv
  <1>2. ASSUME running = "queue" PROVE QueueInv
    <2>1. Queue!Init
      BY <1>2 DEF Init
    <2>2. content = <<>> /\ call = [t \in Threads |-> [op |-> "idle", val |-> None]]
      BY <2>1 DEF Queue!Init, Queue!Queue!Init, Queue!Queue!Idle, Threads
    <2>3. /\ sent = [p \in Producers |-> 0] /\ state = [c \in Consumers |-> "first"]
          /\ producersDone = FALSE /\ seen = [n \in Items |-> 0]
      BY <2>1 DEF Queue!Init, Queue!Values, Items
    <2>4. QueueTypes
      <3>0. producersDone \in BOOLEAN
        BY <2>3, Zenon
      <3>1. content \in Seq(Items)
        BY <2>2
      <3>2. call \in [Threads -> [op : {"idle", "push", "put", "pop", "took"}, val : Items \cup {None}]]
        BY <2>2
      <3>3. 0 \in 0..CountPerThread
        BY <1>0
      <3> QED BY <3>0, <3>1, <3>2, <3>3, <2>3 DEF QueueTypes
    <2>5. QueueCalls
      BY <1>0, <2>2, <2>3 DEF QueueCalls, Threads
    <2>6. QueuePlaces
      BY <1>0, <2>2, <2>3 DEF QueuePlaces, Once, In, Inside, HasPut, Holds, Items, Threads
    <2>7. QueueEnds
      BY <1>0, <2>2, <2>3 DEF QueueEnds, Threads
    <2> QED BY <2>4, <2>5, <2>6, <2>7 DEF QueueInv
  <1>3. running \in {"stack", "queue", "maps"}
    BY DEF Init
  <1> QED BY <1>1, <1>2, <1>3 DEF ThreadInv

-----------------------------------------------------------------------------
(* Sequences *)

LEMMA AppendOnce ==
  ASSUME NEW S, NEW s \in Seq(S), NEW v \in S
  PROVE  /\ \A w : In(Append(s, v), w) <=> In(s, w) \/ w = v
         /\ Once(s) /\ ~In(s, v) => Once(Append(s, v))
  <1>1. /\ Len(s) \in Nat /\ Len(Append(s, v)) = Len(s) + 1
        /\ Append(s, v)[Len(s) + 1] = v
        /\ \A k \in 1..Len(s) : Append(s, v)[k] = s[k]
    OBVIOUS
  <1>2. \A k : k \in 1..(Len(s) + 1) <=> k \in 1..Len(s) \/ k = Len(s) + 1
    BY <1>1, SMT
  <1> HIDE <1>1
  <1> DEFINE a == Append(s, v)
             n == Len(s)
  <1>3. /\ Len(a) = n + 1 /\ a[n + 1] = v /\ \A k \in 1..n : a[k] = s[k]
        /\ \A k : k \in 1..(n + 1) <=> k \in 1..n \/ k = n + 1
    BY <1>1, <1>2
  <1> HIDE DEF a, n
  <1>4. \A w : In(a, w) <=> In(s, w) \/ w = v
    BY <1>3 DEF In, n
  <1>5. Once(s) /\ ~In(s, v) => Once(a)
    BY <1>3 DEF In, Once, n
  <1> QED BY <1>4, <1>5 DEF a

(* Without its first value, a sequence of different values has all the     *)
(* others.                                                                 *)
LEMMA TailOnce ==
  ASSUME NEW S, NEW s \in Seq(S), s # <<>>, Once(s)
  PROVE  /\ Tail(s) \in Seq(S) /\ Head(s) \in S /\ In(s, Head(s))
         /\ \A w : In(Tail(s), w) <=> In(s, w) /\ w # Head(s)
         /\ Once(Tail(s))
  <1> DEFINE n == Len(s)
             t == Tail(s)
  <1>1. /\ n \in Nat /\ n >= 1 /\ t \in Seq(S) /\ Len(t) = n - 1 /\ Head(s) = s[1] /\ s[1] \in S
        /\ \A k \in 1..(n - 1) : t[k] = s[k + 1]
    OBVIOUS
  <1> HIDE DEF n, t
  <1>2. /\ 1 \in 1..n /\ \A k \in 1..(n - 1) : k + 1 \in 1..n /\ k + 1 # 1
        /\ \A k \in 1..n : k = 1 \/ (k - 1 \in 1..(n - 1) /\ (k - 1) + 1 = k)
        /\ \A k, l \in 1..(n - 1) : k + 1 = l + 1 => k = l
    BY <1>1, SMT
  <1>3. ASSUME NEW w PROVE In(t, w) <=> In(s, w) /\ w # Head(s)
    <2>1. ASSUME In(t, w) PROVE In(s, w) /\ w # Head(s)
      <3>1. PICK k \in 1..(n - 1) : t[k] = w
        BY <1>1, <2>1 DEF In
      <3>2. k + 1 \in 1..Len(s) /\ s[k + 1] = w /\ k + 1 # 1 /\ 1 \in 1..Len(s)
        BY <3>1, <1>1, <1>2 DEF n
      <3> QED BY <3>2, <1>1 DEF In, Once
    <2>2. ASSUME In(s, w), w # Head(s) PROVE In(t, w)
      <3>1. PICK k \in 1..n : s[k] = w
        BY <2>2 DEF In, n
      <3>2. k - 1 \in 1..(n - 1) /\ (k - 1) + 1 = k
        BY <3>1, <2>2, <1>1, <1>2
      <3>3. t[k - 1] = w
        BY <3>1, <3>2, <1>1
      <3> QED BY <3>2, <3>3, <1>1 DEF In
    <2> QED BY <2>1, <2>2
  <1>4. Once(t)
    BY <1>1, <1>2 DEF Once, n
  <1>5. In(s, Head(s))
    BY <1>1, <1>2 DEF In, n
  <1> QED BY <1>1, <1>3, <1>4, <1>5 DEF t

(* A value put in front of a sequence that does not have it is in it once. *)
LEMMA FrontOnce ==
  ASSUME NEW S, NEW s \in Seq(S), s # <<>>, Once(s)
  PROVE  LET t == SubSeq(s, 1, Len(s) - 1)
             e == s[Len(s)]
         IN  /\ t \in Seq(S) /\ e \in S /\ In(s, e)
             /\ \A w : In(t, w) <=> In(s, w) /\ w # e
             /\ Once(t)
  <1> DEFINE n == Len(s)
             t == SubSeq(s, 1, Len(s) - 1)
             e == s[Len(s)]
  <1>1. /\ n \in Nat /\ n >= 1 /\ t \in Seq(S) /\ Len(t) = n - 1 /\ e = s[n] /\ e \in S
        /\ \A k \in 1..(n - 1) : t[k] = s[k]
    <2>1. n \in Nat /\ n >= 1 /\ e = s[n] /\ e \in S
      OBVIOUS
    <2>2. 1 \in Int /\ n - 1 \in Int /\ \A k \in 1..(n - 1) : s[k] \in S
      BY <2>1
    <2>3. /\ t \in Seq(S) /\ Len(t) = IF 1 <= n - 1 THEN (n - 1) - 1 + 1 ELSE 0
          /\ \A k \in 1..((n - 1) - 1 + 1) : t[k] = s[1 + k - 1]
      BY <2>2, SubSeqProperties
    <2>4. (n - 1) - 1 + 1 = n - 1 /\ \A k \in 1..(n - 1) : 1 + k - 1 = k
      BY <2>1
    <2> QED BY <2>1, <2>3, <2>4
  <1> HIDE DEF n, t, e
  <1>2. /\ n \in 1..n /\ \A k \in 1..(n - 1) : k \in 1..n /\ k # n
        /\ \A k \in 1..n : k = n \/ k \in 1..(n - 1)
    BY <1>1, SMT
  <1>3. \A w : In(t, w) <=> In(s, w) /\ w # e
    BY <1>1, <1>2 DEF In, Once, n
  <1>4. Once(t)
    BY <1>1, <1>2 DEF Once, n
  <1>5. In(s, e)
    BY <1>1, <1>2 DEF In, n
  <1> QED BY <1>1, <1>3, <1>4, <1>5 DEF t, e

-----------------------------------------------------------------------------
(* The steps of the queue test *)

(* What a step does that moves only the call of thread t.                  *)
LEMMA CallMoves ==
  ASSUME NEW t \in Threads, NEW x, DOMAIN call = Threads, call' = [call EXCEPT ![t] = x]
  PROVE  call'[t] = x /\ \A u \in Threads : u # t => call'[u] = call[u]
  OBVIOUS

QueueCall == [op : {"idle", "push", "put", "pop", "took"}, val : Items \cup {None}]

(* A step of the queue changes one thread's call.                          *)
LEMMA QueueCallMoves ==
  ASSUME QueueTypes, NEW t \in Threads, NEW x \in QueueCall, Queue!Queue!Becomes(t, x)
  PROVE  /\ call' \in [Threads -> QueueCall] /\ call'[t] = x
         /\ \A u \in Threads : u # t => call'[u] = call[u]
  BY DEF QueueTypes, QueueCall, Queue!Queue!Becomes

(* A thread is a producer or a consumer.                                   *)
LEMMA Apart ==
  /\ Producers \subseteq Threads /\ Consumers \subseteq Threads
  /\ \A p \in Producers, c \in Consumers : p # c
  /\ CountPerThread \in Nat
  /\ \A t \in Threads : t \in Producers \/ t \in Consumers
  BY BenchmarkAssumption DEF Threads

(* An item names its producer and its turn.                                *)
LEMMA ItemIs ==
  ASSUME NEW v \in Items
  PROVE  v[1] \in Producers /\ v[2] \in 0..(CountPerThread - 1) /\ v = <<v[1], v[2]>>
  BY DEF Items

(* Where nothing is put, taken or returned, every value stays where it is. *)
LEMMA PlacesKept ==
  ASSUME QueuePlaces, UNCHANGED <<content, sent, seen>>,
         \A p \in Producers : call'[p].op = "put" <=> call[p].op = "put",
         \A c \in Consumers, v \in Items : Holds(c, v)' <=> Holds(c, v)
  PROVE  QueuePlaces'
  <1>1. \A v \in Items : HasPut(v)' <=> HasPut(v)
    BY ItemIs DEF HasPut
  <1>2. \A v \in Items : Inside(v)' <=> Inside(v)
    BY DEF Inside
  <1> QED BY <1>1, <1>2 DEF QueuePlaces

(* A producer of the queue test calls push with its next value.            *)
LEMMA QueuePush ==
  ASSUME QueueInv, NEW p \in Producers, Queue!Push(p)
  PROVE  QueueInv'
  <1> DEFINE v == <<p, sent[p]>>
             x == [op |-> "push", val |-> v]
  <1>1. /\ QueueTypes /\ QueueCalls /\ QueuePlaces /\ QueueEnds /\ sent[p] < CountPerThread
        /\ Queue!Queue!Becomes(p, x) /\ call[p] = Queue!Queue!Idle
        /\ UNCHANGED <<content, sent, state, producersDone, seen>>
    BY DEF QueueInv, Queue!Push, Queue!Queue!InvokePush
  <1>2. v \in Items /\ x \in QueueCall
    BY <1>1, Apart DEF QueueTypes, Items, QueueCall
  <1>3. /\ call' \in [Threads -> QueueCall] /\ call'[p] = x
        /\ \A u \in Threads : u # p => call'[u] = call[u]
    BY <1>1, <1>2, Apart, QueueCallMoves
  <1>4. x.op = "push" /\ x.val = v /\ call[p].op = "idle"
    BY <1>1 DEF Queue!Queue!Idle
  <1> HIDE DEF x
  <1>5. QueueTypes'
    BY <1>1, <1>3 DEF QueueTypes, QueueCall
  <1>6. QueueCalls'
    BY <1>1, <1>3, <1>4, Apart DEF QueueCalls
  <1>7. QueuePlaces'
    <2>1. \A u \in Producers : call'[u].op = "put" <=> call[u].op = "put"
      BY <1>3, <1>4, Apart
    <2>2. \A c \in Consumers, w \in Items : Holds(c, w)' <=> Holds(c, w)
      BY <1>3, Apart DEF Holds
    <2> QED BY <1>1, <2>1, <2>2, PlacesKept
  <1>8. QueueEnds'
    BY <1>1 DEF QueueEnds
  <1> QED BY <1>5, <1>6, <1>7, <1>8 DEF QueueInv

(* push gives up, and is called again with the same value.                 *)
LEMMA QueueGiveUpPush ==
  ASSUME QueueInv, NEW p \in Producers, Queue!Queue!GiveUpPush(p),
         UNCHANGED <<sent, state, producersDone, seen>>
  PROVE  QueueInv'
  <1> DEFINE x == Queue!Queue!Idle
  <1>1. /\ QueueTypes /\ QueueCalls /\ QueuePlaces /\ QueueEnds /\ call[p].op = "push"
        /\ Queue!Queue!Becomes(p, x) /\ UNCHANGED <<content, sent, state, producersDone, seen>>
    BY DEF QueueInv, Queue!Queue!GiveUpPush
  <1>2. x \in QueueCall /\ x.op = "idle"
    BY DEF QueueCall, Queue!Queue!Idle
  <1>3. /\ call' \in [Threads -> QueueCall] /\ call'[p] = x
        /\ \A u \in Threads : u # p => call'[u] = call[u]
    BY <1>1, <1>2, Apart, QueueCallMoves
  <1> HIDE DEF x
  <1>5. QueueTypes'
    BY <1>1, <1>3 DEF QueueTypes, QueueCall
  <1>6. QueueCalls'
    BY <1>1, <1>2, <1>3, Apart DEF QueueCalls
  <1>7. QueuePlaces'
    <2>1. \A u \in Producers : call'[u].op = "put" <=> call[u].op = "put"
      BY <1>1, <1>2, <1>3, Apart
    <2>2. \A c \in Consumers, w \in Items : Holds(c, w)' <=> Holds(c, w)
      BY <1>3, Apart DEF Holds
    <2> QED BY <1>1, <2>1, <2>2, PlacesKept
  <1>8. QueueEnds'
    BY <1>1 DEF QueueEnds
  <1> QED BY <1>5, <1>6, <1>7, <1>8 DEF QueueInv

(* push writes the value: it is in the queue, where it was nowhere.        *)
LEMMA QueuePut ==
  ASSUME QueueInv, NEW p \in Producers, Queue!Queue!Put(p),
         UNCHANGED <<sent, state, producersDone, seen>>
  PROVE  QueueInv'
  <1> DEFINE v == <<p, sent[p]>>
             x == [call[p] EXCEPT !.op = "put"]
  <1>1. /\ QueueTypes /\ QueueCalls /\ QueuePlaces /\ QueueEnds /\ call[p].op = "push"
        /\ Queue!Queue!Becomes(p, x) /\ content' = Append(content, call[p].val)
        /\ UNCHANGED <<sent, state, producersDone, seen>>
    BY DEF QueueInv, Queue!Queue!Put
  <1>2. call[p].val = v /\ sent[p] < CountPerThread /\ v \in Items
    BY <1>1, Apart DEF QueueCalls, QueueTypes, Items
  <1>3. x \in QueueCall /\ x.op = "put" /\ x.val = v
    BY <1>1, <1>2, Apart DEF QueueTypes, QueueCall
  <1>4. /\ call' \in [Threads -> QueueCall] /\ call'[p] = x
        /\ \A u \in Threads : u # p => call'[u] = call[u]
    BY <1>1, <1>3, Apart, QueueCallMoves
  <1>5. content \in Seq(Items) /\ content' = Append(content, v)
    BY <1>1, <1>2 DEF QueueTypes
  <1>6. /\ \A w \in Items : Inside(w)' <=> Inside(w) \/ w = v
        /\ Once(content) /\ ~In(content, v) => Once(content')
    BY <1>2, <1>5, AppendOnce DEF Inside
  <1> HIDE DEF x
  <1>7. QueueTypes'
    <2>1. content' \in Seq(Items)
      BY <1>2, <1>5
    <2> QED BY <1>1, <1>4, <2>1 DEF QueueTypes, QueueCall
  <1>8. QueueCalls'
    BY <1>1, <1>2, <1>3, <1>4, Apart DEF QueueCalls
  <1>9. QueuePlaces'
    <2>1. ~HasPut(v)
      BY <1>1, <1>2, Apart DEF HasPut, QueueTypes
    <2>2. HasPut(v)'
      BY <1>1, <1>3, <1>4 DEF HasPut
    <2>3. \A w \in Items : w # v => (HasPut(w)' <=> HasPut(w))
      <3> SUFFICES ASSUME NEW w \in Items, w # v PROVE HasPut(w)' <=> HasPut(w)
        OBVIOUS
      <3>1. CASE w[1] # p
        BY <3>1, <1>1, <1>4, ItemIs, Apart DEF HasPut
      <3>2. CASE w[1] = p
        <4>1. w[2] # sent[p]
          BY <3>2, ItemIs
        <4> QED BY <3>2, <4>1, <1>1 DEF HasPut
      <3> QED BY <3>1, <3>2
    <2>4. \A c \in Consumers, w \in Items : Holds(c, w)' <=> Holds(c, w)
      BY <1>4, Apart DEF Holds
    <2>5. seen[v] = 0 /\ ~Inside(v) /\ \A c \in Consumers : ~Holds(c, v)
      BY <1>1, <1>2, <2>1 DEF QueuePlaces
    <2>6. Once(content')
      BY <1>1, <1>6, <2>5 DEF QueuePlaces, Inside
    <2> QED BY <1>1, <1>2, <1>6, <2>2, <2>3, <2>4, <2>5, <2>6 DEF QueuePlaces
  <1>10. QueueEnds'
    <2>1. ~producersDone
      BY <1>1, <1>2, Apart DEF QueueEnds, QueueTypes
    <2> QED BY <1>1, <2>1 DEF QueueEnds
  <1> QED BY <1>7, <1>8, <1>9, <1>10 DEF QueueInv

(* push returns true: the producer goes on to its next value.              *)
LEMMA QueuePushReturns ==
  ASSUME QueueInv, NEW p \in Producers, Queue!PushReturns(p)
  PROVE  QueueInv'
  <1> DEFINE x == Queue!Queue!Idle
  <1>1. /\ QueueTypes /\ QueueCalls /\ QueuePlaces /\ QueueEnds /\ call[p].op \in {"put", "took"}
        /\ Queue!Queue!Becomes(p, x) /\ UNCHANGED <<content, state, producersDone, seen>>
        /\ sent' = [sent EXCEPT ![p] = @ + 1]
    BY DEF QueueInv, Queue!PushReturns, Queue!Queue!Done
  <1>2. call[p].op = "put" /\ sent[p] < CountPerThread /\ sent[p] \in Nat
    BY <1>1, Apart DEF QueueCalls, QueueTypes
  <1>3. x \in QueueCall /\ x.op = "idle"
    BY DEF QueueCall, Queue!Queue!Idle
  <1>4. /\ call' \in [Threads -> QueueCall] /\ call'[p] = x
        /\ \A u \in Threads : u # p => call'[u] = call[u]
    BY <1>1, <1>3, Apart, QueueCallMoves
  <1>5. /\ sent' \in [Producers -> 0..CountPerThread]
        /\ sent'[p] = sent[p] + 1 /\ \A u \in Producers : u # p => sent'[u] = sent[u]
    BY <1>1, <1>2, Apart DEF QueueTypes
  <1> HIDE DEF x
  <1>6. QueueTypes'
    BY <1>1, <1>4, <1>5 DEF QueueTypes, QueueCall
  <1>7. QueueCalls'
    BY <1>1, <1>3, <1>4, <1>5, Apart DEF QueueCalls
  <1>8. QueuePlaces'
    <2>1. \A v \in Items : HasPut(v)' <=> HasPut(v)
      <3> SUFFICES ASSUME NEW v \in Items PROVE HasPut(v)' <=> HasPut(v)
        OBVIOUS
      <3>1. CASE v[1] # p
        BY <3>1, <1>4, <1>5, ItemIs, Apart DEF HasPut
      <3>2. CASE v[1] = p
        <4>1. v[2] \in Nat
          BY ItemIs, Apart
        <4> QED BY <3>2, <4>1, <1>2, <1>3, <1>4, <1>5 DEF HasPut
      <3> QED BY <3>1, <3>2
    <2>2. \A c \in Consumers, w \in Items : Holds(c, w)' <=> Holds(c, w)
      BY <1>4, Apart DEF Holds
    <2>3. \A v \in Items : Inside(v)' <=> Inside(v)
      BY <1>1 DEF Inside
    <2> QED BY <1>1, <2>1, <2>2, <2>3 DEF QueuePlaces
  <1>9. QueueEnds'
    <2>1. ~producersDone
      BY <1>1, <1>2, Apart DEF QueueEnds, QueueTypes
    <2> QED BY <1>1, <2>1 DEF QueueEnds
  <1> QED BY <1>6, <1>7, <1>8, <1>9 DEF QueueInv

(* The main thread has joined the producers and sets the flag.             *)
LEMMA QueueJoin ==
  ASSUME QueueInv, Queue!JoinProducers
  PROVE  QueueInv'
  <1>1. /\ QueueTypes /\ QueueCalls /\ QueuePlaces /\ QueueEnds
        /\ \A p \in Producers : sent[p] = CountPerThread
        /\ producersDone' = TRUE /\ UNCHANGED <<content, call, sent, state, seen>>
    BY DEF QueueInv, Queue!JoinProducers, Queue!queue
  <1>2. QueueTypes'
    <2>1. producersDone' \in BOOLEAN
      BY <1>1, Zenon
    <2> QED BY <1>1, <2>1 DEF QueueTypes
  <1>3. QueueCalls'
    BY <1>1 DEF QueueCalls
  <1>4. QueuePlaces'
    BY <1>1 DEF QueuePlaces, Inside, Holds, HasPut
  <1>5. QueueEnds'
    BY <1>1 DEF QueueEnds
  <1> QED BY <1>2, <1>3, <1>4, <1>5 DEF QueueInv

(* A consumer calls pop.                                                   *)
LEMMA QueuePop ==
  ASSUME QueueInv, NEW c \in Consumers, Queue!Pop(c)
  PROVE  QueueInv'
  <1> DEFINE x == [op |-> "pop", val |-> None]
  <1>1. /\ QueueTypes /\ QueueCalls /\ QueuePlaces /\ QueueEnds /\ state[c] \in {"first", "second"}
        /\ Queue!Queue!Becomes(c, x) /\ call[c] = Queue!Queue!Idle
        /\ UNCHANGED <<content, sent, state, producersDone, seen>>
    BY DEF QueueInv, Queue!Pop, Queue!Queue!InvokePop
  <1>2. x \in QueueCall /\ x.op = "pop" /\ call[c].op = "idle"
    BY <1>1 DEF QueueCall, Queue!Queue!Idle
  <1>3. /\ call' \in [Threads -> QueueCall] /\ call'[c] = x
        /\ \A u \in Threads : u # c => call'[u] = call[u]
    BY <1>1, <1>2, Apart, QueueCallMoves
  <1> HIDE DEF x
  <1>4. QueueTypes'
    BY <1>1, <1>3 DEF QueueTypes, QueueCall
  <1>5. QueueCalls'
    BY <1>1, <1>2, <1>3, Apart DEF QueueCalls
  <1>6. QueuePlaces'
    <2>1. \A p \in Producers : call'[p].op = "put" <=> call[p].op = "put"
      BY <1>3, Apart
    <2>2. \A d \in Consumers, w \in Items : Holds(d, w)' <=> Holds(d, w)
      BY <1>2, <1>3, Apart DEF Holds
    <2> QED BY <1>1, <2>1, <2>2, PlacesKept
  <1>7. QueueEnds'
    BY <1>1 DEF QueueEnds
  <1> QED BY <1>4, <1>5, <1>6, <1>7 DEF QueueInv

(* pop takes the value in front, which the consumer now holds.             *)
LEMMA QueueTake ==
  ASSUME QueueInv, NEW c \in Consumers, Queue!PopGoesOn(c)
  PROVE  QueueInv'
  <1> DEFINE v == Head(content)
             x == [op |-> "took", val |-> v]
  <1>1. /\ QueueTypes /\ QueueCalls /\ QueuePlaces /\ QueueEnds /\ call[c].op = "pop"
        /\ content # <<>> /\ content' = Tail(content) /\ Queue!Queue!Becomes(c, x)
        /\ UNCHANGED <<sent, state, producersDone, seen>>
    BY DEF QueueInv, Queue!PopGoesOn, Queue!Queue!Take
  <1>2. content \in Seq(Items) /\ Once(content)
    BY <1>1 DEF QueueTypes, QueuePlaces
  <1>3. /\ content' \in Seq(Items) /\ v \in Items /\ Inside(v) /\ Once(content')
        /\ \A w : Inside(w)' <=> Inside(w) /\ w # v
    BY <1>1, <1>2, TailOnce DEF Inside
  <1> HIDE DEF v
  <1>4. x \in QueueCall /\ x.op = "took" /\ x.val = v
    BY <1>3 DEF QueueCall
  <1>5. /\ call' \in [Threads -> QueueCall] /\ call'[c] = x
        /\ \A u \in Threads : u # c => call'[u] = call[u]
    BY <1>1, <1>4, Apart, QueueCallMoves
  <1> HIDE DEF x
  <1>6. QueueTypes'
    BY <1>1, <1>3, <1>5 DEF QueueTypes, QueueCall
  <1>7. QueueCalls'
    BY <1>1, <1>3, <1>4, <1>5, Apart DEF QueueCalls
  <1>8. QueuePlaces'
    <2>1. \A w \in Items : HasPut(w)' <=> HasPut(w)
      BY <1>1, <1>5, ItemIs, Apart DEF HasPut
    <2>2. \A d \in Consumers, w \in Items : Holds(d, w)' <=> Holds(d, w) \/ (d = c /\ w = v)
      BY <1>1, <1>4, <1>5, Apart DEF Holds
    <2>3. HasPut(v) /\ seen[v] # 1 /\ \A d \in Consumers : ~Holds(d, v)
      BY <1>1, <1>3 DEF QueuePlaces
    <2>4. /\ \A d, e \in Consumers, w \in Items : Holds(d, w)' /\ Holds(e, w)' => d = e
          /\ \A w \in Items, d \in Consumers : ~(Inside(w)' /\ Holds(d, w)')
          /\ \A w \in Items : seen[w] = 1 => ~Inside(w)' /\ \A d \in Consumers : ~Holds(d, w)'
      BY <1>1, <1>3, <2>2, <2>3 DEF QueuePlaces
    <2>5. \A w \in Items : HasPut(w) => seen[w] = 1 \/ Inside(w)' \/ \E d \in Consumers : Holds(d, w)'
      BY <1>1, <1>3, <2>2 DEF QueuePlaces
    <2>6. \A w \in Items : ~HasPut(w) => seen[w] = 0 /\ ~Inside(w)' /\ \A d \in Consumers : ~Holds(d, w)'
      BY <1>1, <1>3, <2>2, <2>3 DEF QueuePlaces
    <2> QED BY <1>1, <1>3, <2>1, <2>4, <2>5, <2>6 DEF QueuePlaces
  <1>9. QueueEnds'
    BY <1>1 DEF QueueEnds
  <1> QED BY <1>6, <1>7, <1>8, <1>9 DEF QueueInv

(* pop returns it: it is seen.                                             *)
LEMMA QueuePopReturns ==
  ASSUME QueueInv, NEW c \in Consumers, Queue!PopReturns(c)
  PROVE  QueueInv'
  <1> DEFINE v == call[c].val
             x == Queue!Queue!Idle
  <1>1. /\ QueueTypes /\ QueueCalls /\ QueuePlaces /\ QueueEnds /\ call[c].op \in {"put", "took"}
        /\ Queue!Queue!Becomes(c, x) /\ seen' = [seen EXCEPT ![v] = @ + 1]
        /\ state' = [state EXCEPT ![c] = "first"]
        /\ UNCHANGED <<content, sent, producersDone>>
    BY DEF QueueInv, Queue!PopReturns, Queue!Queue!Done, Queue!Become
  <1>2. call[c].op = "took" /\ v \in Items /\ Holds(c, v)
    BY <1>1, Apart DEF QueueCalls, Holds
  <1>3. x \in QueueCall /\ x.op = "idle"
    BY DEF QueueCall, Queue!Queue!Idle
  <1>4. /\ call' \in [Threads -> QueueCall] /\ call'[c] = x
        /\ \A u \in Threads : u # c => call'[u] = call[u]
    BY <1>1, <1>3, Apart, QueueCallMoves
  <1>5. seen[v] = 0 /\ HasPut(v) /\ ~Inside(v)
    BY <1>1, <1>2 DEF QueuePlaces, QueueTypes
  <1>6. /\ seen' \in [Items -> {0, 1}] /\ seen'[v] = 1
        /\ \A w \in Items : w # v => seen'[w] = seen[w]
    BY <1>1, <1>2, <1>5 DEF QueueTypes
  <1>7. \A w \in Items, d \in Consumers : Holds(d, w)' <=> Holds(d, w) /\ d # c
    BY <1>3, <1>4, Apart DEF Holds
  <1>8. /\ state' \in [Consumers -> {"first", "failed", "second", "done"}] /\ state'[c] = "first"
        /\ \A d \in Consumers : d # c => state'[d] = state[d]
    BY <1>1 DEF QueueTypes
  <1>9. \A w \in Items : Holds(c, w) => w = v
    BY DEF Holds
  <1> HIDE DEF v, x
  <1>10. QueueTypes'
    BY <1>1, <1>4, <1>6, <1>8 DEF QueueTypes, QueueCall
  <1>11. QueueCalls'
    BY <1>1, <1>3, <1>4, <1>8, Apart DEF QueueCalls
  <1>12. QueuePlaces'
    <2>1. \A w \in Items : HasPut(w)' <=> HasPut(w)
      BY <1>1, <1>4, ItemIs, Apart DEF HasPut
    <2>2. \A w \in Items : Inside(w)' <=> Inside(w)
      BY <1>1 DEF Inside
    <2>3. \A d \in Consumers, w \in Items : w = v => ~Holds(d, w)'
      BY <1>1, <1>2, <1>7 DEF QueuePlaces
    <2>4. /\ \A d, e \in Consumers, w \in Items : Holds(d, w)' /\ Holds(e, w)' => d = e
          /\ \A w \in Items, d \in Consumers : ~(Inside(w)' /\ Holds(d, w)')
      BY <1>1, <1>7, <2>2 DEF QueuePlaces
    <2>5. \A w \in Items : seen'[w] = 1 => ~Inside(w)' /\ \A d \in Consumers : ~Holds(d, w)'
      BY <1>1, <1>5, <1>6, <1>7, <2>2, <2>3 DEF QueuePlaces
    <2>6. ASSUME NEW w \in Items, w # v, HasPut(w)
          PROVE  seen'[w] = 1 \/ Inside(w)' \/ \E d \in Consumers : Holds(d, w)'
      BY <1>1, <1>6, <1>7, <1>9, <2>2, <2>6 DEF QueuePlaces
    <2>7. \A w \in Items : ~HasPut(w) => seen'[w] = 0 /\ ~Inside(w)' /\ \A d \in Consumers : ~Holds(d, w)'
      BY <1>1, <1>5, <1>6, <1>7, <2>2 DEF QueuePlaces
    <2> QED BY <1>1, <1>6, <2>1, <2>4, <2>5, <2>6, <2>7 DEF QueuePlaces
  <1>13. QueueEnds'
    BY <1>1, <1>8 DEF QueueEnds
  <1> QED BY <1>10, <1>11, <1>12, <1>13 DEF QueueInv

(* pop returns false, on an empty queue if this was the second look: no    *)
(* put is half done any more.                                              *)
LEMMA QueuePopFails ==
  ASSUME QueueInv, NEW c \in Consumers, Queue!PopFails(c)
  PROVE  QueueInv'
  <1> DEFINE x == Queue!Queue!Idle
             s == IF state[c] = "first" THEN "failed" ELSE "done"
  <1>1. /\ QueueTypes /\ QueueCalls /\ QueuePlaces /\ QueueEnds /\ call[c].op = "pop"
        /\ content = <<>> \/ \E u \in Threads : call[u].op = "put"
        /\ Queue!Queue!Becomes(c, x) /\ state' = [state EXCEPT ![c] = s]
        /\ UNCHANGED <<content, sent, producersDone, seen>>
    BY DEF QueueInv, Queue!PopFails, Queue!Queue!GiveUpPop, Queue!Become, Threads
  <1>2. x \in QueueCall /\ x.op = "idle"
    BY DEF QueueCall, Queue!Queue!Idle
  <1>3. /\ call' \in [Threads -> QueueCall] /\ call'[c] = x
        /\ \A u \in Threads : u # c => call'[u] = call[u]
    BY <1>1, <1>2, Apart, QueueCallMoves
  <1>4. /\ state' \in [Consumers -> {"first", "failed", "second", "done"}] /\ state'[c] = s
        /\ \A d \in Consumers : d # c => state'[d] = state[d]
    BY <1>1 DEF QueueTypes
  <1>5. s = "done" => producersDone /\ content = <<>>
    <2> SUFFICES ASSUME s = "done" PROVE producersDone /\ content = <<>>
      OBVIOUS
    <2>1. state[c] \in {"second", "done"}
      BY <1>1 DEF QueueTypes, QueueCalls
    <2>2. producersDone /\ \A p \in Producers : sent[p] = CountPerThread
      BY <1>1, <2>1 DEF QueueEnds
    <2>3. \A u \in Threads : call[u].op # "put"
      BY <1>1, <2>2, Apart DEF QueueCalls
    <2> QED BY <1>1, <2>2, <2>3
  <1>6. s # "second" /\ s # "first"
    OBVIOUS
  <1> HIDE DEF x, s
  <1>7. QueueTypes'
    BY <1>1, <1>3, <1>4 DEF QueueTypes, QueueCall
  <1>8. QueueCalls'
    BY <1>1, <1>2, <1>3, <1>4, Apart DEF QueueCalls
  <1>9. QueuePlaces'
    <2>1. \A p \in Producers : call'[p].op = "put" <=> call[p].op = "put"
      BY <1>3, Apart
    <2>2. \A d \in Consumers, w \in Items : Holds(d, w)' <=> Holds(d, w)
      BY <1>1, <1>2, <1>3, Apart DEF Holds
    <2> QED BY <1>1, <2>1, <2>2, PlacesKept
  <1>10. QueueEnds'
    <2>1. \A d \in Consumers : state'[d] \in {"second", "done"} => producersDone
      BY <1>1, <1>4, <1>5, <1>6 DEF QueueEnds
    <2>2. \A d \in Consumers : state'[d] = "done" => content = <<>>
      BY <1>1, <1>4, <1>5 DEF QueueEnds
    <2> QED BY <1>1, <2>1, <2>2 DEF QueueEnds
  <1> QED BY <1>7, <1>8, <1>9, <1>10 DEF QueueInv

(* After a failure the consumer looks at the flag.                         *)
LEMMA QueueLook ==
  ASSUME QueueInv, NEW c \in Consumers, Queue!Look(c)
  PROVE  QueueInv'
  <1> DEFINE s == IF producersDone THEN "second" ELSE "first"
  <1>1. /\ QueueTypes /\ QueueCalls /\ QueuePlaces /\ QueueEnds
        /\ state' = [state EXCEPT ![c] = s]
        /\ UNCHANGED <<content, call, sent, producersDone, seen>>
    BY DEF QueueInv, Queue!Look, Queue!Become, Queue!queue
  <1>2. s \in {"first", "second"} /\ (s = "second" => producersDone)
    OBVIOUS
  <1>3. /\ state' \in [Consumers -> {"first", "failed", "second", "done"}] /\ state'[c] = s
        /\ \A d \in Consumers : d # c => state'[d] = state[d]
    BY <1>1, <1>2 DEF QueueTypes
  <1> HIDE DEF s
  <1>4. QueueTypes'
    BY <1>1, <1>3 DEF QueueTypes
  <1>5. QueueCalls'
    BY <1>1, <1>2, <1>3 DEF QueueCalls
  <1>6. QueuePlaces'
    BY <1>1 DEF QueuePlaces, Inside, Holds, HasPut
  <1>7. QueueEnds'
    BY <1>1, <1>2, <1>3 DEF QueueEnds
  <1> QED BY <1>4, <1>5, <1>6, <1>7 DEF QueueInv

-----------------------------------------------------------------------------
(* The steps of the stack test *)

StackCall == [op : {"idle", "push", "pop", "empty"}, arg : Items \cup {None}]

(* A step of the stack changes one thread's call.                          *)
LEMMA StackCallMoves ==
  ASSUME StackTypes, NEW t \in Threads, NEW x \in StackCall, call' = [call EXCEPT ![t] = x]
  PROVE  /\ call' \in [Threads -> StackCall] /\ call'[t] = x
         /\ \A u \in Threads : u # t => call'[u] = call[u]
  BY DEF StackTypes, StackCall

(* Where no push begins or returns, what was stacked is what was.          *)
LEMMA Pushed ==
  ASSUME \A p \in Producers : sent'[p] = sent[p] /\ (call'[p].op = "push" <=> call[p].op = "push")
  PROVE  \A n \in Items : HasPushed(n)' <=> HasPushed(n)
  BY ItemIs DEF HasPushed

(* ... and every node stays where it is.                                   *)
LEMMA NodesStay ==
  ASSUME StackPlaces, UNCHANGED <<content, sent, seen>>,
         \A p \in Producers : call'[p].op = "push" <=> call[p].op = "push"
  PROVE  StackPlaces'
  BY Pushed DEF StackPlaces, Inside

(* A producer of the stack test makes its next node and stacks it.         *)
LEMMA StackPush ==
  ASSUME StackInv, NEW p \in Producers, Stack!Push(p)
  PROVE  StackInv'
  <1> DEFINE n == <<p, sent[p]>>
             x == [op |-> "push", arg |-> n]
  <1>1. /\ StackTypes /\ StackCalls /\ StackPlaces /\ StackEnds /\ sent[p] < CountPerThread
        /\ call' = [call EXCEPT ![p] = x] /\ call[p] = Stack!Stack!Idle
        /\ sent' = [sent EXCEPT ![p] = @ + 1]
        /\ UNCHANGED <<content, state, producersDone, seen>>
    BY DEF StackInv, Stack!Push, Stack!Stack!InvokePush, Stack!Stack!Push
  <1>2. n \in Items /\ x \in StackCall /\ sent[p] \in Nat
    BY <1>1, Apart DEF StackTypes, Items, StackCall
  <1>3. /\ call' \in [Threads -> StackCall] /\ call'[p] = x
        /\ \A u \in Threads : u # p => call'[u] = call[u]
    BY <1>1, <1>2, Apart, StackCallMoves
  <1>4. x.op = "push" /\ x.arg = n /\ call[p].op = "idle"
    BY <1>1 DEF Stack!Stack!Idle
  <1>5. /\ sent' \in [Producers -> 0..CountPerThread]
        /\ sent'[p] = sent[p] + 1 /\ \A u \in Producers : u # p => sent'[u] = sent[u]
    BY <1>1, <1>2, Apart DEF StackTypes
  <1> HIDE DEF x
  <1>6. StackTypes'
    BY <1>1, <1>3, <1>5 DEF StackTypes, StackCall
  <1>7. StackCalls'
    <2>1. sent'[p] > 0 /\ x.arg = <<p, sent'[p] - 1>>
      BY <1>2, <1>4, <1>5
    <2> QED BY <1>1, <1>3, <1>4, <1>5, <2>1, Apart DEF StackCalls
  <1>8. StackPlaces'
    <2>1. \A m \in Items : HasPushed(m)' <=> HasPushed(m)
      <3> SUFFICES ASSUME NEW m \in Items PROVE HasPushed(m)' <=> HasPushed(m)
        OBVIOUS
      <3>1. CASE m[1] # p
        BY <3>1, <1>3, <1>5, ItemIs, Apart DEF HasPushed
      <3>2. CASE m[1] = p
        <4>1. m[2] \in Nat
          BY ItemIs, Apart
        <4> QED BY <3>2, <4>1, <1>2, <1>3, <1>4, <1>5 DEF HasPushed
      <3> QED BY <3>1, <3>2
    <2>2. \A m \in Items : Inside(m)' <=> Inside(m)
      BY <1>1 DEF Inside
    <2> QED BY <1>1, <2>1, <2>2 DEF StackPlaces
  <1>9. StackEnds'
    <2>1. ~producersDone
      BY <1>1, <1>2, Apart DEF StackEnds
    <2> QED BY <1>1, <2>1 DEF StackEnds
  <1> QED BY <1>6, <1>7, <1>8, <1>9 DEF StackInv

(* push returns.                                                           *)
LEMMA StackPushReturns ==
  ASSUME StackInv, NEW p \in Producers, Stack!PushReturns(p)
  PROVE  StackInv'
  <1> DEFINE x == Stack!Stack!Idle
  <1>1. PICK n \in Items : /\ call[p] = [op |-> "push", arg |-> n]
                           /\ content' = Append(content, n)
                           /\ call' = [call EXCEPT ![p] = x]
    BY DEF Stack!PushReturns, Stack!Stack!DoPush, Stack!Stack!Push, Stack!Nodes, Items
  <1>2. /\ StackTypes /\ StackCalls /\ StackPlaces /\ StackEnds
        /\ UNCHANGED <<sent, state, producersDone, seen>>
    BY DEF StackInv, Stack!PushReturns
  <1>3. call[p].op = "push" /\ n = <<p, sent[p] - 1>> /\ sent[p] > 0 /\ sent[p] \in Nat
    <2>1. call[p].op = "push" /\ call[p].arg = n
      BY <1>1
    <2>2. sent[p] > 0 /\ call[p].arg = <<p, sent[p] - 1>>
      BY <1>2, <2>1 DEF StackCalls
    <2>3. sent[p] \in Nat
      BY <1>2, Apart DEF StackTypes
    <2> QED BY <2>1, <2>2, <2>3
  <1>4. x \in StackCall /\ x.op = "idle"
    BY DEF StackCall, Stack!Stack!Idle
  <1>5. /\ call' \in [Threads -> StackCall] /\ call'[p] = x
        /\ \A u \in Threads : u # p => call'[u] = call[u]
    BY <1>1, <1>2, <1>4, Apart, StackCallMoves
  <1> HIDE DEF x
  <1>6. content \in Seq(Items) /\ Once(content)
    BY <1>2 DEF StackTypes, StackPlaces
  <1>7. /\ \A w \in Items : Inside(w)' <=> Inside(w) \/ w = n
        /\ ~In(content, n) => Once(content')
    BY <1>1, <1>6, AppendOnce DEF Inside
  <1>8. StackTypes'
    <2>1. content' \in Seq(Items)
      BY <1>1, <1>6
    <2> QED BY <1>2, <1>5, <2>1 DEF StackTypes, StackCall
  <1>9. StackCalls'
    BY <1>2, <1>4, <1>5, Apart DEF StackCalls
  <1>10. StackPlaces'
    <2>1. ~HasPushed(n) /\ HasPushed(n)'
      BY <1>2, <1>3, <1>4, <1>5 DEF HasPushed
    <2>2. \A m \in Items : m # n => (HasPushed(m)' <=> HasPushed(m))
      <3> SUFFICES ASSUME NEW m \in Items, m # n PROVE HasPushed(m)' <=> HasPushed(m)
        OBVIOUS
      <3>1. CASE m[1] # p
        BY <3>1, <1>2, <1>5, ItemIs, Apart DEF HasPushed
      <3>2. CASE m[1] = p
        <4>1. m[2] # sent[p] - 1 /\ m[2] \in Nat
          BY <3>2, <1>3, ItemIs, Apart
        <4> QED BY <3>2, <4>1, <1>2, <1>3, <1>4, <1>5 DEF HasPushed
      <3> QED BY <3>1, <3>2
    <2>3. seen[n] = 0 /\ ~Inside(n)
      BY <1>2, <2>1 DEF StackPlaces
    <2> QED BY <1>2, <1>7, <2>1, <2>2, <2>3 DEF StackPlaces, Inside
  <1>11. StackEnds'
    <2>1. ~producersDone
      BY <1>2, <1>3 DEF StackEnds
    <2> QED BY <1>2, <2>1 DEF StackEnds
  <1> QED BY <1>8, <1>9, <1>10, <1>11 DEF StackInv

(* The main thread has joined the producers and sets the flag.             *)
LEMMA StackJoin ==
  ASSUME StackInv, Stack!JoinProducers
  PROVE  StackInv'
  <1>1. /\ StackTypes /\ StackCalls /\ StackPlaces /\ StackEnds
        /\ \A p \in Producers : sent[p] = CountPerThread /\ call[p] = Stack!Stack!Idle
        /\ producersDone' = TRUE /\ UNCHANGED <<content, call, sent, state, seen>>
    BY DEF StackInv, Stack!JoinProducers
  <1>2. StackTypes'
    <2>1. producersDone' \in BOOLEAN
      BY <1>1, Zenon
    <2> QED BY <1>1, <2>1 DEF StackTypes
  <1>3. StackCalls'
    BY <1>1 DEF StackCalls
  <1>4. StackPlaces'
    BY <1>1, NodesStay
  <1>5. StackEnds'
    BY <1>1 DEF StackEnds, Stack!Stack!Idle
  <1> QED BY <1>2, <1>3, <1>4, <1>5 DEF StackInv

(* A consumer's call moves, or its state, and no node does.                *)
LEMMA StackConsumerMoves ==
  ASSUME StackInv, NEW c \in Consumers, NEW x \in StackCall, x.op # "push",
         NEW s \in {"look", "failed", "sawDone", "done"},
         call' = [call EXCEPT ![c] = x], state' = [state EXCEPT ![c] = s],
         s \in {"sawDone", "done"} => producersDone, s = "done" => content = <<>>,
         UNCHANGED <<content, sent, producersDone, seen>>
  PROVE  StackInv'
  <1>1. StackTypes /\ StackCalls /\ StackPlaces /\ StackEnds
    BY DEF StackInv
  <1>2. /\ call' \in [Threads -> StackCall] /\ call'[c] = x
        /\ \A u \in Threads : u # c => call'[u] = call[u]
    BY <1>1, Apart, StackCallMoves
  <1>3. /\ state' \in [Consumers -> {"look", "failed", "sawDone", "done"}] /\ state'[c] = s
        /\ \A d \in Consumers : d # c => state'[d] = state[d]
    BY <1>1 DEF StackTypes
  <1>4. StackTypes'
    BY <1>1, <1>2, <1>3 DEF StackTypes, StackCall
  <1>5. StackCalls'
    BY <1>1, <1>2, Apart DEF StackCalls
  <1>6. StackPlaces'
    BY <1>1, <1>2, Apart, NodesStay
  <1>7. StackEnds'
    BY <1>1, <1>2, <1>3, Apart DEF StackEnds
  <1> QED BY <1>4, <1>5, <1>6, <1>7 DEF StackInv

(* The steps of a consumer that gets no node.                              *)
LEMMA StackQuietConsumer ==
  ASSUME StackInv, NEW c \in Consumers,
         \/ Stack!Pop(c) \/ Stack!PopFindsNothing(c) \/ Stack!PopFails(c)
         \/ Stack!LookAtFlag(c) \/ Stack!LookAtStack(c)
  PROVE  StackInv'
  <1>1. /\ call \in [Threads -> StackCall] /\ c \in Threads /\ call[c].op # "push"
        /\ state \in [Consumers -> {"look", "failed", "sawDone", "done"}]
    BY Apart DEF StackInv, StackTypes, StackCall, StackCalls
  <1>2. /\ state' = state => state' = [state EXCEPT ![c] = state[c]]
        /\ call' = call => call' = [call EXCEPT ![c] = call[c]]
    BY <1>1
  <1>3. /\ Stack!Stack!Pop \in StackCall /\ Stack!Stack!Pop.op # "push"
        /\ Stack!Stack!Empty \in StackCall /\ Stack!Stack!Empty.op # "push"
        /\ Stack!Stack!Idle \in StackCall /\ Stack!Stack!Idle.op # "push"
    BY DEF StackCall, Stack!Stack!Pop, Stack!Stack!Empty, Stack!Stack!Idle
  <1>4. /\ state[c] \in {"sawDone", "done"} => producersDone
        /\ state[c] = "done" => content = <<>>
    BY DEF StackInv, StackEnds
  <1>5. CASE Stack!Pop(c)
    BY <1>1, <1>2, <1>3, <1>4, <1>5, StackConsumerMoves DEF Stack!Pop, Stack!Stack!InvokePop
  <1>6. CASE Stack!PopFindsNothing(c)
    BY <1>1, <1>2, <1>3, <1>4, <1>6, StackConsumerMoves DEF Stack!PopFindsNothing, Stack!Stack!DoPopEmpty
  <1>7. CASE Stack!PopFails(c)
    BY <1>1, <1>2, <1>3, <1>7, StackConsumerMoves DEF Stack!PopFails, Stack!Stack!ReturnEmpty, Stack!Become
  <1>8. CASE Stack!LookAtFlag(c)
    <2> DEFINE s == IF producersDone THEN "sawDone" ELSE "look"
    <2>1. s \in {"look", "sawDone"} /\ (s = "sawDone" => producersDone)
      OBVIOUS
    <2>2. /\ state' = [state EXCEPT ![c] = s] /\ call' = [call EXCEPT ![c] = call[c]]
          /\ UNCHANGED <<content, sent, producersDone, seen>>
      BY <1>2, <1>8 DEF Stack!LookAtFlag, Stack!Become
    <2> HIDE DEF s
    <2> QED BY <1>1, <2>1, <2>2, StackConsumerMoves
  <1>9. CASE Stack!LookAtStack(c)
    <2> DEFINE s == IF content = <<>> THEN "done" ELSE "look"
    <2>1. s \in {"look", "done"} /\ (s = "done" => content = <<>> /\ producersDone)
      BY <1>4, <1>9 DEF Stack!LookAtStack
    <2>2. /\ state' = [state EXCEPT ![c] = s] /\ call' = [call EXCEPT ![c] = call[c]]
          /\ UNCHANGED <<content, sent, producersDone, seen>>
      BY <1>2, <1>9 DEF Stack!LookAtStack, Stack!Become
    <2> HIDE DEF s
    <2> QED BY <1>1, <2>1, <2>2, StackConsumerMoves
  <1> QED BY <1>5, <1>6, <1>7, <1>8, <1>9

(* A consumer gets the node on top: it is seen.                            *)
LEMMA StackPopReturns ==
  ASSUME StackInv, NEW c \in Consumers, Stack!PopReturns(c)
  PROVE  StackInv'
  <1> DEFINE n == content[Len(content)]
             x == Stack!Stack!Idle
  <1>1. /\ StackTypes /\ StackCalls /\ StackPlaces /\ StackEnds /\ content # <<>>
        /\ content' = SubSeq(content, 1, Len(content) - 1) /\ call' = [call EXCEPT ![c] = x]
        /\ seen' = [seen EXCEPT ![n] = @ + 1]
        /\ UNCHANGED <<sent, state, producersDone>>
    BY DEF StackInv, Stack!PopReturns, Stack!Stack!DoPop, Stack!Stack!Top, Stack!Stack!Without
  <1>2. content \in Seq(Items) /\ Once(content)
    BY <1>1 DEF StackTypes, StackPlaces
  <1>3. /\ content' \in Seq(Items) /\ n \in Items /\ Inside(n) /\ Once(content')
        /\ \A w : Inside(w)' <=> Inside(w) /\ w # n
    BY <1>1, <1>2, FrontOnce DEF Inside
  <1> HIDE DEF n
  <1>4. x \in StackCall /\ x.op = "idle"
    BY DEF StackCall, Stack!Stack!Idle
  <1>5. /\ call' \in [Threads -> StackCall] /\ call'[c] = x
        /\ \A u \in Threads : u # c => call'[u] = call[u]
    BY <1>1, <1>4, Apart, StackCallMoves
  <1> HIDE DEF x
  <1>6. seen[n] = 0 /\ HasPushed(n)
    BY <1>1, <1>3 DEF StackPlaces
  <1>7. /\ seen' \in [Items -> {0, 1}] /\ seen'[n] = 1
        /\ \A w \in Items : w # n => seen'[w] = seen[w]
    BY <1>1, <1>3, <1>6 DEF StackTypes
  <1>8. StackTypes'
    BY <1>1, <1>3, <1>5, <1>7 DEF StackTypes, StackCall
  <1>9. StackCalls'
    BY <1>1, <1>4, <1>5, Apart DEF StackCalls
  <1>10. StackPlaces'
    <2>1. \A w \in Items : HasPushed(w)' <=> HasPushed(w)
      BY <1>1, <1>5, Apart, Pushed
    <2> QED BY <1>1, <1>3, <1>6, <1>7, <2>1 DEF StackPlaces
  <1>11. StackEnds'
    BY <1>1, <1>5, Apart DEF StackEnds
  <1> QED BY <1>8, <1>9, <1>10, <1>11 DEF StackInv

-----------------------------------------------------------------------------
(* Every step *)

LEMMA StackSteps ==
  ASSUME StackInv, NEW p \in Producers \cup Consumers,
         \/ p \in Producers /\ Stack!Producer(p)
         \/ p \in Consumers /\ Stack!Consumer(p)
         \/ Stack!JoinProducers
  PROVE  StackInv'
  BY StackPush, StackPushReturns, StackJoin, StackQuietConsumer, StackPopReturns
  DEF Stack!Producer, Stack!Consumer

(* Every step of the queue test.                                           *)
LEMMA QueueSteps ==
  ASSUME QueueInv, NEW p \in Producers \cup Consumers,
         \/ p \in Producers /\ Queue!Producer(p)
         \/ p \in Consumers /\ Queue!Consumer(p)
         \/ Queue!JoinProducers
  PROVE  QueueInv'
  BY QueuePush, QueueGiveUpPush, QueuePut, QueuePushReturns, QueueJoin, QueuePop, QueueTake,
     QueuePopReturns, QueuePopFails, QueueLook
  DEF Queue!Producer, Queue!Consumer, Queue!PushGoesOn

(* Every step of the program, those on the maps included.                  *)
LEMMA ThreadSteps ==
  ASSUME ThreadInv, [Next]_vars PROVE ThreadInv'
  <1>1. CASE UNCHANGED <<running, threadVars>>
    BY <1>1 DEF ThreadInv, threadVars, StackInv, StackTypes, StackCalls, StackPlaces, StackEnds,
         HasPushed, QueueInv, QueueTypes, QueueCalls, QueuePlaces, QueueEnds, HasPut, Holds, Inside
  <1>2. ASSUME NEW p \in Producers, Producer(p) PROVE ThreadInv'
    BY <1>2, StackSteps, QueueSteps DEF Producer, ThreadInv
  <1>3. ASSUME NEW c \in Consumers, Consumer(c) PROVE ThreadInv'
    BY <1>3, StackSteps, QueueSteps DEF Consumer, ThreadInv
  <1>4. CASE Joins
    BY <1>4, StackJoin, QueueJoin DEF Joins, ThreadInv
  <1>5. CASE UsesMap \/ Ended
    BY <1>1, <1>5 DEF UsesMap, Ended, vars
  <1> QED BY <1>1, <1>2, <1>3, <1>4, <1>5 DEF Next, vars

(* When all have ended, all was put and nothing is left.                   *)
LEMMA SeenAtTheEnd == ASSUME ThreadInv PROVE EverySeenOnce
  <1>1. ASSUME running = "stack", Stack!Finished PROVE \A n \in Items : seen[n] = 1
    <2>1. StackInv /\ producersDone /\ content = <<>>
      BY <1>1, BenchmarkAssumption DEF ThreadInv, StackInv, StackEnds, Stack!Finished
    <2>2. ASSUME NEW n \in Items PROVE seen[n] = 1
      <3>1. HasPushed(n)
        BY <2>1, ItemIs, Apart DEF StackInv, StackEnds, HasPushed
      <3>2. ~Inside(n)
        BY <2>1 DEF Inside, In
      <3> QED BY <2>1, <3>1, <3>2 DEF StackInv, StackPlaces, StackTypes
    <2> QED BY <2>2
  <1>2. ASSUME running = "queue", Queue!Finished PROVE \A v \in Items : seen[v] = 1
    <2>1. QueueInv /\ producersDone /\ content = <<>> /\ \A c \in Consumers : state[c] = "done"
      BY <1>2, BenchmarkAssumption DEF ThreadInv, QueueInv, QueueEnds, Queue!Finished
    <2>2. ASSUME NEW v \in Items PROVE seen[v] = 1
      <3>1. HasPut(v)
        BY <2>1, ItemIs, Apart DEF QueueInv, QueueEnds, HasPut
      <3>2. ~Inside(v)
        BY <2>1 DEF Inside, In
      <3>3. \A c \in Consumers : ~Holds(c, v)
        BY <2>1 DEF QueueInv, QueueCalls, Holds
      <3> QED BY <2>1, <3>1, <3>2, <3>3 DEF QueueInv, QueuePlaces
    <2> QED BY <2>2
  <1> QED BY <1>1, <1>2 DEF EverySeenOnce, Stack!EverySeenOnce, Queue!EverySeenOnce,
            Stack!Nodes, Queue!Values, Items

(* Whatever the numbers of producers, consumers and items and the size of  *)
(* the queue, the tests of the stack and of the queue see every item       *)
(* exactly once when they end (testLockFreeStack, testLockFreeQueue).      *)
THEOREM NothingLostNorTwice == Spec => []EverySeenOnce
  <1>1. Init => ThreadInv
    BY Started
  <1>2. ThreadInv /\ [Next]_vars => ThreadInv'
    BY ThreadSteps
  <1>3. ThreadInv => EverySeenOnce
    BY SeenAtTheEnd
  <1> QED BY <1>1, <1>2, <1>3, PTL DEF Spec

-----------------------------------------------------------------------------
(* The chains of the hash table *)

Table == INSTANCE HashTable WITH Values <- Maps!Values

Vals == Maps!Values

(* The chain ch holds value v for key k. *)
Holding(ch, k, v) == \E p \in 1..Len(ch) : ch[p] = <<k, v>>

(* No key has two nodes in it. *)
OneEach(ch) == \A p, q \in 1..Len(ch) : ch[p][1] = ch[q][1] => p = q

(* The node of k gets a new value.                                         *)
LEMMA ChainReplace ==
  ASSUME NEW ch \in Seq(Keys \X Vals), OneEach(ch), NEW p \in 1..Len(ch),
         NEW k \in Keys, NEW v \in Vals, ch[p][1] = k, NEW r \in Seq(Keys \X Vals),
         Len(r) = Len(ch), r[p] = <<k, v>>, \A q \in 1..Len(ch) : q # p => r[q] = ch[q]
  PROVE  /\ r \in Seq(Keys \X Vals) /\ OneEach(r)
         /\ \A j \in Keys, u \in Vals : Holding(r, j, u) <=> IF j = k THEN u = v ELSE Holding(ch, j, u)
  <1>2. \A q \in 1..Len(ch) : r[q][1] = ch[q][1]
    OBVIOUS
  <1>3. OneEach(r)
    BY <1>2 DEF OneEach
  <1>4. ASSUME NEW j \in Keys, NEW u \in Vals
        PROVE  Holding(r, j, u) <=> IF j = k THEN u = v ELSE Holding(ch, j, u)
    <2>1. CASE j = k
      <3>1. \A q \in 1..Len(ch) : ch[q][1] = k => q = p
        BY DEF OneEach
      <3>2. \A q \in 1..Len(ch) : r[q] = <<k, u>> => q = p
        BY <1>2, <3>1
      <3>3. r[p] = <<k, u>> <=> u = v
        OBVIOUS
      <3> QED BY <2>1, <3>2, <3>3 DEF Holding
    <2>2. CASE j # k
      <3>1. r[p] # <<j, u>> /\ ch[p] # <<j, u>>
        BY <2>2
      <3> QED BY <2>2, <3>1 DEF Holding
    <2> QED BY <2>1, <2>2
  <1> QED BY <1>3, <1>4

(* A node for a new key comes in front.                                    *)
LEMMA ChainPush ==
  ASSUME NEW ch \in Seq(Keys \X Vals), OneEach(ch),
         NEW k \in Keys, NEW v \in Vals, \A p \in 1..Len(ch) : ch[p][1] # k
  PROVE  LET r == <<<<k, v>>>> \o ch
         IN  /\ r \in Seq(Keys \X Vals) /\ OneEach(r)
             /\ \A j \in Keys, u \in Vals : Holding(r, j, u) <=> IF j = k THEN u = v ELSE Holding(ch, j, u)
  <1> DEFINE e == <<k, v>>
             r == <<e>> \o ch
             n == Len(ch)
  <1>1. /\ n \in Nat /\ r \in Seq(Keys \X Vals) /\ Len(r) = n + 1 /\ r[1] = e
        /\ \A q \in 1..n : r[q + 1] = ch[q]
    <2> HIDE DEF e
    <2>1. e \in Keys \X Vals
      BY DEF e
    <2> QED BY <2>1
  <1>2. e[1] = k /\ e[2] = v /\ \A u : <<k, u>> = e <=> u = v
    OBVIOUS
  <1> HIDE DEF e, r, n
  <1>3. /\ \A q \in 1..(n + 1) : q = 1 \/ (q - 1 \in 1..n /\ q - 1 + 1 = q)
        /\ \A q \in 1..n : q + 1 \in 1..(n + 1)
        /\ 1 \in 1..(n + 1)
    BY <1>1
  <1>4. \A q \in 1..(n + 1) : q = 1 \/ (r[q] = ch[q - 1] /\ ch[q - 1][1] # k)
    BY <1>1, <1>3 DEF n
  <1>5. OneEach(r)
    <2> SUFFICES ASSUME NEW p \in 1..(n + 1), NEW q \in 1..(n + 1), r[p][1] = r[q][1] PROVE p = q
      BY <1>1 DEF OneEach
    <2>1. CASE p = 1 \/ q = 1
      BY <2>1, <1>1, <1>2, <1>4
    <2>2. CASE p # 1 /\ q # 1
      <3>1. p - 1 = q - 1
        BY <2>2, <1>3, <1>4 DEF OneEach, n
      <3> QED BY <3>1, <1>1
    <2> QED BY <2>1, <2>2
  <1>6. ASSUME NEW j \in Keys, NEW u \in Vals
        PROVE  Holding(r, j, u) <=> IF j = k THEN u = v ELSE Holding(ch, j, u)
    <2>1. CASE j = k
      <3>1. \A q \in 1..(n + 1) : r[q] = <<k, u>> => q = 1
        BY <1>4
      <3> QED BY <1>1, <1>2, <1>3, <2>1, <3>1 DEF Holding
    <2>2. CASE j # k
      <3>1. e # <<j, u>>
        BY <1>2, <2>2
      <3>2. ASSUME Holding(r, j, u) PROVE Holding(ch, j, u)
        <4>1. PICK q \in 1..(n + 1) : r[q] = <<j, u>>
          BY <3>2, <1>1 DEF Holding
        <4>2. q # 1
          BY <3>1, <4>1, <1>1
        <4>3. q - 1 \in 1..Len(ch) /\ ch[q - 1] = <<j, u>>
          BY <4>1, <4>2, <1>3, <1>4 DEF n
        <4> QED BY <4>3 DEF Holding
      <3>3. ASSUME Holding(ch, j, u) PROVE Holding(r, j, u)
        BY <3>3, <1>1, <1>3 DEF Holding, n
      <3> QED BY <2>2, <3>2, <3>3
    <2> QED BY <2>1, <2>2
  <1> QED BY <1>1, <1>5, <1>6 DEF r, e

(* The node of k is taken out.                                             *)
LEMMA ChainRemove ==
  ASSUME NEW ch \in Seq(Keys \X Vals), OneEach(ch), NEW p \in 1..Len(ch),
         NEW k \in Keys, ch[p][1] = k
  PROVE  LET r == Table!RemoveAt(ch, p)
         IN  /\ r \in Seq(Keys \X Vals) /\ OneEach(r)
             /\ \A j \in Keys, u \in Vals : Holding(r, j, u) <=> j # k /\ Holding(ch, j, u)
  <1> DEFINE n == Len(ch)
             r == Table!RemoveAt(ch, p)
             a == SubSeq(ch, 1, p - 1)
             b == SubSeq(ch, p + 1, n)
             At(q) == IF q < p THEN q ELSE q + 1
  <1>1. n \in Nat /\ p \in Nat /\ 1 <= p /\ p <= n
    OBVIOUS
  <1>2. /\ a \in Seq(Keys \X Vals) /\ Len(a) = p - 1 /\ \A q \in 1..(p - 1) : a[q] = ch[q]
    <2>1. 1 \in Int /\ p - 1 \in Int /\ \A q \in 1..(p - 1) : ch[q] \in Keys \X Vals
      BY <1>1
    <2>2. /\ a \in Seq(Keys \X Vals) /\ Len(a) = IF 1 <= p - 1 THEN (p - 1) - 1 + 1 ELSE 0
          /\ \A q \in 1..((p - 1) - 1 + 1) : a[q] = ch[1 + q - 1]
      BY <2>1, SubSeqProperties
    <2>3. (p - 1) - 1 + 1 = p - 1 /\ \A q \in 1..(p - 1) : 1 + q - 1 = q
      BY <1>1
    <2>4. Len(a) = p - 1
      BY <1>1, <2>2
    <2> QED BY <2>2, <2>3, <2>4
  <1>3. /\ b \in Seq(Keys \X Vals) /\ Len(b) = n - p /\ \A q \in 1..(n - p) : b[q] = ch[p + q]
    <2>1. p + 1 \in Int /\ n \in Int /\ \A q \in (p + 1)..n : ch[q] \in Keys \X Vals
      BY <1>1
    <2>2. /\ b \in Seq(Keys \X Vals) /\ Len(b) = IF p + 1 <= n THEN n - (p + 1) + 1 ELSE 0
          /\ \A q \in 1..(n - (p + 1) + 1) : b[q] = ch[(p + 1) + q - 1]
      BY <2>1, SubSeqProperties
    <2>3. n - (p + 1) + 1 = n - p /\ \A q \in 1..(n - p) : (p + 1) + q - 1 = p + q
      BY <1>1
    <2>4. Len(b) = n - p
      BY <1>1, <2>2
    <2> QED BY <2>2, <2>3, <2>4
  <1>4. r = a \o b
    BY DEF Table!RemoveAt
  <1> HIDE DEF a, b, r, n
  <1>5. /\ r \in Seq(Keys \X Vals) /\ Len(r) = n - 1
        /\ \A q \in 1..(n - 1) : r[q] = ch[At(q)]
    <2>1. r \in Seq(Keys \X Vals) /\ Len(r) = (p - 1) + (n - p)
      <3>1. a \o b \in Seq(Keys \X Vals) /\ Len(a \o b) = Len(a) + Len(b)
        BY <1>2, <1>3, ConcatProperties
      <3> QED BY <1>2, <1>3, <1>4, <3>1
    <2>2. \A q \in 1..(n - 1) : r[q] = IF q <= p - 1 THEN a[q] ELSE b[q - (p - 1)]
      <3>1. \A q \in 1..(Len(a) + Len(b)) : r[q] = IF q <= Len(a) THEN a[q] ELSE b[q - Len(a)]
        BY <1>2, <1>3, <1>4, ConcatProperties
      <3>2. (p - 1) + (n - p) = n - 1
        BY <1>1
      <3> QED BY <1>2, <1>3, <3>1, <3>2
    <2>3. ASSUME NEW q \in 1..(n - 1) PROVE r[q] = ch[At(q)]
      <3>1. CASE q < p
        BY <3>1, <2>2, <1>1, <1>2
      <3>2. CASE ~(q < p)
        <4>1. q - (p - 1) \in 1..(n - p) /\ p + (q - (p - 1)) = q + 1 /\ ~(q <= p - 1)
          BY <3>2, <1>1
        <4>2. b[q - (p - 1)] = ch[p + (q - (p - 1))]
          BY <1>3, <4>1
        <4> QED BY <3>2, <4>1, <4>2, <2>2
      <3> QED BY <3>1, <3>2
    <2> QED BY <1>1, <2>1, <2>3
  <1>6. /\ \A q \in 1..(n - 1) : At(q) \in 1..n /\ At(q) # p
        /\ \A q, m \in 1..(n - 1) : At(q) = At(m) => q = m
        /\ \A q \in 1..n : q # p => \E m \in 1..(n - 1) : At(m) = q
    <2>1. /\ \A q \in 1..(n - 1) : At(q) \in 1..n /\ At(q) # p
          /\ \A q, m \in 1..(n - 1) : At(q) = At(m) => q = m
      BY <1>1
    <2>2. ASSUME NEW q \in 1..n, q # p PROVE \E m \in 1..(n - 1) : At(m) = q
      <3>1. CASE q < p
        <4>1. q \in 1..(n - 1) /\ At(q) = q
          BY <3>1, <1>1
        <4> QED BY <4>1
      <3>2. CASE q > p
        <4>1. q - 1 \in 1..(n - 1) /\ At(q - 1) = q
          BY <3>2, <1>1
        <4> QED BY <4>1
      <3> QED BY <2>2, <3>1, <3>2, <1>1
    <2> QED BY <2>1, <2>2
  <1> HIDE DEF At
  <1>7. OneEach(r)
    <2>1. \A q \in 1..(n - 1) : r[q][1] = ch[At(q)][1]
      BY <1>5
    <2> QED BY <1>5, <1>6, <2>1 DEF OneEach, n
  <1>8. ASSUME NEW j \in Keys, NEW u \in Vals PROVE Holding(r, j, u) <=> j # k /\ Holding(ch, j, u)
    <2>1. ASSUME Holding(r, j, u) PROVE j # k /\ Holding(ch, j, u)
      <3>1. PICK q \in 1..(n - 1) : r[q] = <<j, u>>
        BY <2>1, <1>5 DEF Holding
      <3>2. ch[At(q)] = <<j, u>> /\ At(q) \in 1..Len(ch) /\ At(q) # p
        BY <3>1, <1>5, <1>6 DEF n
      <3>3. ch[At(q)][1] = j
        BY <3>2
      <3> QED BY <3>2, <3>3 DEF Holding, OneEach
    <2>2. ASSUME j # k, Holding(ch, j, u) PROVE Holding(r, j, u)
      <3>1. PICK q \in 1..n : ch[q] = <<j, u>>
        BY <2>2 DEF Holding, n
      <3>2. q # p
        BY <3>1, <2>2
      <3>3. PICK m \in 1..(n - 1) : At(m) = q
        BY <3>2, <1>6
      <3> QED BY <3>1, <3>3, <1>5 DEF Holding
    <2> QED BY <2>1, <2>2
  <1> QED BY <1>5, <1>7, <1>8 DEF r

(* The table is the map m with domain D. *)
TableIs(D, m) ==
  /\ chains \in [Buckets -> Seq(Keys \X Vals)]
  /\ \A b \in Buckets : OneEach(chains[b])
  /\ \A b \in Buckets, k \in Keys, v \in Vals :
       Holding(chains[b], k, v) <=> hashOf[k] = b /\ k \in D /\ m[k] = v
  /\ D \subseteq Keys /\ \A k \in D : m[k] \in Vals
  /\ size = Cardinality(D)

(* There are finitely many keys, and each has its bucket.                  *)
LEMMA KeysFinite == IsFiniteSet(Keys) /\ hashOf \in [Keys -> Buckets]
  BY BenchmarkAssumption

(* A walk along the chain finds the node of its key, if there is one.      *)
LEMMA TableFinds ==
  ASSUME NEW D, NEW m, TableIs(D, m), NEW k \in Keys
  PROVE  /\ Table!Has(k) <=> k \in D
         /\ Table!find(k) = IF k \in D THEN m[k] ELSE 0
         /\ Table!Has(k) => /\ Table!Position(k) \in 1..Len(chains[hashOf[k]])
                            /\ chains[hashOf[k]][Table!Position(k)][1] = k
         /\ ~Table!Has(k) => \A p \in 1..Len(chains[hashOf[k]]) : chains[hashOf[k]][p][1] # k
  <1> DEFINE ch == chains[hashOf[k]]
  <1>1. hashOf[k] \in Buckets /\ ch \in Seq(Keys \X Vals) /\ OneEach(ch) /\ ch = Table!Chain(k)
    BY KeysFinite DEF TableIs, Table!Chain
  <1>2. \A p \in 1..Len(ch) : ch[p] = <<ch[p][1], ch[p][2]>> /\ ch[p][1] \in Keys /\ ch[p][2] \in Vals
    BY <1>1
  <1>3. \A v \in Vals : Holding(ch, k, v) <=> k \in D /\ m[k] = v
    BY <1>1 DEF TableIs
  <1> HIDE DEF ch
  <1>4. Table!Positions(k) = {p \in 1..Len(ch) : ch[p][1] = k}
    <2>1. DOMAIN ch = 1..Len(ch)
      BY <1>1
    <2> QED BY <1>1, <2>1 DEF Table!Positions
  <1>5. Table!Has(k) <=> \E p \in 1..Len(ch) : ch[p][1] = k
    BY <1>4 DEF Table!Has
  <1>6. ASSUME NEW p \in 1..Len(ch), ch[p][1] = k PROVE k \in D /\ m[k] = ch[p][2] /\ Table!Position(k) = p
    <2>1. Holding(ch, k, ch[p][2])
      BY <1>2, <1>6 DEF Holding
    <2>2. \A q \in Table!Positions(k) : q = p
      BY <1>1, <1>4, <1>6 DEF OneEach
    <2>3. p \in Table!Positions(k) /\ p <= p
      BY <1>4, <1>6
    <2>4. Table!Position(k) = p
      BY <2>2, <2>3 DEF Table!Position
    <2> QED BY <1>2, <1>3, <2>1, <2>4
  <1>7. ASSUME k \in D PROVE \E p \in 1..Len(ch) : ch[p][1] = k
    <2>1. Holding(ch, k, m[k])
      BY <1>3, <1>7 DEF TableIs
    <2>2. PICK p \in 1..Len(ch) : ch[p] = <<k, m[k]>>
      BY <2>1 DEF Holding
    <2> QED BY <2>2
  <1>8. CASE \E p \in 1..Len(ch) : ch[p][1] = k
    <2>1. PICK p \in 1..Len(ch) : ch[p][1] = k
      BY <1>8
    <2>2. k \in D /\ m[k] = ch[p][2] /\ Table!Position(k) = p
      BY <1>6, <2>1
    <2>3. Table!find(k) = ch[p][2]
      BY <1>1, <1>5, <2>1, <2>2 DEF Table!find
    <2> QED BY <1>5, <2>1, <2>2, <2>3 DEF ch
  <1>9. CASE ~\E p \in 1..Len(ch) : ch[p][1] = k
    BY <1>5, <1>7, <1>9 DEF Table!find, Table!NotFound, ch
  <1> QED BY <1>8, <1>9

(* What a step does that changes one chain. *)
LEMMA ChainMoves ==
  ASSUME NEW D, NEW m, TableIs(D, m), NEW b \in Buckets, NEW c, chains' = [chains EXCEPT ![b] = c]
  PROVE  /\ DOMAIN chains' = Buckets /\ chains'[b] = c
         /\ \A a \in Buckets : a # b => chains'[a] = chains[a]
  BY DEF TableIs

(* insert: the table is the map with the new value.                        *)
LEMMA TableInserts ==
  ASSUME NEW D, NEW m, TableIs(D, m), NEW k \in Keys, NEW v \in Vals, Table!insert(k, v),
         NEW n, \A j \in D \cup {k} : n[j] = IF j = k THEN v ELSE m[j]
  PROVE  TableIs(D \cup {k}, n)'
  <1> DEFINE b == hashOf[k]
             E == D \cup {k}
  <1>0. b \in Buckets /\ IsFiniteSet(D)
    BY KeysFinite, FS_Subset DEF TableIs
  <1>1. \E c : /\ chains' = [chains EXCEPT ![b] = c] /\ c \in Seq(Keys \X Vals) /\ OneEach(c)
               /\ \A j \in Keys, u \in Vals : Holding(c, j, u) <=> IF j = k THEN u = v ELSE Holding(chains[b], j, u)
    <2>0. chains[b] \in Seq(Keys \X Vals) /\ OneEach(chains[b])
      BY <1>0 DEF TableIs
    <2>1. CASE Table!InsertOverwrites(k, v)
      <3> DEFINE p == Table!Position(k)
                 c == [chains[b] EXCEPT ![p] = <<k, v>>]
      <3>1. p \in 1..Len(chains[b]) /\ chains[b][p][1] = k
        BY <2>1, TableFinds DEF Table!InsertOverwrites
      <3>2. chains' = [chains EXCEPT ![b] = c]
        BY <2>1 DEF Table!InsertOverwrites
      <3>3. /\ c \in Seq(Keys \X Vals) /\ OneEach(c)
            /\ \A j \in Keys, u \in Vals : Holding(c, j, u) <=> IF j = k THEN u = v ELSE Holding(chains[b], j, u)
        <4> DEFINE ch == chains[b]
        <4>1. ch \in Seq(Keys \X Vals) /\ OneEach(ch) /\ p \in 1..Len(ch) /\ ch[p][1] = k
          BY <2>0, <3>1
        <4>2. /\ c \in Seq(Keys \X Vals) /\ Len(c) = Len(ch) /\ c[p] = <<k, v>>
              /\ \A q \in 1..Len(ch) : q # p => c[q] = ch[q]
          <5> HIDE DEF p, b
          <5> QED BY <4>1
        <4> HIDE DEF p, b, ch, c
        <4>3. /\ c \in Seq(Keys \X Vals) /\ OneEach(c)
              /\ \A j \in Keys, u \in Vals : Holding(c, j, u) <=> IF j = k THEN u = v ELSE Holding(ch, j, u)
          BY <4>1, <4>2, ChainReplace
        <4> QED BY <4>3 DEF ch
      <3> QED BY <3>2, <3>3
    <2>2. CASE Table!InsertLinks(k, v)
      <3> DEFINE c == <<<<k, v>>>> \o chains[b]
      <3>1. \A p \in 1..Len(chains[b]) : chains[b][p][1] # k
        BY <2>2, TableFinds DEF Table!InsertLinks
      <3>2. chains' = [chains EXCEPT ![b] = c]
        BY <2>2 DEF Table!InsertLinks
      <3>3. /\ c \in Seq(Keys \X Vals) /\ OneEach(c)
            /\ \A j \in Keys, u \in Vals : Holding(c, j, u) <=> IF j = k THEN u = v ELSE Holding(chains[b], j, u)
        <4> HIDE DEF b
        <4> QED BY <2>0, <3>1, ChainPush
      <3> QED BY <3>2, <3>3
    <2> QED BY <2>1, <2>2 DEF Table!insert
  <1>2. PICK c : /\ chains' = [chains EXCEPT ![b] = c] /\ c \in Seq(Keys \X Vals) /\ OneEach(c)
                 /\ \A j \in Keys, u \in Vals : Holding(c, j, u) <=> IF j = k THEN u = v ELSE Holding(chains[b], j, u)
    BY <1>1
  <1>3. /\ DOMAIN chains' = Buckets /\ chains'[b] = c
        /\ \A a \in Buckets : a # b => chains'[a] = chains[a]
    BY <1>0, <1>2, ChainMoves
  <1>4. size' = Cardinality(E)
    <2>1. Cardinality(E) = IF k \in D THEN Cardinality(D) ELSE Cardinality(D) + 1
      BY <1>0, FS_AddElement
    <2>2. size' = IF k \in D THEN size ELSE size + 1
      BY TableFinds DEF Table!insert, Table!InsertOverwrites, Table!InsertLinks
    <2> QED BY <2>1, <2>2 DEF TableIs
  <1>5. /\ chains' \in [Buckets -> Seq(Keys \X Vals)]
        /\ \A a \in Buckets : OneEach(chains'[a])
    <2>1. chains \in [Buckets -> Seq(Keys \X Vals)] /\ \A a \in Buckets : OneEach(chains[a])
      BY DEF TableIs
    <2>2. chains' = [chains EXCEPT ![b] = c] /\ c \in Seq(Keys \X Vals) /\ OneEach(c)
      BY <1>2
    <2>3. chains' \in [Buckets -> Seq(Keys \X Vals)]
      BY <1>0, <2>1, <2>2
    <2> QED BY <1>3, <2>1, <2>2, <2>3
  <1>6. ASSUME NEW a \in Buckets, NEW j \in Keys, NEW u \in Vals
        PROVE  Holding(chains'[a], j, u) <=> hashOf[j] = a /\ j \in E /\ n[j] = u
    <2>1. Holding(chains[a], j, u) <=> hashOf[j] = a /\ j \in D /\ m[j] = u
      BY DEF TableIs
    <2>2. CASE a = b
      BY <2>1, <2>2, <1>2, <1>3
    <2>3. CASE a # b
      BY <2>1, <2>3, <1>3
    <2> QED BY <2>2, <2>3
  <1>7. E \subseteq Keys /\ \A j \in E : n[j] \in Vals
    BY DEF TableIs
  <1> HIDE DEF E
  <1>8. TableIs(E, n)'
    BY <1>4, <1>5, <1>6, <1>7 DEF TableIs
  <1> QED BY <1>8 DEF E

(* erase: the table is the map without the key.                            *)
LEMMA TableErases ==
  ASSUME NEW D, NEW m, TableIs(D, m), NEW k \in Keys, Table!erase(k),
         NEW n, \A j \in D \ {k} : n[j] = m[j]
  PROVE  TableIs(D \ {k}, n)'
  <1> DEFINE b == hashOf[k]
             E == D \ {k}
  <1>0. b \in Buckets /\ IsFiniteSet(D)
    BY KeysFinite, FS_Subset DEF TableIs
  <1>1. CASE Table!EraseNothing(k)
    <2>1. k \notin D /\ UNCHANGED <<chains, size>>
      BY <1>1, TableFinds DEF Table!EraseNothing, Table!tableVars
    <2>2. D \ {k} = D
      BY <2>1
    <2>3. \A j \in D : n[j] = m[j]
      BY <2>2
    <2>4. TableIs(D, n)'
      BY <2>1, <2>3 DEF TableIs
    <2> QED BY <2>2, <2>4
  <1>2. CASE Table!EraseUnlinks(k)
    <2> DEFINE p == Table!Position(k)
               c == Table!RemoveAt(chains[b], p)
    <2>0. chains[b] \in Seq(Keys \X Vals) /\ OneEach(chains[b])
      BY <1>0 DEF TableIs
    <2>1. p \in 1..Len(chains[b]) /\ chains[b][p][1] = k /\ k \in D
      BY <1>2, TableFinds DEF Table!EraseUnlinks
    <2>2. chains' = [chains EXCEPT ![b] = c] /\ size' = size - 1
      BY <1>2 DEF Table!EraseUnlinks
    <2>3. /\ c \in Seq(Keys \X Vals) /\ OneEach(c)
          /\ \A j \in Keys, u \in Vals : Holding(c, j, u) <=> j # k /\ Holding(chains[b], j, u)
      <3> HIDE DEF p, b
      <3> QED BY <2>0, <2>1, ChainRemove
    <2> HIDE DEF c
    <2>4. /\ DOMAIN chains' = Buckets /\ chains'[b] = c
          /\ \A a \in Buckets : a # b => chains'[a] = chains[a]
      BY <1>0, <2>2, ChainMoves
    <2>5. size' = Cardinality(E)
      <3>1. Cardinality(E) = IF k \in D THEN Cardinality(D) - 1 ELSE Cardinality(D)
        BY <1>0, FS_RemoveElement
      <3> QED BY <2>1, <2>2, <3>1 DEF TableIs
    <2>6. /\ chains' \in [Buckets -> Seq(Keys \X Vals)]
          /\ \A a \in Buckets : OneEach(chains'[a])
      <3>1. chains \in [Buckets -> Seq(Keys \X Vals)] /\ \A a \in Buckets : OneEach(chains[a])
        BY DEF TableIs
      <3>2. chains' \in [Buckets -> Seq(Keys \X Vals)]
        BY <1>0, <2>2, <2>3, <3>1
      <3> QED BY <2>3, <2>4, <3>1, <3>2
    <2>7. ASSUME NEW a \in Buckets, NEW j \in Keys, NEW u \in Vals
          PROVE  Holding(chains'[a], j, u) <=> hashOf[j] = a /\ j \in E /\ n[j] = u
      <3>1. Holding(chains[a], j, u) <=> hashOf[j] = a /\ j \in D /\ m[j] = u
        BY DEF TableIs
      <3>2. CASE a = b
        BY <3>1, <3>2, <2>3, <2>4
      <3>3. CASE a # b
        BY <3>1, <3>3, <2>4
      <3> QED BY <3>2, <3>3
    <2>8. E \subseteq Keys /\ \A j \in E : n[j] \in Vals
      BY DEF TableIs
    <2> HIDE DEF E
    <2>9. TableIs(E, n)'
      BY <2>5, <2>6, <2>7, <2>8 DEF TableIs
    <2> QED BY <2>9 DEF E
  <1> QED BY <1>1, <1>2 DEF Table!erase

(* The table of MapTest is this one.                                       *)
LEMMA TableNames ==
  /\ \A k, v : Maps!Table!insert(k, v) <=> Table!insert(k, v)
  /\ \A k : Maps!Table!erase(k) <=> Table!erase(k)
  /\ \A k : Maps!Table!find(k) = Table!find(k)
  BY DEF Maps!Table!insert, Table!insert, Maps!Table!InsertOverwrites, Table!InsertOverwrites,
         Maps!Table!InsertLinks, Table!InsertLinks, Maps!Table!erase, Table!erase,
         Maps!Table!EraseUnlinks, Table!EraseUnlinks, Maps!Table!EraseNothing, Table!EraseNothing,
         Maps!Table!find, Table!find, Maps!Table!Has, Table!Has, Maps!Table!Position, Table!Position,
         Maps!Table!Positions, Table!Positions, Maps!Table!Chain, Table!Chain,
         Maps!Table!NotFound, Table!NotFound, Maps!Table!RemoveAt, Table!RemoveAt,
         Maps!Table!tableVars, Table!tableVars

-----------------------------------------------------------------------------
(* The user of a map *)

(* The keys the user of a map has inserted, and not erased. *)
Kept == DOMAIN wanted

Odd(k) == k % 2 = 1

Phases == {"none", "caller", "insert", "find", "erase", "findAgain"}

WantedType == wanted = [k \in Kept |-> wanted[k]] /\ Kept \subseteq Keys /\ \A k \in Kept : wanted[k] \in Vals

(* What its user has put into a map at each point of its test. The test    *)
(* has not failed.                                                         *)
UserInv ==
  /\ container \in {"map", "table"} /\ phase \in Phases
  /\ WantedType
  /\ ok = TRUE
  /\ total \in Counts /\ i \in Nat
  /\ phase # "caller" => \A k \in Kept : wanted[k] = Maps!ValueOf(k)
  /\ phase = "none" => Kept = {}
  /\ phase = "insert" => i <= total /\ Kept = 0..(i - 1)
  /\ phase = "find" => i <= total /\ Kept = 0..(total - 1)
  /\ phase = "erase" => /\ i % 2 = 0 /\ i <= total + 1
                        /\ Kept = {k \in 0..(total - 1) : k >= i \/ Odd(k)}
                        /\ Cardinality(Kept) = total - i \div 2
  /\ phase = "findAgain" => i <= total /\ Kept = {k \in 0..(total - 1) : Odd(k)}

(* What a container does for its user. *)
Answers == /\ \A k \in Keys : Maps!Find(k) = IF k \in Kept THEN wanted[k] ELSE 0
           /\ Maps!Returned => Maps!getCount = Cardinality(Kept)

(* The keys are the first numbers.                                         *)
LEMMA KeysAre == /\ Cardinality(Keys) \in Nat /\ Keys = 0..(Cardinality(Keys) - 1) /\ Keys \subseteq Nat
                 /\ Counts = 0..Cardinality(Keys) /\ \A n \in Counts : 0..(n - 1) \subseteq Keys /\ n \in Nat
  <1>1. IsFiniteSet(Keys) /\ Keys = 0..(Cardinality(Keys) - 1)
    BY BenchmarkAssumption
  <1>2. Cardinality(Keys) \in Nat
    BY <1>1, FS_CardinalityType
  <1> DEFINE n == Cardinality(Keys)
  <1>3. n \in Nat /\ Keys = 0..(n - 1) /\ Counts = 0..n
    BY <1>1, <1>2 DEF Counts
  <1> HIDE DEF n
  <1>4. Keys \subseteq Nat /\ \A m \in Counts : 0..(m - 1) \subseteq Keys /\ m \in Nat
    BY <1>3
  <1> QED BY <1>3, <1>4 DEF n

(* What the tests and the caller insert are keys and values.               *)
LEMMA ValsAre == /\ \A k \in Keys : Maps!ValueOf(k) \in Vals
                 /\ \A e \in Entries : e[1] \in Keys /\ e[2] \in Vals
  BY BenchmarkAssumption DEF Vals, Maps!Values

(* insert, as the user sees it.                                            *)
LEMMA WantedInserts ==
  ASSUME UserInv, NEW k \in Keys, NEW v \in Vals, Maps!Wanted!Insert(k, v)
  PROVE  /\ Kept' = Kept \cup {k} /\ Kept' \subseteq Keys
         /\ \A j \in Kept' : wanted'[j] = (IF j = k THEN v ELSE wanted[j]) /\ wanted'[j] \in Vals
         /\ wanted' = [j \in Kept' |-> wanted'[j]]
  <1>1. wanted' = [j \in Kept \cup {k} |-> IF j = k THEN v ELSE wanted[j]]
    BY DEF Maps!Wanted!Insert, Kept
  <1>2. Kept' = Kept \cup {k}
    BY <1>1 DEF Kept
  <1> QED BY <1>1, <1>2 DEF UserInv, WantedType

(* erase, as the user sees it.                                             *)
LEMMA WantedErases ==
  ASSUME UserInv, NEW k \in Keys, Maps!Wanted!Erase(k)
  PROVE  /\ Kept' = Kept \ {k} /\ Kept' \subseteq Keys
         /\ \A j \in Kept' : wanted'[j] = wanted[j] /\ wanted'[j] \in Vals
         /\ wanted' = [j \in Kept' |-> wanted'[j]]
  <1>1. wanted' = [j \in Kept \ {k} |-> wanted[j]]
    BY DEF Maps!Wanted!Erase, Kept
  <1>2. Kept' = Kept \ {k}
    BY <1>1 DEF Kept
  <1> QED BY <1>1, <1>2 DEF UserInv, WantedType

(* A caller may do as it likes.                                            *)
LEMMA CallerSteps == ASSUME UserInv, Maps!Call PROVE UserInv'
  <1>1. /\ phase = "caller" /\ UNCHANGED <<container, phase, total, i, ok>>
        /\ \/ \E e \in Entries : Maps!Wanted!Insert(e[1], e[2])
           \/ \E k \in CallerKeys : Maps!Wanted!Erase(k)
    BY DEF Maps!Call, Maps!Insert, Maps!Erase
  <1>2. ASSUME NEW e \in Entries, Maps!Wanted!Insert(e[1], e[2]) PROVE UserInv'
    BY <1>1, <1>2, ValsAre, WantedInserts DEF UserInv, WantedType
  <1>3. ASSUME NEW k \in CallerKeys, Maps!Wanted!Erase(k) PROVE UserInv'
    <2>1. k \in Keys
      BY BenchmarkAssumption
    <2> QED BY <1>1, <1>3, <2>1, WantedErases DEF UserInv, WantedType
  <1> QED BY <1>1, <1>2, <1>3

(* The first loop inserts the next key.                                    *)
LEMMA TestInserts == ASSUME UserInv, Maps!TestInserts PROVE UserInv'
  <1>1. /\ phase = "insert" /\ i < total /\ i' = i + 1 /\ UNCHANGED <<container, phase, total, ok>>
        /\ Maps!Wanted!Insert(i, Maps!ValueOf(i))
    BY DEF Maps!TestInserts, Maps!Insert
  <1>2. i \in Nat /\ total \in Nat /\ i \in Keys /\ Kept = 0..(i - 1) /\ Maps!ValueOf(i) \in Vals
    BY <1>1, KeysAre, ValsAre DEF UserInv
  <1>3. /\ Kept' = Kept \cup {i} /\ Kept' \subseteq Keys
        /\ \A j \in Kept' : wanted'[j] = (IF j = i THEN Maps!ValueOf(i) ELSE wanted[j]) /\ wanted'[j] \in Vals
        /\ wanted' = [j \in Kept' |-> wanted'[j]]
    BY <1>1, <1>2, WantedInserts
  <1>4. Kept' = 0..(i' - 1)
    BY <1>1, <1>2, <1>3
  <1>5. \A j \in Kept' : wanted'[j] = Maps!ValueOf(j)
    BY <1>1, <1>3 DEF UserInv
  <1>6. i' <= total' /\ i' \in Nat
    BY <1>1, <1>2
  <1> QED BY <1>1, <1>3, <1>4, <1>5, <1>6 DEF UserInv, WantedType

(* The third loop erases the next even key.                                *)
LEMMA TestErases == ASSUME UserInv, Maps!TestErases PROVE UserInv'
  <1>1. /\ phase = "erase" /\ i < total /\ i' = i + 2 /\ UNCHANGED <<container, phase, total, ok>>
        /\ Maps!Wanted!Erase(i)
    BY DEF Maps!TestErases, Maps!Erase
  <1>2. /\ i \in Nat /\ total \in Nat /\ i \in Keys /\ i % 2 = 0
        /\ Kept = {k \in 0..(total - 1) : k >= i \/ Odd(k)} /\ Cardinality(Kept) = total - i \div 2
    BY <1>1, KeysAre DEF UserInv
  <1>3. /\ Kept' = Kept \ {i} /\ Kept' \subseteq Keys
        /\ \A j \in Kept' : wanted'[j] = wanted[j] /\ wanted'[j] \in Vals
        /\ wanted' = [j \in Kept' |-> wanted'[j]]
    BY <1>1, <1>2, WantedErases
  <1>4. Kept' = {k \in 0..(total - 1) : k >= i + 2 \/ Odd(k)}
    <2>1. \A k \in 0..(total - 1) : (k >= i \/ Odd(k)) /\ k # i <=> k >= i + 2 \/ Odd(k)
      BY <1>2 DEF Odd
    <2> QED BY <1>2, <1>3, <2>1
  <1>5. Cardinality(Kept') = total - (i + 2) \div 2
    <2>1. i \in Kept
      BY <1>1, <1>2
    <2>2. IsFiniteSet(Kept)
      BY KeysFinite, FS_Subset DEF UserInv, WantedType
    <2>3. Cardinality(Kept \ {i}) = Cardinality(Kept) - 1
      BY <2>1, <2>2, FS_RemoveElement
    <2>4. (i + 2) \div 2 = i \div 2 + 1
      BY <1>2
    <2>5. i \div 2 \in Nat
      BY <1>2
    <2> QED BY <1>2, <1>3, <2>3, <2>4, <2>5
  <1>6. i' % 2 = 0 /\ i' <= total' + 1 /\ i' \in Nat
    BY <1>1, <1>2
  <1>7. \A j \in Kept' : wanted'[j] = Maps!ValueOf(j)
    BY <1>1, <1>3 DEF UserInv
  <1> QED BY <1>1, <1>3, <1>4, <1>5, <1>6, <1>7 DEF UserInv, WantedType

(* A loop ends, and the count is right.                                    *)
LEMMA LoopsEnd ==
  ASSUME UserInv, Answers, Maps!InsertsEnd \/ Maps!FindsEnd \/ Maps!ErasesEnd
  PROVE  UserInv'
  <1>0. /\ UNCHANGED <<container, total, wanted>> /\ i' = 0 /\ Maps!Returned /\ Kept' = Kept /\ WantedType'
    BY DEF Maps!InsertsEnd, Maps!FindsEnd, Maps!ErasesEnd, Maps!Turns, Kept, WantedType, UserInv
  <1>1. CASE Maps!InsertsEnd
    <2>1. phase = "insert" /\ i = total /\ phase' = "find" /\ ok' = (Maps!getCount = total)
      BY <1>1 DEF Maps!InsertsEnd, Maps!Turns
    <2>2. Kept = 0..(total - 1) /\ total \in Nat
      BY <2>1, KeysAre DEF UserInv
    <2>3. Cardinality(Kept) = total
      <3>1. Cardinality(0..(total - 1)) = total
        BY <2>2, FS_Interval
      <3> QED BY <2>2, <3>1
    <2>4. ok' = TRUE
      BY <1>0, <2>1, <2>3 DEF Answers
    <2> QED BY <1>0, <2>1, <2>2, <2>4 DEF UserInv, Phases
  <1>2. CASE Maps!FindsEnd
    <2>1. phase = "find" /\ phase' = "erase" /\ ok' = ok
      BY <1>2 DEF Maps!FindsEnd, Maps!Turns
    <2>2. Kept = 0..(total - 1) /\ total \in Nat
      BY <2>1, KeysAre DEF UserInv
    <2>3. Cardinality(Kept) = total
      <3>1. Cardinality(0..(total - 1)) = total
        BY <2>2, FS_Interval
      <3> QED BY <2>2, <3>1
    <2>4. Kept' = {k \in 0..(total - 1) : k >= 0 \/ Odd(k)}
      BY <1>0, <2>2
    <2>5. 0 % 2 = 0 /\ 0 <= total + 1 /\ total - 0 \div 2 = total
      BY <2>2
    <2> QED BY <1>0, <2>1, <2>3, <2>4, <2>5 DEF UserInv, Phases
  <1>3. CASE Maps!ErasesEnd
    <2>1. /\ phase = "erase" /\ phase' = "findAgain" /\ i >= total
          /\ ok' = (ok /\ Maps!getCount = total - ((total + 1) \div 2))
      BY <1>3 DEF Maps!ErasesEnd, Maps!Turns
    <2>2. /\ Kept = {k \in 0..(total - 1) : k >= i \/ Odd(k)} /\ Cardinality(Kept) = total - i \div 2
          /\ total \in Nat /\ i \in Nat /\ i % 2 = 0 /\ i <= total + 1
      BY <2>1, KeysAre DEF UserInv
    <2>3. i \div 2 = (total + 1) \div 2
      BY <2>1, <2>2
    <2>4. ok' = TRUE
      BY <1>0, <2>1, <2>2, <2>3 DEF Answers, UserInv
    <2>5. Kept = {k \in 0..(total - 1) : Odd(k)}
      BY <2>1, <2>2
    <2> QED BY <1>0, <2>1, <2>2, <2>4, <2>5 DEF UserInv, Phases
  <1> QED BY <1>1, <1>2, <1>3

(* The second and the last loop find what they expect.                     *)
LEMMA TestFinds ==
  ASSUME UserInv, Answers, Maps!TestFinds \/ Maps!TestFindsAgain
  PROVE  UserInv'
  <1>0. /\ UNCHANGED <<container, phase, total, wanted>> /\ i < total /\ i' = i + 1 /\ Kept' = Kept /\ WantedType'
        /\ phase \in {"find", "findAgain"}
    BY DEF Maps!TestFinds, Maps!TestFindsAgain, Maps!Finds, Kept, WantedType, UserInv
  <1>1. i \in Nat /\ total \in Nat /\ i \in Keys /\ i \in 0..(total - 1)
    BY <1>0, KeysAre DEF UserInv
  <1>2. Maps!Find(i) = IF i \in Kept THEN Maps!ValueOf(i) ELSE 0
    BY <1>0, <1>1 DEF Answers, UserInv
  <1>3. ok' = TRUE
    <2>1. CASE Maps!TestFinds
      <3>1. phase = "find" /\ ok' = (Maps!Find(i) = Maps!ValueOf(i))
        BY <2>1 DEF Maps!TestFinds, Maps!Finds
      <3> QED BY <1>1, <1>2, <3>1 DEF UserInv
    <2>2. CASE Maps!TestFindsAgain
      <3>1. phase = "findAgain" /\ ok' = (Maps!Find(i) = IF i % 2 = 0 THEN 0 ELSE Maps!ValueOf(i))
        BY <2>2 DEF Maps!TestFindsAgain, Maps!Finds
      <3>2. i \in Kept <=> i % 2 # 0
        BY <1>1, <3>1 DEF UserInv, Odd
      <3> QED BY <1>2, <3>1, <3>2
    <2> QED BY <2>1, <2>2
  <1>4. i' \in Nat /\ i' <= total
    BY <1>0, <1>1
  <1> QED BY <1>0, <1>3, <1>4 DEF UserInv

(* Every step of a user, provided that its map answers.                    *)
LEMMA UserSteps ==
  ASSUME UserInv, Answers, Maps!Next
  PROVE  UserInv'
  <1>1. CASE Maps!MapGoesOn
    <2>1. UNCHANGED <<container, phase, total, i, ok, wanted>>
      BY <1>1 DEF Maps!MapGoesOn, Maps!user
    <2> QED BY <2>1 DEF UserInv, WantedType, Kept
  <1> QED BY <1>1, CallerSteps, TestInserts, TestErases, LoopsEnd, TestFinds DEF Maps!Next, Maps!Test

-----------------------------------------------------------------------------
(* The hash table *)

(* The hash table is the map its user has in mind, between its steps.      *)
TableInv == container = "table" => UserInv /\ TableIs(Kept, wanted) /\ fix = Maps!Map!Idle

(* So it answers.                                                          *)
LEMMA TableAnswers == ASSUME TableInv, container = "table" PROVE Answers
  <1>1. PICK E, m : E = Kept /\ m = wanted
    OBVIOUS
  <1>2. TableIs(E, m)
    BY <1>1 DEF TableInv
  <1>3. \A k \in Keys : Table!find(k) = IF k \in E THEN m[k] ELSE 0
    BY <1>2, TableFinds
  <1>4. size = Cardinality(E)
    BY <1>2 DEF TableIs
  <1> QED BY <1>1, <1>3, <1>4, TableNames DEF Answers, Maps!Find, Maps!getCount

(* It is empty in the beginning.                                           *)
LEMMA TableBegins == Init => TableInv
  <1> SUFFICES ASSUME Init, container = "table" PROVE UserInv /\ TableIs(Kept, wanted) /\ fix = Maps!Map!Idle
    BY DEF TableInv
  <1>1. /\ chains = [b \in Buckets |-> <<>>] /\ size = 0 /\ fix = Maps!Map!Idle
        /\ wanted = [k \in {} |-> k] /\ ok = TRUE /\ i = 0
    BY DEF Init, Maps!Fresh, Maps!Table!Init, Maps!Map!Init, Maps!Wanted!Init, Maps!Begin
  <1>2. total \in Counts /\ phase \in {"insert", "caller"}
    BY KeysAre DEF Init, Maps!Begin
  <1>3. Kept = {}
    BY <1>1 DEF Kept
  <1>4. WantedType
    BY <1>1, <1>3 DEF WantedType
  <1>5. total \in Nat
    BY <1>2, KeysAre
  <1>6. 0..(0 - 1) = {}
    OBVIOUS
  <1>7. UserInv
    BY <1>1, <1>2, <1>3, <1>4, <1>5, <1>6 DEF UserInv, Phases
  <1>8. TableIs(Kept, wanted)
    <2>1. Cardinality({}) = 0
      BY FS_EmptySet
    <2>2. \A b \in Buckets : chains[b] = <<>>
      BY <1>1
    <2> QED BY <1>1, <1>3, <2>1, <2>2 DEF TableIs, OneEach, Holding
  <1> QED BY <1>1, <1>7, <1>8

(* Every step of its user keeps it so.                                     *)
LEMMA TableSteps == ASSUME TableInv, container = "table", Maps!Next PROVE TableInv'
  <1>0. UserInv /\ TableIs(Kept, wanted) /\ fix = Maps!Map!Idle
    BY DEF TableInv
  <1>1. UserInv'
    BY <1>0, TableAnswers, UserSteps
  <1>2. PICK E, m, F, n : E = Kept /\ m = wanted /\ F = Kept' /\ n = wanted'
    OBVIOUS
  <1>3. TableIs(E, m)
    BY <1>0, <1>2
  <1>4. ASSUME NEW k \in Keys, NEW v \in Vals, Maps!Insert(k, v)
        PROVE  TableIs(F, n)' /\ fix' = fix
    <2>1. Maps!Wanted!Insert(k, v) /\ Table!insert(k, v) /\ fix' = fix
      BY <1>4, TableNames DEF Maps!Insert, Maps!treeVars
    <2>2. F = E \cup {k} /\ \A j \in E \cup {k} : n[j] = IF j = k THEN v ELSE m[j]
      BY <1>0, <1>2, <2>1, WantedInserts
    <2>3. TableIs(E \cup {k}, n)'
      BY <1>3, <2>1, <2>2, TableInserts
    <2> QED BY <2>1, <2>2, <2>3
  <1>5. ASSUME NEW k \in Keys, Maps!Erase(k)
        PROVE  TableIs(F, n)' /\ fix' = fix
    <2>1. Maps!Wanted!Erase(k) /\ Table!erase(k) /\ fix' = fix
      BY <1>5, TableNames DEF Maps!Erase, Maps!treeVars
    <2>2. F = E \ {k} /\ \A j \in E \ {k} : n[j] = m[j]
      BY <1>0, <1>2, <2>1, WantedErases
    <2>3. TableIs(E \ {k}, n)'
      BY <1>3, <2>1, <2>2, TableErases
    <2> QED BY <2>1, <2>2, <2>3
  <1>6. ASSUME UNCHANGED <<wanted, chains, size, fix>>
        PROVE  TableIs(F, n)' /\ fix' = fix
    <2>1. F = E /\ n = m
      BY <1>2, <1>6 DEF Kept
    <2> QED BY <1>3, <1>6, <2>1 DEF TableIs
  <1>7. TableIs(F, n)' /\ fix' = fix
    <2>1. CASE Maps!Call
      <3>1. \/ \E e \in Entries : Maps!Insert(e[1], e[2])
            \/ \E k \in CallerKeys : Maps!Erase(k)
        BY <2>1 DEF Maps!Call
      <3>2. CallerKeys \subseteq Keys
        BY BenchmarkAssumption
      <3> QED BY <1>4, <1>5, <3>1, <3>2, ValsAre
    <2>2. CASE Maps!TestInserts \/ Maps!TestErases
      <3>1. i \in Keys
        <4>1. i < total /\ i \in Nat /\ total \in Counts
          BY <1>0, <2>2 DEF UserInv, Maps!TestInserts, Maps!TestErases
        <4>2. total \in Nat /\ 0..(total - 1) \subseteq Keys
          BY <4>1, KeysAre
        <4> QED BY <4>1, <4>2
      <3>2. Maps!Insert(i, Maps!ValueOf(i)) \/ Maps!Erase(i)
        BY <2>2 DEF Maps!TestInserts, Maps!TestErases
      <3> QED BY <1>4, <1>5, <3>1, <3>2, ValsAre
    <2>3. CASE Maps!InsertsEnd \/ Maps!FindsEnd \/ Maps!ErasesEnd \/ Maps!TestFinds \/ Maps!TestFindsAgain
      <3>1. UNCHANGED <<wanted, chains, size, fix>>
        BY <2>3 DEF Maps!InsertsEnd, Maps!FindsEnd, Maps!ErasesEnd, Maps!Turns, Maps!TestFinds,
             Maps!TestFindsAgain, Maps!Finds, Maps!treeVars, Maps!tableVars
      <3> QED BY <1>6, <3>1, Zenon
    <2>4. CASE Maps!MapGoesOn
      <3>1. fix.op = "none"
        BY <1>0 DEF Maps!Map!Idle
      <3>2. FALSE
        BY <2>4, <3>1 DEF Maps!MapGoesOn, Maps!Map!Fixup, Maps!Map!RedUncle, Maps!Map!BlackUncle,
             Maps!Map!InsertDone, Maps!Map!MoveUp, Maps!Map!Settle, Maps!Map!EraseDone, Maps!Map!LacksBlack
      <3> QED BY <3>2
    <2> QED BY <2>1, <2>2, <2>3, <2>4 DEF Maps!Next, Maps!Test
  <1>8. TableIs(Kept, wanted)'
    BY <1>2, <1>7
  <1> QED BY <1>0, <1>1, <1>7, <1>8 DEF TableInv, Maps!Map!Idle

(* No other step touches a map.                                            *)
LEMMA OnlyMapSteps == Next => UNCHANGED mapVars \/ Maps!Next
  <1> SUFFICES ASSUME Next PROVE UNCHANGED mapVars \/ Maps!Next
    OBVIOUS
  <1>1. ASSUME NEW p \in Producers, Producer(p) PROVE UNCHANGED mapVars
    BY <1>1 DEF Producer
  <1>2. ASSUME NEW c \in Consumers, Consumer(c) PROVE UNCHANGED mapVars
    BY <1>2 DEF Consumer
  <1>3. CASE Joins
    <2>1. UNCHANGED <<running, mapVars>>
      BY <1>3 DEF Joins
    <2> QED BY <2>1
  <1>4. CASE UsesMap
    BY <1>4 DEF UsesMap
  <1>5. CASE Ended
    BY <1>5 DEF Ended, vars
  <1> QED BY <1>1, <1>2, <1>3, <1>4, <1>5, Zenon DEF Next

(* Whatever the hash, the number of buckets and the sequence of calls, the *)
(* hash table finds what was inserted and not erased, with its last value, *)
(* and testHashTable finds what it expects (HashTable.h, Benchmark.cpp).   *)
THEOREM HashTableAgrees == Spec => [](container = "table" => Agrees)
  <1>1. TableInv /\ [Next]_vars => TableInv'
    <2> SUFFICES ASSUME TableInv, [Next]_vars, container' = "table" PROVE TableInv'
      BY DEF TableInv
    <2>1. CASE UNCHANGED mapVars
      BY <2>1 DEF mapVars, TableInv, UserInv, WantedType, Kept, TableIs, Maps!Map!Idle
    <2>2. CASE Maps!Next
      <3>1. container' = container
        BY <2>2 DEF Maps!Next, Maps!MapGoesOn, Maps!user, Maps!Call, Maps!Test, Maps!TestInserts, Maps!TestErases,
             Maps!InsertsEnd, Maps!FindsEnd, Maps!ErasesEnd, Maps!Turns, Maps!TestFinds,
             Maps!TestFindsAgain, Maps!Finds
      <3> QED BY <2>2, <3>1, TableSteps
    <2>3. UNCHANGED mapVars \/ Maps!Next
      BY OnlyMapSteps DEF vars
    <2> QED BY <2>1, <2>2, <2>3
  <1>2. TableInv => (container = "table" => Agrees)
    BY TableAnswers DEF TableInv, Answers, UserInv, Agrees, Maps!Agrees, Maps!Passes, Kept
  <1> QED BY <1>1, <1>2, TableBegins, PTL DEF Spec

-----------------------------------------------------------------------------
(* PathSearch *)

(* A set of numbers has a least one ...                                    *)
LEMMA Least ==
  ASSUME NEW A, A \subseteq Nat, A # {}
  PROVE  \E m \in A : \A n \in A : m <= n
  <1> DEFINE R == {p \in Nat \X Nat : p[1] < p[2]}
  <1>1. IsWellFoundedOn(R, Nat)
    BY NatLessThanWellFounded DEF OpToRel
  <1>2. \A m, n \in Nat : <<n, m>> \notin R => m <= n
    BY SMT
  <1> HIDE DEF R
  <1>3. PICK m \in A : \A n \in A : <<n, m>> \notin R
    BY <1>1, WFMin
  <1> QED BY <1>2, <1>3

(* ... so that what holds of 0, and of n + 1 where it holds of n, holds of *)
(* them all.                                                               *)
LEMMA Induct ==
  ASSUME NEW A, 0 \in A, \A n \in Nat : n \in A => n + 1 \in A
  PROVE  Nat \subseteq A
  <1> SUFFICES ASSUME Nat \ A # {} PROVE FALSE
    OBVIOUS
  <1>1. PICK m \in Nat \ A : \A n \in Nat \ A : m <= n
    BY Least
  <1>2. m # 0 /\ m - 1 \in Nat
    BY <1>1, SMT
  <1>3. m - 1 \in A
    BY <1>1, <1>2, SMT
  <1>4. m - 1 + 1 \in A
    BY <1>2, <1>3
  <1>5. m - 1 + 1 = m
    BY <1>1, SMT
  <1> QED BY <1>1, <1>4, <1>5

-----------------------------------------------------------------------------
(* Cells and steps *)

(* The corners are cells, and Nowhere is none.                             *)
LEMMA CellsAre ==
  /\ start \in Cells /\ goal \in Cells /\ Nowhere \notin Cells
  /\ \A c \in Cells : c[1] \in Nat /\ c[2] \in Nat /\ c = <<c[1], c[2]>>
  BY GridAssumption, SMT DEF Cells, start, goal, Nowhere

(* A direction is one of eight.                                            *)
LEMMA DirectionsAre ==
  \A d \in Directions : /\ d[1] \in {-1, 0, 1} /\ d[2] \in {-1, 0, 1} /\ d = <<d[1], d[2]>>
                        /\ d[1] # 0 \/ d[2] # 0
  BY SMT DEF Directions

(* The cell d leads to c from, and back. *)
Behind(c, d) == Along(c, d, -1)

(* A step and the way back undo each other.                                *)
LEMMA StepBack ==
  ASSUME NEW c \in Cells, NEW d \in Directions
  PROVE  Step(Behind(c, d), d) = c /\ Behind(Step(c, d), d) = c
  BY CellsAre, DirectionsAre, SMT DEF Step, Along, Behind

(* A step from p to c *)
Leads(p, d, c) == /\ p \in Cells /\ isWalkable(p) /\ d \in Directions
                  /\ c = Step(p, d) /\ c \in Cells /\ CanStep(p, d)

(* A step leads to a free cell of the grid.                                *)
LEMMA LeadsIn ==
  ASSUME NEW p \in Cells, isWalkable(p), NEW d \in Directions, CanStep(p, d)
  PROVE  Leads(p, d, Step(p, d)) /\ isWalkable(Step(p, d))
  BY DEF Leads, CanStep, isWalkable

(* What a cell knows of the cells before it is what leads to it. *)
LEMMA BehindLeads ==
  ASSUME NEW c \in Cells, NEW d \in Directions, isWalkable(Behind(c, d)), CanStep(Behind(c, d), d)
  PROVE  Leads(Behind(c, d), d, c)
  BY StepBack DEF Leads, isWalkable

(* What leads to a cell lies behind it.                                    *)
LEMMA LeadsBehind ==
  ASSUME NEW p, NEW d, NEW c, Leads(p, d, c)
  PROVE  d \in Directions /\ p = Behind(c, d) /\ isWalkable(p) /\ CanStep(p, d) /\ c \in Cells
  BY StepBack DEF Leads

-----------------------------------------------------------------------------
(* Lengths *)

(* What a diagonal step costs more *)
Extra == Diagonal - Straight

(* What the prover needs of products                                       *)
LEMMA TimesIs ==
  /\ \A c, x \in Nat : c * x \in Nat /\ (c > 0 /\ x > 0 => c * x > 0)
  /\ \A c, x, y \in Int : c * x \in Int /\ c * (x + y) = c * x + c * y /\ c * (x - y) = c * x - c * y
  /\ \A c, d, x \in Int : c * x = x * c /\ (c + d) * x = c * x + d * x
  BY SMT

(* A step costs something, and a diagonal one no more than two straight    *)
(* ones.                                                                   *)
LEMMA CostsAre ==
  /\ Straight \in Nat /\ Straight > 0 /\ Diagonal \in Nat /\ Diagonal > 0
  /\ Extra \in Nat /\ Extra <= Straight /\ Diagonal = Straight + Extra
  /\ \A d : StepCost(d) \in Nat /\ StepCost(d) > 0
  BY CostAssumption, SMT DEF StepCost, Extra

(* The cost of what is not reached                                         *)
LEMMA InfinityIs == Infinity \in Nat /\ Infinity > 0
  <1>1. Diagonal * Width \in Nat /\ Diagonal * Width > 0
    BY CostsAre, GridAssumption, TimesIs, SMT
  <1>2. Diagonal * Width * Height \in Nat /\ Diagonal * Width * Height > 0
    BY <1>1, GridAssumption, TimesIs, SMT
  <1> QED BY <1>2 DEF Infinity

Estimate(c) == octileDistance(c, goal)

(* The absolute value is the number or its opposite.                       *)
LEMMA AbsIs == \A n \in Int : Abs(n) \in Nat /\ Abs(n) \in {n, -n}
  BY SMT DEF Abs

(* The longer side, and something for every step along the shorter one *)
Octile(m, n) == IF m <= n THEN Straight * n + Extra * m ELSE Straight * m + Extra * n

(* octileDistance depends on the two sides only.                           *)
LEMMA OctileIs ==
  ASSUME NEW a, NEW b, NEW m \in Nat, NEW n \in Nat, m = Abs(a[1] - b[1]), n = Abs(a[2] - b[2])
  PROVE  octileDistance(a, b) = Octile(m, n)
  <1>1. octileDistance(a, b) = Straight * Abs(m - n) + Diagonal * Lesser(m, n)
    BY DEF octileDistance
  <1>2. \A x, y \in Nat : Straight * (y - x) + Diagonal * x = Straight * y + Extra * x
    <2> SUFFICES ASSUME NEW x \in Nat, NEW y \in Nat
                 PROVE  Straight * (y - x) + Diagonal * x = Straight * y + Extra * x
      OBVIOUS
    <2>1. Straight \in Int /\ Extra \in Int /\ x \in Int /\ y \in Int
      BY CostsAre
    <2>2. Straight * (y - x) = Straight * y - Straight * x /\ Diagonal * x = Straight * x + Extra * x
      BY <2>1, CostsAre, TimesIs
    <2>3. Straight * y \in Int /\ Straight * x \in Int /\ Extra * x \in Int
      BY <2>1, TimesIs
    <2> QED BY <2>2, <2>3, SMT
  <1>3. CASE m <= n
    <2>1. Abs(m - n) = n - m /\ Lesser(m, n) = m
      BY <1>3, SMT DEF Abs, Lesser
    <2> QED BY <1>1, <1>2, <1>3, <2>1 DEF Octile
  <1>4. CASE ~(m <= n)
    <2>1. Abs(m - n) = m - n /\ Lesser(m, n) = n
      BY <1>4, SMT DEF Abs, Lesser
    <2> QED BY <1>1, <1>2, <1>4, <2>1 DEF Octile
  <1> QED BY <1>3, <1>4

(* It is a number.                                                         *)
LEMMA OctileType == \A m, n \in Nat : Octile(m, n) \in Nat
  <1> SUFFICES ASSUME NEW m \in Nat, NEW n \in Nat PROVE Octile(m, n) \in Nat
    OBVIOUS
  <1>1. Straight * n \in Nat /\ Extra * m \in Nat /\ Straight * m \in Nat /\ Extra * n \in Nat
    BY CostsAre, TimesIs
  <1> QED BY <1>1, SMT DEF Octile

(* To the goal, the last corner, there is only ahead. *)
LEMMA EstimateIs ==
  ASSUME NEW c \in Cells
  PROVE  LET m == goal[1] - c[1]
             n == goal[2] - c[2]
         IN  m \in Nat /\ n \in Nat /\ Estimate(c) = Octile(m, n)
  <1> DEFINE m == goal[1] - c[1]
             n == goal[2] - c[2]
  <1>1. m \in Nat /\ n \in Nat /\ m = Abs(c[1] - goal[1]) /\ n = Abs(c[2] - goal[2])
    <2>1. /\ c[1] \in 0..goal[1] /\ c[2] \in 0..goal[2]
          /\ goal[1] \in Int /\ goal[2] \in Int
      BY GridAssumption, SMT DEF Cells, goal
    <2> QED BY <2>1, SMT DEF Abs
  <1> HIDE DEF m, n
  <1>2. Estimate(c) = Octile(m, n)
    BY <1>1, OctileIs DEF Estimate
  <1> QED BY <1>1, <1>2 DEF m, n

(* So is the estimate, which is 0 at the goal.                             *)
LEMMA EstimateType ==
  /\ \A c \in Cells : Estimate(c) \in Nat
  /\ Estimate(goal) = 0
  <1>1. \A c \in Cells : Estimate(c) \in Nat
    BY EstimateIs, OctileType
  <1>2. goal[1] - goal[1] = 0 /\ goal[2] - goal[2] = 0
    BY CellsAre, SMT
  <1>3. Estimate(goal) = Octile(0, 0)
    BY <1>2, CellsAre, EstimateIs
  <1>4. Straight * 0 = 0 /\ Extra * 0 = 0
    BY CostsAre, SMT
  <1> QED BY <1>1, <1>3, <1>4 DEF Octile

(* One side of one step more or less changes it by no more than a step. *)
LEMMA OctileStep ==
  ASSUME NEW m \in Nat, NEW n \in Nat, NEW e \in {-1, 0, 1}, NEW f \in {-1, 0, 1},
         e # 0 \/ f # 0, m - e \in Nat, n - f \in Nat
  PROVE  Octile(m, n) <= (IF e # 0 /\ f # 0 THEN Diagonal ELSE Straight) + Octile(m - e, n - f)
  <1>1. ASSUME NEW c \in {Straight, Extra}, NEW x \in {m, n}, NEW at \in {-1, 0, 1}
        PROVE  c * x \in Int /\ c * (x - at) = c * x - (IF at = 0 THEN 0 ELSE IF at = 1 THEN c ELSE -c)
    <2>1. c \in Int /\ x \in Int /\ at \in Int
      BY CostsAre
    <2>2. c * (x - at) = c * x - c * at /\ c * x \in Int
      BY <2>1, TimesIs
    <2>3. c * 1 = c /\ c * 0 = 0 /\ c * (-1) = -c
      BY <2>1, SMT
    <2> QED BY <2>2, <2>3
  <1>2. /\ Straight * m \in Int /\ Straight * n \in Int /\ Extra * m \in Int /\ Extra * n \in Int
        /\ Straight * (m - e) = Straight * m - (IF e = 0 THEN 0 ELSE IF e = 1 THEN Straight ELSE -Straight)
        /\ Straight * (n - f) = Straight * n - (IF f = 0 THEN 0 ELSE IF f = 1 THEN Straight ELSE -Straight)
        /\ Extra * (m - e) = Extra * m - (IF e = 0 THEN 0 ELSE IF e = 1 THEN Extra ELSE -Extra)
        /\ Extra * (n - f) = Extra * n - (IF f = 0 THEN 0 ELSE IF f = 1 THEN Extra ELSE -Extra)
    BY <1>1
  <1>3. n = m + 1 => Straight * n = Straight * m + Straight /\ Extra * n = Extra * m + Extra
    <2>1. \A c \in Nat : c * (m + 1) = c * m + c
      BY SMT
    <2> QED BY <2>1, CostsAre
  <1>4. m = n + 1 => Straight * m = Straight * n + Straight /\ Extra * m = Extra * n + Extra
    <2>1. \A c \in Nat : c * (n + 1) = c * n + c
      BY SMT
    <2> QED BY <2>1, CostsAre
  <1>12. m = n + 2 => Straight * m = Straight * n + 2 * Straight /\ Extra * m = Extra * n + 2 * Extra
    <2>1. \A c \in Nat : c * (n + 2) = c * n + 2 * c
      BY SMT
    <2> QED BY <2>1, CostsAre
  <1>5. Straight \in Nat /\ Extra \in Nat /\ Extra <= Straight /\ Diagonal = Straight + Extra
    BY CostsAre
  <1>6. m = n => Straight * m = Straight * n /\ Extra * m = Extra * n
    OBVIOUS
  <1> DEFINE Sm == Straight * m
             Sn == Straight * n
             Km == Extra * m
             Kn == Extra * n
             Sr == Straight * (m - e)
             Ss == Straight * (n - f)
             Kr == Extra * (m - e)
             Ks == Extra * (n - f)
  <1>7. /\ Octile(m, n) = IF m <= n THEN Sn + Km ELSE Sm + Kn
        /\ Octile(m - e, n - f) = IF m - e <= n - f THEN Ss + Kr ELSE Sr + Ks
    BY DEF Octile
  <1>8. /\ Sm \in Int /\ Sn \in Int /\ Km \in Int /\ Kn \in Int
        /\ Sr = Sm - (IF e = 0 THEN 0 ELSE IF e = 1 THEN Straight ELSE -Straight)
        /\ Ss = Sn - (IF f = 0 THEN 0 ELSE IF f = 1 THEN Straight ELSE -Straight)
        /\ Kr = Km - (IF e = 0 THEN 0 ELSE IF e = 1 THEN Extra ELSE -Extra)
        /\ Ks = Kn - (IF f = 0 THEN 0 ELSE IF f = 1 THEN Extra ELSE -Extra)
        /\ n = m + 1 => Sn = Sm + Straight /\ Kn = Km + Extra
        /\ m = n + 1 => Sm = Sn + Straight /\ Km = Kn + Extra
        /\ m = n + 2 => Sm = Sn + 2 * Straight /\ Km = Kn + 2 * Extra
        /\ m = n => Sm = Sn /\ Km = Kn
    BY <1>2, <1>3, <1>4, <1>6, <1>12
  <1> HIDE DEF Sm, Sn, Km, Kn, Sr, Ss, Kr, Ks
  <1>9. CASE e = 0
    <2>1. CASE f = 0
      BY <1>5, <1>7, <1>8, <1>9, <2>1, SMT
    <2>2. CASE f = 1
      BY <1>5, <1>7, <1>8, <1>9, <2>2, SMT
    <2>3. CASE f = -1
      BY <1>5, <1>7, <1>8, <1>9, <2>3, SMT
    <2> QED BY <2>1, <2>2, <2>3
  <1>10. CASE e = 1
    <2>1. CASE f = 0
      BY <1>5, <1>7, <1>8, <1>10, <2>1, SMT
    <2>2. CASE f = 1
      BY <1>5, <1>7, <1>8, <1>10, <2>2, SMT
    <2>3. CASE f = -1
      <3>1. /\ Sr = Sm - Straight /\ Ss = Sn + Straight /\ Kr = Km - Extra /\ Ks = Kn + Extra
            /\ Sm \in Int /\ Sn \in Int /\ Km \in Int /\ Kn \in Int
            /\ n = m + 1 => Sn = Sm + Straight /\ Kn = Km + Extra
            /\ m = n + 1 => Sm = Sn + Straight /\ Km = Kn + Extra
            /\ m = n + 2 => Sm = Sn + 2 * Straight /\ Km = Kn + 2 * Extra
            /\ m = n => Sm = Sn /\ Km = Kn
        BY <1>5, <1>8, <1>10, <2>3, SMT
      <3>2. CASE m <= n
        <4>1. Octile(m, n) = Sn + Km /\ Octile(m - e, n - f) = Ss + Kr
          BY <1>7, <1>10, <2>3, <3>2, SMT
        <4> QED BY <1>5, <1>10, <2>3, <3>1, <4>1, SMT
      <3>3. CASE m = n + 1
        <4>1. Octile(m, n) = Sm + Kn /\ Octile(m - e, n - f) = Ss + Kr
          BY <1>7, <1>10, <2>3, <3>3, SMT
        <4> QED BY <1>5, <1>10, <2>3, <3>1, <3>3, <4>1, SMT
      <3>5. CASE m = n + 2
        <4>1. Octile(m, n) = Sm + Kn /\ Octile(m - e, n - f) = Ss + Kr
          BY <1>7, <1>10, <2>3, <3>5, SMT
        <4> QED BY <1>5, <1>10, <2>3, <3>1, <3>5, <4>1, SMT
      <3>4. CASE m > n + 2
        <4>1. Octile(m, n) = Sm + Kn /\ Octile(m - e, n - f) = Sr + Ks
          BY <1>7, <1>10, <2>3, <3>4, SMT
        <4> QED BY <1>5, <1>10, <2>3, <3>1, <4>1, SMT
      <3> QED BY <3>2, <3>3, <3>4, <3>5, SMT
    <2> QED BY <2>1, <2>2, <2>3
  <1>11. CASE e = -1
    <2>1. CASE f = 0
      BY <1>5, <1>7, <1>8, <1>11, <2>1, SMT
    <2>2. CASE f = 1
      BY <1>5, <1>7, <1>8, <1>11, <2>2, SMT
    <2>3. CASE f = -1
      BY <1>5, <1>7, <1>8, <1>11, <2>3, SMT
    <2> QED BY <2>1, <2>2, <2>3
  <1> QED BY <1>9, <1>10, <1>11

(* Between neighbours it is the cost of the step.                          *)
LEMMA StepDistance ==
  ASSUME NEW p, NEW d, NEW c, Leads(p, d, c)
  PROVE  octileDistance(p, c) = StepCost(d)
  <1>1. /\ p[1] \in Int /\ p[2] \in Int /\ c[1] = p[1] + d[1] /\ c[2] = p[2] + d[2]
        /\ d[1] \in {-1, 0, 1} /\ d[2] \in {-1, 0, 1} /\ (d[1] # 0 \/ d[2] # 0)
    BY CellsAre, DirectionsAre, SMT DEF Leads, Step, Along
  <1> DEFINE m == Abs(p[1] - c[1])
             n == Abs(p[2] - c[2])
  <1>2. m = (IF d[1] = 0 THEN 0 ELSE 1) /\ n = (IF d[2] = 0 THEN 0 ELSE 1)
    BY <1>1, SMT DEF Abs
  <1>3. m \in Nat /\ n \in Nat
    BY <1>2
  <1>4. octileDistance(p, c) = Octile(m, n)
    BY <1>3, OctileIs
  <1>5. /\ Straight * 0 = 0 /\ Extra * 0 = 0 /\ Straight * 1 = Straight /\ Extra * 1 = Extra
        /\ Straight \in Nat /\ Extra \in Nat /\ Diagonal = Straight + Extra
    BY CostsAre, SMT
  <1> HIDE DEF m, n
  <1> QED BY <1>1, <1>2, <1>4, <1>5, SMT DEF Octile, StepCost, IsDiagonal

(* One step changes the estimate by its length at most. *)
LEMMA Consistent ==
  ASSUME NEW p, NEW d, NEW c, Leads(p, d, c)
  PROVE  Estimate(p) <= StepCost(d) + Estimate(c)
  <1>1. /\ p[1] \in Int /\ p[2] \in Int /\ c[1] = p[1] + d[1] /\ c[2] = p[2] + d[2]
        /\ d[1] \in {-1, 0, 1} /\ d[2] \in {-1, 0, 1} /\ (d[1] # 0 \/ d[2] # 0)
        /\ p \in Cells /\ c \in Cells
    BY CellsAre, DirectionsAre, SMT DEF Leads, Step, Along
  <1>2. goal[1] \in Int /\ goal[2] \in Int
    BY CellsAre
  <1>3. StepCost(d) = IF d[1] # 0 /\ d[2] # 0 THEN Diagonal ELSE Straight
    BY DEF StepCost, IsDiagonal
  <1> HIDE DEF goal
  <1> DEFINE m == goal[1] - p[1]
             n == goal[2] - p[2]
  <1>4. m \in Nat /\ n \in Nat /\ Estimate(p) = Octile(m, n)
    BY <1>1, EstimateIs
  <1>5. /\ goal[1] - c[1] \in Nat /\ goal[2] - c[2] \in Nat
        /\ Estimate(c) = Octile(goal[1] - c[1], goal[2] - c[2])
    BY <1>1, EstimateIs
  <1>6. goal[1] - c[1] = m - d[1] /\ goal[2] - c[2] = n - d[2]
    BY <1>1, <1>2, SMT
  <1> HIDE DEF m, n
  <1> QED BY <1>1, <1>3, <1>4, <1>5, <1>6, OctileStep

-----------------------------------------------------------------------------
(* Distances *)

(* A cell relaxes to the best of what it has and of what leads to it.      *)
LEMMA RelaxedIs ==
  ASSUME dist \in [Cells -> Nat], NEW c \in Cells
  PROVE  /\ Relaxed(c) \in Nat /\ Relaxed(c) <= dist[c]
         /\ \A p, d : Leads(p, d, c) => Relaxed(c) <= dist[p] + StepCost(d)
         /\ \/ Relaxed(c) = dist[c]
            \/ \E p, d : Leads(p, d, c) /\ Relaxed(c) = dist[p] + StepCost(d)
  <1> DEFINE before == {dist[c]} \cup {dist[Behind(c, d)] + StepCost(d) :
                                         d \in {e \in Directions : /\ isWalkable(Behind(c, e))
                                                                   /\ CanStep(Behind(c, e), e)}}
  <1>1. Relaxed(c) = CHOOSE n \in before : \A m \in before : n <= m
    BY DEF Relaxed, Behind
  <1>2. before \subseteq Nat /\ before # {}
    BY CostsAre, SMT DEF isWalkable
  <1>3. \E n \in before : \A m \in before : n <= m
    BY <1>2, Least
  <1>4. dist[c] \in before /\ \A p, d : Leads(p, d, c) => dist[p] + StepCost(d) \in before
    BY LeadsBehind
  <1>5. \A n \in before : n = dist[c] \/ \E p, d : Leads(p, d, c) /\ n = dist[p] + StepCost(d)
    BY BehindLeads
  <1> HIDE DEF before
  <1>6. Relaxed(c) \in before /\ \A m \in before : Relaxed(c) <= m
    BY <1>1, <1>3
  <1> QED BY <1>2, <1>4, <1>5, <1>6
-----------------------------------------------------------------------------
(* The invariant *)

(* What the survey has found: from every cell that has a distance, a way   *)
(* back that is no longer.  In the end no distance is longer than a way.   *)
SurveyInv ==
  /\ walls \subseteq Cells \ {start, goal}
  /\ dist \in [Cells -> Nat] /\ dist[start] = 0
  /\ \A c \in Cells : dist[c] <= Infinity
  /\ \A c \in Cells \ {start} :
       dist[c] < Infinity => \E p, d : Leads(p, d, c) /\ dist[p] + StepCost(d) <= dist[c]
  /\ method # "survey" => \A p, d, c : Leads(p, d, c) => dist[c] <= dist[p] + StepCost(d)

Untouched == /\ g = [c \in Cells |-> Infinity] /\ cameFrom = [c \in Cells |-> Nowhere]
             /\ closed = {} /\ open = {} /\ result = "none"

Reached(c) == c \in Cells /\ g[c] < Infinity

(* The cost of a cell is that of a way, so no less than its distance; what *)
(* is closed is settled, and its cells around know of it; and whatever     *)
(* else has a cost waits in the queue with that cost and its estimate.     *)
CostInv ==
  /\ g \in [Cells -> Nat] /\ g[start] = 0
  /\ \A c \in Cells : g[c] <= Infinity /\ dist[c] <= g[c] /\ (Reached(c) => isWalkable(c))
  /\ closed \subseteq Cells
  /\ \A c \in closed : g[c] = dist[c] /\ Reached(c)
  /\ \A p, d, c : Leads(p, d, c) /\ p \in closed \ {goal} => g[c] <= g[p] + StepCost(d)
OpenInv ==
  /\ \A c \in Cells \ closed : Reached(c) => <<g[c] + Estimate(c), c>> \in open
  /\ \A e \in open : /\ e[1] \in Nat /\ e = <<e[1], e[2]>> /\ Reached(e[2])
                     /\ g[e[2]] + Estimate(e[2]) <= e[1]
  /\ goal \in closed <=> result = "found"
  /\ result = "failed" => open = {}

StarInv == /\ SurveyInv
           /\ method = "survey" => Untouched
           /\ method = "AStar" => CostInv /\ OpenInv

(* Nothing ever moves a wall.                                              *)
LEMMA SameGrid ==
  ASSUME walls' = walls
  PROVE  /\ \A c : isWalkable(c)' <=> isWalkable(c)
         /\ \A p, d, c : Leads(p, d, c)' <=> Leads(p, d, c)
  BY DEF Leads, isWalkable, CanStep, canMoveDiagonally

(* The invariant holds before the survey ...                               *)
LEMMA SurveyBegins == SearchInit => StarInv
  <1> SUFFICES ASSUME SearchInit PROVE StarInv
    OBVIOUS
  <1>1. SurveyInv
    BY CellsAre, InfinityIs, SMT DEF SearchInit, SurveyInv
  <1> QED BY <1>1 DEF SearchInit, StarInv, Untouched

(* ... through it ...                                                      *)
LEMMA SurveyStep == ASSUME StarInv, Survey PROVE StarInv'
  <1>1. /\ method = "survey" /\ dist' = [c \in Cells |-> Relaxed(c)]
        /\ UNCHANGED <<walls, method, g, cameFrom, closed, open, result>>
    BY DEF Survey
  <1>2. SurveyInv /\ Untouched
    BY <1>1 DEF StarInv
  <1>3. dist \in [Cells -> Nat]
    BY <1>2 DEF SurveyInv
  <1>4. \A c \in Cells : dist'[c] \in Nat /\ dist'[c] <= dist[c] /\ dist[c] <= Infinity
    BY <1>1, <1>2, <1>3, RelaxedIs DEF SurveyInv
  <1>5. dist' \in [Cells -> Nat] /\ dist'[start] = 0
    <2>1. dist' \in [Cells -> Nat]
      BY <1>1, <1>4
    <2>2. start \in Cells /\ dist[start] = 0
      BY <1>2, CellsAre DEF SurveyInv
    <2>3. dist'[start] \in Nat /\ dist'[start] <= 0
      BY <1>4, <2>2
    <2> QED BY <2>1, <2>3, SMT
  <1>6. \A c \in Cells : dist'[c] <= Infinity
    BY <1>3, <1>4, InfinityIs, SMT
  <1>7. ASSUME NEW c \in Cells \ {start}, dist'[c] < Infinity
        PROVE  \E p, d : Leads(p, d, c) /\ dist'[p] + StepCost(d) <= dist'[c]
    <2>1. CASE \E p, d : Leads(p, d, c) /\ Relaxed(c) = dist[p] + StepCost(d)
      <3>1. PICK p, d : Leads(p, d, c) /\ dist'[c] = dist[p] + StepCost(d)
        BY <2>1, <1>1
      <3>2. p \in Cells
        BY <3>1 DEF Leads
      <3> QED BY <1>3, <1>4, <3>1, <3>2, CostsAre, SMT
    <2>2. CASE Relaxed(c) = dist[c]
      <3>1. PICK p, d : Leads(p, d, c) /\ dist[p] + StepCost(d) <= dist[c]
        BY <2>2, <1>1, <1>2, <1>7 DEF SurveyInv
      <3>2. p \in Cells
        BY <3>1 DEF Leads
      <3>3. dist'[c] = dist[c]
        BY <2>2, <1>1
      <3> QED BY <1>3, <1>4, <3>1, <3>2, <3>3, CostsAre, SMT
    <2> QED BY <1>3, <2>1, <2>2, RelaxedIs
  <1>8. SurveyInv'
    BY <1>1, <1>2, <1>5, <1>6, <1>7, SameGrid DEF SurveyInv
  <1>9. Untouched'
    BY <1>1, <1>2 DEF Untouched
  <1> QED BY <1>1, <1>8, <1>9 DEF StarInv

(* ... and when a search begins.                                           *)
LEMMA SearchBegins == ASSUME StarInv, Begin PROVE StarInv'
  <1>1. /\ method = "survey" /\ \A c \in Cells : Relaxed(c) = dist[c]
        /\ method' \in {"AStar", "JPS"}
        /\ g' = [g EXCEPT ![start] = 0] /\ open' = {<<Estimate(start), start>>}
        /\ UNCHANGED <<walls, dist, cameFrom, closed, result>>
    BY DEF Begin, Estimate, octileDistance
  <1>2. SurveyInv /\ Untouched
    BY <1>1 DEF StarInv
  <1>3. \A p, d, c : Leads(p, d, c) => c \in Cells
    BY DEF Leads
  <1>4. \A p, d, c : Leads(p, d, c) => dist[c] <= dist[p] + StepCost(d)
    BY <1>1, <1>2, <1>3, RelaxedIs DEF SurveyInv
  <1>5. SurveyInv'
    BY <1>1, <1>2, <1>4, SameGrid DEF SurveyInv
  <1>6. g' = [c \in Cells |-> IF c = start THEN 0 ELSE Infinity] /\ closed' = {}
    BY <1>1, <1>2, CellsAre DEF Untouched
  <1>7. \A c : Reached(c)' <=> c = start
    BY <1>6, CellsAre, InfinityIs, SMT DEF Reached
  <1>8. CostInv'
    <2>1. isWalkable(start)'
      BY <1>1, <1>2, CellsAre DEF isWalkable, SurveyInv
    <2>2. \A c \in Cells : g'[c] <= Infinity /\ dist'[c] <= g'[c]
      BY <1>1, <1>2, <1>6, InfinityIs, SMT DEF SurveyInv
    <2>3. g' \in [Cells -> Nat] /\ g'[start] = 0
      BY <1>6, CellsAre, InfinityIs, SMT
    <2> QED BY <1>6, <1>7, <2>1, <2>2, <2>3 DEF CostInv
  <1>9. OpenInv'
    <2>1. Estimate(start) \in Nat /\ g'[start] = 0 /\ 0 + Estimate(start) = Estimate(start)
      BY <1>6, CellsAre, EstimateType, SMT
    <2>2. closed' = {} /\ result' = "none" /\ open' = {<<Estimate(start), start>>}
      BY <1>1, <1>2 DEF Untouched
    <2>3. /\ \A c \in Cells \ closed' : Reached(c)' => <<g'[c] + Estimate(c), c>> \in open'
          /\ \A e \in open' : /\ e[1] \in Nat /\ e = <<e[1], e[2]>> /\ Reached(e[2])'
                              /\ g'[e[2]] + Estimate(e[2]) <= e[1]
      BY <1>7, <2>1, <2>2
    <2> QED BY <2>2, <2>3 DEF OpenInv
  <1> QED BY <1>1, <1>5, <1>8, <1>9 DEF StarInv
-----------------------------------------------------------------------------
(* A* *)

(* A cell that waits with its true distance, and may lie before m *)
Ahead(n, m) == /\ n \in Cells \ closed /\ Reached(n) /\ g[n] = dist[n]
               /\ dist[n] + Estimate(n) <= dist[m] + Estimate(m)

(* Whatever can be reached is closed, or one of the cells that lead to it  *)
(* waits with its true distance.                                           *)
LEMMA Frontier ==
  ASSUME SurveyInv, method # "survey", CostInv, goal \notin closed
  PROVE  \A m \in Cells : dist[m] < Infinity => m \in closed \/ \E n : Ahead(n, m)
  <1> DEFINE Lost == {m \in Cells : dist[m] < Infinity /\ m \notin closed /\ ~\E n : Ahead(n, m)}
  <1> SUFFICES ASSUME Lost # {} PROVE FALSE
    OBVIOUS
  <1>1. /\ dist \in [Cells -> Nat] /\ dist[start] = 0 /\ g \in [Cells -> Nat] /\ g[start] = 0
        /\ closed \subseteq Cells
    BY DEF SurveyInv, CostInv
  <1>2. PICK m \in Lost : \A k \in Lost : dist[m] <= dist[k]
    <2>1. {dist[k] : k \in Lost} \subseteq Nat /\ {dist[k] : k \in Lost} # {}
      BY <1>1
    <2>2. PICK x \in {dist[k] : k \in Lost} : \A y \in {dist[k] : k \in Lost} : x <= y
      BY <2>1, Least
    <2> QED BY <2>2
  <1>3. m # start
    <2>1. ASSUME m = start PROVE Ahead(m, m)
      <3>1. m \in Cells \ closed /\ g[m] = dist[m] /\ Reached(m)
        BY <1>1, <1>2, <2>1, CellsAre, SMT DEF Reached
      <3>2. dist[m] + Estimate(m) <= dist[m] + Estimate(m)
        BY <1>1, <1>2, EstimateType, SMT
      <3> QED BY <3>1, <3>2 DEF Ahead
    <2> QED BY <1>2, <2>1
  <1>4. PICK p, d : Leads(p, d, m) /\ dist[p] + StepCost(d) <= dist[m]
    BY <1>2, <1>3 DEF SurveyInv
  <1>5. dist[m] <= dist[p] + StepCost(d) /\ p \in Cells
    BY <1>4 DEF SurveyInv, Leads
  <1>6. /\ dist[m] \in Nat /\ dist[p] \in Nat /\ StepCost(d) \in Nat /\ StepCost(d) > 0
        /\ Estimate(p) \in Nat /\ Estimate(m) \in Nat /\ Estimate(p) <= StepCost(d) + Estimate(m)
    BY <1>1, <1>2, <1>4, <1>5, CostsAre, EstimateType, Consistent
  <1>7. dist[p] < dist[m] /\ dist[p] < Infinity /\ dist[p] + Estimate(p) <= dist[m] + Estimate(m)
    BY <1>2, <1>4, <1>5, <1>6, InfinityIs, SMT
  <1>8. p \notin Lost
    BY <1>2, <1>6, <1>7, SMT
  <1>9. CASE p \in closed
    <2>1. g[p] = dist[p] /\ g[m] <= g[p] + StepCost(d) /\ dist[m] <= g[m] /\ g[m] \in Nat
      BY <1>1, <1>2, <1>4, <1>9 DEF CostInv
    <2>2. g[m] = dist[m]
      BY <1>4, <1>5, <1>6, <2>1, SMT
    <2>3. dist[m] + Estimate(m) <= dist[m] + Estimate(m)
      BY <1>6, SMT
    <2>4. Ahead(m, m)
      BY <1>2, <2>2, <2>3 DEF Ahead, Reached
    <2> QED BY <1>2, <2>4
  <1>10. CASE p \notin closed
    <2>1. PICK n : Ahead(n, p)
      BY <1>5, <1>7, <1>8, <1>10
    <2>2. dist[n] \in Nat /\ Estimate(n) \in Nat /\ dist[n] + Estimate(n) <= dist[p] + Estimate(p)
      BY <1>1, <2>1, EstimateType DEF Ahead
    <2>3. dist[n] + Estimate(n) <= dist[m] + Estimate(m)
      BY <1>6, <1>7, <2>2, SMT
    <2>4. Ahead(n, m)
      BY <2>1, <2>3 DEF Ahead
    <2> QED BY <1>2, <2>4
  <1> QED BY <1>9, <1>10

(* The best that waits has its true distance: a cell before it that had    *)
(* been missed would look better.                                          *)
LEMMA BestIsSettled ==
  ASSUME StarInv, method = "AStar", result = "none", NEW entry, IsBest(entry), entry[2] \notin closed
  PROVE  g[entry[2]] = dist[entry[2]] /\ Reached(entry[2])
  <1> DEFINE c == entry[2]
  <1>1. SurveyInv /\ CostInv /\ OpenInv
    BY DEF StarInv
  <1>2. entry \in open /\ \A e \in open : entry[1] <= e[1]
    BY DEF IsBest
  <1>3. Reached(c) /\ c \in Cells /\ g[c] + Estimate(c) <= entry[1] /\ entry[1] \in Nat
    BY <1>1, <1>2 DEF OpenInv, Reached
  <1>4. g[c] \in Nat /\ dist[c] \in Nat /\ Estimate(c) \in Nat /\ dist[c] <= g[c] /\ g[c] < Infinity
    BY <1>1, <1>3, EstimateType DEF SurveyInv, CostInv, Reached
  <1>5. goal \notin closed
    BY <1>1 DEF OpenInv
  <1>6. dist[c] < Infinity
    BY <1>4, InfinityIs, SMT
  <1>7. PICK n : Ahead(n, c)
    BY <1>1, <1>3, <1>5, <1>6, Frontier
  <1>8. /\ <<g[n] + Estimate(n), n>> \in open /\ g[n] = dist[n]
        /\ dist[n] \in Nat /\ Estimate(n) \in Nat /\ dist[n] + Estimate(n) <= dist[c] + Estimate(c)
    BY <1>1, <1>7, EstimateType DEF Ahead, OpenInv, SurveyInv
  <1>9. entry[1] <= g[n] + Estimate(n)
    BY <1>2, <1>8
  <1>10. g[c] = dist[c]
    BY <1>3, <1>4, <1>8, <1>9, SMT
  <1> QED BY <1>3, <1>10

(* If the queue runs dry there was no way.                                 *)
LEMMA DryMeansNone ==
  ASSUME StarInv, method = "AStar", open = {}, goal \notin closed
  PROVE  dist[goal] = Infinity
  <1>1. SurveyInv /\ CostInv /\ OpenInv
    BY DEF StarInv
  <1>2. ~\E n : Ahead(n, goal)
    BY <1>1 DEF Ahead, OpenInv
  <1>3. ~(dist[goal] < Infinity)
    BY <1>1, <1>2, CellsAre, Frontier
  <1> QED BY <1>1, <1>3, CellsAre, InfinityIs, SMT DEF SurveyInv
(* What expanding c does: some of the cells around it get a lower cost and *)
(* a link to c, and the others are none the worse.                         *)
Improves(c, I) ==
  /\ c \in Cells \ closed /\ c # goal /\ isWalkable(c) /\ g[c] = dist[c] /\ Reached(c)
  /\ closed' = closed \cup {c}
  /\ I \subseteq Cells \ (closed \cup {c}) /\ start \notin I
  /\ \A n \in I : g'[n] < g[n]
  /\ \A n \in I : \E d : Leads(c, d, n) /\ g'[n] = g[c] + StepCost(d)
  /\ \A d, n : Leads(c, d, n) =>
       IF n \in I THEN g'[n] = g[c] + StepCost(d)
                  ELSE n \in closed \cup {c} \/ g[n] <= g[c] + StepCost(d)
  /\ \A n \in Cells : /\ g'[n] \in Nat /\ g'[n] <= g[n]
                      /\ n \notin I => g'[n] = g[n]
  /\ g' \in [Cells -> Nat]

(* That is what Expand does, for A*.                                       *)
LEMMA Expanded ==
  ASSUME StarInv, method = "AStar", NEW entry \in open, Expand(entry)
  PROVE  \E I : /\ Improves(entry[2], I)
                /\ open' = (open \ {entry}) \cup {<<g'[n] + Estimate(n), n>> : n \in I}
                /\ UNCHANGED <<walls, dist, method, result>>
  <1> DEFINE c == entry[2]
             I == {n \in Successors(c) : n \notin closed \cup {c} /\ Through(c, n) < g[n]}
  <1>1. /\ method = "AStar" /\ result = "none" /\ IsBest(entry) /\ c \notin closed /\ c # goal
        /\ closed' = closed \cup {c}
        /\ g' = [n \in Cells |-> IF n \in I THEN Through(c, n) ELSE g[n]]
        /\ open' = (open \ {entry}) \cup {<<Through(c, n) + octileDistance(n, goal), n>> : n \in I}
        /\ UNCHANGED <<walls, dist, method, result>>
    BY DEF Expand, Searching
  <1>2. g[c] = dist[c] /\ Reached(c)
    BY <1>1, BestIsSettled
  <1>3. /\ c \in Cells /\ isWalkable(c) /\ g \in [Cells -> Nat] /\ g[start] = 0 /\ g[c] \in Nat
    BY <1>2 DEF StarInv, CostInv, Reached
  <1>4. \A n : n \in Successors(c) <=> \E d : Leads(c, d, n)
    <2>1. Successors(c) = {Step(c, d) : d \in {e \in Directions : CanStep(c, e)}}
      BY <1>1 DEF Successors
    <2>2. ASSUME NEW n, n \in Successors(c) PROVE \E d : Leads(c, d, n)
      BY <1>3, <2>1, <2>2, LeadsIn
    <2>3. ASSUME NEW n, NEW d, Leads(c, d, n) PROVE n \in Successors(c)
      BY <2>1, <2>3 DEF Leads
    <2> QED BY <2>2, <2>3
  <1>5. ASSUME NEW d, NEW n, Leads(c, d, n)
        PROVE  Through(c, n) = g[c] + StepCost(d) /\ Through(c, n) \in Nat /\ n \in Cells
    BY <1>3, <1>5, StepDistance, CostsAre DEF Through, Leads
  <1>6. I \subseteq Cells \ (closed \cup {c}) /\ start \notin I
    <2>1. I \subseteq Cells \ (closed \cup {c})
      BY <1>4, <1>5
    <2>2. \A n \in I : Through(c, n) \in Nat /\ Through(c, n) < g[n]
      BY <1>4, <1>5
    <2>3. start \notin I
      BY <1>3, <2>2, SMT
    <2> QED BY <2>1, <2>3
  <1>7. \A n \in I : \E d : Leads(c, d, n) /\ g'[n] = g[c] + StepCost(d)
    BY <1>1, <1>4, <1>5, <1>6
  <1>13. \A n \in I : g'[n] < g[n]
    BY <1>1, <1>6
  <1>8. ASSUME NEW d, NEW n, Leads(c, d, n)
        PROVE  IF n \in I THEN g'[n] = g[c] + StepCost(d)
                          ELSE n \in closed \cup {c} \/ g[n] <= g[c] + StepCost(d)
    <2>1. n \in Successors(c) /\ n \in Cells /\ Through(c, n) = g[c] + StepCost(d) /\ Through(c, n) \in Nat
      BY <1>4, <1>5, <1>8
    <2>2. CASE n \in I
      BY <1>1, <2>1, <2>2
    <2>3. CASE n \notin I /\ n \notin closed \cup {c}
      <3>1. ~(Through(c, n) < g[n])
        BY <2>1, <2>3
      <3>2. g[n] \in Nat
        BY <1>3, <2>1
      <3> HIDE DEF I
      <3> QED BY <2>1, <2>3, <3>1, <3>2, SMT
    <2> QED BY <2>2, <2>3
  <1>9. \A n \in Cells : /\ g'[n] \in Nat /\ g'[n] <= g[n]
                         /\ n \notin I => g'[n] = g[n]
    <2> SUFFICES ASSUME NEW n \in Cells
                 PROVE  /\ g'[n] \in Nat /\ g'[n] <= g[n]
                        /\ n \notin I => g'[n] = g[n]
      OBVIOUS
    <2>1. g[n] \in Nat
      BY <1>3
    <2>2. CASE n \in I
      <3>1. g'[n] = Through(c, n) /\ Through(c, n) \in Nat /\ Through(c, n) < g[n]
        BY <1>1, <1>4, <1>5, <2>2
      <3> QED BY <2>1, <2>2, <3>1, SMT
    <2>3. CASE n \notin I
      <3>1. g'[n] = g[n]
        BY <1>1, <2>3
      <3> QED BY <2>1, <2>3, <3>1, SMT
    <2> QED BY <2>2, <2>3
  <1>10. g' \in [Cells -> Nat]
    BY <1>1, <1>9
  <1>11. open' = (open \ {entry}) \cup {<<g'[n] + Estimate(n), n>> : n \in I}
    <2>1. \A n \in I : Through(c, n) + octileDistance(n, goal) = g'[n] + Estimate(n)
      BY <1>1, <1>6 DEF Estimate
    <2> QED BY <1>1, <2>1
  <1>12. Improves(c, I)
    BY <1>1, <1>2, <1>3, <1>6, <1>7, <1>8, <1>9, <1>10, <1>13 DEF Improves
  <1> QED BY <1>1, <1>11, <1>12
(* An expanded cell is settled, and its neighbours are told.               *)
LEMMA ExpandStep ==
  ASSUME StarInv, method = "AStar", NEW entry \in open, Expand(entry)
  PROVE  StarInv'
  <1> DEFINE c == entry[2]
  <1>1. PICK I : /\ Improves(c, I)
                 /\ open' = (open \ {entry}) \cup {<<g'[n] + Estimate(n), n>> : n \in I}
                 /\ UNCHANGED <<walls, dist, method, result>>
    BY Expanded
  <1>2. SurveyInv /\ CostInv /\ OpenInv /\ result = "none"
    BY DEF StarInv, Expand, Searching
  <1>3. /\ c \in Cells \ closed /\ c # goal /\ isWalkable(c) /\ g[c] = dist[c] /\ Reached(c)
        /\ closed' = closed \cup {c} /\ c \notin I
        /\ I \subseteq Cells \ (closed \cup {c}) /\ start \notin I
        /\ \A n \in Cells : /\ g'[n] \in Nat /\ g'[n] <= g[n]
                            /\ n \notin I => g'[n] = g[n]
        /\ g' \in [Cells -> Nat] /\ g[c] \in Nat
    BY <1>1, <1>2 DEF Improves, CostInv
  <1>4. \A d, n : Leads(c, d, n) =>
          IF n \in I THEN g'[n] = g[c] + StepCost(d)
                     ELSE n \in closed \cup {c} \/ g[n] <= g[c] + StepCost(d)
    BY <1>1 DEF Improves
  <1>5. \A n \in I : \E d : Leads(c, d, n) /\ g'[n] = g[c] + StepCost(d)
    BY <1>1 DEF Improves
  <1>6. \A n \in Cells : /\ g[n] \in Nat /\ g'[n] \in Nat /\ g'[n] <= g[n] /\ dist[n] \in Nat
                         /\ g[n] <= Infinity /\ dist[n] <= g[n]
    BY <1>2, <1>3 DEF CostInv, SurveyInv
  <1>7. \A d, n : Leads(c, d, n) => dist[n] <= g[c] + StepCost(d) /\ isWalkable(n)
    BY <1>2, <1>3, LeadsIn DEF SurveyInv, Leads
  <1>8. ASSUME NEW n \in I
        PROVE  /\ n \in Cells /\ n \notin closed' /\ isWalkable(n)
               /\ \E d : Leads(c, d, n) /\ g'[n] = g[c] + StepCost(d)
               /\ dist[n] <= g'[n] /\ g'[n] < Infinity
    <2>1. PICK d : Leads(c, d, n) /\ g'[n] = g[c] + StepCost(d)
      BY <1>5, <1>8
    <2>2. n \in Cells /\ n \notin closed' /\ isWalkable(n) /\ dist[n] <= g'[n]
      BY <1>3, <1>7, <1>8, <2>1
    <2>3. \E x : Leads(c, x, n) /\ g'[n] = g[c] + StepCost(x)
      BY <2>1
    <2>4. n \in Cells \ closed /\ g'[n] < g[n]
      BY <1>1, <1>3, <1>8 DEF Improves
    <2> QED BY <1>6, <2>1, <2>2, <2>3, <2>4, InfinityIs, SMT
  <1>9. \A n : Reached(n)' <=> n \in Cells /\ g'[n] < Infinity
    BY DEF Reached
  <1>10. \A n \in Cells \ I : Reached(n)' <=> Reached(n)
    BY <1>3, <1>9 DEF Reached
  <1>11. SurveyInv'
    BY <1>1, <1>2, SameGrid DEF SurveyInv
  <1>12. CostInv'
    <2>1. g'[start] = 0 /\ closed' \subseteq Cells
      BY <1>2, <1>3, CellsAre DEF CostInv
    <2>2. ASSUME NEW n \in Cells
          PROVE g'[n] <= Infinity /\ dist'[n] <= g'[n] /\ (Reached(n)' => isWalkable(n)')
      <3>1. g'[n] <= Infinity
        BY <1>6, InfinityIs, SMT
      <3>2. CASE n \in I
        BY <1>1, <1>8, <3>1, <3>2, SameGrid
      <3>3. CASE n \notin I
        BY <1>1, <1>2, <1>3, <1>10, <3>1, <3>3, SameGrid DEF CostInv
      <3> QED BY <3>2, <3>3
    <2>3. \A n \in closed' : g'[n] = dist'[n] /\ Reached(n)'
      <3> SUFFICES ASSUME NEW n \in closed' PROVE g'[n] = dist'[n] /\ Reached(n)'
        OBVIOUS
      <3>1. n \in Cells \ I /\ g[n] = dist[n] /\ Reached(n)
        BY <1>2, <1>3 DEF CostInv
      <3> QED BY <1>1, <1>3, <1>10, <3>1
    <2>4. ASSUME NEW p, NEW d, NEW n, Leads(p, d, n), p \in closed' \ {goal}
          PROVE  g'[n] <= g'[p] + StepCost(d)
      <3>1. n \in Cells /\ p \in Cells /\ p \notin I /\ g'[p] = g[p] /\ StepCost(d) \in Nat
        BY <1>2, <1>3, <2>4, CostsAre DEF Leads, CostInv
      <3>2. CASE p = c
        <4>1. CASE n \in I
          BY <1>3, <1>4, <2>4, <3>1, <3>2, <4>1, SMT
        <4>2. CASE n \in closed \cup {c}
          <5>1. n \notin I /\ g'[n] = g[n] /\ g[n] = dist[n]
            BY <1>2, <1>3, <3>1, <4>2 DEF CostInv
          <5> QED BY <1>7, <2>4, <3>1, <3>2, <5>1
        <4>3. CASE n \notin I /\ n \notin closed \cup {c}
          <5>1. g'[n] = g[n] /\ g[n] <= g[c] + StepCost(d)
            BY <1>3, <1>4, <2>4, <3>1, <3>2, <4>3
          <5> QED BY <3>1, <3>2, <5>1
        <4> QED BY <4>1, <4>2, <4>3
      <3>3. CASE p \in closed
        <4>1. g[n] <= g[p] + StepCost(d)
          BY <1>2, <2>4, <3>3 DEF CostInv
        <4> QED BY <1>6, <3>1, <4>1, SMT
      <3> QED BY <1>3, <2>4, <3>2, <3>3
    <2> QED BY <1>1, <1>3, <2>1, <2>2, <2>3, <2>4, SameGrid DEF CostInv
  <1>13. OpenInv'
    <2>1. ASSUME NEW n \in Cells \ closed', Reached(n)' PROVE <<g'[n] + Estimate(n), n>> \in open'
      <3>1. CASE n \in I
        BY <1>1, <3>1
      <3>2. CASE n \notin I
        <4>1. <<g[n] + Estimate(n), n>> \in open /\ n # c /\ g'[n] = g[n]
          BY <1>2, <1>3, <1>10, <2>1, <3>2 DEF OpenInv
        <4> QED BY <1>1, <4>1
      <3> QED BY <3>1, <3>2
    <2>2. ASSUME NEW e \in open'
          PROVE  /\ e[1] \in Nat /\ e = <<e[1], e[2]>> /\ Reached(e[2])'
                 /\ g'[e[2]] + Estimate(e[2]) <= e[1]
      <3>1. CASE e \in open
        <4>1. /\ e[1] \in Nat /\ e = <<e[1], e[2]>> /\ Reached(e[2]) /\ e[2] \in Cells
              /\ g[e[2]] + Estimate(e[2]) <= e[1]
          BY <1>2, <3>1 DEF OpenInv, Reached
        <4>2. Estimate(e[2]) \in Nat /\ g[e[2]] < Infinity
          BY <4>1, EstimateType DEF Reached
        <4> QED BY <1>6, <1>9, <4>1, <4>2, InfinityIs, SMT
      <3>2. CASE e \notin open
        <4>1. PICK n \in I : e = <<g'[n] + Estimate(n), n>>
          BY <1>1, <3>2
        <4>2. n \in Cells /\ g'[n] \in Nat /\ Estimate(n) \in Nat /\ Reached(n)'
          BY <1>6, <1>8, <1>9, EstimateType
        <4>3. e[1] = g'[n] + Estimate(n) /\ e[2] = n
          BY <4>1
        <4> QED BY <4>2, <4>3, <4>1, SMT
      <3> QED BY <3>1, <3>2
    <2>3. goal \notin closed' /\ result' = "none"
      BY <1>1, <1>2, <1>3 DEF OpenInv
    <2> QED BY <2>1, <2>2, <2>3 DEF OpenInv
  <1> QED BY <1>1, <1>11, <1>12, <1>13 DEF StarInv
(* The cell was closed before.                                             *)
LEMMA SkipStep ==
  ASSUME StarInv, method = "AStar", NEW entry \in open, Skip(entry) PROVE StarInv'
  <1>1. /\ result = "none" /\ entry[2] \in closed /\ open' = open \ {entry}
        /\ UNCHANGED <<walls, dist, method, g, cameFrom, closed, result>>
    BY DEF Skip, Searching
  <1>2. SurveyInv /\ CostInv /\ OpenInv
    BY DEF StarInv
  <1>3. SurveyInv' /\ CostInv'
    BY <1>1, <1>2, SameGrid DEF SurveyInv, CostInv, Reached
  <1>5. OpenInv'
    BY <1>1, <1>2 DEF OpenInv, Reached
  <1> QED BY <1>1, <1>3, <1>5 DEF StarInv

(* The goal came out of the queue.                                         *)
LEMMA ArriveStep ==
  ASSUME StarInv, method = "AStar", NEW entry \in open, Arrive(entry) PROVE StarInv'
  <1>1. /\ result = "none" /\ IsBest(entry) /\ entry[2] \notin closed /\ entry[2] = goal
        /\ open' = open \ {entry} /\ closed' = closed \cup {goal} /\ result' = "found"
        /\ UNCHANGED <<walls, dist, method, g, cameFrom>>
    BY DEF Arrive, Searching
  <1>2. SurveyInv /\ CostInv /\ OpenInv
    BY DEF StarInv
  <1>3. g[goal] = dist[goal] /\ Reached(goal)
    BY <1>1, BestIsSettled
  <1>4. SurveyInv'
    BY <1>1, <1>2, SameGrid DEF SurveyInv
  <1>5. \A c : Reached(c)' <=> Reached(c)
    BY <1>1 DEF Reached
  <1>6. CostInv'
    <2>1. \A c \in closed' : g[c] = dist[c] /\ Reached(c)
      BY <1>1, <1>2, <1>3 DEF CostInv
    <2>2. closed' \ {goal} \subseteq closed \ {goal} /\ closed' \subseteq Cells
      BY <1>1, <1>2, CellsAre DEF CostInv
    <2> QED BY <1>1, <1>2, <1>5, <2>1, <2>2, SameGrid DEF CostInv
  <1>7. OpenInv'
    <2>1. \A c \in Cells \ closed' : c # goal
      BY <1>1
    <2> QED BY <1>1, <1>2, <1>5, <2>1 DEF OpenInv
  <1> QED BY <1>1, <1>4, <1>6, <1>7 DEF StarInv

(* The queue ran dry.                                                      *)
LEMMA FailStep == ASSUME StarInv, method = "AStar", Fail PROVE StarInv'
  <1>1. /\ result = "none" /\ open = {} /\ result' = "failed"
        /\ UNCHANGED <<walls, dist, method, g, cameFrom, closed, open>>
    BY DEF Fail, Searching
  <1>2. SurveyInv /\ CostInv /\ OpenInv
    BY DEF StarInv
  <1>3. SurveyInv' /\ CostInv'
    BY <1>1, <1>2, SameGrid DEF SurveyInv, CostInv, Reached
  <1>5. OpenInv'
    BY <1>1, <1>2 DEF OpenInv, Reached
  <1> QED BY <1>1, <1>3, <1>5 DEF StarInv

(* Nothing happened.                                                       *)
LEMMA StarStands == ASSUME StarInv, UNCHANGED searchVars PROVE StarInv'
  <1>1. UNCHANGED <<walls, dist, method, g, cameFrom, closed, open, result>>
    BY DEF searchVars
  <1>2. SurveyInv => SurveyInv'
    BY <1>1, SameGrid DEF SurveyInv
  <1>3. Untouched => Untouched'
    BY <1>1 DEF Untouched
  <1>4. CostInv => CostInv'
    BY <1>1, SameGrid DEF CostInv, Reached
  <1>6. OpenInv => OpenInv'
    BY <1>1 DEF OpenInv, Reached
  <1> QED BY <1>1, <1>2, <1>3, <1>4, <1>6 DEF StarInv

(* The invariant asks nothing of JPS but the survey.                       *)
LEMMA JpsSteps ==
  ASSUME StarInv, method # "survey", method # "AStar", [SearchNext]_searchVars
  PROVE  StarInv'
  <1>1. UNCHANGED <<walls, dist, method>>
    BY DEF SearchNext, searchVars, Survey, Begin, Turn, Fail, Skip, Arrive, Expand, Done
  <1>2. SurveyInv'
    BY <1>1, SameGrid DEF StarInv, SurveyInv
  <1> QED BY <1>1, <1>2 DEF StarInv

(* The invariant holds in every behaviour.                                 *)
LEMMA StarInductive == SearchSpec => []StarInv
  <1>1. ASSUME StarInv, [SearchNext]_searchVars PROVE StarInv'
    <2>1. CASE UNCHANGED searchVars
      BY <1>1, <2>1, StarStands
    <2>2. CASE Survey
      BY <1>1, <2>2, SurveyStep
    <2>3. CASE Begin
      BY <1>1, <2>3, SearchBegins
    <2>4. CASE Turn
      <3>1. method # "survey"
        BY <2>4 DEF Turn, Fail, Skip, Arrive, Expand, Searching
      <3>2. CASE method = "AStar"
        BY <1>1, <2>4, <3>2, SkipStep, ArriveStep, ExpandStep, FailStep DEF Turn
      <3>3. CASE method # "AStar"
        BY <1>1, <3>1, <3>3, JpsSteps
      <3> QED BY <3>2, <3>3
    <2>5. CASE Done
      BY <1>1, <2>5, StarStands DEF Done
    <2> QED BY <1>1, <2>1, <2>2, <2>3, <2>4, <2>5 DEF SearchNext
  <1> QED BY <1>1, SurveyBegins, PTL DEF SearchSpec

(* A* never closes a cell too early: on a grid of any size, with any walls *)
(* and whichever of equal entries the queue hands out first, the cost of a *)
(* closed cell is its distance, so that nothing is lost by never opening   *)
(* it again.                                                               *)
THEOREM AStarSettles == SearchSpec => [](method = "AStar" => ClosedIsSettled)
  <1>1. StarInv => (method = "AStar" => ClosedIsSettled)
    BY DEF StarInv, CostInv, ClosedIsSettled
  <1> QED BY <1>1, StarInductive, PTL
-----------------------------------------------------------------------------
(* The path *)

(* One link more than the ways of w *)
LinkMore(w, k) == [n \in Cells |-> IF cameFrom[n] = Nowhere \/ k = 0 THEN <<n>>
                                   ELSE w[k - 1][cameFrom[n]] \o Between(cameFrom[n], n)]

WaysExist(K) == \E w : w = [k \in 0..K |-> LinkMore(w, k)]

(* Ways of K links extend to ways of K + 1.                                *)
LEMMA OneMoreLink ==
  ASSUME NEW K \in Nat, NEW w, w = [k \in 0..K |-> LinkMore(w, k)]
  PROVE  WaysExist(K + 1)
  <1> DEFINE v == [k \in 0..(K + 1) |-> IF k = K + 1 THEN LinkMore(w, K + 1) ELSE w[k]]
  <1>1. \A k \in 0..(K + 1) : k = K + 1 \/ k \in 0..K
    BY SMT
  <1>2. \A k \in 0..K : k # K + 1 /\ k \in 0..(K + 1)
    BY SMT
  <1>3. \A k \in 0..(K + 1) : k = 0 \/ k - 1 \in 0..K
    BY SMT
  <1>4. \A k \in 0..K : v[k] = w[k]
    BY <1>2
  <1>5. \A k \in 0..(K + 1) : LinkMore(w, k) = LinkMore(v, k)
    BY <1>3, <1>4 DEF LinkMore
  <1>6. \A k \in 0..(K + 1) : v[k] = LinkMore(v, k)
    <2> SUFFICES ASSUME NEW k \in 0..(K + 1) PROVE v[k] = LinkMore(v, k)
      OBVIOUS
    <2>1. CASE k = K + 1
      BY <1>5, <2>1
    <2>2. CASE k \in 0..K
      <3>1. v[k] = w[k] /\ w[k] = LinkMore(w, k)
        BY <1>4, <2>2
      <3> QED BY <1>5, <3>1
    <2> QED BY <1>1, <2>1, <2>2
  <1>7. v = [k \in 0..(K + 1) |-> v[k]]
    OBVIOUS
  <1> HIDE DEF v
  <1>8. v = [k \in 0..(K + 1) |-> LinkMore(v, k)]
    BY <1>6, <1>7
  <1> QED BY <1>8 DEF WaysExist

(* Hence there are ways of any number of links ...                         *)
LEMMA WaysAre == \A K \in Nat : WaysExist(K)
  <1> DEFINE A == {K \in Nat : WaysExist(K)}
  <1>1. 0 \in A
    <2> DEFINE w == [k \in 0..0 |-> [n \in Cells |-> <<n>>]]
    <2>1. \A k \in 0..0 : k = 0
      BY SMT
    <2>2. w = [k \in 0..0 |-> LinkMore(w, k)]
      BY <2>1 DEF LinkMore
    <2> QED BY <2>2 DEF WaysExist
  <1>2. \A K \in Nat : K \in A => K + 1 \in A
    BY OneMoreLink DEF WaysExist
  <1> HIDE DEF A
  <1>3. Nat \subseteq A
    BY <1>1, <1>2, Induct
  <1> QED BY <1>3 DEF A

(* ... and wayTo is what its definition says.                              *)
LEMMA WayToIs == /\ Width * Height \in Nat
                 /\ \A k \in 0..(Width * Height) : wayTo[k] = LinkMore(wayTo, k)
  <1>1. Width * Height \in Nat
    BY GridAssumption, SMT
  <1>2. PICK w : w = [k \in 0..(Width * Height) |-> LinkMore(w, k)]
    BY <1>1, WaysAre DEF WaysExist
  <1>3. wayTo = [k \in 0..(Width * Height) |-> LinkMore(wayTo, k)]
    BY <1>2 DEF wayTo, LinkMore
  <1> QED BY <1>1, <1>3
-----------------------------------------------------------------------------
(* Straight runs: a step of A*, a jump of JPS *)

RunsTo(p, d, k, n) == /\ p \in Cells /\ isWalkable(p) /\ d \in Directions /\ k \in Nat \ {0}
                      /\ n = Along(p, d, k)
                      /\ \A j \in 0..(k - 1) : CanStep(Along(p, d, j), d)

(* A step further along each axis                                          *)
LEMMA Times == \A j \in Int, e \in {-1, 0, 1} : (j + 1) * e = j * e + e
  <1>1. \A j \in Int : (j + 1) * (-1) = j * (-1) + (-1) /\ (j + 1) * 0 = j * 0 + 0 /\ (j + 1) * 1 = j * 1 + 1
    BY SMT
  <1> QED BY <1>1

(* To go along is to step, again and again.                                *)
LEMMA AlongIs ==
  ASSUME NEW p \in Cells, NEW d \in Directions
  PROVE  Along(p, d, 0) = p /\ \A j \in Nat : Step(Along(p, d, j), d) = Along(p, d, j + 1)
  <1>1. /\ p[1] \in Int /\ p[2] \in Int /\ p = <<p[1], p[2]>>
        /\ d[1] \in {-1, 0, 1} /\ d[2] \in {-1, 0, 1}
    BY CellsAre, DirectionsAre
  <1>2. Along(p, d, 0) = p
    BY <1>1, SMT DEF Along
  <1>3. ASSUME NEW j \in Nat PROVE Step(Along(p, d, j), d) = Along(p, d, j + 1)
    <2>1. (j + 1) * d[1] = j * d[1] + d[1] /\ (j + 1) * d[2] = j * d[2] + d[2]
      BY <1>1, Times
    <2>2. \A x, y, e \in Int : x + y + e = x + (y + e) /\ 1 * e = e
      BY SMT
    <2>3. j * d[1] \in Int /\ j * d[2] \in Int
      BY <1>1, SMT
    <2>4. Step(Along(p, d, j), d) = <<p[1] + j * d[1] + 1 * d[1], p[2] + j * d[2] + 1 * d[2]>>
      BY DEF Step, Along
    <2>5. /\ p[1] + j * d[1] + 1 * d[1] = p[1] + (j + 1) * d[1]
          /\ p[2] + j * d[2] + 1 * d[2] = p[2] + (j + 1) * d[2]
      <3>1. d[1] \in Int /\ d[2] \in Int
        BY <1>1, SMT
      <3> QED BY <1>1, <2>1, <2>2, <2>3, <3>1
    <2> QED BY <2>4, <2>5 DEF Along
  <1> QED BY <1>2, <1>3

(* Every cell of a run is free, and every step of it is one the grid allows. *)
LEMMA RunIs ==
  ASSUME NEW p, NEW d, NEW k, NEW n, RunsTo(p, d, k, n)
  PROVE  /\ \A j \in 0..k : Along(p, d, j) \in Cells /\ isWalkable(Along(p, d, j))
         /\ \A j \in 0..(k - 1) : Leads(Along(p, d, j), d, Along(p, d, j + 1))
  <1>1. /\ p \in Cells /\ isWalkable(p) /\ d \in Directions /\ k \in Nat /\ k # 0
        /\ \A j \in 0..(k - 1) : CanStep(Along(p, d, j), d)
    BY DEF RunsTo
  <1>2. ASSUME NEW j \in 0..k PROVE Along(p, d, j) \in Cells /\ isWalkable(Along(p, d, j))
    <2>1. CASE j = 0
      BY <1>1, <2>1, AlongIs
    <2>2. CASE j # 0
      <3>1. j - 1 \in 0..(k - 1) /\ j - 1 \in Nat /\ j - 1 + 1 = j
        BY <1>1, <2>2, SMT
      <3>2. Step(Along(p, d, j - 1), d) = Along(p, d, j)
        BY <1>1, <3>1, AlongIs
      <3> QED BY <1>1, <3>1, <3>2 DEF CanStep, isWalkable
    <2> QED BY <2>1, <2>2
  <1>3. ASSUME NEW j \in 0..(k - 1) PROVE Leads(Along(p, d, j), d, Along(p, d, j + 1))
    <2>1. j \in Nat /\ j \in 0..k /\ j + 1 \in 0..k
      BY <1>1, SMT
    <2>2. Step(Along(p, d, j), d) = Along(p, d, j + 1)
      BY <1>1, <2>1, AlongIs
    <2> QED BY <1>1, <1>2, <2>1, <2>2 DEF Leads
  <1> QED BY <1>2, <1>3

(* Its length is what the searches take for it ...                         *)
LEMMA RunCost ==
  ASSUME NEW p, NEW d, NEW k, NEW n, RunsTo(p, d, k, n)
  PROVE  octileDistance(p, n) = k * StepCost(d) /\ Between(p, n) = [j \in 1..k |-> Along(p, d, j)]
  <1>1. /\ p[1] \in Int /\ p[2] \in Int /\ d = <<d[1], d[2]>> /\ k \in Nat /\ k # 0
        /\ d[1] \in {-1, 0, 1} /\ d[2] \in {-1, 0, 1} /\ (d[1] # 0 \/ d[2] # 0)
        /\ n = <<p[1] + k * d[1], p[2] + k * d[2]>>
    BY CellsAre, DirectionsAre DEF RunsTo, Along
  <1>2. \A e \in {-1, 0, 1} : /\ k * e \in Int /\ k * e = IF e = 0 THEN 0 ELSE IF e = 1 THEN k ELSE -k
                              /\ sign(k * e) = e
    <2>1. k * 0 = 0 /\ k * 1 = k /\ k * (-1) = -k
      BY <1>1, SMT
    <2>2. sign(0) = 0 /\ sign(k) = 1 /\ sign(-k) = -1
      BY <1>1, SMT DEF sign
    <2> QED BY <1>1, <2>1, <2>2
  <1>3. n[1] - p[1] = k * d[1] /\ n[2] - p[2] = k * d[2] /\ p[1] - n[1] = -(k * d[1]) /\ p[2] - n[2] = -(k * d[2])
    BY <1>1, <1>2, SMT
  <1>4. \A e \in {-1, 0, 1} : Abs(k * e) = (IF e = 0 THEN 0 ELSE k) /\ Abs(-(k * e)) = (IF e = 0 THEN 0 ELSE k)
    BY <1>1, <1>2, SMT DEF Abs
  <1>5. octileDistance(p, n) = k * StepCost(d)
    <2> DEFINE x == Abs(p[1] - n[1])
               y == Abs(p[2] - n[2])
    <2>1. x = (IF d[1] = 0 THEN 0 ELSE k) /\ y = (IF d[2] = 0 THEN 0 ELSE k)
      BY <1>1, <1>3, <1>4
    <2>2. x \in Nat /\ y \in Nat
      BY <1>1, <2>1
    <2>3. octileDistance(p, n) = Octile(x, y)
      BY <2>2, OctileIs
    <2>4. StepCost(d) = IF d[1] # 0 /\ d[2] # 0 THEN Diagonal ELSE Straight
      BY DEF StepCost, IsDiagonal
    <2>5. /\ Straight * 0 = 0 /\ Extra * 0 = 0 /\ Straight * k \in Int /\ Extra * k \in Int
          /\ k * Straight = Straight * k /\ k * Diagonal = Straight * k + Extra * k
      <3>1. Straight \in Int /\ Extra \in Int /\ Diagonal \in Int /\ k \in Int /\ Diagonal = Straight + Extra
        BY <1>1, CostsAre
      <3>2. k * Straight = Straight * k /\ k * Diagonal = Diagonal * k /\ Diagonal * k = Straight * k + Extra * k
        BY <3>1, TimesIs
      <3> QED BY <3>1, <3>2, TimesIs, SMT
    <2> HIDE DEF x, y
    <2>6. CASE d[1] = 0
      <3>1. x = 0 /\ y = k /\ x <= y /\ StepCost(d) = Straight
        BY <1>1, <2>1, <2>4, <2>6, SMT
      <3> QED BY <2>3, <2>5, <3>1, SMT DEF Octile
    <2>7. CASE d[2] = 0
      <3>1. x = k /\ y = 0 /\ ~(x <= y) /\ StepCost(d) = Straight
        BY <1>1, <2>1, <2>4, <2>7, SMT
      <3> QED BY <2>3, <2>5, <3>1, SMT DEF Octile
    <2>8. CASE d[1] # 0 /\ d[2] # 0
      <3>1. x = k /\ y = k /\ x <= y /\ StepCost(d) = Diagonal
        BY <1>1, <2>1, <2>4, <2>8, SMT
      <3> QED BY <2>3, <2>5, <3>1, SMT DEF Octile
    <2> QED BY <2>6, <2>7, <2>8
  <1>6. Between(p, n) = [j \in 1..k |-> Along(p, d, j)]
    <2>1. sign(n[1] - p[1]) = d[1] /\ sign(n[2] - p[2]) = d[2]
      BY <1>1, <1>2, <1>3
    <2>2. (IF Abs(n[1] - p[1]) > Abs(n[2] - p[2]) THEN Abs(n[1] - p[1]) ELSE Abs(n[2] - p[2])) = k
      BY <1>1, <1>3, <1>4, SMT
    <2> QED BY <1>1, <2>1, <2>2 DEF Between
  <1> QED BY <1>5, <1>6

(* ... and no way is longer than its runs.                                 *)
LEMMA RunDistance ==
  ASSUME SurveyInv, method # "survey", NEW p, NEW d, NEW k, NEW n, RunsTo(p, d, k, n)
  PROVE  n \in Cells /\ isWalkable(n) /\ dist[n] <= dist[p] + k * StepCost(d)
  <1>1. /\ p \in Cells /\ d \in Directions /\ k \in Nat /\ k # 0 /\ n = Along(p, d, k)
        /\ dist \in [Cells -> Nat] /\ StepCost(d) \in Nat
    BY CostsAre DEF RunsTo, SurveyInv
  <1> DEFINE A == {j \in Nat : j <= k => dist[Along(p, d, j)] <= dist[p] + j * StepCost(d)}
  <1>2. 0 \in A
    BY <1>1, AlongIs, SMT
  <1>3. ASSUME NEW j \in Nat, j \in A PROVE j + 1 \in A
    <2> SUFFICES ASSUME j + 1 <= k PROVE dist[Along(p, d, j + 1)] <= dist[p] + (j + 1) * StepCost(d)
      OBVIOUS
    <2>1. j \in 0..(k - 1) /\ j \in 0..k /\ j + 1 \in 0..k /\ j <= k
      BY <1>1, SMT
    <2>2. dist[Along(p, d, j)] <= dist[p] + j * StepCost(d)
      BY <1>3, <2>1
    <2>3. /\ Along(p, d, j) \in Cells /\ Along(p, d, j + 1) \in Cells
          /\ Leads(Along(p, d, j), d, Along(p, d, j + 1))
      BY <2>1, RunIs
    <2>4. dist[Along(p, d, j + 1)] <= dist[Along(p, d, j)] + StepCost(d)
      BY <2>3 DEF SurveyInv
    <2>5. (j + 1) * StepCost(d) = j * StepCost(d) + StepCost(d)
      <3>1. j \in Int /\ 1 \in Int /\ StepCost(d) \in Int /\ 1 * StepCost(d) = StepCost(d)
        BY <1>1, SMT
      <3> QED BY <3>1, TimesIs
    <2>6. dist[Along(p, d, j + 1)] \in Nat /\ dist[Along(p, d, j)] \in Nat /\ dist[p] \in Nat /\ j * StepCost(d) \in Nat
      BY <1>1, <2>3, SMT
    <2> QED BY <1>1, <2>2, <2>4, <2>5, <2>6, SMT
  <1> HIDE DEF A
  <1>4. k \in A
    BY <1>1, <1>2, <1>3, Induct
  <1>5. k <= k /\ k \in 0..k
    BY <1>1, SMT
  <1>6. dist[n] <= dist[p] + k * StepCost(d)
    BY <1>1, <1>4, <1>5 DEF A
  <1> QED BY <1>1, <1>5, <1>6, RunIs

(* Either search goes on from a cell by runs. *)
LEMMA SuccessorsRun ==
  ASSUME method # "survey", NEW c \in Cells, isWalkable(c), NEW n \in Successors(c)
  PROVE  \E d, k : RunsTo(c, d, k, n)
  <1>1. CASE method = "AStar"
    <2>1. PICK d \in Directions : CanStep(c, d) /\ n = Step(c, d)
      BY <1>1 DEF Successors
    <2>2. \A j \in 0..(1 - 1) : j = 0
      BY SMT
    <2>3. 1 \in Nat \ {0} /\ n = Along(c, d, 1) /\ \A j \in 0..(1 - 1) : CanStep(Along(c, d, j), d)
      BY <2>1, <2>2, AlongIs DEF Step
    <2>4. RunsTo(c, d, 1, n)
      BY <2>1, <2>3 DEF RunsTo
    <2> QED BY <2>4
  <1>2. CASE method # "AStar"
    <2>1. prunedDirections(c, cameFrom[c]) \subseteq Directions
      BY DEF prunedDirections
    <2>2. PICK d \in Directions : n \in jump(c, d)
      BY <1>2, <2>1 DEF Successors
    <2>3. PICK k : /\ k \in 1..(IF Width > Height THEN Width ELSE Height)
                   /\ n = Along(c, d, k) /\ \A j \in 0..(k - 1) : CanStep(Along(c, d, j), d)
      BY <2>2 DEF jump, Runs
    <2>4. k \in Nat \ {0}
      BY <2>3, SMT
    <2> QED BY <2>3, <2>4 DEF RunsTo
  <1> QED BY <1>1, <1>2
-----------------------------------------------------------------------------
(* What both searches keep *)

(* The links are runs from closed cells, of the cost they add, so that no  *)
(* cost is less than a distance.                                           *)
LinkInv ==
  /\ g \in [Cells -> Nat] /\ g[start] = 0 /\ cameFrom[start] = Nowhere
  /\ \A c \in Cells : g[c] <= Infinity
  /\ closed \subseteq Cells /\ \A c \in closed : Reached(c)
  /\ \A e \in open : Reached(e[2])
  /\ \A c : Reached(c) => isWalkable(c) /\ dist[c] <= g[c]
  /\ \A c : Reached(c) /\ c # start =>
       /\ cameFrom[c] \in closed
       /\ \E d, k : RunsTo(cameFrom[c], d, k, c) /\ g[c] = g[cameFrom[c]] + k * StepCost(d)
  /\ result = "found" => goal \in closed

WayInv == method # "survey" => LinkInv

(* Runs stay runs, for no wall moves.                                      *)
LEMMA SameRuns ==
  ASSUME walls' = walls
  PROVE  \A n, d, k : RunsTo(cameFrom[n], d, k, n)' <=> RunsTo(cameFrom'[n], d, k, n)
  <1> SUFFICES ASSUME NEW n, NEW d, NEW k
               PROVE  RunsTo(cameFrom[n], d, k, n)' <=> RunsTo(cameFrom'[n], d, k, n)
    OBVIOUS
  <1> QED BY Zenon DEF RunsTo, isWalkable, CanStep, canMoveDiagonally

(* The links when a search begins: there are none.                         *)
LEMMA WaysBegin == ASSUME StarInv, Begin PROVE WayInv'
  <1>1. /\ method = "survey" /\ g' = [g EXCEPT ![start] = 0] /\ open' = {<<Estimate(start), start>>}
        /\ UNCHANGED <<walls, dist, cameFrom, closed, result>>
    BY DEF Begin, Estimate, octileDistance
  <1>2. SurveyInv /\ Untouched
    BY <1>1 DEF StarInv
  <1>3. g' = [c \in Cells |-> IF c = start THEN 0 ELSE Infinity] /\ closed' = {} /\ result' = "none"
        /\ cameFrom'[start] = Nowhere
    BY <1>1, <1>2, CellsAre DEF Untouched
  <1>4. \A c : Reached(c)' <=> c = start
    BY <1>3, CellsAre, InfinityIs, SMT DEF Reached
  <1>5. isWalkable(start)' /\ dist'[start] = 0 /\ g'[start] = 0
    BY <1>1, <1>2, <1>3, CellsAre DEF isWalkable, SurveyInv
  <1>6. g' \in [Cells -> Nat] /\ \A c \in Cells : g'[c] <= Infinity
    BY <1>3, InfinityIs, SMT
  <1> QED BY <1>1, <1>3, <1>4, <1>5, <1>6 DEF WayInv, LinkInv

(* An expanded cell links the cells its runs improve.                      *)
LEMMA WaysExpand ==
  ASSUME SurveyInv, LinkInv, method # "survey", NEW entry \in open, Expand(entry)
  PROVE  LinkInv'
  <1> DEFINE c == entry[2]
             I == {n \in Successors(c) : n \notin closed \cup {c} /\ Through(c, n) < g[n]}
  <1>1. /\ c \notin closed /\ result = "none"
        /\ closed' = closed \cup {c}
        /\ g' = [n \in Cells |-> IF n \in I THEN Through(c, n) ELSE g[n]]
        /\ cameFrom' = [n \in Cells |-> IF n \in I THEN c ELSE cameFrom[n]]
        /\ open' = (open \ {entry}) \cup {<<Through(c, n) + octileDistance(n, goal), n>> : n \in I}
        /\ UNCHANGED <<walls, dist, method, result>>
    BY DEF Expand, Searching
  <1>2. /\ Reached(c) /\ c \in Cells /\ isWalkable(c) /\ g \in [Cells -> Nat] /\ g[start] = 0
        /\ g[c] \in Nat /\ dist[c] <= g[c] /\ dist \in [Cells -> Nat]
    BY DEF LinkInv, Reached, SurveyInv
  <1>3. ASSUME NEW n \in I
        PROVE  /\ n \in Cells /\ n \notin closed' /\ isWalkable(n)
               /\ \E d, k : RunsTo(c, d, k, n) /\ Through(c, n) = g[c] + k * StepCost(d)
               /\ Through(c, n) \in Nat /\ Through(c, n) < g[n] /\ dist[n] <= Through(c, n)
    <2>1. n \in Successors(c) /\ n \notin closed' /\ Through(c, n) < g[n]
      BY <1>1
    <2>2. PICK d, k : RunsTo(c, d, k, n)
      BY <1>2, <2>1, SuccessorsRun
    <2>3. n \in Cells /\ isWalkable(n) /\ dist[n] <= dist[c] + k * StepCost(d)
      BY <2>2, RunDistance
    <2>4. k * StepCost(d) \in Nat
      <3>1. k \in Nat
        BY <2>2 DEF RunsTo
      <3> QED BY <3>1, CostsAre, TimesIs, SMT
    <2>5. Through(c, n) = g[c] + k * StepCost(d)
      BY <2>2, RunCost DEF Through
    <2>6. Through(c, n) \in Nat
      BY <1>2, <2>4, <2>5
    <2>7. dist[n] \in Nat /\ dist[c] \in Nat
      BY <1>2, <2>3
    <2>8. dist[n] <= Through(c, n)
      BY <1>2, <2>3, <2>4, <2>5, <2>7, SMT
    <2> QED BY <2>1, <2>2, <2>3, <2>5, <2>6, <2>8
  <1>4. start \notin I /\ c \notin I
    <2>1. start \in I => FALSE
      <3> SUFFICES ASSUME start \in I PROVE FALSE
        OBVIOUS
      <3>1. Through(c, start) \in Nat /\ Through(c, start) < 0
        BY <1>2, <1>3
      <3> QED BY <3>1, SMT
    <2> QED BY <2>1
  <1> HIDE DEF I
  <1>5. /\ \A n \in I : g'[n] = Through(c, n) /\ cameFrom'[n] = c
        /\ \A n \in Cells \ I : g'[n] = g[n] /\ cameFrom'[n] = cameFrom[n]
    BY <1>1, <1>3
  <1>6. /\ \A n \in I : Reached(n)'
        /\ \A n : Reached(n)' => n \in Cells
        /\ \A n : n \notin I => (Reached(n)' <=> Reached(n))
    <2>1. ASSUME NEW n \in I PROVE Reached(n)'
      <3>1. n \in Cells /\ g'[n] \in Nat /\ g'[n] < g[n] /\ g[n] \in Nat /\ g[n] <= Infinity
        BY <1>2, <1>3, <1>5, <2>1 DEF LinkInv
      <3> QED BY <3>1, InfinityIs, SMT DEF Reached
    <2> QED BY <1>5, <2>1 DEF Reached
  <1>7. g' \in [Cells -> Nat] /\ g'[start] = 0 /\ cameFrom'[start] = Nowhere
    <2>1. \A n \in Cells : (IF n \in I THEN Through(c, n) ELSE g[n]) \in Nat
      BY <1>2, <1>3
    <2> QED BY <1>1, <1>2, <1>4, <1>5, <2>1, CellsAre DEF LinkInv
  <1>8. closed' \subseteq Cells /\ \A n \in closed' : Reached(n)' /\ g'[n] = g[n]
    <2>1. \A n \in closed' : n \in Cells \ I /\ Reached(n)
      BY <1>1, <1>2, <1>3, <1>4 DEF LinkInv
    <2> QED BY <1>5, <1>6, <2>1
  <1>9. \A e \in open' : Reached(e[2])'
    <2>1. ASSUME NEW e \in open PROVE Reached(e[2])'
      BY <1>6, <2>1 DEF LinkInv
    <2>2. ASSUME NEW n \in I, NEW x PROVE Reached(<<x, n>>[2])'
      BY <1>6
    <2> QED BY <1>1, <2>1, <2>2
  <1>10. ASSUME NEW n, Reached(n)' PROVE isWalkable(n)' /\ dist'[n] <= g'[n]
    <2>1. CASE n \in I
      BY <1>1, <1>3, <1>5, <2>1, SameGrid
    <2>2. CASE n \notin I
      BY <1>1, <1>5, <1>6, <1>10, <2>2, SameGrid DEF LinkInv
    <2> QED BY <2>1, <2>2
  <1>11. ASSUME NEW n, Reached(n)', n # start
         PROVE  /\ cameFrom'[n] \in closed'
                /\ \E d, k : RunsTo(cameFrom'[n], d, k, n) /\ g'[n] = g'[cameFrom'[n]] + k * StepCost(d)
    <2>1. CASE n \in I
      <3>1. cameFrom'[n] = c /\ c \in closed' /\ g'[c] = g[c] /\ g'[n] = Through(c, n)
        BY <1>1, <1>5, <1>8, <2>1
      <3> QED BY <1>3, <2>1, <3>1
    <2>2. CASE n \notin I
      <3>1. /\ cameFrom'[n] = cameFrom[n] /\ cameFrom[n] \in closed /\ g'[n] = g[n]
            /\ \E d, k : RunsTo(cameFrom[n], d, k, n) /\ g[n] = g[cameFrom[n]] + k * StepCost(d)
        BY <1>5, <1>6, <1>11, <2>2 DEF LinkInv
      <3>2. g'[cameFrom[n]] = g[cameFrom[n]] /\ cameFrom'[n] \in closed'
        BY <1>1, <1>8, <3>1
      <3> QED BY <3>1, <3>2
    <2> QED BY <2>1, <2>2
  <1>12. \A n \in Cells : g'[n] <= Infinity
    <2>1. ASSUME NEW n \in Cells PROVE g'[n] <= Infinity
      <3>1. CASE n \in I
        BY <1>6, <3>1, <1>7, InfinityIs, SMT DEF Reached
      <3>2. CASE n \notin I
        BY <1>5, <3>2 DEF LinkInv
      <3> QED BY <3>1, <3>2
    <2> QED BY <2>1
  <1>13. \A n : Reached(n)' /\ n # start =>
           (/\ cameFrom[n] \in closed
            /\ \E d, k : RunsTo(cameFrom[n], d, k, n) /\ g[n] = g[cameFrom[n]] + k * StepCost(d))'
    BY <1>1, <1>11, SameRuns
  <1>14. (result = "found" => goal \in closed)'
    BY <1>1
  <1>15. (\A n : Reached(n) => isWalkable(n) /\ dist[n] <= g[n])'
    BY <1>10
  <1>16. (\A n \in closed : Reached(n))' /\ (\A e \in open : Reached(e[2]))'
    BY <1>8, <1>9
  <1> QED BY <1>7, <1>8, <1>12, <1>13, <1>14, <1>15, <1>16 DEF LinkInv

(* The links stand as long as costs and links do.                          *)
LEMMA WaysKept ==
  ASSUME LinkInv, UNCHANGED <<walls, dist, g, cameFrom>>, open' \subseteq open, closed \subseteq closed',
         closed' \subseteq Cells, \A c \in closed' : Reached(c), result' = "found" => goal \in closed'
  PROVE  LinkInv'
  <1>1. \A c : (Reached(c)' <=> Reached(c)) /\ (isWalkable(c)' <=> isWalkable(c))
    BY DEF Reached, isWalkable
  <1>2. \A n, d, k : RunsTo(cameFrom[n], d, k, n)' <=> RunsTo(cameFrom'[n], d, k, n)
    BY SameRuns
  <1>3. \A n : Reached(n)' /\ n # start =>
           (/\ cameFrom[n] \in closed
            /\ \E d, k : RunsTo(cameFrom[n], d, k, n) /\ g[n] = g[cameFrom[n]] + k * StepCost(d))'
    BY <1>1, <1>2 DEF LinkInv
  <1>4. (\A c \in closed : Reached(c))' /\ (\A e \in open : Reached(e[2]))'
    BY <1>1 DEF LinkInv
  <1>5. (\A n : Reached(n) => isWalkable(n) /\ dist[n] <= g[n])'
    BY <1>1 DEF LinkInv
  <1> QED BY <1>3, <1>4, <1>5 DEF LinkInv

(* A turn of either search keeps the links.                                *)
LEMMA WaysTurn == ASSUME SurveyInv, LinkInv, Turn PROVE LinkInv'
  <1>0. closed \subseteq Cells /\ \A c \in closed : Reached(c)
    BY DEF LinkInv
  <1>1. CASE Fail
    BY <1>0, <1>1, WaysKept DEF Fail
  <1>2. ASSUME NEW entry \in open, Skip(entry) PROVE LinkInv'
    <2>1. /\ result = "none" /\ open' = open \ {entry}
          /\ UNCHANGED <<walls, dist, method, g, cameFrom, closed, result>>
      BY <1>2 DEF Skip, Searching
    <2> QED BY <1>0, <2>1, WaysKept
  <1>3. ASSUME NEW entry \in open, Arrive(entry) PROVE LinkInv'
    <2>1. /\ entry[2] = goal /\ open' = open \ {entry} /\ closed' = closed \cup {goal}
          /\ UNCHANGED <<walls, dist, method, g, cameFrom>>
      BY <1>3 DEF Arrive
    <2>2. Reached(goal) /\ goal \in Cells
      BY <2>1, CellsAre DEF LinkInv
    <2>3. closed' \subseteq Cells /\ closed \subseteq closed' /\ goal \in closed' /\ open' \subseteq open
          /\ \A c \in closed' : Reached(c)
      BY <1>0, <2>1, <2>2
    <2> QED BY <2>1, <2>3, WaysKept
  <1>4. ASSUME NEW entry \in open, Expand(entry) PROVE LinkInv'
    <2>1. method # "survey"
      BY <1>4 DEF Expand, Searching
    <2> QED BY <1>4, <2>1, WaysExpand
  <1> QED BY <1>1, <1>2, <1>3, <1>4 DEF Turn

(* They hold in every behaviour.                                           *)
LEMMA WaysInductive == SearchSpec => []WayInv
  <1>1. SearchInit => WayInv
    BY DEF SearchInit, WayInv
  <1>2. ASSUME StarInv, WayInv, [SearchNext]_searchVars PROVE WayInv'
    <2>1. CASE UNCHANGED searchVars \/ Done
      <3>1. UNCHANGED <<walls, dist, method, g, cameFrom, closed, open, result>>
        BY <2>1 DEF searchVars, Done
      <3>2. LinkInv => LinkInv'
        BY <3>1, WaysKept DEF LinkInv
      <3> QED BY <1>2, <3>1, <3>2 DEF WayInv
    <2>2. CASE Survey
      BY <2>2 DEF Survey, WayInv
    <2>3. CASE Begin
      BY <1>2, <2>3, WaysBegin
    <2>4. CASE Turn
      <3>1. method # "survey" /\ method' = method
        BY <2>4 DEF Turn, Fail, Skip, Arrive, Expand, Searching
      <3> QED BY <1>2, <2>4, <3>1, WaysTurn DEF WayInv, StarInv
    <2> QED BY <1>2, <2>1, <2>2, <2>3, <2>4 DEF SearchNext
  <1> QED BY <1>1, <1>2, StarInductive, PTL DEF SearchSpec

-----------------------------------------------------------------------------
(* The path that is returned *)

(* A way from the start to n over steps the grid allows, of the cost of n  *)
Legal(s, n) ==
  /\ s \in Seq(Cells) /\ Len(s) >= 1 /\ s[1] = start /\ s[Len(s)] = n
  /\ \A at \in 1..(Len(s) - 1) : \E d \in Directions : CanStep(s[at], d) /\ s[at + 1] = Step(s[at], d)
  /\ \E q \in 0..(Len(s) - 1) : Straight * q + Diagonal * (Len(s) - 1 - q) = g[n]

(* The start is a way to itself.                                           *)
LEMMA LegalStart == ASSUME g[start] = 0 PROVE Legal(<<start>>, start)
  <1> DEFINE s == <<start>>
  <1>1. s \in Seq(Cells) /\ Len(s) = 1 /\ s[1] = start
    BY CellsAre
  <1>2. 1..(Len(s) - 1) = {} /\ 0 \in 0..(Len(s) - 1) /\ Straight * 0 + Diagonal * (Len(s) - 1 - 0) = 0
    BY <1>1, CostsAre, SMT
  <1> HIDE DEF s
  <1>3. Legal(s, start)
    BY <1>1, <1>2 DEF Legal
  <1> QED BY <1>3 DEF s

(* A run extends a way.                                                    *)
LEMMA LegalMore ==
  ASSUME NEW s, NEW p, NEW d, NEW k, NEW n, Legal(s, p), RunsTo(p, d, k, n), g[n] = g[p] + k * StepCost(d)
  PROVE  Legal(s \o [j \in 1..k |-> Along(p, d, j)], n)
  <1> DEFINE u == [j \in 1..k |-> Along(p, d, j)]
             r == s \o u
             L == Len(s)
  <1>1. s \in Seq(Cells) /\ L \in Nat /\ L >= 1 /\ s[1] = start /\ s[L] = p
    BY DEF Legal
  <1>2. /\ p \in Cells /\ d \in Directions /\ k \in Nat /\ k >= 1 /\ n = Along(p, d, k)
        /\ \A j \in 0..(k - 1) : CanStep(Along(p, d, j), d)
    BY SMT DEF RunsTo
  <1>3. u \in Seq(Cells) /\ Len(u) = k /\ \A j \in 1..k : u[j] = Along(p, d, j)
    <2>1. \A j \in 1..k : j \in 0..k
      BY <1>2, SMT
    <2>2. \A j \in 1..k : Along(p, d, j) \in Cells
      BY <2>1, RunIs
    <2> QED BY <1>2, <2>2
  <1> HIDE DEF u
  <1>4. /\ r \in Seq(Cells) /\ Len(r) = L + k
        /\ \A at \in 1..L : r[at] = s[at]
        /\ \A j \in 1..k : r[L + j] = u[j]
    <2>1. r \in Seq(Cells) /\ Len(r) = L + k
      BY <1>1, <1>2, <1>3
    <2>2. \A at \in 1..L : r[at] = s[at]
      BY <1>1, <1>2, <1>3
    <2>3. ASSUME NEW j \in 1..k PROVE r[L + j] = u[j]
      <3>1. L + j \in 1..(L + k) /\ ~(L + j <= L) /\ L + j - L = j
        BY <1>1, <1>2, SMT
      <3> QED BY <1>1, <1>2, <1>3, <3>1
    <2> QED BY <2>1, <2>2, <2>3
  <1> HIDE DEF r
  <1>5. \A j \in 0..k : r[L + j] = Along(p, d, j)
    <2> SUFFICES ASSUME NEW j \in 0..k PROVE r[L + j] = Along(p, d, j)
      OBVIOUS
    <2>1. CASE j = 0
      <3>1. L + j = L /\ L \in 1..L
        BY <1>1, <2>1, SMT
      <3> QED BY <1>1, <1>2, <1>4, <2>1, <3>1, AlongIs
    <2>2. CASE j # 0
      <3>1. j \in 1..k
        BY <1>2, <2>2, SMT
      <3> QED BY <1>3, <1>4, <3>1
    <2> QED BY <2>1, <2>2
  <1>6. r[1] = start /\ Len(r) >= 1 /\ r[Len(r)] = n
    <2>1. 1 \in 1..L /\ k \in 0..k /\ L + k >= 1
      BY <1>1, <1>2, SMT
    <2> QED BY <1>1, <1>2, <1>4, <1>5, <2>1
  <1>7. ASSUME NEW at \in 1..(Len(r) - 1)
        PROVE  \E x \in Directions : CanStep(r[at], x) /\ r[at + 1] = Step(r[at], x)
    <2>1. at \in Nat /\ at >= 1 /\ at <= L + k - 1
      BY <1>1, <1>2, <1>4, SMT
    <2>2. CASE at >= L
      <3> DEFINE j == at - L
      <3>1. j \in 0..(k - 1) /\ j \in Nat /\ j \in 0..k /\ j + 1 \in 0..k /\ at = L + j /\ at + 1 = L + (j + 1)
        BY <1>1, <1>2, <2>1, <2>2, SMT
      <3> HIDE DEF j
      <3>2. r[at] = Along(p, d, j) /\ r[at + 1] = Along(p, d, j + 1)
        BY <1>5, <3>1
      <3>3. CanStep(Along(p, d, j), d) /\ Step(Along(p, d, j), d) = Along(p, d, j + 1)
        BY <1>2, <3>1, AlongIs
      <3>4. CanStep(r[at], d) /\ r[at + 1] = Step(r[at], d)
        BY <3>2, <3>3
      <3> QED BY <1>2, <3>4
    <2>3. CASE at < L
      <3>1. at \in 1..(L - 1) /\ at \in 1..L /\ at + 1 \in 1..L
        BY <1>1, <2>1, <2>3, SMT
      <3>2. r[at] = s[at] /\ r[at + 1] = s[at + 1]
        BY <1>4, <3>1
      <3>3. \E x \in Directions : CanStep(s[at], x) /\ s[at + 1] = Step(s[at], x)
        BY <3>1 DEF Legal
      <3> QED BY <3>2, <3>3
    <2> QED BY <1>1, <2>1, <2>2, <2>3, SMT
  <1>10. \A q, x, y \in Int :
           LET before == Straight * q + Diagonal * (x - 1 - q)
           IN  /\ Straight * q + Diagonal * (x + y - 1 - q) = before + y * Diagonal
               /\ Straight * (q + y) + Diagonal * (x + y - 1 - (q + y)) = before + y * Straight
    <2> SUFFICES ASSUME NEW q \in Int, NEW x \in Int, NEW y \in Int
                 PROVE  LET before == Straight * q + Diagonal * (x - 1 - q)
                        IN  /\ Straight * q + Diagonal * (x + y - 1 - q) = before + y * Diagonal
                            /\ Straight * (q + y) + Diagonal * (x + y - 1 - (q + y)) = before + y * Straight
      OBVIOUS
    <2>1. /\ x + y - 1 - q = (x - 1 - q) + y /\ x + y - 1 - (q + y) = x - 1 - q /\ x - 1 - q \in Int
          /\ Straight \in Int /\ Diagonal \in Int
      BY CostsAre, SMT
    <2>2. /\ Diagonal * ((x - 1 - q) + y) = Diagonal * (x - 1 - q) + Diagonal * y /\ Diagonal * y = y * Diagonal
          /\ Straight * (q + y) = Straight * q + Straight * y /\ Straight * y = y * Straight
          /\ Diagonal * (x - 1 - q) \in Int /\ Diagonal * y \in Int /\ Straight * q \in Int /\ Straight * y \in Int
      BY <2>1, TimesIs
    <2> QED BY <2>1, <2>2, SMT
  <1>8. \E q \in 0..(Len(r) - 1) : Straight * q + Diagonal * (Len(r) - 1 - q) = g[n]
    <2>1. PICK q \in 0..(L - 1) : Straight * q + Diagonal * (L - 1 - q) = g[p]
      BY DEF Legal
    <2>2. CASE IsDiagonal(d)
      <3>1. g[n] = g[p] + k * Diagonal
        BY <2>2 DEF StepCost
      <3>2. q \in Int /\ k \in Int /\ L \in Int /\ q \in 0..(L + k - 1)
        BY <1>1, <1>2, <2>1, SMT
      <3>4. Straight * q + Diagonal * (L + k - 1 - q) = Straight * q + Diagonal * (L - 1 - q) + k * Diagonal
        BY <1>10, <3>2
      <3>3. Straight * q + Diagonal * (L + k - 1 - q) = g[n]
        BY <2>1, <3>1, <3>4, Zenon
      <3> QED BY <1>4, <3>2, <3>3
    <2>3. CASE ~IsDiagonal(d)
      <3>1. g[n] = g[p] + k * Straight
        BY <2>3 DEF StepCost
      <3>2. q \in Int /\ k \in Int /\ L \in Int /\ q + k \in 0..(L + k - 1)
        BY <1>1, <1>2, <2>1, SMT
      <3>4. Straight * (q + k) + Diagonal * (L + k - 1 - (q + k))
            = Straight * q + Diagonal * (L - 1 - q) + k * Straight
        BY <1>10, <3>2
      <3>3. Straight * (q + k) + Diagonal * (L + k - 1 - (q + k)) = g[n]
        BY <2>1, <3>1, <3>4, Zenon
      <3> QED BY <1>4, <3>2, <3>3
    <2> QED BY <2>2, <2>3
  <1> HIDE DEF L
  <1>9. Legal(r, n)
    BY <1>4, <1>6, <1>7, <1>8 DEF Legal
  <1> QED BY <1>9 DEF r, u

(* The cells of lower cost: every link leads to one, so that there are no  *)
(* more links on the way back than there are cells.                        *)
Lower(n) == {m \in Cells : g[m] < g[n]}

(* There are Width * Height cells.                                         *)
LEMMA CellsFinite == IsFiniteSet(Cells) /\ Cardinality(Cells) = Width * Height
  <1>1. Width \in Nat \ {0} /\ Height \in Nat \ {0} /\ 0 \in Int /\ Width - 1 \in Int /\ Height - 1 \in Int
    BY GridAssumption, SMT
  <1>2. IsFiniteSet(0..(Width - 1))
        /\ Cardinality(0..(Width - 1)) = IF 0 > Width - 1 THEN 0 ELSE Width - 1 - 0 + 1
    BY <1>1, FS_Interval
  <1>3. IsFiniteSet(0..(Height - 1))
        /\ Cardinality(0..(Height - 1)) = IF 0 > Height - 1 THEN 0 ELSE Height - 1 - 0 + 1
    BY <1>1, FS_Interval
  <1>4. Cardinality(0..(Width - 1)) = Width /\ Cardinality(0..(Height - 1)) = Height
    BY <1>1, <1>2, <1>3, SMT
  <1>5. /\ IsFiniteSet((0..(Width - 1)) \X (0..(Height - 1)))
        /\ Cardinality((0..(Width - 1)) \X (0..(Height - 1)))
             = Cardinality(0..(Width - 1)) * Cardinality(0..(Height - 1))
    BY <1>2, <1>3, FS_Product
  <1> QED BY <1>4, <1>5 DEF Cells

(* A cell of lower cost has fewer cells below it.                          *)
LEMMA LowerIs ==
  ASSUME g \in [Cells -> Nat]
  PROVE  /\ \A n \in Cells : Cardinality(Lower(n)) \in Nat /\ Cardinality(Lower(n)) <= Width * Height
         /\ \A m, n \in Cells : g[m] < g[n] => Cardinality(Lower(m)) < Cardinality(Lower(n))
  <1>1. ASSUME NEW n \in Cells
        PROVE  IsFiniteSet(Lower(n)) /\ Cardinality(Lower(n)) \in Nat /\ Cardinality(Lower(n)) <= Width * Height
    <2>1. Lower(n) \in SUBSET Cells
      BY DEF Lower
    <2>2. IsFiniteSet(Lower(n)) /\ Cardinality(Lower(n)) <= Cardinality(Cells)
      BY <2>1, CellsFinite, FS_Subset
    <2> QED BY <2>2, CellsFinite, FS_CardinalityType
  <1>2. ASSUME NEW m \in Cells, NEW n \in Cells, g[m] < g[n]
        PROVE  Cardinality(Lower(m)) < Cardinality(Lower(n))
    <2>1. g[m] \in Nat /\ g[n] \in Nat /\ \A k \in Cells : g[k] \in Nat
      OBVIOUS
    <2>2. m \in Lower(n) /\ m \notin Lower(m)
      BY <1>2, <2>1, SMT DEF Lower
    <2>3. Lower(m) \in SUBSET Lower(n)
      <3>1. \A k \in Cells : g[k] < g[m] => g[k] < g[n]
        BY <1>2, <2>1, SMT
      <3> QED BY <3>1 DEF Lower
    <2>4. Cardinality(Lower(m)) <= Cardinality(Lower(n)) /\ Cardinality(Lower(m)) # Cardinality(Lower(n))
      BY <1>1, <2>2, <2>3, FS_Subset
    <2> QED BY <1>1, <2>4, SMT
  <1> QED BY <1>1, <1>2

(* Over as many links as there are cells below it, each cell has its way.  *)
LEMMA WaysLegal ==
  ASSUME LinkInv
  PROVE  \A k \in Nat : k <= Width * Height =>
           \A n : Reached(n) /\ Cardinality(Lower(n)) <= k => Legal(wayTo[k][n], n)
  <1> DEFINE Ok(k) == \A n : Reached(n) /\ Cardinality(Lower(n)) <= k => Legal(wayTo[k][n], n)
             A == {k \in Nat : k <= Width * Height => Ok(k)}
  <1>1. LinkInv /\ g \in [Cells -> Nat] /\ g[start] = 0
    BY DEF LinkInv
  <1>2. ASSUME NEW k \in Nat, k <= Width * Height
        PROVE  Legal(wayTo[k][start], start)
    <2>1. wayTo[k] = LinkMore(wayTo, k)
      <3>1. k \in 0..(Width * Height)
        BY <1>2, WayToIs, SMT
      <3> QED BY <3>1, WayToIs
    <2>2. wayTo[k][start] = <<start>>
      BY <1>1, <2>1, CellsAre DEF LinkInv, LinkMore
    <2> QED BY <1>1, <2>2, LegalStart
  <1>3. ASSUME NEW n, Reached(n), n # start
        PROVE  \E p, d, at : /\ RunsTo(p, d, at, n) /\ g[n] = g[p] + at * StepCost(d) /\ cameFrom[n] = p
                             /\ p # Nowhere /\ Reached(p) /\ Cardinality(Lower(p)) < Cardinality(Lower(n))
    <2>1. PICK p, d, at : cameFrom[n] = p /\ p \in closed /\ RunsTo(p, d, at, n) /\ g[n] = g[p] + at * StepCost(d)
      BY <1>1, <1>3 DEF LinkInv
    <2>2. p \in Cells /\ p # Nowhere /\ Reached(p) /\ n \in Cells
      BY <1>1, <1>3, <2>1, CellsAre DEF LinkInv, Reached
    <2>4. at * StepCost(d) \in Nat /\ at * StepCost(d) > 0
      <3>1. at \in Nat /\ at # 0
        BY <2>1 DEF RunsTo
      <3> QED BY <3>1, CostsAre, TimesIs, SMT
    <2>3. g[p] < g[n]
      BY <1>1, <2>1, <2>2, <2>4, SMT
    <2> QED BY <1>1, <2>1, <2>2, <2>3, LowerIs
  <1>4. 0 \in A
    <2> SUFFICES ASSUME 0 <= Width * Height, NEW n, Reached(n), Cardinality(Lower(n)) <= 0
                 PROVE  Legal(wayTo[0][n], n)
      OBVIOUS
    <2>1. n = start
      <3> SUFFICES ASSUME n # start PROVE FALSE
        OBVIOUS
      <3>1. PICK p : Reached(p) /\ Cardinality(Lower(p)) < Cardinality(Lower(n))
        BY <1>3
      <3>2. Cardinality(Lower(p)) \in Nat /\ Cardinality(Lower(n)) \in Nat
        BY <1>1, <3>1, LowerIs DEF Reached
      <3> QED BY <3>1, <3>2, SMT
    <2> QED BY <1>2, <2>1
  <1>5. ASSUME NEW k \in Nat, k \in A PROVE k + 1 \in A
    <2> SUFFICES ASSUME k + 1 <= Width * Height, NEW n, Reached(n), Cardinality(Lower(n)) <= k + 1
                 PROVE  Legal(wayTo[k + 1][n], n)
      OBVIOUS
    <2>0. Reached(n)
      OBVIOUS
    <2>1. Ok(k) /\ k + 1 \in 0..(Width * Height)
      BY <1>5, WayToIs, SMT
    <2>2. CASE n = start
      BY <1>2, <2>1, <2>2
    <2>3. CASE n # start
      <3>1. PICK p, d, at : /\ RunsTo(p, d, at, n) /\ g[n] = g[p] + at * StepCost(d) /\ cameFrom[n] = p
                            /\ p # Nowhere /\ Reached(p) /\ Cardinality(Lower(p)) < Cardinality(Lower(n))
        BY <1>3, <2>3
      <3>2. Cardinality(Lower(p)) \in Nat /\ Cardinality(Lower(n)) \in Nat
        BY <1>1, <3>1, LowerIs DEF Reached
      <3>3. Legal(wayTo[k][p], p)
        BY <2>1, <3>1, <3>2, SMT
      <3>4. wayTo[k + 1] = LinkMore(wayTo, k + 1)
        BY <2>1, WayToIs
      <3>6. k + 1 # 0 /\ k + 1 - 1 = k
        BY SMT
      <3>8. cameFrom[n] = p /\ p # Nowhere
        BY <3>1
      <3>7. LinkMore(wayTo, k + 1)[n] = wayTo[k][p] \o Between(p, n)
        <4>1. n \in Cells /\ cameFrom[n] # Nowhere
          BY <2>0, <3>8 DEF Reached
        <4>2. LinkMore(wayTo, k + 1)[n] = wayTo[k + 1 - 1][p] \o Between(p, n)
          <5>1. ~(cameFrom[n] = Nowhere \/ k + 1 = 0)
            BY <3>6, <4>1
          <5>2. LinkMore(wayTo, k + 1)[n] = IF cameFrom[n] = Nowhere \/ k + 1 = 0 THEN <<n>>
                                           ELSE wayTo[k + 1 - 1][cameFrom[n]] \o Between(cameFrom[n], n)
            BY <4>1 DEF LinkMore
          <5>3. LinkMore(wayTo, k + 1)[n] = wayTo[k + 1 - 1][cameFrom[n]] \o Between(cameFrom[n], n)
            BY <5>1, <5>2, Zenon
          <5> QED BY <3>8, <5>3, Zenon
        <4> QED BY <3>6, <4>2, Zenon
      <3>5. wayTo[k + 1][n] = wayTo[k][p] \o Between(p, n)
        BY <3>4, <3>7
      <3> QED BY <3>1, <3>3, <3>5, RunCost, LegalMore
    <2> QED BY <2>2, <2>3
  <1> HIDE DEF A
  <1>6. Nat \subseteq A
    BY <1>4, <1>5, Induct
  <1> QED BY <1>6 DEF A

(* A search that ends at the goal has found a path. *)
LEMMA FoundIsLegal ==
  ASSUME LinkInv, result = "found"
  PROVE  Legal(Path, goal) /\ dist[goal] <= g[goal]
  <1>1. Reached(goal) /\ dist[goal] <= g[goal] /\ g \in [Cells -> Nat]
    BY DEF LinkInv
  <1>2. Cardinality(Lower(goal)) <= Width * Height /\ Width * Height \in Nat
    BY <1>1, CellsAre, LowerIs, WayToIs
  <1>3. Width * Height <= Width * Height
    BY <1>2, SMT
  <1> QED BY <1>1, <1>2, <1>3, WaysLegal DEF Path

(* A* finds a path if and only if there is one, and the path is a shortest *)
(* one, over steps that the grid allows, whatever the grid.                *)
THEOREM AStarFindsShortest == SearchSpec => [](method = "AStar" => FindsShortest)
  <1>1. ASSUME StarInv, WayInv, method = "AStar" PROVE FindsShortest
    <2>1. LinkInv /\ CostInv /\ OpenInv
      BY <1>1 DEF StarInv, WayInv
    <2>2. ASSUME result = "failed" PROVE dist[goal] = Infinity
      BY <1>1, <2>1, <2>2, DryMeansNone DEF OpenInv
    <2>3. ASSUME result = "found" PROVE g[goal] = dist[goal] /\ Legal(Path, goal)
      BY <2>1, <2>3, FoundIsLegal DEF OpenInv, CostInv
    <2> QED BY <2>2, <2>3 DEF FindsShortest, Legal
  <1> QED BY <1>1, StarInductive, WaysInductive, PTL

(* What JPS returns, too, is a path over steps that the grid allows, from  *)
(* the start to the goal, of the length JPS takes for it and so no shorter *)
(* than the distance, though it jumps and looks only where it has not      *)
(* pruned.                                                                 *)
THEOREM PathsAreLegal == SearchSpec => [](result = "found" => Legal(Path, goal) /\ dist[goal] <= g[goal])
  <1>1. StarInv /\ WayInv /\ result = "found" => Legal(Path, goal) /\ dist[goal] <= g[goal]
    BY FoundIsLegal DEF StarInv, WayInv, Untouched
  <1> QED BY <1>1, StarInductive, WaysInductive, PTL
=============================================================================
