------------------------- MODULE LockFreeQueueProofs -------------------------
(***************************************************************************)
(* Theorems about LockFreeQueue, for any threads, any values and any       *)
(* capacity above one: the inductive invariant, what it says of cells and  *)
(* of the order of values, and the refinement of WeakQueue.                *)
(*                                                                         *)
(* The proofs know of Cell only what CellType, CellInj and CellLap say of  *)
(* it: positions less than a lap apart have different cells.               *)
(***************************************************************************)
EXTENDS LockFreeQueue, SequenceTheorems, TLAPS

-----------------------------------------------------------------------------
(* Cells *)

(* Every position has its cell.                                            *)
LEMMA CellType == \A p \in Int : Cell(p) \in 0..(Capacity - 1)
  BY QueueAssumption, SMT DEF Cell

(* A position is a number of laps and a cell.                              *)
LEMMA Laps == ASSUME NEW p \in Int
              PROVE  \E k \in Int : p = Capacity * k + Cell(p)
  <1>1. p = Capacity * (p \div Capacity) + Cell(p) /\ p \div Capacity \in Int
    BY QueueAssumption, SMT DEF Cell
  <1> QED BY <1>1

(* No multiple of the capacity but 0 is less than a lap away from 0.       *)
LEMMA NoLap == ASSUME NEW k \in Int, Capacity * k < Capacity, -Capacity < Capacity * k
               PROVE  k = 0
  BY QueueAssumption, SMT

(* Positions less than a lap apart that share a cell are the same.         *)
LEMMA CellInj == ASSUME NEW p \in Int, NEW q \in Int, Cell(p) = Cell(q),
                        p - q < Capacity, q - p < Capacity
                 PROVE  p = q
  <1>1. PICK a \in Int : p = Capacity * a + Cell(p)
    BY Laps
  <1>2. PICK b \in Int : q = Capacity * b + Cell(q)
    BY Laps
  <1>3. a - b \in Int /\ Cell(p) \in Int
    BY CellType, QueueAssumption
  <1>4. Capacity * (a - b) = p - q
    BY <1>1, <1>2, <1>3, QueueAssumption, SMT
  <1>5. a - b = 0
    BY <1>3, <1>4, NoLap, QueueAssumption, SMT
  <1> QED BY <1>4, <1>5, QueueAssumption, SMT

(* How many laps lie between two positions, and how many cells.            *)
LEMMA LapsApart == ASSUME NEW p \in Int, NEW q \in Int, NEW a \in Int, NEW b \in Int,
                          NEW r \in Int, NEW s \in Int,
                          p = Capacity * a + r, q = Capacity * b + s
                   PROVE  Capacity * (a - b) = p - q - (r - s)
  BY QueueAssumption, SMT

(* A lap later the cell is the same.                                       *)
LEMMA CellLap == ASSUME NEW p \in Int PROVE Cell(p + Capacity) = Cell(p)
  <1>1. PICK a \in Int : p = Capacity * a + Cell(p)
    BY Laps
  <1>2. p + Capacity \in Int
    BY QueueAssumption
  <1>3. PICK b \in Int : p + Capacity = Capacity * b + Cell(p + Capacity)
    BY <1>2, Laps
  <1>4. Cell(p) \in 0..(Capacity - 1) /\ Cell(p + Capacity) \in 0..(Capacity - 1)
    BY <1>2, CellType
  <1> DEFINE s == Cell(p + Capacity)
  <1>5. p + Capacity = Capacity * b + s /\ s \in 0..(Capacity - 1)
    BY <1>3, <1>4
  <1> HIDE DEF s
  <1>6. Capacity * (b - a) = Capacity - (s - Cell(p))
    <2>1. Capacity * (b - a) = (p + Capacity) - p - (s - Cell(p))
      BY <1>1, <1>2, <1>4, <1>5, LapsApart, QueueAssumption
    <2> QED BY <2>1, <1>4, <1>5, QueueAssumption, SMT
  <1>7. Capacity * (b - a - 1) = Cell(p) - s /\ b - a - 1 \in Int
    BY <1>4, <1>5, <1>6, QueueAssumption, SMT
  <1>8. b - a - 1 = 0
    BY <1>4, <1>5, <1>7, NoLap, QueueAssumption, SMT
  <1>9. s = Cell(p)
    BY <1>4, <1>5, <1>7, <1>8, QueueAssumption, SMT
  <1> QED BY <1>9 DEF s

(* The positions one lap long from any d on name every cell: a position    *)
(* before d has the cell of one that is at least a lap later.              *)
LEMMA NextLap == ASSUME NEW p \in Int, NEW d \in Int, p < d
                 PROVE  \E q \in d..(d + Capacity - 1) : Cell(q) = Cell(p) /\ p + Capacity <= q
  <1> DEFINE c == Cell(p - d)
             q == d + c
  <1>1. p - d \in Int /\ c \in 0..(Capacity - 1)
    BY CellType
  <1>2. PICK k \in Int : p - d = Capacity * k + c
    BY <1>1, Laps
  <1>3. q \in d..(d + Capacity - 1)
    BY <1>1, QueueAssumption
  <1> HIDE DEF c
  <1>4. q - p = Capacity * (-k) /\ -k \in Int
    BY <1>1, <1>2, QueueAssumption, SMT
  <1>5. -k > 0
    BY <1>1, <1>2, <1>4, QueueAssumption, SMT
  <1>6. p + Capacity <= q
    BY <1>1, <1>4, <1>5, QueueAssumption, SMT
  <1>7. Cell(q) = Cell(p)
    <2>1. PICK a \in Int : p = Capacity * a + Cell(p)
      BY Laps
    <2>2. q \in Int
      BY <1>1, QueueAssumption
    <2>3. PICK b \in Int : q = Capacity * b + Cell(q)
      BY <2>2, Laps
    <2>4. Cell(p) \in 0..(Capacity - 1) /\ Cell(q) \in 0..(Capacity - 1)
      BY <2>2, CellType
    <2> HIDE DEF q
    <2>5. a - k - b \in Int
      BY <1>4
    <2>6. Capacity * (a - k - b) = Cell(q) - Cell(p)
      BY <1>4, <2>1, <2>2, <2>3, <2>4, QueueAssumption, SMT
    <2>7. a - k - b = 0
      BY <2>4, <2>5, <2>6, NoLap, QueueAssumption, SMT
    <2> QED BY <2>4, <2>6, <2>7, QueueAssumption, SMT
  <1> QED BY <1>3, <1>6, <1>7

-----------------------------------------------------------------------------
(* Init *)

(* The empty queue satisfies the inductive invariant: every cell is free   *)
(* for the first lap.                                                      *)
LEMMA InitInv == Init => IndInv
  <1> SUFFICES ASSUME Init PROVE IndInv
    OBVIOUS
  <1>1. TypeOK
    BY QueueAssumption DEF Init, TypeOK, Labels, ValueOrNone
  <1>2. Bounded /\ Len(log) = enqueuePos
    BY QueueAssumption DEF Init, Bounded
  <1>3. \A p \in 0..(Capacity - 1) : Cell(p) = p
    <2> SUFFICES ASSUME NEW p \in 0..(Capacity - 1) PROVE Cell(p) = p
      OBVIOUS
    <2> QED BY QueueAssumption, SMT DEF Cell
  <1>4. \A t \in Threads : ~Pushing(t) /\ ~Popping(t)
    BY DEF Init, Pushing, Popping
  <1>5. SequenceOK
    BY <1>3, <1>4, QueueAssumption DEF Init, SequenceOK, ReaderOf
  <1>6. DataOK
    BY DEF Init, DataOK
  <1>7. OneEach /\ \A t \in Threads : ThreadOK(t)
    BY <1>4 DEF Init, OneEach, ThreadOK
  <1> QED BY <1>1, <1>2, <1>5, <1>6, <1>7 DEF IndInv

-----------------------------------------------------------------------------
(* Steps that touch neither a position nor a cell *)

(* Who claims which position.                                              *)
SameClaims ==
  \A t \in Threads : /\ Pushing(t)' <=> Pushing(t)
                     /\ Popping(t)' <=> Popping(t)
                     /\ Pushing(t) \/ Popping(t) => pos'[t] = pos[t]

(* What the cells and positions say of each other depends on nothing else  *)
(* than them and the claims.                                               *)
LEMMA QuietStep ==
  ASSUME IndInv, UNCHANGED <<enqueuePos, dequeuePos, cells, log>>, SameClaims
  PROVE  Bounded' /\ (Len(log) = enqueuePos)' /\ SequenceOK' /\ DataOK' /\ OneEach'
  <1>1. Bounded' /\ (Len(log) = enqueuePos)'
    BY DEF IndInv, Bounded
  <1>2. \A p : WriterOf(p)' <=> WriterOf(p)
    BY DEF SameClaims, WriterOf
  <1>3. \A p : ReaderOf(p)' <=> ReaderOf(p)
    BY DEF SameClaims, ReaderOf
  <1>4. SequenceOK'
    BY <1>2, <1>3 DEF IndInv, SequenceOK, cells, Cell
  <1>5. DataOK'
    BY <1>2 DEF IndInv, DataOK, cells, Cell
  <1>6. OneEach'
    BY DEF IndInv, OneEach, SameClaims
  <1> QED BY <1>1, <1>4, <1>5, <1>6

(* A thread that does not move still knows what it knew.                   *)
LEMMA OtherThread ==
  ASSUME IndInv, UNCHANGED <<enqueuePos, dequeuePos, cells, log>>, NEW u \in Threads,
         pc'[u] = pc[u], pos'[u] = pos[u], val'[u] = val[u]
  PROVE  ThreadOK(u)'
  <1>1. Cell(pos[u])' = Cell(pos[u])
    BY DEF Cell
  <1>2. (Pushing(u)' <=> Pushing(u)) /\ (Popping(u)' <=> Popping(u))
    BY DEF Pushing, Popping
  <1>3. ThreadOK(u)
    BY DEF IndInv
  <1> QED BY <1>1, <1>2, <1>3 DEF ThreadOK, cells

(* A return leaves the types as they are.                                  *)
LEMMA ReturnType ==
  ASSUME TypeOK, NEW t \in Threads, Return(t), UNCHANGED <<enqueuePos, dequeuePos, data, log>>,
         sequence' \in [0..(Capacity - 1) -> Nat]
  PROVE  TypeOK'
  <1>1. pc' \in [Threads -> Labels]
    <2>1. "idle" \in Labels
      BY DEF Labels
    <2> QED BY <2>1 DEF TypeOK, Return, Goto
  <1>2. pos' \in [Threads -> Nat] /\ val' \in [Threads -> ValueOrNone]
    BY DEF TypeOK, Return, ValueOrNone
  <1> QED BY <1>1, <1>2 DEF TypeOK

(* The calls themselves, and the loads of a position.                      *)
LEMMA BeginInv ==
  ASSUME IndInv, NEW t \in Threads,
         (\E v \in Values : BeginPush(t, v)) \/ BeginPop(t) \/ PushPos(t) \/ PopPos(t)
  PROVE  IndInv'
  <1> USE DEF BeginPush, BeginPop, PushPos, PopPos, Goto
  <1>1. TypeOK'
    <2>1. \A a \in {"pushPos", "pushSeq", "popPos", "popSeq"} : a \in Labels
      BY DEF Labels
    <2>2. pc' \in [Threads -> Labels]
      BY <2>1 DEF IndInv, TypeOK
    <2>3. pos' \in [Threads -> Nat] /\ val' \in [Threads -> ValueOrNone]
      BY DEF IndInv, TypeOK, ValueOrNone
    <2> QED BY <2>2, <2>3 DEF IndInv, TypeOK, cells
  <1>2. SameClaims
    BY DEF IndInv, TypeOK, SameClaims, Pushing, Popping
  <1>3. Bounded' /\ (Len(log) = enqueuePos)' /\ SequenceOK' /\ DataOK' /\ OneEach'
    BY <1>2, QuietStep
  <1>4. ASSUME NEW u \in Threads PROVE ThreadOK(u)'
    <2>1. CASE u # t
      <3>1. pc'[u] = pc[u] /\ pos'[u] = pos[u] /\ val'[u] = val[u]
        BY <2>1 DEF IndInv, TypeOK
      <3> QED BY <3>1, OtherThread DEF cells
    <2>2. CASE u = t
      <3>1. ThreadOK(t)
        BY DEF IndInv
      <3>2. CASE \E v \in Values : BeginPush(t, v)
        BY <2>2, <3>2 DEF IndInv, TypeOK, ThreadOK, Pushing, Popping
      <3>3. CASE BeginPop(t)
        BY <2>2, <3>3 DEF IndInv, TypeOK, ThreadOK, Pushing, Popping
      <3>4. CASE PushPos(t)
        BY <2>2, <3>1, <3>4 DEF IndInv, TypeOK, ThreadOK, Pushing, Popping
      <3>5. CASE PopPos(t)
        BY <2>2, <3>5 DEF IndInv, TypeOK, ThreadOK, Pushing, Popping
      <3> QED BY <3>2, <3>3, <3>4, <3>5
    <2> QED BY <2>1, <2>2
  <1> QED BY <1>1, <1>3, <1>4 DEF IndInv

(* The load of a sequence, whatever is decided on it.                      *)
LEMMA SeqInv ==
  ASSUME IndInv, NEW t \in Threads,
         PushSeq(t) \/ PushFull(t) \/ PopSeq(t) \/ PopEmpty(t)
  PROVE  IndInv'
  <1>1. Cell(pos[t]) \in 0..(Capacity - 1) /\ pos[t] \in Nat
    BY CellType DEF IndInv, TypeOK
  <1>2. TypeOK'
    <2>1. CASE PushSeq(t) \/ PopSeq(t)
      <3>1. \E l \in Labels : pc' = [pc EXCEPT ![t] = l]
        <4>1. \A a \in {"pushPos", "pushCas", "popPos", "popCas"} : a \in Labels
          BY DEF Labels
        <4> QED BY <2>1, <4>1 DEF PushSeq, PopSeq, Goto
      <3>2. pc' \in [Threads -> Labels]
        BY <3>1 DEF IndInv, TypeOK
      <3> QED BY <2>1, <3>2 DEF IndInv, TypeOK, PushSeq, PopSeq, cells
    <2>2. CASE PushFull(t) \/ PopEmpty(t)
      <3>1. Return(t) /\ UNCHANGED <<enqueuePos, dequeuePos, cells, log>>
        BY <2>2 DEF PushFull, PopEmpty
      <3> QED BY <3>1, ReturnType DEF IndInv, TypeOK, cells
    <2> QED BY <2>1, <2>2
  <1>3. SameClaims
    BY DEF IndInv, TypeOK, SameClaims, Pushing, Popping, PushSeq, PushFull, PopSeq, PopEmpty,
          Return, Goto
  <1>4. Bounded' /\ (Len(log) = enqueuePos)' /\ SequenceOK' /\ DataOK' /\ OneEach'
    BY <1>3, QuietStep DEF PushSeq, PushFull, PopSeq, PopEmpty
  <1>5. ASSUME NEW u \in Threads PROVE ThreadOK(u)'
    <2>1. CASE u # t
      <3>1. pc'[u] = pc[u] /\ pos'[u] = pos[u] /\ val'[u] = val[u]
        BY <2>1 DEF IndInv, TypeOK, PushSeq, PushFull, PopSeq, PopEmpty, Return, Goto
      <3> QED BY <3>1, OtherThread DEF cells, PushSeq, PushFull, PopSeq, PopEmpty
    <2>2. CASE u = t
      <3>1. ThreadOK(t)
        BY DEF IndInv
      <3>2. CASE PushSeq(t)
        <4>1. /\ pc[t] = "pushSeq" /\ pos'[t] = pos[t] /\ val'[t] = val[t]
              /\ pc'[t] \in {"pushCas", "pushPos"}
              /\ pc'[t] = "pushCas" => sequence[Cell(pos[t])] = pos[t]
          BY <3>2, <1>1 DEF IndInv, TypeOK, PushSeq, Goto
        <4>2. Cell(pos[t])' = Cell(pos[t])
          BY <3>2 DEF Cell, PushSeq
        <4> QED BY <2>2, <3>1, <3>2, <4>1, <4>2 DEF PushSeq, ThreadOK, Pushing, Popping, cells
      <3>3. CASE PopSeq(t)
        <4>1. /\ pc[t] = "popSeq" /\ pos'[t] = pos[t]
              /\ pc'[t] \in {"popCas", "popPos"}
              /\ pc'[t] = "popCas" => sequence[Cell(pos[t])] = pos[t] + 1
          BY <3>3, <1>1 DEF IndInv, TypeOK, PopSeq, Goto
        <4>2. Cell(pos[t])' = Cell(pos[t])
          BY <3>3 DEF Cell, PopSeq
        <4> QED BY <2>2, <3>1, <3>3, <4>1, <4>2 DEF PopSeq, ThreadOK, Pushing, Popping, cells
      <3>4. CASE PushFull(t) \/ PopEmpty(t)
        BY <2>2, <3>4 DEF IndInv, TypeOK, ThreadOK, Pushing, Popping, PushFull, PopEmpty,
              Return, Goto
      <3> QED BY <3>2, <3>3, <3>4
    <2> QED BY <2>1, <2>2
  <1> QED BY <1>2, <1>4, <1>5 DEF IndInv

(* A failed CAS.                                                           *)
LEMMA CasFailsInv ==
  ASSUME IndInv, NEW t \in Threads, PushCasFails(t) \/ PopCasFails(t)
  PROVE  IndInv'
  <1> USE DEF PushCasFails, PopCasFails, Goto
  <1>1. TypeOK'
    BY DEF IndInv, TypeOK, Labels, cells
  <1>2. SameClaims
    BY DEF IndInv, TypeOK, SameClaims, Pushing, Popping
  <1>3. Bounded' /\ (Len(log) = enqueuePos)' /\ SequenceOK' /\ DataOK' /\ OneEach'
    BY <1>2, QuietStep
  <1>4. ASSUME NEW u \in Threads PROVE ThreadOK(u)'
    <2>1. CASE u # t
      <3>1. pc'[u] = pc[u] /\ pos'[u] = pos[u] /\ val'[u] = val[u]
        BY <2>1 DEF IndInv, TypeOK
      <3> QED BY <3>1, OtherThread DEF cells
    <2>2. CASE u = t
      <3>1. ThreadOK(t)
        BY DEF IndInv
      <3>2. pos'[t] = pos[t] /\ val'[t] = val[t]
        OBVIOUS
      <3>3. CASE PushCasFails(t)
        <4>1. pc[t] = "pushCas" /\ pc'[t] = "pushSeq"
          BY <3>3 DEF IndInv, TypeOK
        <4> QED BY <2>2, <3>1, <3>2, <3>3, <4>1 DEF ThreadOK, Pushing, Popping
      <3>4. CASE PopCasFails(t)
        <4>1. pc[t] = "popCas" /\ pc'[t] = "popSeq"
          BY <3>4 DEF IndInv, TypeOK
        <4> QED BY <2>2, <3>1, <3>2, <3>4, <4>1 DEF ThreadOK, Pushing, Popping
      <3> QED BY <3>3, <3>4
    <2> QED BY <2>1, <2>2
  <1> QED BY <1>1, <1>3, <1>4 DEF IndInv

(* pop copies the data of the cell it claimed.                             *)
LEMMA ReadInv ==
  ASSUME IndInv, NEW t \in Threads, Read(t) PROVE IndInv'
  <1>1. Cell(pos[t]) \in 0..(Capacity - 1)
    BY CellType DEF IndInv, TypeOK
  <1>2. TypeOK'
    BY <1>1 DEF IndInv, TypeOK, Labels, Read, Goto, cells
  <1>3. SameClaims
    BY DEF IndInv, TypeOK, SameClaims, Pushing, Popping, Read, Goto
  <1>4. Bounded' /\ (Len(log) = enqueuePos)' /\ SequenceOK' /\ DataOK' /\ OneEach'
    BY <1>3, QuietStep DEF Read
  <1>5. \A u \in Threads : ThreadOK(u)'
    BY DEF IndInv, TypeOK, ThreadOK, Pushing, Popping, Read, Goto, cells
  <1> QED BY <1>2, <1>4, <1>5 DEF IndInv

-----------------------------------------------------------------------------
(* Steps that write a cell *)

(* Every claimed position is less than a lap from the others, but for one  *)
(* that waits a lap later for the cell.                                    *)
LEMMA ClaimsApart ==
  ASSUME IndInv, NEW t \in Threads, NEW u \in Threads,
         Pushing(t) \/ Popping(t), Pushing(u) \/ Popping(u), Cell(pos[t]) = Cell(pos[u])
  PROVE  t = u
  <1>1. pos[t] - pos[u] < Capacity /\ pos[u] - pos[t] < Capacity
    BY QueueAssumption DEF IndInv, TypeOK, Bounded, ThreadOK
  <1>2. pos[t] = pos[u]
    BY <1>1, CellInj DEF IndInv, TypeOK
  <1>3. (Pushing(t) /\ Pushing(u)) \/ (Popping(t) /\ Popping(u))
    BY <1>2 DEF IndInv, TypeOK, ThreadOK
  <1> QED BY <1>2, <1>3 DEF IndInv, OneEach

(* push copies the value into the cell it claimed: nobody else reads or    *)
(* writes that cell.                                                       *)
LEMMA WriteInv ==
  ASSUME IndInv, NEW t \in Threads, Write(t) PROVE IndInv'
  <1>1. /\ Pushing(t) /\ pos[t] \in Nat /\ Cell(pos[t]) \in 0..(Capacity - 1)
        /\ dequeuePos <= pos[t] /\ pos[t] < enqueuePos /\ val[t] \in Values
    BY CellType DEF IndInv, TypeOK, ThreadOK, Write, Pushing
  <1>2. TypeOK'
    BY <1>1 DEF IndInv, TypeOK, Labels, ValueOrNone, Write, Goto
  <1>3. SameClaims
    BY DEF IndInv, TypeOK, SameClaims, Pushing, Popping, Write, Goto
  <1>4. Bounded' /\ (Len(log) = enqueuePos)' /\ OneEach'
    BY <1>3 DEF IndInv, Bounded, OneEach, SameClaims, Write
  <1>5. \A p : (WriterOf(p)' <=> WriterOf(p)) /\ (ReaderOf(p)' <=> ReaderOf(p))
    BY <1>3 DEF SameClaims, WriterOf, ReaderOf
  <1>6. SequenceOK'
    BY <1>5 DEF IndInv, SequenceOK, Cell, Write
  <1>7. DataOK'
    <2> SUFFICES ASSUME NEW p \in dequeuePos..(enqueuePos - 1), ~WriterOf(p)
                 PROVE  data'[Cell(p)] = log[p + 1]
      BY <1>5 DEF DataOK, Cell, Write
    <2>3. p # pos[t]
      BY <1>1 DEF WriterOf
    <2>1. p - pos[t] < Capacity /\ pos[t] - p < Capacity
      BY <1>1, QueueAssumption DEF IndInv, TypeOK, Bounded
    <2>2. Cell(p) # Cell(pos[t]) /\ Cell(p) \in 0..(Capacity - 1)
      BY <2>1, <2>3, <1>1, CellInj, CellType DEF IndInv, TypeOK
    <2>4. data'[Cell(p)] = data[Cell(p)]
      BY <1>1, <2>2 DEF Write, IndInv, TypeOK
    <2> QED BY <2>4 DEF IndInv, DataOK
  <1>8. ASSUME NEW u \in Threads PROVE ThreadOK(u)'
    <2>1. CASE u = t
      <3>1. data'[Cell(pos[t])] = val[t]
        BY <1>1 DEF Write, IndInv, TypeOK
      <3> QED BY <2>1, <3>1, <1>1 DEF IndInv, TypeOK, ThreadOK, Pushing, Popping, Write, Goto, Cell
    <2>2. CASE u # t
      <3>1. Pushing(u) \/ Popping(u) => Cell(pos[u]) # Cell(pos[t])
        BY <2>2, <1>1, ClaimsApart
      <3>2. Pushing(u) \/ Popping(u) => data'[Cell(pos[u])] = data[Cell(pos[u])]
        BY <3>1, <1>1, CellType DEF Write, IndInv, TypeOK
      <3> QED BY <2>2, <3>2 DEF IndInv, TypeOK, ThreadOK, Pushing, Popping, Write, Goto, Cell
    <2> QED BY <2>1, <2>2
  <1> QED BY <1>2, <1>4, <1>6, <1>7, <1>8 DEF IndInv
(* A thread that returns claims nothing and knows nothing.                 *)
LEMMA ReturnedThread ==
  ASSUME TypeOK, NEW t \in Threads, Return(t)
  PROVE  ~Pushing(t)' /\ ~Popping(t)' /\ ThreadOK(t)'
  BY DEF TypeOK, Return, Goto, Pushing, Popping, ThreadOK

(* A return leaves the other threads where they are.                       *)
LEMMA ReturnOthers ==
  ASSUME TypeOK, NEW t \in Threads, Return(t), NEW u \in Threads, u # t
  PROVE  /\ pc'[u] = pc[u] /\ pos'[u] = pos[u] /\ val'[u] = val[u]
         /\ (Pushing(u)' <=> Pushing(u)) /\ (Popping(u)' <=> Popping(u))
  BY DEF TypeOK, Return, Goto, Pushing, Popping

(* The store that publishes a value: from then on the cell's sequence lets *)
(* the pop of the position in.                                             *)
LEMMA PublishInv ==
  ASSUME IndInv, NEW t \in Threads, Publish(t) PROVE IndInv'
  <1> DEFINE p0 == pos[t]
  <1>1. /\ Pushing(t) /\ ~Popping(t) /\ p0 \in Nat /\ Cell(p0) \in 0..(Capacity - 1)
        /\ dequeuePos <= p0 /\ p0 < enqueuePos /\ WriterOf(p0)
        /\ log[p0 + 1] = val[t] /\ data[Cell(p0)] = val[t]
    BY CellType DEF IndInv, TypeOK, ThreadOK, Publish, Pushing, Popping, WriterOf
  <1>2. /\ dequeuePos \in Nat /\ enqueuePos \in Nat /\ Capacity \in Nat \ {0}
        /\ dequeuePos <= enqueuePos /\ enqueuePos <= dequeuePos + Capacity
    BY QueueAssumption DEF IndInv, TypeOK, Bounded
  <1>3. /\ Return(t) /\ UNCHANGED <<enqueuePos, dequeuePos, data, log>>
        /\ sequence' = [sequence EXCEPT ![Cell(p0)] = p0 + 1]
    BY DEF Publish
  <1>4. sequence'[Cell(p0)] = p0 + 1
    BY <1>1, <1>3 DEF IndInv, TypeOK
  <1>5. \A p \in dequeuePos..(dequeuePos + Capacity - 1) :
          p # p0 => sequence'[Cell(p)] = sequence[Cell(p)]
    <2> SUFFICES ASSUME NEW p \in dequeuePos..(dequeuePos + Capacity - 1), p # p0
                 PROVE  sequence'[Cell(p)] = sequence[Cell(p)]
      OBVIOUS
    <2>1. p - p0 < Capacity /\ p0 - p < Capacity /\ p \in Int
      BY <1>1, <1>2
    <2>2. Cell(p) # Cell(p0) /\ Cell(p) \in 0..(Capacity - 1)
      BY <2>1, <1>1, CellInj, CellType
    <2> QED BY <2>2, <1>3 DEF IndInv, TypeOK
  <1> HIDE DEF p0
  <1>6. \A u \in Threads : u # t =>
          /\ pc'[u] = pc[u] /\ pos'[u] = pos[u] /\ val'[u] = val[u]
          /\ (Pushing(u)' <=> Pushing(u)) /\ (Popping(u)' <=> Popping(u))
    BY <1>3, ReturnOthers DEF IndInv
  <1>7. ~Pushing(t)' /\ ~Popping(t)' /\ ThreadOK(t)'
    BY <1>3, ReturnedThread DEF IndInv
  <1>8. \A p : WriterOf(p)' <=> WriterOf(p) /\ p # p0
    BY <1>1, <1>6, <1>7 DEF WriterOf, IndInv, OneEach, p0
  <1>9. \A p : ReaderOf(p)' <=> ReaderOf(p)
    BY <1>1, <1>6, <1>7 DEF ReaderOf
  <1>10. TypeOK'
    <2>1. sequence' \in [0..(Capacity - 1) -> Nat]
      BY <1>1, <1>3 DEF IndInv, TypeOK
    <2> QED BY <2>1, <1>3, ReturnType DEF IndInv
  <1>11. Bounded' /\ (Len(log) = enqueuePos)'
    BY <1>3 DEF IndInv, Bounded
  <1>12. SequenceOK'
    <2>1. \A p \in dequeuePos..(dequeuePos + Capacity - 1) :
            sequence'[Cell(p)] = IF p < enqueuePos
                                 THEN IF WriterOf(p)' THEN p ELSE p + 1
                                 ELSE IF ReaderOf(p - Capacity)' THEN p + 1 - Capacity ELSE p
      BY <1>1, <1>4, <1>5, <1>8, <1>9 DEF IndInv, SequenceOK
    <2> QED BY <2>1, <1>3 DEF SequenceOK, Cell
  <1>13. DataOK'
    <2>1. \A p \in dequeuePos..(enqueuePos - 1) : WriterOf(p)' \/ data[Cell(p)] = log[p + 1]
      BY <1>1, <1>8 DEF IndInv, DataOK
    <2> QED BY <2>1, <1>3 DEF DataOK, Cell
  <1>14. OneEach'
    BY <1>6, <1>7 DEF IndInv, OneEach
  <1>15. ASSUME NEW u \in Threads, u # t PROVE ThreadOK(u)'
    <2>1. ThreadOK(u) /\ Cell(pos[u])' = Cell(pos[u]) /\ pos[u] \in Nat
      BY <1>6, <1>15 DEF IndInv, TypeOK, Cell
    <2>2. pc[u] = "pushCas" /\ pos[u] = enqueuePos => sequence'[Cell(pos[u])] = pos[u]
      <3> SUFFICES ASSUME pc[u] = "pushCas", pos[u] = enqueuePos
                   PROVE  Cell(enqueuePos) # Cell(p0)
        BY <2>1, <1>1, <1>2, <1>3, CellType DEF ThreadOK, IndInv, TypeOK
      <3>1. sequence[Cell(enqueuePos)] = enqueuePos
        BY <2>1 DEF ThreadOK
      <3>2. sequence[Cell(p0)] = p0
        BY <1>1, <1>2 DEF IndInv, SequenceOK
      <3> QED BY <3>1, <3>2, <1>1, <1>2
    <2>3. pc[u] = "popCas" /\ pos[u] = dequeuePos => sequence'[Cell(pos[u])] = pos[u] + 1
      <3> SUFFICES ASSUME pc[u] = "popCas", pos[u] = dequeuePos
                   PROVE  sequence'[Cell(dequeuePos)] = dequeuePos + 1
        OBVIOUS
      <3>1. sequence[Cell(dequeuePos)] = dequeuePos + 1
        BY <2>1 DEF ThreadOK
      <3> QED BY <3>1, <1>2, <1>4, <1>5
    <2> QED BY <2>1, <2>2, <2>3, <1>3, <1>6, <1>15 DEF ThreadOK
  <1> QED BY <1>7, <1>10, <1>11, <1>12, <1>13, <1>14, <1>15 DEF IndInv

(* The store that frees a cell for the push one lap later.                 *)
LEMMA ReleaseInv ==
  ASSUME IndInv, NEW t \in Threads, Release(t) PROVE IndInv'
  <1> DEFINE p0 == pos[t]
             q == p0 + Capacity
  <1>2. /\ dequeuePos \in Nat /\ enqueuePos \in Nat /\ Capacity \in Nat \ {0}
        /\ dequeuePos <= enqueuePos /\ enqueuePos <= dequeuePos + Capacity
    BY QueueAssumption DEF IndInv, TypeOK, Bounded
  <1>1. /\ Popping(t) /\ ~Pushing(t) /\ p0 \in Nat /\ Cell(p0) \in 0..(Capacity - 1)
        /\ enqueuePos <= q /\ q < dequeuePos + Capacity /\ q \in Nat /\ ReaderOf(q - Capacity)
    <2>1. Popping(t) /\ ~Pushing(t) /\ p0 \in Nat
      BY DEF IndInv, TypeOK, Release, Pushing, Popping
    <2>2. enqueuePos - Capacity <= p0 /\ p0 < dequeuePos
      BY <2>1 DEF IndInv, ThreadOK
    <2>3. Cell(p0) \in 0..(Capacity - 1)
      BY <2>1, CellType
    <2>4. ReaderOf(p0) /\ q - Capacity = p0
      BY <1>2, <2>1 DEF ReaderOf
    <2> QED BY <1>2, <2>1, <2>2, <2>3, <2>4
  <1>3. /\ Return(t) /\ UNCHANGED <<enqueuePos, dequeuePos, data, log>>
        /\ sequence' = [sequence EXCEPT ![Cell(p0)] = q]
    BY DEF Release
  <1>4. Cell(q) = Cell(p0) /\ sequence'[Cell(q)] = q
    BY <1>1, <1>3, CellLap DEF IndInv, TypeOK
  <1>5. \A p \in dequeuePos..(dequeuePos + Capacity - 1) :
          p # q => sequence'[Cell(p)] = sequence[Cell(p)]
    <2> SUFFICES ASSUME NEW p \in dequeuePos..(dequeuePos + Capacity - 1), p # q
                 PROVE  sequence'[Cell(p)] = sequence[Cell(p)]
      OBVIOUS
    <2>1. p - q < Capacity /\ q - p < Capacity /\ p \in Int
      BY <1>1, <1>2
    <2>2. Cell(p) # Cell(p0) /\ Cell(p) \in 0..(Capacity - 1)
      <3>1. Cell(p) # Cell(q)
        BY <2>1, <1>1, CellInj
      <3> QED BY <2>1, <3>1, <1>4, CellType
    <2> QED BY <2>2, <1>3 DEF IndInv, TypeOK
  <1>6. \A u \in Threads : u # t =>
          /\ pc'[u] = pc[u] /\ pos'[u] = pos[u] /\ val'[u] = val[u]
          /\ (Pushing(u)' <=> Pushing(u)) /\ (Popping(u)' <=> Popping(u))
    BY <1>3, ReturnOthers DEF IndInv
  <1>7. ~Pushing(t)' /\ ~Popping(t)' /\ ThreadOK(t)'
    BY <1>3, ReturnedThread DEF IndInv
  <1>8. \A p : WriterOf(p)' <=> WriterOf(p)
    BY <1>1, <1>6, <1>7 DEF WriterOf
  <1>9. \A p \in Int : ReaderOf(p - Capacity)' <=> ReaderOf(p - Capacity) /\ p # q
    <2>1. \A r : ReaderOf(r)' <=> ReaderOf(r) /\ r # p0
      <3> HIDE DEF q
      <3> QED BY <1>1, <1>6, <1>7 DEF ReaderOf, IndInv, OneEach
    <2>2. \A p \in Int : p - Capacity = p0 <=> p = q
      BY <1>1, <1>2
    <2> QED BY <2>1, <2>2
  <1> HIDE DEF p0, q
  <1>10. TypeOK'
    <2>1. sequence' \in [0..(Capacity - 1) -> Nat]
      BY <1>1, <1>3 DEF IndInv, TypeOK
    <2> QED BY <2>1, <1>3, ReturnType DEF IndInv
  <1>11. Bounded' /\ (Len(log) = enqueuePos)'
    BY <1>3 DEF IndInv, Bounded
  <1>12. SequenceOK'
    <2>1. \A p \in dequeuePos..(dequeuePos + Capacity - 1) :
            sequence'[Cell(p)] = IF p < enqueuePos
                                 THEN IF WriterOf(p)' THEN p ELSE p + 1
                                 ELSE IF ReaderOf(p - Capacity)' THEN p + 1 - Capacity ELSE p
      BY <1>1, <1>2, <1>4, <1>5, <1>8, <1>9 DEF IndInv, SequenceOK
    <2> QED BY <2>1, <1>3 DEF SequenceOK, Cell
  <1>13. DataOK'
    BY <1>3, <1>8 DEF IndInv, DataOK, Cell
  <1>14. OneEach'
    BY <1>6, <1>7 DEF IndInv, OneEach
  <1>15. ASSUME NEW u \in Threads, u # t PROVE ThreadOK(u)'
    <2>1. ThreadOK(u) /\ Cell(pos[u])' = Cell(pos[u]) /\ pos[u] \in Nat
      BY <1>6, <1>15 DEF IndInv, TypeOK, Cell
    <2>2. pc[u] = "pushCas" /\ pos[u] = enqueuePos => sequence'[Cell(pos[u])] = pos[u]
      <3> SUFFICES ASSUME pc[u] = "pushCas", pos[u] = enqueuePos
                   PROVE  sequence'[Cell(enqueuePos)] = enqueuePos
        OBVIOUS
      <3>1. sequence[Cell(enqueuePos)] = enqueuePos
        BY <2>1 DEF ThreadOK
      <3> QED BY <3>1, <1>1, <1>2, <1>4, <1>5
    <2>3. pc[u] = "popCas" /\ pos[u] = dequeuePos => sequence'[Cell(pos[u])] = pos[u] + 1
      <3> SUFFICES ASSUME pc[u] = "popCas", pos[u] = dequeuePos
                   PROVE  sequence'[Cell(dequeuePos)] = dequeuePos + 1
        OBVIOUS
      <3>1. sequence[Cell(dequeuePos)] = dequeuePos + 1
        BY <2>1 DEF ThreadOK
      <3>2. dequeuePos # q
        BY <3>1, <1>1, <1>2 DEF IndInv, SequenceOK
      <3> QED BY <3>1, <3>2, <1>2, <1>5
    <2> QED BY <2>1, <2>2, <2>3, <1>3, <1>6, <1>15 DEF ThreadOK
  <1> QED BY <1>7, <1>10, <1>11, <1>12, <1>13, <1>14, <1>15 DEF IndInv
-----------------------------------------------------------------------------
(* Steps that move a position *)

(* Going on leaves the other threads where they are.                       *)
LEMMA GotoOthers ==
  ASSUME TypeOK, NEW t \in Threads, NEW l, Goto(t, l)
  PROVE  /\ pc'[t] = l
         /\ \A u \in Threads : u # t => /\ pc'[u] = pc[u]
                                        /\ (Pushing(u)' <=> Pushing(u))
                                        /\ (Popping(u)' <=> Popping(u))
         /\ l \in Labels => pc' \in [Threads -> Labels]
  BY DEF TypeOK, Goto, Pushing, Popping

(* push claims a position: its cell is free, so the queue has room, and    *)
(* nobody is still reading the cell.                                       *)
LEMMA PushCasInv ==
  ASSUME IndInv, Capacity > 1, NEW t \in Threads, PushCas(t) PROVE IndInv'
  <1> DEFINE e == enqueuePos
  <1>1. /\ dequeuePos \in Nat /\ e \in Nat /\ Capacity \in Nat \ {0}
        /\ dequeuePos <= e /\ e <= dequeuePos + Capacity
    BY QueueAssumption DEF IndInv, TypeOK, Bounded
  <1>2. /\ pc[t] = "pushCas" /\ pos[t] = e /\ enqueuePos' = e + 1
        /\ log' = Append(log, val[t]) /\ Goto(t, "write")
        /\ UNCHANGED <<dequeuePos, sequence, data, pos, val>>
    BY DEF PushCas, cells
  <1>3. ~Pushing(t) /\ ~Popping(t) /\ val[t] \in Values /\ sequence[Cell(e)] = e
    BY <1>2 DEF IndInv, ThreadOK, Pushing, Popping
  <1>4. /\ pc'[t] = "write"
        /\ \A u \in Threads : u # t => /\ pc'[u] = pc[u]
                                       /\ (Pushing(u)' <=> Pushing(u))
                                       /\ (Popping(u)' <=> Popping(u))
        /\ pc' \in [Threads -> Labels]
    <2>1. "write" \in Labels
      BY DEF Labels
    <2> QED BY <2>1, <1>2, GotoOthers DEF IndInv
  <1>5. Pushing(t)' /\ ~Popping(t)'
    BY <1>4 DEF Pushing, Popping
  <1>6. Len(log) = e /\ log \in Seq(Values)
    BY DEF IndInv, TypeOK
  <1>7. /\ log' \in Seq(Values) /\ Len(log') = e + 1 /\ log'[e + 1] = val[t]
        /\ \A i \in 1..e : log'[i] = log[i]
    BY <1>2, <1>3, <1>6, AppendProperties
  <1>8. e < dequeuePos + Capacity
    <2> SUFFICES ASSUME e = dequeuePos + Capacity PROVE FALSE
      BY <1>1
    <2>1. sequence[Cell(dequeuePos)] = e
      BY <1>1, <1>3, CellLap
    <2>2. sequence[Cell(dequeuePos)] \in {dequeuePos, dequeuePos + 1}
      BY <1>1 DEF IndInv, SequenceOK
    <2> QED BY <1>1, <2>1, <2>2
  <1>9. ~ReaderOf(e - Capacity)
    BY <1>1, <1>3, <1>8 DEF IndInv, SequenceOK
  <1>10. \A p : (WriterOf(p)' <=> WriterOf(p) \/ p = e) /\ (ReaderOf(p)' <=> ReaderOf(p))
    BY <1>2, <1>3, <1>4, <1>5 DEF WriterOf, ReaderOf
  <1>11. TypeOK'
    BY <1>1, <1>2, <1>4, <1>7 DEF IndInv, TypeOK
  <1>12. Bounded' /\ (Len(log) = enqueuePos)'
    BY <1>1, <1>2, <1>7, <1>8 DEF Bounded
  <1> HIDE DEF e
  <1>13. SequenceOK'
    <2>1. \A p \in dequeuePos..(dequeuePos + Capacity - 1) :
            sequence[Cell(p)] = IF p < e + 1
                                THEN IF WriterOf(p)' THEN p ELSE p + 1
                                ELSE IF ReaderOf(p - Capacity)' THEN p + 1 - Capacity ELSE p
      BY <1>1, <1>3, <1>10 DEF IndInv, SequenceOK, e
    <2> QED BY <2>1, <1>2 DEF SequenceOK, Cell
  <1>14. DataOK'
    <2>1. \A p \in dequeuePos..e : WriterOf(p)' \/ data[Cell(p)] = log'[p + 1]
      BY <1>1, <1>7, <1>10 DEF IndInv, DataOK, e
    <2>2. dequeuePos'..(enqueuePos' - 1) = dequeuePos..e
      BY <1>1, <1>2
    <2> QED BY <2>1, <2>2, <1>2 DEF DataOK, Cell
  <1>15. OneEach'
    <2>1. \A u \in Threads : Pushing(u) => pos[u] # e
      BY <1>1 DEF IndInv, TypeOK, ThreadOK, e
    <2> QED BY <2>1, <1>2, <1>4, <1>5 DEF IndInv, OneEach
  <1>16. ASSUME NEW u \in Threads PROVE ThreadOK(u)'
    <2>1. ThreadOK(u) /\ Cell(pos[u])' = Cell(pos[u]) /\ pos[u] \in Nat
      BY <1>2 DEF IndInv, TypeOK, Cell
    <2>2. CASE u = t
      BY <2>2, <1>1, <1>2, <1>3, <1>4, <1>5, <1>7 DEF ThreadOK
    <2>3. CASE u # t
      <3>1. Pushing(u) => log'[pos[u] + 1] = log[pos[u] + 1]
        BY <2>1, <1>1, <1>7 DEF ThreadOK, e
      <3>2. Popping(u) => log'[pos[u] + 1] = log[pos[u] + 1] /\ e + 1 - Capacity <= pos[u]
        <4> SUFFICES ASSUME Popping(u) PROVE pos[u] + 1 \in 1..e /\ e + 1 - Capacity <= pos[u]
          BY <1>7
        <4>1. e - Capacity <= pos[u] /\ pos[u] < dequeuePos
          BY <2>1 DEF ThreadOK, e
        <4>2. pos[u] # e - Capacity
          BY <1>9 DEF ReaderOf
        <4> QED BY <4>1, <4>2, <2>1, <1>1
      <3>3. pc[u] \in {"pushSeq", "pushCas"} => pos[u] <= e
        BY <2>1 DEF ThreadOK, e
      <3>4. /\ pc'[u] = pc[u] /\ pos'[u] = pos[u] /\ val'[u] = val[u]
            /\ (Pushing(u)' <=> Pushing(u)) /\ (Popping(u)' <=> Popping(u))
        BY <2>3, <1>2, <1>4
      <3>5. pc[u] = "pushCas" => pos[u] # enqueuePos'
        BY <2>1, <3>3, <1>1, <1>2
      <3>6. pc[u] \in {"pushSeq", "pushCas"} => pos[u] <= enqueuePos'
        BY <2>1, <3>3, <1>1, <1>2
      <3>7. Pushing(u)' => /\ dequeuePos' <= pos'[u] /\ pos'[u] < enqueuePos'
                           /\ log'[pos'[u] + 1] = val'[u]
                           /\ pc'[u] = "publish" => data'[Cell(pos[u])'] = val'[u]
        <4>1. Pushing(u) => pos[u] < e + 1
          BY <2>1, <1>1 DEF ThreadOK, e
        <4> QED BY <2>1, <3>1, <3>4, <4>1, <1>2 DEF ThreadOK
      <3>8. Popping(u)' => /\ enqueuePos' - Capacity <= pos'[u] /\ pos'[u] < dequeuePos'
                           /\ data'[Cell(pos[u])'] = log'[pos'[u] + 1]
                           /\ pc'[u] = "release" => val'[u] = log'[pos'[u] + 1]
        <4>1. Popping(u) => /\ pos[u] < dequeuePos /\ data[Cell(pos[u])] = log[pos[u] + 1]
                            /\ pc[u] = "release" => val[u] = log[pos[u] + 1]
          BY <2>1 DEF ThreadOK
        <4>2. enqueuePos' - Capacity = e + 1 - Capacity
          <5>1. enqueuePos' = e + 1
            BY <1>2
          <5> QED BY <5>1, <1>1
        <4>3. /\ dequeuePos' = dequeuePos /\ pos'[u] = pos[u] /\ val'[u] = val[u]
              /\ pc'[u] = pc[u] /\ Cell(pos[u])' = Cell(pos[u]) /\ data' = data
          BY <1>2, <2>1, <3>4
        <4> QED BY <3>2, <3>4, <4>1, <4>2, <4>3
      <3> QED BY <2>1, <3>4, <3>5, <3>6, <3>7, <3>8, <1>2 DEF ThreadOK
    <2> QED BY <2>2, <2>3
  <1> QED BY <1>11, <1>12, <1>13, <1>14, <1>15, <1>16 DEF IndInv

(* pop claims a position: its value is published, so the queue is not      *)
(* empty and nobody is writing the cell.                                   *)
LEMMA PopCasInv ==
  ASSUME IndInv, NEW t \in Threads, PopCas(t) PROVE IndInv'
  <1> DEFINE d == dequeuePos
  <1>1. /\ d \in Nat /\ enqueuePos \in Nat /\ Capacity \in Nat \ {0}
        /\ d <= enqueuePos /\ enqueuePos <= d + Capacity
    BY QueueAssumption DEF IndInv, TypeOK, Bounded
  <1>2. /\ pc[t] = "popCas" /\ pos[t] = d /\ dequeuePos' = d + 1 /\ Goto(t, "read")
        /\ UNCHANGED <<enqueuePos, sequence, data, pos, val, log>>
    BY DEF PopCas, cells
  <1>3. ~Pushing(t) /\ ~Popping(t) /\ sequence[Cell(d)] = d + 1
    BY <1>2 DEF IndInv, ThreadOK, Pushing, Popping
  <1>4. /\ pc'[t] = "read"
        /\ \A u \in Threads : u # t => /\ pc'[u] = pc[u]
                                       /\ (Pushing(u)' <=> Pushing(u))
                                       /\ (Popping(u)' <=> Popping(u))
        /\ pc' \in [Threads -> Labels]
    <2>1. "read" \in Labels
      BY DEF Labels
    <2> QED BY <2>1, <1>2, GotoOthers DEF IndInv
  <1>5. Popping(t)' /\ ~Pushing(t)'
    BY <1>4 DEF Pushing, Popping
  <1>6. sequence[Cell(d)] = IF d < enqueuePos
                            THEN IF WriterOf(d) THEN d ELSE d + 1
                            ELSE IF ReaderOf(d - Capacity) THEN d + 1 - Capacity ELSE d
    BY <1>1 DEF IndInv, SequenceOK
  <1>7. d < enqueuePos /\ ~WriterOf(d)
    BY <1>1, <1>3, <1>6
  <1>8. data[Cell(d)] = log[d + 1]
    BY <1>1, <1>7 DEF IndInv, DataOK
  <1>9. \A p : (WriterOf(p)' <=> WriterOf(p)) /\ (ReaderOf(p)' <=> ReaderOf(p) \/ p = d)
    BY <1>2, <1>3, <1>4, <1>5 DEF WriterOf, ReaderOf
  <1>10. TypeOK'
    BY <1>1, <1>2, <1>4 DEF IndInv, TypeOK
  <1>11. Bounded' /\ (Len(log) = enqueuePos)'
    BY <1>1, <1>2, <1>7 DEF IndInv, Bounded
  <1> HIDE DEF d
  <1>12. SequenceOK'
    <2>1. Cell(d + Capacity) = Cell(d)
      <3>1. d \in Int
        BY <1>1
      <3> QED BY <3>1, CellLap
    <2>2. ASSUME NEW p \in (d + 1)..(d + 1 + Capacity - 1)
          PROVE  sequence[Cell(p)] = IF p < enqueuePos
                                     THEN IF WriterOf(p)' THEN p ELSE p + 1
                                     ELSE IF ReaderOf(p - Capacity)' THEN p + 1 - Capacity
                                          ELSE p
      <3>1. CASE p = d + Capacity
        <4>1. p - Capacity = d /\ ~(p < enqueuePos) /\ p + 1 - Capacity = d + 1
          BY <3>1, <1>1
        <4>2. Cell(p) = Cell(d) /\ ReaderOf(p - Capacity)'
          BY <3>1, <4>1, <2>1, <1>9
        <4> QED BY <4>1, <4>2, <1>3
      <3>2. CASE p # d + Capacity
        <4>1. p \in d..(d + Capacity - 1) /\ p - Capacity # d
          BY <3>2, <1>1
        <4> QED BY <4>1, <1>9 DEF IndInv, SequenceOK, d
      <3> QED BY <3>1, <3>2
    <2> QED BY <2>2, <1>2 DEF SequenceOK, Cell
  <1>13. DataOK'
    <2>1. \A p \in (d + 1)..(enqueuePos - 1) : WriterOf(p)' \/ data[Cell(p)] = log[p + 1]
      BY <1>1, <1>9 DEF IndInv, DataOK, d
    <2> QED BY <2>1, <1>2 DEF DataOK, Cell
  <1>14. OneEach'
    <2>1. \A u \in Threads : Popping(u) => pos[u] # d
      BY <1>1 DEF IndInv, TypeOK, ThreadOK, d
    <2> QED BY <2>1, <1>2, <1>4, <1>5 DEF IndInv, OneEach
  <1>15. ASSUME NEW u \in Threads PROVE ThreadOK(u)'
    <2>1. ThreadOK(u) /\ Cell(pos[u])' = Cell(pos[u]) /\ pos[u] \in Nat
      BY <1>2 DEF IndInv, TypeOK, Cell
    <2>2. CASE u = t
      BY <2>2, <1>1, <1>2, <1>3, <1>4, <1>5, <1>8 DEF ThreadOK, Cell
    <2>3. CASE u # t
      <3>1. Pushing(u) => d + 1 <= pos[u]
        <4> SUFFICES ASSUME Pushing(u) PROVE d <= pos[u] /\ pos[u] # d
          BY <2>1, <1>1
        <4> QED BY <2>1, <1>7 DEF ThreadOK, WriterOf, d
      <3>2. Popping(u) => pos[u] < d + 1
        BY <2>1, <1>1 DEF ThreadOK, d
      <3>3. pc[u] \in {"popSeq", "popCas"} => pos[u] <= d
        BY <2>1 DEF ThreadOK, d
      <3> QED BY <2>1, <2>3, <3>1, <3>2, <3>3, <1>1, <1>2, <1>4 DEF ThreadOK, d
    <2> QED BY <2>2, <2>3
  <1> QED BY <1>10, <1>11, <1>12, <1>13, <1>14, <1>15 DEF IndInv

-----------------------------------------------------------------------------
(* Invariants *)

(* Every step, of whatever thread, leaves the inductive invariant true.    *)
LEMMA NextInv == ASSUME Capacity > 1, IndInv, [Next]_vars PROVE IndInv'
  <1>1. CASE UNCHANGED vars
    BY <1>1 DEF IndInv, TypeOK, Bounded, SequenceOK, DataOK, OneEach, ThreadOK,
                WriterOf, ReaderOf, Pushing, Popping, Cell, vars, cells
  <1>2. ASSUME NEW t \in Threads,
               (\E v \in Values : BeginPush(t, v)) \/ BeginPop(t) \/ Step(t)
        PROVE  IndInv'
    BY <1>2, BeginInv, SeqInv, CasFailsInv, ReadInv, WriteInv, PublishInv, ReleaseInv,
       PushCasInv, PopCasInv DEF Step, Push, Pop
  <1> QED BY <1>1, <1>2 DEF Next

(* The inductive invariant holds of every run, for every number of         *)
(* threads and every capacity above one; with a capacity of one a cell     *)
(* that is published looks free for the next push.                         *)
THEOREM Inductive == ASSUME Capacity > 1 PROVE Spec => []IndInv
  BY InitInv, NextInv, PTL DEF Spec

(* No two calls are ever inside the same cell.                             *)
THEOREM ClaimsExclude == ASSUME Capacity > 1 PROVE Spec => []CellsExclusive
  <1>1. IndInv => CellsExclusive
    BY ClaimsApart DEF CellsExclusive
  <1> QED BY <1>1, Inductive, PTL

(* A pop returns the value pushed at its position, so values leave in the  *)
(* order they entered, each once.                                          *)
THEOREM FIFO == ASSUME Capacity > 1 PROVE Spec => []PopsInOrder
  <1>1. IndInv => PopsInOrder
    <2> SUFFICES ASSUME IndInv, NEW t \in Threads, Popping(t)
                 PROVE  pos[t] < Len(log) /\ (pc[t] = "release" => val[t] = log[pos[t] + 1])
      BY DEF PopsInOrder, Popping
    <2> QED BY DEF IndInv, TypeOK, Bounded, ThreadOK
  <1> QED BY <1>1, Inductive, PTL
-----------------------------------------------------------------------------
(* The refinement of WeakQueue *)

(* What the abstract queue is at each moment: the values pushed and not    *)
(* yet popped, and the calls.                                              *)
Content == SubSeq(log, dequeuePos + 1, enqueuePos)
Calls   == [t \in Threads |-> Call(t)]

(* The abstract call of a thread, by where it is.                          *)
CallIs(t) ==
  /\ pc[t] = "idle" => Call(t) = [op |-> "idle", val |-> None]
  /\ pc[t] \in {"pushPos", "pushSeq", "pushCas"} => Call(t) = [op |-> "push", val |-> val[t]]
  /\ pc[t] \in {"write", "publish"} => Call(t) = [op |-> "put", val |-> val[t]]
  /\ pc[t] \in {"popPos", "popSeq", "popCas"} => Call(t) = [op |-> "pop", val |-> None]
  /\ pc[t] = "read" => Call(t) = [op |-> "took", val |-> log[pos[t] + 1]]
  /\ pc[t] = "release" => Call(t) = [op |-> "took", val |-> val[t]]

(* The abstract call, now and after a step.                                *)
LEMMA CallNow == ASSUME NEW t \in Threads PROVE CallIs(t) /\ CallIs(t)'
  <1>1. CallIs(t)
    BY DEF CallIs, Call, Pushing
  <1>2. CallIs(t)'
    BY DEF CallIs, Call, Pushing
  <1> QED BY <1>1, <1>2

(* The call of a thread that does not move stays the same, also when the   *)
(* log grows.                                                              *)
LEMMA CallStable ==
  ASSUME IndInv, NEW u \in Threads, pc'[u] = pc[u], pos'[u] = pos[u], val'[u] = val[u],
         \A i \in 1..Len(log) : log'[i] = log[i]
  PROVE  Call(u)' = Call(u)
  <1>1. pc[u] = "read" => log'[pos[u] + 1] = log[pos[u] + 1]
    BY DEF IndInv, TypeOK, ThreadOK, Popping, Bounded
  <1>2. CallIs(u) /\ CallIs(u)' /\ pc[u] \in Labels
    BY CallNow DEF IndInv, TypeOK
  <1> QED BY <1>1, <1>2 DEF CallIs, Labels

(* A step of one thread changes no other thread's call.                    *)
LEMMA CallsStep ==
  ASSUME NEW t \in Threads, \A u \in Threads : u # t => Call(u)' = Call(u)
  PROVE  Calls' = [Calls EXCEPT ![t] = Call(t)'] /\ Calls[t] = Call(t)
  BY DEF Calls

(* The length of the abstract queue, its values and its head.              *)
LEMMA ContentIs ==
  ASSUME IndInv
  PROVE  /\ Content \in Seq(Values) /\ Len(Content) = enqueuePos - dequeuePos
         /\ \A i \in 1..(enqueuePos - dequeuePos) : Content[i] = log[dequeuePos + i]
         /\ Content = <<>> <=> enqueuePos = dequeuePos
  <1>1. /\ dequeuePos \in Nat /\ enqueuePos \in Nat /\ dequeuePos <= enqueuePos
        /\ log \in Seq(Values) /\ Len(log) = enqueuePos
    BY DEF IndInv, TypeOK, Bounded
  <1>2. /\ Content \in Seq(Values) /\ Len(Content) = enqueuePos - dequeuePos
        /\ \A i \in 1..(enqueuePos - dequeuePos) : Content[i] = log[dequeuePos + i]
    <2>1. /\ dequeuePos + 1 \in 1..(Len(log) + 1)
          /\ enqueuePos \in (dequeuePos + 1 - 1)..Len(log)
      BY <1>1
    <2>2. /\ Content \in Seq(Values)
          /\ Len(Content) = enqueuePos - (dequeuePos + 1) + 1
          /\ \A i \in 1..(enqueuePos - (dequeuePos + 1) + 1) :
               Content[i] = log[dequeuePos + 1 + i - 1]
      BY <1>1, <2>1, SubSeqProperties DEF Content
    <2>3. enqueuePos - (dequeuePos + 1) + 1 = enqueuePos - dequeuePos
      BY <1>1
    <2>4. \A i \in 1..(enqueuePos - dequeuePos) : dequeuePos + 1 + i - 1 = dequeuePos + i
      BY <1>1
    <2> QED BY <2>2, <2>3, <2>4
  <1> QED BY <1>1, <1>2, EmptySeq

(* A push that claims its position adds its value at the end.              *)
LEMMA ContentPush ==
  ASSUME IndInv, NEW v \in Values, log' = Append(log, v),
         dequeuePos' = dequeuePos, enqueuePos' = enqueuePos + 1
  PROVE  Content' = Append(Content, v)
  <1> DEFINE n == enqueuePos - dequeuePos
  <1>1. /\ dequeuePos \in Nat /\ enqueuePos \in Nat /\ n \in Nat
        /\ log \in Seq(Values) /\ Len(log) = enqueuePos
    BY DEF IndInv, TypeOK, Bounded
  <1>2. /\ log' \in Seq(Values) /\ Len(log') = enqueuePos + 1 /\ log'[enqueuePos + 1] = v
        /\ \A i \in 1..enqueuePos : log'[i] = log[i]
    BY <1>1, AppendProperties
  <1>3. /\ Content' \in Seq(Values) /\ Len(Content') = n + 1
        /\ \A i \in 1..(n + 1) : Content'[i] = log'[dequeuePos + i]
    <2>1. /\ dequeuePos + 1 \in 1..(Len(log') + 1)
          /\ enqueuePos + 1 \in (dequeuePos + 1 - 1)..Len(log')
      BY <1>1, <1>2
    <2>2. Content' = SubSeq(log', dequeuePos + 1, enqueuePos + 1)
      BY DEF Content
    <2>3. /\ Content' \in Seq(Values)
          /\ Len(Content') = enqueuePos + 1 - (dequeuePos + 1) + 1
          /\ \A i \in 1..(enqueuePos + 1 - (dequeuePos + 1) + 1) :
               Content'[i] = log'[dequeuePos + 1 + i - 1]
      BY <1>1, <1>2, <2>1, <2>2, SubSeqProperties
    <2>4. enqueuePos + 1 - (dequeuePos + 1) + 1 = n + 1
      BY <1>1
    <2>5. \A i \in 1..(n + 1) : dequeuePos + 1 + i - 1 = dequeuePos + i
      BY <1>1
    <2> QED BY <2>3, <2>4, <2>5
  <1>4. /\ Content \in Seq(Values) /\ Len(Content) = n
        /\ \A i \in 1..n : Content[i] = log[dequeuePos + i]
    BY ContentIs
  <1> HIDE DEF n
  <1>5. /\ Append(Content, v) \in Seq(Values) /\ Len(Append(Content, v)) = n + 1
        /\ \A i \in 1..n : Append(Content, v)[i] = log[dequeuePos + i]
        /\ Append(Content, v)[n + 1] = v
    BY <1>4, AppendProperties
  <1>6. ASSUME NEW i \in 1..(n + 1) PROVE Content'[i] = Append(Content, v)[i]
    <2>1. CASE i \in 1..n
      <3>1. dequeuePos + i \in 1..enqueuePos
        BY <2>1, <1>1 DEF n
      <3>2. log'[dequeuePos + i] = log[dequeuePos + i]
        BY <3>1, <1>2
      <3> QED BY <2>1, <3>2, <1>3, <1>5
    <2>2. CASE i = n + 1
      <3>1. dequeuePos + i = enqueuePos + 1
        BY <2>2, <1>1 DEF n
      <3> QED BY <2>2, <3>1, <1>2, <1>3, <1>5
    <2>3. i \in 1..n \/ i = n + 1
      <3>1. n \in Nat
        BY <1>1
      <3> QED BY <3>1
    <2> QED BY <2>1, <2>2, <2>3
  <1> QED BY <1>3, <1>5, <1>6, SeqEqual

(* A pop that claims its position removes the value at the head.           *)
LEMMA ContentPop ==
  ASSUME IndInv, dequeuePos < enqueuePos, log' = log,
         dequeuePos' = dequeuePos + 1, enqueuePos' = enqueuePos
  PROVE  Content # <<>> /\ Head(Content) = log[dequeuePos + 1] /\ Content' = Tail(Content)
  <1>1. /\ dequeuePos \in Nat /\ enqueuePos \in Nat
        /\ log \in Seq(Values) /\ Len(log) = enqueuePos
    BY DEF IndInv, TypeOK, Bounded
  <1>2. dequeuePos + 1 \in 1..Len(log) /\ enqueuePos \in (dequeuePos + 1)..Len(log)
    BY <1>1
  <1>3. /\ Head(Content) = log[dequeuePos + 1]
        /\ Tail(Content) = SubSeq(log, dequeuePos + 1 + 1, enqueuePos)
    BY <1>1, <1>2, HeadTailOfSubSeq DEF Content
  <1>4. Content # <<>>
    BY <1>1, ContentIs
  <1> QED BY <1>3, <1>4 DEF Content

(* push returns false only when the queue is full or a pop is half done:   *)
(* a position read long ago never finds a sequence below it.               *)
LEMMA FullMeans ==
  ASSUME IndInv, NEW t \in Threads, PushFull(t)
  PROVE  enqueuePos = dequeuePos + Capacity \/ \E u \in Threads : Popping(u)
  <1>1. /\ dequeuePos \in Nat /\ enqueuePos \in Nat /\ Capacity \in Nat \ {0}
        /\ dequeuePos <= enqueuePos /\ enqueuePos <= dequeuePos + Capacity
        /\ pos[t] \in Nat /\ pos[t] <= enqueuePos
    BY QueueAssumption DEF IndInv, TypeOK, Bounded, ThreadOK, PushFull
  <1>2. sequence[Cell(pos[t])] < pos[t]
    BY DEF PushFull
  <1>3. CASE pos[t] < dequeuePos
    <2>1. PICK q \in dequeuePos..(dequeuePos + Capacity - 1) :
            Cell(q) = Cell(pos[t]) /\ pos[t] + Capacity <= q
      <3>1. pos[t] \in Int /\ dequeuePos \in Int
        BY <1>1
      <3> QED BY <3>1, <1>3, NextLap
    <2>2. sequence[Cell(q)] \in {q, q + 1, q + 1 - Capacity}
      BY DEF IndInv, SequenceOK
    <2> QED BY <2>1, <2>2, <1>1, <1>2
  <1>4. CASE dequeuePos <= pos[t] /\ pos[t] < dequeuePos + Capacity
    <2>1. sequence[Cell(pos[t])] = IF pos[t] < enqueuePos
                                   THEN IF WriterOf(pos[t]) THEN pos[t] ELSE pos[t] + 1
                                   ELSE IF ReaderOf(pos[t] - Capacity)
                                        THEN pos[t] + 1 - Capacity ELSE pos[t]
      BY <1>1, <1>4 DEF IndInv, SequenceOK
    <2>2. ReaderOf(pos[t] - Capacity)
      BY <2>1, <1>1, <1>2
    <2> QED BY <2>2 DEF ReaderOf
  <1>5. CASE pos[t] = dequeuePos + Capacity
    BY <1>1, <1>5
  <1> QED BY <1>1, <1>3, <1>4, <1>5

(* pop returns false only when the queue is empty or a push is half done.  *)
LEMMA EmptyMeans ==
  ASSUME IndInv, NEW t \in Threads, PopEmpty(t)
  PROVE  enqueuePos = dequeuePos \/ \E u \in Threads : Pushing(u)
  <1>1. /\ dequeuePos \in Nat /\ enqueuePos \in Nat /\ Capacity \in Nat \ {0}
        /\ dequeuePos <= enqueuePos /\ enqueuePos <= dequeuePos + Capacity
        /\ pos[t] \in Nat /\ pos[t] <= dequeuePos
    BY QueueAssumption DEF IndInv, TypeOK, Bounded, ThreadOK, PopEmpty
  <1>2. sequence[Cell(pos[t])] < pos[t] + 1
    BY DEF PopEmpty
  <1>3. CASE pos[t] < dequeuePos
    <2>1. PICK q \in dequeuePos..(dequeuePos + Capacity - 1) :
            Cell(q) = Cell(pos[t]) /\ pos[t] + Capacity <= q
      <3>1. pos[t] \in Int /\ dequeuePos \in Int
        BY <1>1
      <3> QED BY <3>1, <1>3, NextLap
    <2>2. sequence[Cell(q)] \in {q, q + 1, q + 1 - Capacity}
      BY DEF IndInv, SequenceOK
    <2> QED BY <2>1, <2>2, <1>1, <1>2
  <1>4. CASE pos[t] = dequeuePos /\ dequeuePos < enqueuePos
    <2>1. sequence[Cell(pos[t])] = IF WriterOf(pos[t]) THEN pos[t] ELSE pos[t] + 1
      BY <1>1, <1>4 DEF IndInv, SequenceOK
    <2>2. WriterOf(pos[t])
      BY <2>1, <1>1, <1>2
    <2> QED BY <2>2 DEF WriterOf
  <1> QED BY <1>1, <1>3, <1>4

(* A step of one thread leaves the others, and what is in the log, alone.  *)
LEMMA OthersStay ==
  ASSUME IndInv, NEW t \in Threads, NEW u \in Threads, u # t,
         (\E v \in Values : BeginPush(t, v)) \/ BeginPop(t) \/ Step(t)
  PROVE  Call(u)' = Call(u)
  <1> USE DEF IndInv, TypeOK, Goto, Return
  <1>1. CASE (\E v \in Values : BeginPush(t, v)) \/ BeginPop(t)
    BY <1>1, CallStable DEF BeginPush, BeginPop
  <1>2. CASE PushPos(t) \/ PushSeq(t) \/ PushCasFails(t)
    BY <1>2, CallStable DEF PushPos, PushSeq, PushCasFails
  <1>3. CASE PopPos(t) \/ PopSeq(t) \/ PopCasFails(t)
    BY <1>3, CallStable DEF PopPos, PopSeq, PopCasFails
  <1>4. CASE Write(t) \/ Publish(t) \/ PushFull(t)
    BY <1>4, CallStable DEF Write, Publish, PushFull
  <1>5. CASE Read(t) \/ Release(t) \/ PopEmpty(t)
    BY <1>5, CallStable DEF Read, Release, PopEmpty
  <1>6. CASE PopCas(t)
    BY <1>6, CallStable DEF PopCas
  <1>7. CASE PushCas(t)
    <2>1. pc'[u] = pc[u] /\ pos'[u] = pos[u] /\ val'[u] = val[u]
      BY <1>7 DEF PushCas
    <2>2. val[t] \in Values /\ log' = Append(log, val[t]) /\ log \in Seq(Values)
      BY <1>7 DEF PushCas, ThreadOK
    <2>3. \A i \in 1..Len(log) : log'[i] = log[i]
      BY <2>2, AppendProperties
    <2> QED BY <2>1, <2>3, CallStable
  <1> QED BY <1>1, <1>2, <1>3, <1>4, <1>5, <1>6, <1>7 DEF Step, Push, Pop

(* The steps on the way to the CAS, and the copies of the data, are        *)
(* invisible: the abstract queue and the abstract calls stay the same.     *)
LEMMA InvisibleStep ==
  ASSUME IndInv, NEW t \in Threads,
         \/ PushPos(t) \/ PushSeq(t) \/ PushCasFails(t) \/ Write(t)
         \/ PopPos(t) \/ PopSeq(t) \/ PopCasFails(t) \/ Read(t)
  PROVE  Content' = Content /\ Call(t)' = Call(t)
  <1>1. Content' = Content
    BY DEF Content, PushPos, PushSeq, PushCasFails, Write, PopPos, PopSeq, PopCasFails, Read
  <1>2. CallIs(t) /\ CallIs(t)' /\ pc \in [Threads -> Labels] /\ val \in [Threads -> ValueOrNone]
    BY CallNow DEF IndInv, TypeOK
  <1>3. CASE PushPos(t) \/ PushSeq(t) \/ PushCasFails(t)
    <2>1. /\ pc[t] \in {"pushPos", "pushSeq", "pushCas"}
          /\ pc'[t] \in {"pushPos", "pushSeq", "pushCas"} /\ val'[t] = val[t]
      BY <1>2, <1>3 DEF PushPos, PushSeq, PushCasFails, Goto
    <2> QED BY <2>1, <1>1, <1>2 DEF CallIs
  <1>4. CASE PopPos(t) \/ PopSeq(t) \/ PopCasFails(t)
    <2>1. /\ pc[t] \in {"popPos", "popSeq", "popCas"}
          /\ pc'[t] \in {"popPos", "popSeq", "popCas"}
      BY <1>2, <1>4 DEF PopPos, PopSeq, PopCasFails, Goto
    <2> QED BY <2>1, <1>1, <1>2 DEF CallIs
  <1>5. CASE Write(t)
    <2>1. pc[t] = "write" /\ pc'[t] = "publish" /\ val'[t] = val[t]
      BY <1>2, <1>5 DEF Write, Goto
    <2> QED BY <2>1, <1>1, <1>2 DEF CallIs
  <1>6. CASE Read(t)
    <2>1. /\ pc[t] = "read" /\ pc'[t] = "release"
          /\ val'[t] = data[Cell(pos[t])]
      BY <1>2, <1>6 DEF Read, Goto
    <2>2. data[Cell(pos[t])] = log[pos[t] + 1]
      BY <2>1 DEF IndInv, ThreadOK, Popping
    <2> QED BY <2>1, <2>2, <1>1, <1>2 DEF CallIs
  <1> QED BY <1>1, <1>3, <1>4, <1>5, <1>6

(* Every step of the queue is a step of WeakQueue or none: the call begins *)
(* with its first step, takes effect at its CAS, and ends with its return. *)
LEMMA RefineStep ==
  ASSUME IndInv, Capacity > 1, NEW t \in Threads,
         (\E v \in Values : BeginPush(t, v)) \/ BeginPop(t) \/ Step(t)
  PROVE  Abstract!Next \/ UNCHANGED Abstract!vars
  <1>1. \A u \in Threads : u # t => Call(u)' = Call(u)
    BY OthersStay
  <1>2. Calls' = [Calls EXCEPT ![t] = Call(t)'] /\ Calls[t] = Call(t)
    BY <1>1, CallsStep
  <1>3. CallIs(t) /\ CallIs(t)' /\ pc \in [Threads -> Labels] /\ val \in [Threads -> ValueOrNone]
    BY CallNow DEF IndInv, TypeOK
  <1>4. CASE \E v \in Values : BeginPush(t, v)
    <2>1. PICK v \in Values : BeginPush(t, v)
      BY <1>4
    <2>2. /\ Call(t) = [op |-> "idle", val |-> None] /\ Call(t)' = [op |-> "push", val |-> v]
          /\ Content' = Content
      BY <2>1, <1>3 DEF BeginPush, Goto, CallIs, Content
    <2>3. Abstract!InvokePush(t, v)
      BY <2>2, <1>2 DEF Abstract!InvokePush, Abstract!Becomes, Abstract!Idle, Content, Calls
    <2> QED BY <2>3 DEF Abstract!Next
  <1>5. CASE BeginPop(t)
    <2>1. /\ Call(t) = [op |-> "idle", val |-> None] /\ Call(t)' = [op |-> "pop", val |-> None]
          /\ Content' = Content
      BY <1>5, <1>3 DEF BeginPop, Goto, CallIs, Content
    <2>2. Abstract!InvokePop(t)
      BY <2>1, <1>2 DEF Abstract!InvokePop, Abstract!Becomes, Abstract!Idle, Content, Calls
    <2> QED BY <2>2 DEF Abstract!Next
  <1>6. CASE \/ PushPos(t) \/ PushSeq(t) \/ PushCasFails(t) \/ Write(t)
             \/ PopPos(t) \/ PopSeq(t) \/ PopCasFails(t) \/ Read(t)
    <2>1. Content' = Content /\ Calls' = Calls
      BY <1>1, <1>6, InvisibleStep DEF Calls
    <2> QED BY <2>1 DEF Abstract!vars, Content, Calls
  <1>7. CASE PushCas(t)
    <2>1. /\ enqueuePos' = enqueuePos + 1 /\ dequeuePos' = dequeuePos
          /\ log' = Append(log, val[t]) /\ val[t] \in Values
          /\ Call(t) = [op |-> "push", val |-> val[t]]
          /\ Call(t)' = [op |-> "put", val |-> val[t]]
      BY <1>3, <1>7 DEF PushCas, Goto, CallIs, IndInv, ThreadOK
    <2>2. Content' = Append(Content, val[t])
      BY <2>1, ContentPush
    <2>3. Len(Content) < Capacity
      <3>1. enqueuePos' <= dequeuePos' + Capacity
        BY <1>7, PushCasInv DEF IndInv, Bounded
      <3> QED BY <3>1, <2>1, ContentIs, QueueAssumption DEF IndInv, TypeOK
    <2>4. /\ Calls[t].op = "push" /\ Content' = Append(Content, Calls[t].val)
          /\ Calls' = [Calls EXCEPT ![t] = [Calls[t] EXCEPT !.op = "put"]]
      <3>1. Calls[t] = [op |-> "push", val |-> val[t]]
        BY <2>1, <1>2
      <3>2. [Calls[t] EXCEPT !.op = "put"] = [op |-> "put", val |-> val[t]]
        BY <3>1
      <3>3. Calls[t].op = "push" /\ Calls[t].val = val[t]
        BY <3>1
      <3>4. Calls' = [Calls EXCEPT ![t] = [op |-> "put", val |-> val[t]]]
        BY <2>1, <1>2
      <3>5. Calls' = [Calls EXCEPT ![t] = [Calls[t] EXCEPT !.op = "put"]]
        BY <3>2, <3>4, Zenon
      <3> QED BY <2>2, <3>3, <3>5, Zenon
    <2>5. Abstract!Put(t)
      BY <2>3, <2>4 DEF Abstract!Put, Abstract!Becomes, Content, Calls
    <2> QED BY <2>5 DEF Abstract!Next
  <1>8. CASE PopCas(t)
    <2>1. /\ dequeuePos' = dequeuePos + 1 /\ enqueuePos' = enqueuePos /\ log' = log
          /\ pos[t] = dequeuePos /\ pos' = pos
          /\ Call(t) = [op |-> "pop", val |-> None]
          /\ Call(t)' = [op |-> "took", val |-> log[dequeuePos + 1]]
      BY <1>3, <1>8 DEF PopCas, Goto, CallIs
    <2>2. dequeuePos < enqueuePos
      <3>1. dequeuePos' <= enqueuePos'
        BY <1>8, PopCasInv DEF IndInv, Bounded
      <3> QED BY <3>1, <2>1 DEF IndInv, TypeOK
    <2>3. /\ Content # <<>> /\ Head(Content) = log[dequeuePos + 1]
          /\ Content' = Tail(Content)
      BY <2>1, <2>2, ContentPop
    <2>4. /\ Calls[t].op = "pop"
          /\ Calls' = [Calls EXCEPT ![t] = [op |-> "took", val |-> Head(Content)]]
      <3>1. Calls[t] = [op |-> "pop", val |-> None]
        BY <2>1, <1>2
      <3>2. Call(t)' = [op |-> "took", val |-> Head(Content)]
        BY <2>1, <2>3
      <3> QED BY <3>1, <3>2, <1>2
    <2>5. Abstract!Take(t)
      BY <2>3, <2>4 DEF Abstract!Take, Abstract!Becomes, Content, Calls
    <2> QED BY <2>5 DEF Abstract!Next
  <1>9. CASE Publish(t) \/ Release(t)
    <2>1. /\ Call(t).op \in {"put", "took"} /\ Call(t)' = [op |-> "idle", val |-> None]
          /\ Content' = Content
      <3>1. /\ pc[t] \in {"publish", "release"} /\ Return(t)
            /\ UNCHANGED <<enqueuePos, dequeuePos, log>>
        BY <1>9 DEF Publish, Release
      <3>2. pc'[t] = "idle"
        BY <3>1, <1>3 DEF Return, Goto
      <3> QED BY <3>1, <3>2, <1>3 DEF CallIs, Content
    <2>2. Abstract!Done(t)
      BY <2>1, <1>2 DEF Abstract!Done, Abstract!Becomes, Abstract!Idle, Content, Calls
    <2> QED BY <2>2 DEF Abstract!Next
  <1>10. CASE PushFull(t)
    <2>1. /\ Call(t).op = "push" /\ Call(t)' = [op |-> "idle", val |-> None]
          /\ Content' = Content
      BY <1>3, <1>10 DEF PushFull, Return, Goto, CallIs, Content
    <2>2. Len(Content) = Capacity \/ \E u \in Threads : Calls[u].op = "took"
      <3>1. CASE enqueuePos = dequeuePos + Capacity
        BY <3>1, ContentIs, QueueAssumption DEF IndInv, TypeOK
      <3>2. ASSUME NEW u \in Threads, Popping(u) PROVE Calls[u].op = "took"
        BY <3>2, CallNow DEF CallIs, Popping, Calls
      <3> QED BY <1>10, <3>1, <3>2, FullMeans
    <2>3. Abstract!GiveUpPush(t)
      BY <2>1, <2>2, <1>2 DEF Abstract!GiveUpPush, Abstract!Becomes, Abstract!Idle,
                              Content, Calls
    <2> QED BY <2>3 DEF Abstract!Next
  <1>11. CASE PopEmpty(t)
    <2>1. /\ Call(t).op = "pop" /\ Call(t)' = [op |-> "idle", val |-> None]
          /\ Content' = Content
      BY <1>3, <1>11 DEF PopEmpty, Return, Goto, CallIs, Content
    <2>2. Content = <<>> \/ \E u \in Threads : Calls[u].op = "put"
      <3>1. CASE enqueuePos = dequeuePos
        BY <3>1, ContentIs
      <3>2. ASSUME NEW u \in Threads, Pushing(u) PROVE Calls[u].op = "put"
        BY <3>2, CallNow DEF CallIs, Pushing, Calls
      <3> QED BY <1>11, <3>1, <3>2, EmptyMeans
    <2>3. Abstract!GiveUpPop(t)
      BY <2>1, <2>2, <1>2 DEF Abstract!GiveUpPop, Abstract!Becomes, Abstract!Idle,
                              Content, Calls
    <2> QED BY <2>3 DEF Abstract!Next
  <1> QED BY <1>4, <1>5, <1>6, <1>7, <1>8, <1>9, <1>10, <1>11 DEF Step, Push, Pop

(* The queue implements WeakQueue: each push and pop takes effect at once, *)
(* in first-in first-out order, or gives up with a reason.                 *)
THEOREM Linearizable == ASSUME Capacity > 1 PROVE Spec => Refinement
  <1>1. Init => Abstract!Init
    <2> SUFFICES ASSUME Init PROVE Abstract!Init
      OBVIOUS
    <2>1. Content = <<>>
      BY InitInv, ContentIs DEF Init
    <2>2. \A t \in Threads : Call(t) = [op |-> "idle", val |-> None]
      BY CallNow DEF Init, CallIs
    <2> QED BY <2>1, <2>2 DEF Abstract!Init, Abstract!Idle, Content
  <1>2. IndInv /\ [Next]_vars => [Abstract!Next]_(Abstract!vars)
    <2> SUFFICES ASSUME IndInv, [Next]_vars PROVE Abstract!Next \/ UNCHANGED Abstract!vars
      OBVIOUS
    <2>1. CASE UNCHANGED vars
      BY <2>1 DEF vars, cells, Abstract!vars, Call, Pushing
    <2>2. CASE Next
      BY <2>2, RefineStep DEF Next
    <2> QED BY <2>1, <2>2
  <1> QED BY <1>1, <1>2, Inductive, PTL DEF Spec, Refinement, Abstract!Spec
=============================================================================
