--------------------------- MODULE LockFreeQueue ---------------------------
(***************************************************************************)
(* LockFreeQueue.h: the bounded queue of many producers and consumers.     *)
(* Positions count pushes and pops for ever; position p uses cell          *)
(* p & m_mask, whose sequence says whose turn it is: p, the push of p may  *)
(* have the cell; p + 1, the pop of p may.                                 *)
(*                                                                         *)
(* Every access to shared memory is a step: the load of a position, the    *)
(* load of a sequence with the decision taken on it, the CAS, the copy of  *)
(* the data, the store of the sequence.  A failed CAS leaves pos as it     *)
(* was: the loop goes on with the sequence, not with a new position.       *)
(*                                                                         *)
(* `log` is a history variable, the values in the order of their           *)
(* positions: what the queue should deliver.                               *)
(***************************************************************************)
EXTENDS Integers, Sequences

CONSTANTS Threads,    \* the threads that call push and pop
          Values,     \* what they push
          None,       \* no value; what an unused cell or local holds
          Capacity,   \* the constructor's argument, a power of two
          MaxPos      \* bound: no push starts once m_enqueuePos has reached MaxPos

ASSUME QueueAssumption == /\ Capacity \in Nat \ {0}
                          /\ MaxPos \in Nat
                          /\ None \notin Values

VARIABLES enqueuePos, dequeuePos,
          sequence, data,     \* the fields of each Cell
          pc, pos, val,       \* each thread: where it is, pos, value or outValue
          log

cells == <<sequence, data>>
vars  == <<enqueuePos, dequeuePos, sequence, data, pc, pos, val, log>>

(* pos & m_mask, for a capacity that is a power of two *)
Cell(p) == p % Capacity

Init == /\ enqueuePos = 0 /\ dequeuePos = 0
        /\ sequence = [i \in 0..(Capacity - 1) |-> i]
        /\ data = [i \in 0..(Capacity - 1) |-> None]
        /\ pc = [t \in Threads |-> "idle"]
        /\ pos = [t \in Threads |-> 0]
        /\ val = [t \in Threads |-> None]
        /\ log = <<>>

Goto(t, label) == pc' = [pc EXCEPT ![t] = label]

Return(t) == /\ Goto(t, "idle")
             /\ pos' = [pos EXCEPT ![t] = 0]
             /\ val' = [val EXCEPT ![t] = None]

-----------------------------------------------------------------------------
(* push *)

BeginPush(t, v) == /\ pc[t] = "idle"
                   /\ enqueuePos < MaxPos
                   /\ val' = [val EXCEPT ![t] = v]
                   /\ Goto(t, "pushPos")
                   /\ UNCHANGED <<enqueuePos, dequeuePos, cells, pos, log>>

PushPos(t) == /\ pc[t] = "pushPos"
              /\ pos' = [pos EXCEPT ![t] = enqueuePos]
              /\ Goto(t, "pushSeq")
              /\ UNCHANGED <<enqueuePos, dequeuePos, cells, val, log>>

(* diff = 0: the cell is ours if the CAS says so; diff > 0: another        *)
(* producer has it.                                                        *)
PushSeq(t) == LET diff == sequence[Cell(pos[t])] - pos[t] IN
              /\ pc[t] = "pushSeq"
              /\ diff >= 0
              /\ Goto(t, IF diff = 0 THEN "pushCas" ELSE "pushPos")
              /\ UNCHANGED <<enqueuePos, dequeuePos, cells, pos, val, log>>

(* diff < 0: return false *)
PushFull(t) == /\ pc[t] = "pushSeq"
               /\ sequence[Cell(pos[t])] < pos[t]
               /\ Return(t)
               /\ UNCHANGED <<enqueuePos, dequeuePos, cells, log>>

(* Mutant: the position is stored without a comparison. *)
PushStore(t) == /\ pc[t] = "pushCas"
                /\ enqueuePos' = pos[t] + 1
                /\ log' = Append(log, val[t])
                /\ Goto(t, "write")
                /\ UNCHANGED <<dequeuePos, cells, pos, val>>

PushCas(t) == /\ pc[t] = "pushCas"
              /\ enqueuePos = pos[t]
              /\ enqueuePos' = pos[t] + 1
              /\ log' = Append(log, val[t])
              /\ Goto(t, "write")
              /\ UNCHANGED <<dequeuePos, cells, pos, val>>

PushCasFails(t) == /\ pc[t] = "pushCas"
                   /\ enqueuePos # pos[t]
                   /\ Goto(t, "pushSeq")
                   /\ UNCHANGED <<enqueuePos, dequeuePos, cells, pos, val, log>>

(* Mutant: the sequence is raised before the data is written. *)
WriteAfterPublish(t) == /\ pc[t] = "write"
                        /\ sequence' = [sequence EXCEPT ![Cell(pos[t])] = pos[t] + 1]
                        /\ Goto(t, "publish")
                        /\ UNCHANGED <<enqueuePos, dequeuePos, data, pos, val, log>>

Write(t) == /\ pc[t] = "write"
            /\ data' = [data EXCEPT ![Cell(pos[t])] = val[t]]
            /\ Goto(t, "publish")
            /\ UNCHANGED <<enqueuePos, dequeuePos, sequence, pos, val, log>>

(* Mutant: the sequence is left as it was. *)
PublishNothing(t) == /\ pc[t] = "publish"
                     /\ Return(t)
                     /\ UNCHANGED <<enqueuePos, dequeuePos, cells, log>>

Publish(t) == /\ pc[t] = "publish"
              /\ sequence' = [sequence EXCEPT ![Cell(pos[t])] = pos[t] + 1]
              /\ Return(t)
              /\ UNCHANGED <<enqueuePos, dequeuePos, data, log>>

-----------------------------------------------------------------------------
(* pop *)

BeginPop(t) == /\ pc[t] = "idle"
               /\ Goto(t, "popPos")
               /\ UNCHANGED <<enqueuePos, dequeuePos, cells, pos, val, log>>

PopPos(t) == /\ pc[t] = "popPos"
             /\ pos' = [pos EXCEPT ![t] = dequeuePos]
             /\ Goto(t, "popSeq")
             /\ UNCHANGED <<enqueuePos, dequeuePos, cells, val, log>>

PopSeq(t) == LET diff == sequence[Cell(pos[t])] - (pos[t] + 1) IN
             /\ pc[t] = "popSeq"
             /\ diff >= 0
             /\ Goto(t, IF diff = 0 THEN "popCas" ELSE "popPos")
             /\ UNCHANGED <<enqueuePos, dequeuePos, cells, pos, val, log>>

PopEmpty(t) == /\ pc[t] = "popSeq"
               /\ sequence[Cell(pos[t])] < pos[t] + 1
               /\ Return(t)
               /\ UNCHANGED <<enqueuePos, dequeuePos, cells, log>>

PopCas(t) == /\ pc[t] = "popCas"
             /\ dequeuePos = pos[t]
             /\ dequeuePos' = pos[t] + 1
             /\ Goto(t, "read")
             /\ UNCHANGED <<enqueuePos, cells, pos, val, log>>

PopCasFails(t) == /\ pc[t] = "popCas"
                  /\ dequeuePos # pos[t]
                  /\ Goto(t, "popSeq")
                  /\ UNCHANGED <<enqueuePos, dequeuePos, cells, pos, val, log>>

Read(t) == /\ pc[t] = "read"
           /\ val' = [val EXCEPT ![t] = data[Cell(pos[t])]]
           /\ Goto(t, "release")
           /\ UNCHANGED <<enqueuePos, dequeuePos, cells, pos, log>>

(* The cell is handed to the push one lap later. *)
Release(t) == /\ pc[t] = "release"
              /\ sequence' = [sequence EXCEPT ![Cell(pos[t])] = pos[t] + Capacity]
              /\ Return(t)
              /\ UNCHANGED <<enqueuePos, dequeuePos, data, log>>

-----------------------------------------------------------------------------

Push(t) == \/ PushPos(t) \/ PushSeq(t) \/ PushFull(t) \/ PushCas(t) \/ PushCasFails(t)
           \/ Write(t) \/ Publish(t)
Pop(t)  == \/ PopPos(t) \/ PopSeq(t) \/ PopEmpty(t) \/ PopCas(t) \/ PopCasFails(t)
           \/ Read(t) \/ Release(t)

Step(t) == Push(t) \/ Pop(t)

Next == \E t \in Threads : (\E v \in Values : BeginPush(t, v)) \/ BeginPop(t) \/ Step(t)

Spec == Init /\ [][Next]_vars

(* Every thread inside a call goes on. *)
FairSpec == Spec /\ \A t \in Threads : WF_vars(Step(t))

-----------------------------------------------------------------------------
(* Properties *)

Labels == {"idle", "pushPos", "pushSeq", "pushCas", "write", "publish",
           "popPos", "popSeq", "popCas", "read", "release"}

ValueOrNone == Values \cup {None}

TypeOK == /\ enqueuePos \in Nat
          /\ dequeuePos \in Nat
          /\ sequence \in [0..(Capacity - 1) -> Nat]
          /\ data \in [0..(Capacity - 1) -> ValueOrNone]
          /\ pc \in [Threads -> Labels]
          /\ pos \in [Threads -> Nat]
          /\ val \in [Threads -> ValueOrNone]
          /\ log \in Seq(Values)

Pushing(t) == pc[t] \in {"write", "publish"}
Popping(t) == pc[t] \in {"read", "release"}

(* A position is claimed by one thread at most, so that a cell is never    *)
(* written by two pushes, or written while it is read, however far the     *)
(* queue has wrapped around.                                               *)
CellsExclusive ==
  \A t, u \in Threads :
    /\ (Pushing(t) \/ Popping(t)) /\ (Pushing(u) \/ Popping(u))
    /\ Cell(pos[t]) = Cell(pos[u])
    => t = u

(* pop returns the values in the order of the pushes, each once, and never *)
(* a value half written or of another lap.                                 *)
PopsInOrder ==
  \A t \in Threads : /\ Popping(t) => pos[t] < Len(log)
                     /\ pc[t] = "release" => val[t] = log[pos[t] + 1]

(* The queue never holds more than its capacity. *)
Bounded == dequeuePos <= enqueuePos /\ enqueuePos <= dequeuePos + Capacity

(* What the sequence of a cell says.  The positions from m_dequeuePos on,  *)
(* one lap long, name each cell once: one already pushed is published      *)
(* unless its push is in progress, one not yet pushed is free unless the   *)
(* pop of the lap before is in progress.                                   *)
WriterOf(p) == \E t \in Threads : Pushing(t) /\ pos[t] = p
ReaderOf(p) == \E t \in Threads : Popping(t) /\ pos[t] = p

SequenceOK ==
  \A p \in dequeuePos..(dequeuePos + Capacity - 1) :
    sequence[Cell(p)] = IF p < enqueuePos
                        THEN IF WriterOf(p) THEN p ELSE p + 1
                        ELSE IF ReaderOf(p - Capacity) THEN p + 1 - Capacity ELSE p

DataOK ==
  \A p \in dequeuePos..(enqueuePos - 1) : WriterOf(p) \/ data[Cell(p)] = log[p + 1]

(* What a thread knows of its position: a push or pop about to CAS holds   *)
(* its turn as long as the position has not moved.                         *)
ThreadOK(t) ==
  /\ pc[t] \in {"pushPos", "pushSeq", "pushCas", "write", "publish"} => val[t] \in Values
  /\ pc[t] \in {"pushSeq", "pushCas"} => pos[t] <= enqueuePos
  /\ pc[t] \in {"popSeq", "popCas"} => pos[t] <= dequeuePos
  /\ pc[t] = "pushCas" /\ pos[t] = enqueuePos => sequence[Cell(pos[t])] = pos[t]
  /\ pc[t] = "popCas" /\ pos[t] = dequeuePos => sequence[Cell(pos[t])] = pos[t] + 1
  /\ Pushing(t) => /\ dequeuePos <= pos[t] /\ pos[t] < enqueuePos
                   /\ log[pos[t] + 1] = val[t]
                   /\ pc[t] = "publish" => data[Cell(pos[t])] = val[t]
  /\ Popping(t) => /\ enqueuePos - Capacity <= pos[t] /\ pos[t] < dequeuePos
                   /\ data[Cell(pos[t])] = log[pos[t] + 1]
                   /\ pc[t] = "release" => val[t] = log[pos[t] + 1]

OneEach == \A t, u \in Threads :
             ((Pushing(t) /\ Pushing(u)) \/ (Popping(t) /\ Popping(u))) /\ pos[t] = pos[u] => t = u

IndInv == /\ TypeOK
          /\ Bounded
          /\ Len(log) = enqueuePos
          /\ SequenceOK
          /\ DataOK
          /\ OneEach
          /\ \A t \in Threads : ThreadOK(t)

(* The queue is a bounded FIFO queue, in the weak sense of WeakQueue: its  *)
(* calls take effect when their CAS succeeds, and give up only when it is  *)
(* full or empty or an opposite call is half done.                         *)
Call(t) ==
  CASE pc[t] \in {"pushPos", "pushSeq", "pushCas"} -> [op |-> "push", val |-> val[t]]
    [] Pushing(t) -> [op |-> "put", val |-> val[t]]
    [] pc[t] \in {"popPos", "popSeq", "popCas"} -> [op |-> "pop", val |-> None]
    [] pc[t] = "read" -> [op |-> "took", val |-> log[pos[t] + 1]]
    [] pc[t] = "release" -> [op |-> "took", val |-> val[t]]
    [] OTHER -> [op |-> "idle", val |-> None]

Abstract == INSTANCE WeakQueue
  WITH content <- SubSeq(log, dequeuePos + 1, enqueuePos),
       call    <- [t \in Threads |-> Call(t)]

Refinement == Abstract!Spec

(* A call returns unless calls of its kind keep overtaking it.  Its thread *)
(* may lose every CAS for ever: each loss is another thread's success.     *)
(* But while m_enqueuePos stands no push stays inside its call for ever,   *)
(* whatever pops do, and while m_dequeuePos stands no pop: a thread whose  *)
(* CAS failed goes on with its old position only until the winner, which   *)
(* runs too, stores the sequence.  MaxPos does not decide this: only a     *)
(* position that stands for ever can violate it, and below MaxPos too.     *)
InPush(t) == pc[t] \in {"pushPos", "pushSeq", "pushCas", "write", "publish"}
InPop(t)  == pc[t] \in {"popPos", "popSeq", "popCas", "read", "release"}

OnlyOvertaken ==
  \A t \in Threads :
    /\ []<>(~InPush(t)) \/ []<><<enqueuePos' # enqueuePos>>_vars
    /\ []<>(~InPop(t))  \/ []<><<dequeuePos' # dequeuePos>>_vars
=============================================================================
