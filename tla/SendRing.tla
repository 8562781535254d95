------------------------------ MODULE SendRing ------------------------------
(***************************************************************************)
(* The ring of packets to be sent, load by load: one thread queues         *)
(* (sendPacket, enqueue) while others send and free (sendPost, and the     *)
(* completions in workerThread), with no lock.  Only the sender writes     *)
(* rear, only the thread that has set m_isSendPending writes front, and    *)
(* each reads the other's index, a plain int, again and again inside one   *)
(* computation.  The session is open all the time; how it closes is the    *)
(* subject of SessionLifecycle.                                            *)
(*                                                                         *)
(* The ring holds pointers, each PointerSize bytes: byte j of the pointer  *)
(* to packet n is <<n, j>>.  accepted, sent and freed are history          *)
(* variables.                                                              *)
(***************************************************************************)
EXTENDS RingBuffer, SequencesExt

CONSTANTS Workers,
          Size,          \* DEFAULT_BUFFER_SIZE
          PointerSize,   \* sizeof(CPacket* )
          MaxBatch,      \* buffers one WSASend takes, 1000 in the code
          MaxPackets     \* bound on the packets sent

ASSUME SendRingAssumption ==
  /\ "sender" \notin Workers
  /\ PointerSize \in Nat \ {0, 1} /\ MaxBatch \in Nat \ {0} /\ MaxPackets \in Nat
  /\ Size \in Nat /\ Size > PointerSize /\ Size % PointerSize = 0

VARIABLES ring,       \* m_sendRingBuff
          pending,    \* m_isSendPending
          count,      \* m_sendPacketCount
          flight,     \* what WSASend was given: <<>> nothing outstanding, or <<bytes>>
          pc,         \* where each thread is
          loads,      \* what it has read of the other's index so far
          left,       \* packets the completion has still to free
          next,       \* the packet to be sent next
          mismatch,   \* sendPost has reported a size that does not fit
          over,       \* "no", "closed" or "crashed"
          accepted, sent, freed

vars == <<ring, pending, count, flight, pc, loads, left, next, mismatch, over, accepted, sent, freed>>
history == <<accepted, sent, freed>>

Threads == {"sender"} \cup Workers
Pointer(n) == [j \in 1..PointerSize |-> <<n, j>>]

(* Packets sent before may have left the empty ring anywhere. *)
Init == /\ \E n \in 0..(Size - 1) : /\ n % PointerSize = 0
                                    /\ ring = [NewRing(Size, <<0, 0>>) EXCEPT !.front = n, !.rear = n]
        /\ pending = FALSE /\ count = 0 /\ flight = <<>>
        /\ pc = [t \in Threads |-> "idle"] /\ loads = [t \in Threads |-> <<>>]
        /\ left = 0 /\ next = 1 /\ mismatch = FALSE /\ over = "no"
        /\ accepted = <<>> /\ sent = <<>> /\ freed = <<>>

-----------------------------------------------------------------------------
(* Loads of the indices, and the methods of the ring computed from them.   *)
(* View(t)[i] is the ring as the i-th load shows it; an index that only    *)
(* its reader may write is the same in all of them.                        *)

View(t) == [i \in 1..Len(loads[t]) |-> [ring EXCEPT !.front = loads[t][i][1],
                                                   !.rear  = loads[t][i][2]]]

(* getUseSize.  The comparison and the difference take a load each: when   *)
(* the index goes round the end in between the result is no size at all.   *)
(* (The two comparisons of isFull share one: with whole pointers in the    *)
(* ring neither can hold.)                                                 *)
UseSize(v) ==
  IF isEmpty(v[1]) THEN 0
  ELSE IF isFull(v[2]) THEN Size - 1
  ELSE IF v[3].front < v[3].rear THEN v[4].rear - v[4].front
  ELSE Size - (v[4].front - v[4].rear)

DirectWriteSize(v) ==
  LET f == v[3].front
      r == v[3].rear
      n == (f - 1) - r
  IN  IF isFull(v[1]) THEN 0
      ELSE IF isEmpty(v[2]) THEN Size - r
      ELSE IF f < r THEN IF f = 0 THEN Size - ((r + 1) % Size) ELSE Size - r
      ELSE IF n >= 0 THEN n ELSE IF isEmpty(v[4]) THEN Size - r ELSE 0

(* How many bytes of the pointer enqueue writes *)
EnqueueSize(v) ==
  LET direct  == DirectWriteSize(SubSeq(v, 2, 5))
      tmpRear == (v[6].rear + direct) % Size
      rest    == PointerSize - direct
  IN  IF isFull(v[1]) THEN 0
      ELSE IF direct >= PointerSize THEN PointerSize
      ELSE IF isFull([v[6] EXCEPT !.rear = tmpRear]) THEN direct
      ELSE direct + (IF v[7].front - 1 >= rest THEN rest ELSE v[7].front - 1)

DirectReadSize(v) == IF isEmpty(v[1]) THEN 0
                     ELSE IF v[2].rear - v[2].front > 0 THEN v[2].rear - v[2].front
                     ELSE Size - v[2].front

(* How many bytes peek copies when asked for n *)
PeekedSize(v, n) ==
  LET direct == DirectReadSize(SubSeq(v, 2, 3))
      use    == UseSize(SubSeq(v, 4, 7))
  IN  IF n = 0 \/ isEmpty(v[1]) THEN 0
      ELSE IF direct >= n THEN n
      ELSE direct + (IF use >= n - direct THEN n - direct ELSE use)

(* a < b where both are converted to size_t: below zero is very large *)
LessAsSize(a, b) == IF (a < 0) = (b < 0) THEN a < b ELSE b < 0

Wanted(t) == IF pc[t] = "peek" THEN PointerSize * count ELSE PointerSize

(* Whether t has made the loads its computation needs: enqueue and peek    *)
(* make more when they have to go round the end.                           *)
Loaded(t) ==
  LET v == View(t)
  IN  CASE pc[t] \in {"room", "count", "verify", "again"} -> IF Len(v) # 1 THEN Len(v) = 4 ELSE isEmpty(v[1])
        [] pc[t] = "enqueue" -> IF Len(v) # 5 THEN Len(v) = 7
                                ELSE DirectWriteSize(SubSeq(v, 2, 5)) >= PointerSize
        [] pc[t] \in {"peek", "dequeue"} -> IF Len(v) # 3 THEN Len(v) = 7
                                            ELSE DirectReadSize(SubSeq(v, 2, 3)) >= Wanted(t)
        [] OTHER -> TRUE

Load(t) == /\ over = "no" /\ ~Loaded(t)
           /\ loads' = [loads EXCEPT ![t] = Append(@, <<ring.front, ring.rear>>)]
           /\ UNCHANGED <<ring, pending, count, flight, pc, left, next, mismatch, over, history>>

At(t, label) == over = "no" /\ pc[t] = label /\ Loaded(t)

Goto(t, label) == pc' = [pc EXCEPT ![t] = label] /\ loads' = [loads EXCEPT ![t] = <<>>]

-----------------------------------------------------------------------------
(* sendPacket *)

SendPacket == /\ At("sender", "idle") /\ next <= MaxPackets
              /\ Goto("sender", "room")
              /\ UNCHANGED <<ring, pending, count, flight, left, next, mismatch, over, history>>

(* Mutant: the free size is compared as a signed number. *)
FitsSigned(free) == free >= PointerSize
Fits(free) == ~LessAsSize(free, PointerSize)

HasRoom == Fits((Size - 1) - UseSize(View("sender")))

NoRoom == /\ At("sender", "room") /\ ~HasRoom
          /\ next' = next + 1
          /\ Goto("sender", "idle")
          /\ UNCHANGED <<ring, pending, count, flight, left, mismatch, over, history>>

Enqueue == /\ At("sender", "room") /\ HasRoom
           /\ Goto("sender", "enqueue")
           /\ UNCHANGED <<ring, pending, count, flight, left, next, mismatch, over, history>>

(* The bytes are written, around the end of the buffer, ... *)
Write == /\ At("sender", "enqueue")
         /\ ring' = [ring EXCEPT !.buffer = [p \in 0..(Size - 1) |->
               LET j == ((p - ring.rear) % Size) + 1
               IN  IF j <= EnqueueSize(View("sender")) THEN Pointer(next)[j] ELSE @[p]]]
         /\ pc' = [pc EXCEPT !["sender"] = "rear"]
         /\ UNCHANGED <<pending, count, flight, loads, left, next, mismatch, over, history>>

(* ... and rear takes them in. *)
StoreRear == /\ At("sender", "rear")
             /\ ring' = moveRearPos(ring, EnqueueSize(View("sender")))
             /\ accepted' = Append(accepted, next)
             /\ next' = next + 1
             /\ Goto("sender", "pending")
             /\ UNCHANGED <<pending, count, flight, left, mismatch, over, sent, freed>>

(* Mutant: the thread that finds nothing pending leaves the post to others *)
TestPendingOnly == /\ At("sender", "pending")
                   /\ Goto("sender", "idle")
                   /\ UNCHANGED <<ring, pending, count, flight, left, next, mismatch, over, history>>

TestPending == /\ At("sender", "pending")
               /\ Goto("sender", IF pending THEN "idle" ELSE "post")
               /\ UNCHANGED <<ring, pending, count, flight, left, next, mismatch, over, history>>

-----------------------------------------------------------------------------
(* sendPost, called by either *)

Exchange(t) == /\ At(t, "post")
               /\ pending' = TRUE
               /\ Goto(t, IF pending THEN "idle" ELSE "count")
               /\ UNCHANGED <<ring, count, flight, left, next, mismatch, over, history>>

(* The division is one of size_t, the result is cut to an int. *)
Count(t) == /\ At(t, "count")
            /\ LET n == UseSize(View(t)) \div PointerSize
               IN  count' = IF n > MaxBatch THEN MaxBatch ELSE n
            /\ Goto(t, "verify")
            /\ UNCHANGED <<ring, pending, flight, left, next, mismatch, over, history>>

Verify(t) == /\ At(t, "verify")
             /\ mismatch' = (mismatch \/ LessAsSize(UseSize(View(t)), PointerSize * count))
             /\ Goto(t, "peek")
             /\ UNCHANGED <<ring, pending, count, flight, left, next, over, history>>

(* The packets that were peeked are given to WSASend. *)
Post(t) == /\ At(t, "peek")
           /\ count >= 0
           /\ flight' = <<BytesAt(ring, ring.front, PeekedSize(View(t), PointerSize * count))>>
           /\ Goto(t, "idle")
           /\ UNCHANGED <<ring, pending, count, left, next, mismatch, over, history>>

(* peek copies a number of bytes below zero, taken as a size_t. *)
Crash(t) == /\ At(t, "peek")
            /\ count < 0
            /\ over' = "crashed"
            /\ UNCHANGED <<ring, pending, count, flight, pc, loads, left, next, mismatch, history>>

-----------------------------------------------------------------------------
(* The completion of a send, in workerThread *)

Complete(w) == /\ At(w, "idle") /\ flight # <<>> /\ flight # <<<<>>>>
               /\ sent' = sent \o flight[1]
               /\ flight' = <<>>
               /\ left' = count
               /\ Goto(w, IF count > 0 THEN "dequeue" ELSE "clear")
               /\ UNCHANGED <<ring, pending, count, next, mismatch, over, accepted, freed>>

(* A send of no packets completes with 0 bytes, and the session is closed. *)
CompleteNone(w) == /\ At(w, "idle") /\ flight = <<<<>>>>
                   /\ over' = "closed"
                   /\ UNCHANGED <<ring, pending, count, flight, pc, loads, left, next, mismatch, history>>

(* Each packet is copied out and deleted, ... *)
Dequeue(w) == /\ At(w, "dequeue")
              /\ freed' = freed \o BytesAt(ring, ring.front, PeekedSize(View(w), PointerSize))
              /\ pc' = [pc EXCEPT ![w] = "front"]
              /\ UNCHANGED <<ring, pending, count, flight, loads, left, next, mismatch, over, accepted, sent>>

(* Mutant: the whole ring is given free. *)
StoreFrontAll(w) == /\ At(w, "front")
                    /\ ring' = [ring EXCEPT !.front = ring.rear]
                    /\ left' = left - 1
                    /\ Goto(w, IF left = 1 THEN "clear" ELSE "dequeue")
                    /\ UNCHANGED <<pending, count, flight, next, mismatch, over, history>>

(* ... and front gives its place free. *)
StoreFront(w) == /\ At(w, "front")
                 /\ ring' = moveFrontPos(ring, PeekedSize(View(w), PointerSize))
                 /\ left' = left - 1
                 /\ Goto(w, IF left = 1 THEN "clear" ELSE "dequeue")
                 /\ UNCHANGED <<pending, count, flight, next, mismatch, over, history>>

Clear(w) == /\ At(w, "clear")
            /\ pending' = FALSE
            /\ Goto(w, "again")
            /\ UNCHANGED <<ring, count, flight, left, next, mismatch, over, history>>

Again(w) == /\ At(w, "again")
            /\ Goto(w, IF UseSize(View(w)) > 0 /\ ~pending THEN "post" ELSE "idle")
            /\ UNCHANGED <<ring, pending, count, flight, left, next, mismatch, over, history>>

-----------------------------------------------------------------------------

sendPost(t) == Exchange(t) \/ Count(t) \/ Verify(t) \/ Post(t) \/ Crash(t)

Sender == \/ Load("sender")
          \/ SendPacket \/ NoRoom \/ Enqueue \/ Write \/ StoreRear \/ TestPending
          \/ sendPost("sender")

Worker(w) == \/ Load(w)
             \/ Complete(w) \/ CompleteNone(w) \/ Dequeue(w) \/ StoreFront(w) \/ Clear(w) \/ Again(w)
             \/ sendPost(w)

(* Nothing is left to do, or the session is gone. *)
Rest == /\ \/ over # "no"
           \/ next > MaxPackets /\ flight = <<>> /\ \A t \in Threads : pc[t] = "idle"
        /\ UNCHANGED vars

Next == Sender \/ (\E w \in Workers : Worker(w)) \/ Rest

Spec == Init /\ [][Next]_vars

(* No thread is stopped for ever. *)
FairSpec == Spec /\ WF_vars(Sender) /\ \A w \in Workers : WF_vars(Worker(w))

-----------------------------------------------------------------------------
(* Properties *)

BytesOf(packets) == FlattenSeq([i \in 1..Len(packets) |-> Pointer(packets[i])])

(* Whatever the threads read of each other's index, no pointer is written  *)
(* over, torn, sent twice or out of order, and none is freed before it was *)
(* sent: what was freed and what is in the ring is all that was accepted,  *)
(* and what was sent is the beginning of it.                               *)
SentInOrder ==
  /\ freed \o BytesAt(ring, ring.front, getUseSize(ring)) =
       BytesOf(accepted) \/ \E w \in Workers : pc[w] = "front"
  /\ IsPrefix(sent, BytesOf(accepted))
  /\ IsPrefix(freed, sent)

(* A packet is refused only if the ring was full at one of the loads: a    *)
(* size that came out wrong never refuses one.                             *)
RefusedOnlyWhenFull ==
  [][NoRoom => \E i \in DOMAIN View("sender") :
                  getUseSize(View("sender")[i]) + PointerSize > Size - 1]_vars

(* A packet that was accepted is sent, by the thread that queued it or by  *)
(* the one that ends the send before, whichever of them sees the other's   *)
(* write; unless the session is closed or the server dies of a bad count.  *)
AllSent == []<>(sent = BytesOf(accepted) \/ over # "no")

(* The size that was counted is still there when it is verified, as the    *)
(* comment in sendPost says of normal operation.                           *)
NoMismatch == ~mismatch
=============================================================================
