-------------------------- MODULE SessionSendProofs --------------------------
(***************************************************************************)
(* What becomes of the packets a session was given, and how it ends, for   *)
(* any numbers of threads, slots, connections and packets: a peer receives *)
(* what was accepted for its id, in order (SendOrder); a packet is deleted *)
(* once, when nobody refers to it any more (PacketsAccounted); a session   *)
(* is closed for a reason only (ClosedForCause); and one that is closing   *)
(* is looked at again until it is torn down (ClosingIsPolled).             *)
(***************************************************************************)
EXTENDS SessionProofs

-----------------------------------------------------------------------------
(* The queue of a session *)

(* A send is being made of the first m_sendPacketCount pointers of the     *)
(* ring.                                                                   *)
Gathered == {"so_gather", "so_recheck", "so_call"}

InUse(s)    == Begun(s) /\ ~slot[s].isTornDown
Counted(s)  == slot[s].sendPacketCount <= Len(slot[s].sendRing)
Taken(s, q) == Counted(s) /\ q = SubSeq(slot[s].sendRing, 1, slot[s].sendPacketCount)

(* The send has completed, its packets are still in the ring. *)
Sent(t, s) == pc[t] = "dequeue" /\ frame[t].client = s

Unsent(s) == IF \E t \in Threads : Sent(t, s)
             THEN SubSeq(slot[s].sendRing, slot[s].sendPacketCount + 1, Len(slot[s].sendRing))
             ELSE slot[s].sendRing

(* What was accepted for the session in slot s is what its peer has, and   *)
(* then what waits in the ring; what a send is made of is at the front.    *)
QueueOK(s) == InUse(s) =>
  /\ accepted[slot[s].sessionId] = wire[slot[s].sessionId] \o Unsent(s)
  /\ \A t \in Threads : Sent(t, s) \/ (pc[t] = "so_peek" /\ Sess(t) = s) => Counted(s)
  /\ \A t \in Threads : pc[t] \in Gathered /\ Sess(t) = s => Taken(s, frame[t].pkts)
  /\ \A r \in OpsOf(s, "send") : Taken(s, r.pkts)

OrderInv ==
  /\ \A t \in Threads : pc[t] = "sp_enqueue" => S(t).sessionId = frame[t].id
  /\ SendOrder
  /\ \A id \in Ids : id >= nextSessionId => accepted[id] = <<>> /\ wire[id] = <<>>
  /\ \A s \in Slots : QueueOK(s)

-----------------------------------------------------------------------------
(* Steps that leave the queues alone *)

SameQueue(s) == /\ slot'[s].sessionId = slot[s].sessionId
                /\ slot'[s].sendRing = slot[s].sendRing
                /\ slot'[s].sendPacketCount = slot[s].sendPacketCount
                /\ slot[s].isTornDown => slot'[s].isTornDown
                /\ slot[s].isClosing => slot'[s].isClosing

Still == accepted' = accepted /\ wire' = wire /\ freed' = freed /\ packets' = packets

(* Where a call goes on to inside the library, its frame unchanged. *)
Flow(a, b) ==
  \/ (a = "join" /\ b = "rp_check")      \/ (a = "rp_check" /\ b = "rp_inc")
  \/ (a = "rp_inc" /\ b = "rp_recheck")  \/ (a = "rp_recheck" /\ b \in {"rp_undo", "rp_call"})
  \/ (a = "sp_pending" /\ b = "so_xchg") \/ (a = "so_xchg" /\ b = "so_check")
  \/ (a = "so_check" /\ b \in {"so_reset", "so_count"})
  \/ (a = "so_gather" /\ b = "so_recheck")
  \/ (a = "so_recheck" /\ b \in {"so_undo", "so_call"})
  \/ (a = "so_undo" /\ b = "so_reset")   \/ (a = "so_failed" /\ b = "readId")
  \/ (a = "rm_mark" /\ b = "rm_closing") \/ (a = "rm_closing" /\ b = "rm_count")
  \/ (a = "rm_count" /\ b = "rm_cas")    \/ (a = "rm_cas" /\ b = "rm_drain")
  \/ (a = "clear" /\ b = "more")

Leaving == {"rp_check", "rp_undo", "sp_pending", "so_xchg", "so_reset", "rm_closing", "rm_count", "rm_cas"}

(* Thread t goes on that way, or returns. *)
Walks(t) == /\ Others(t)
            /\ \/ Flow(pc[t], pc'[t]) /\ frame'[t] = frame[t]
               \/ pc[t] \in Leaving /\ pc'[t] = frame[t].ret /\ frame'[t] = Back(t)

(* The small writes leave the queues alone. *)
LEMMA WritesSame ==
  ASSUME TypeInv, NEW t, NEW l0, NEW s \in Slots, NEW rec, Writes(t, l0, s, rec),
         \/ \E n \in Int : rec = AddIo(slot[s], n)
         \/ \E b \in BOOLEAN : rec = SetPending(slot[s], b)
         \/ rec = [slot[s] EXCEPT !.isClosing = TRUE]
         \/ rec = [slot[s] EXCEPT !.isTornDown = TRUE]
  PROVE  pc[t] = l0 /\ Still /\ Calm /\ \A q \in Slots : SameQueue(q)
  <1>1. /\ pc[t] = l0 /\ slot' = [slot EXCEPT ![s] = rec] /\ Still /\ Calm
    BY DEF Writes, Still, Calm, kernel, history
  <1>2. slot[s] \in Session /\ \A q \in Slots : slot'[q] = IF q = s THEN rec ELSE slot[q]
    BY <1>1, SlotTyped DEF TypeInv, SharedTypes
  <1>3. SameQueue(s)
    BY <1>2, SMT DEF SameQueue, AddIo, SetPending, Session
  <1> QED BY <1>1, <1>2, <1>3 DEF SameQueue

(* The steps of the library that do no more than that. *)
Plain(t) == \/ RecvPostCheck(t) \/ RecvPostInc(t) \/ RecvPostRecheck(t) \/ RecvPostUndo(t)
            \/ SendPacketPending(t) \/ SendPostExchange(t) \/ SendPostCheck(t) \/ SendPostReset(t)
            \/ SendPostGather(t) \/ SendPostRecheck(t) \/ SendPostUndo(t) \/ SendPostFailed(t)
            \/ RemoveMark(t) \/ RemoveClosing(t) \/ RemoveCount(t) \/ RemoveCas(t)

(* They move no packet, no completion and no slot, leave every queue as it *)
(* is, and the thread goes on inside its call or returns from it.          *)
LEMMA PlainWalks ==
  ASSUME TypeInv, NEW t \in Threads,
         Plain(t) \/ (t \in Workers /\ SendClear(t)) \/ (t = Acceptor /\ AcceptJoin)
  PROVE  Still /\ Calm /\ Walks(t) /\ \A q \in Slots : SameQueue(q)
  <1>0. ThreadInv /\ \A q \in Slots : slot[q].isClosing \in BOOLEAN
    BY SlotTyped DEF TypeInv
  <1>1. ASSUME NEW l0, Reads(t, l0) PROVE pc[t] = l0 /\ Still /\ Calm /\ \A q \in Slots : SameQueue(q)
    BY <1>1 DEF Reads, Still, Calm, kernel, history, SameQueue
  <1>2. ASSUME NEW l, Step(t, l), Flow(pc[t], l) PROVE Walks(t)
    <2>1. Moves(t, l, frame[t])
      BY <1>0, <1>2, StepMoves
    <2> QED BY <1>0, <1>2, <2>1 DEF Walks, Moves, Others, ThreadInv
  <1>3. ASSUME Return(t), pc[t] \in Leaving PROVE Walks(t)
    <2>1. Moves(t, frame[t].ret, Back(t))
      BY <1>0, <1>3, ReturnMoves
    <2> QED BY <1>0, <1>3, <2>1 DEF Walks, Moves, Others, ThreadInv
  <1>4. ASSUME pc[t] \in SessLabels PROVE Sess(t) \in Slots /\ S(t) = slot[Sess(t)]
    BY <1>0, <1>4, AtSess DEF S
  <1>5. ASSUME NEW l0 \in SessLabels, NEW rec, Writes(t, l0, Sess(t), rec),
               \/ \E n \in Int : rec = AddIo(S(t), n)
               \/ \E b \in BOOLEAN : rec = SetPending(S(t), b)
               \/ rec = [S(t) EXCEPT !.isClosing = TRUE]
               \/ rec = [S(t) EXCEPT !.isTornDown = TRUE]
        PROVE  pc[t] = l0 /\ Still /\ Calm /\ \A q \in Slots : SameQueue(q)
    <2>1. pc[t] = l0
      BY <1>5 DEF Writes
    <2>2. PICK s \in Slots : s = Sess(t) /\ S(t) = slot[s]
      BY <1>4, <2>1
    <2> QED BY <1>5, <2>1, <2>2, WritesSame
  <1>l. /\ {"rp_inc", "rp_undo", "so_xchg", "so_reset", "so_gather", "so_undo", "so_failed", "rm_mark", "rm_cas"}
              \subseteq SessLabels
        /\ 1 \in Int /\ -1 \in Int /\ TRUE \in BOOLEAN /\ FALSE \in BOOLEAN
    BY DEF SessLabels, Labels, HandlerLabels, FindLabels
  <1>6. CASE RecvPostCheck(t)
    BY <1>1, <1>2, <1>3, <1>6 DEF RecvPostCheck, GoOrReturn, Step, Flow, Leaving
  <1>7. CASE RecvPostInc(t)
    BY <1>2, <1>5, <1>7, <1>l DEF RecvPostInc, Flow
  <1>8. CASE RecvPostRecheck(t)
    BY <1>1, <1>2, <1>8 DEF RecvPostRecheck, Flow
  <1>9. CASE RecvPostUndo(t)
    BY <1>3, <1>5, <1>9, <1>l DEF RecvPostUndo, Leaving
  <1>10. CASE SendPacketPending(t)
    BY <1>1, <1>2, <1>3, <1>10 DEF SendPacketPending, GoOrReturn, Step, Flow, Leaving
  <1>11. CASE SendPostExchange(t)
    BY <1>2, <1>3, <1>5, <1>11, <1>l DEF SendPostExchange, GoOrReturn, Step, Flow, Leaving
  <1>12. CASE SendPostCheck(t)
    BY <1>1, <1>2, <1>12 DEF SendPostCheck, Flow
  <1>13. CASE SendPostReset(t)
    BY <1>3, <1>5, <1>13, <1>l DEF SendPostReset, Leaving
  <1>14. CASE SendPostGather(t)
    BY <1>2, <1>5, <1>14, <1>l DEF SendPostGather, Flow
  <1>15. CASE SendPostRecheck(t)
    BY <1>1, <1>2, <1>15 DEF SendPostRecheck, Flow
  <1>16. CASE SendPostUndo(t)
    BY <1>2, <1>5, <1>16, <1>l DEF SendPostUndo, Flow
  <1>17. CASE SendPostFailed(t)
    BY <1>2, <1>5, <1>17, <1>l DEF SendPostFailed, Flow
  <1>18. CASE RemoveMark(t)
    BY <1>2, <1>5, <1>18, <1>l DEF RemoveMark, Flow
  <1>19. CASE RemoveClosing(t)
    BY <1>1, <1>2, <1>3, <1>19 DEF RemoveClosing, GoOrReturn, Step, Flow, Leaving
  <1>20. CASE RemoveCount(t)
    BY <1>1, <1>2, <1>3, <1>20 DEF RemoveCount, GoOrReturn, Step, Flow, Leaving
  <1>21. CASE RemoveCas(t)
    BY <1>2, <1>3, <1>5, <1>21, <1>l DEF RemoveCas, GoOrReturn, Step, Flow, Leaving
  <1>22. CASE t \in Workers /\ SendClear(t)
    <2>1. pc[t] = "clear" /\ Writes(t, "clear", frame[t].client, SetPending(slot[frame[t].client], FALSE)) /\ Step(t, "more")
      BY <1>22 DEF SendClear, Writes
    <2>2. frame[t].client \in Slots
      BY <1>0, <2>1, AtHandler DEF HandlerLabels
    <2> QED BY <1>2, <1>l, <2>1, <2>2, WritesSame DEF Flow
  <1>23. CASE t = Acceptor /\ AcceptJoin
    BY <1>1, <1>2, <1>23 DEF AcceptJoin, Flow
  <1> QED BY <1>6, <1>7, <1>8, <1>9, <1>10, <1>11, <1>12, <1>13, <1>14, <1>15, <1>16, <1>17, <1>18, <1>19,
            <1>20, <1>21, <1>22, <1>23 DEF Plain
-----------------------------------------------------------------------------
(* Sequences *)

(* A sequence cut in two. *)
LEMMA SeqSplit ==
  ASSUME NEW D, NEW r \in Seq(D), NEW n \in 0..Len(r)
  PROVE  /\ SubSeq(r, 1, n) \in Seq(D) /\ SubSeq(r, n + 1, Len(r)) \in Seq(D)
         /\ Len(SubSeq(r, 1, n)) = n /\ Len(SubSeq(r, n + 1, Len(r))) = Len(r) - n
         /\ SubSeq(r, 1, n) \o SubSeq(r, n + 1, Len(r)) = r
  <1>1. Len(r) \in Nat /\ \A i \in 1..Len(r) : r[i] \in D
    BY ElementOfSeq, LenProperties
  <1>2. SubSeq(r, 1, n) \in Seq(D) /\ Len(SubSeq(r, 1, n)) = n
    <2>1. 1 \in Int /\ n \in Int /\ \A i \in 1..n : r[i] \in D
      BY <1>1, SMT
    <2>2. SubSeq(r, 1, n) \in Seq(D) /\ Len(SubSeq(r, 1, n)) = IF 1 <= n THEN n - 1 + 1 ELSE 0
      BY <2>1, SubSeqProperties
    <2> QED BY <1>1, <2>2, SMT
  <1>3. SubSeq(r, n + 1, Len(r)) \in Seq(D) /\ Len(SubSeq(r, n + 1, Len(r))) = Len(r) - n
    <2>1. n + 1 \in Int /\ Len(r) \in Int /\ \A i \in (n + 1)..Len(r) : r[i] \in D
      BY <1>1, SMT
    <2>2. /\ SubSeq(r, n + 1, Len(r)) \in Seq(D)
          /\ Len(SubSeq(r, n + 1, Len(r))) = IF n + 1 <= Len(r) THEN Len(r) - (n + 1) + 1 ELSE 0
      BY <2>1, SubSeqProperties
    <2> QED BY <1>1, <2>2, SMT
  <1>4. SubSeq(r, 1, n) \o SubSeq(r, n + 1, Len(r)) = SubSeq(r, 1, Len(r))
    <2>1. 1 \in 1..(Len(r) + 1) /\ n \in (1 - 1)..Len(r) /\ Len(r) \in n..Len(r)
      BY <1>1, SMT
    <2> QED BY <2>1, ConcatAdjacentSubSeq
  <1>5. SubSeq(r, 1, Len(r)) = r
    BY SubSeqFull
  <1> QED BY <1>2, <1>3, <1>4, <1>5

(* A sequence is a prefix of what it is continued to. *)
LEMMA PrefixOfConcat ==
  ASSUME NEW D, NEW a \in Seq(D), NEW b \in Seq(D)
  PROVE  IsPrefix(a, a \o b)
  <1>1. /\ Len(a) \in Nat /\ Len(b) \in Nat /\ a \o b \in Seq(D) /\ Len(a \o b) = Len(a) + Len(b)
        /\ \A i \in 1..(Len(a) + Len(b)) : (a \o b)[i] = IF i <= Len(a) THEN a[i] ELSE b[i - Len(a)]
    BY ConcatProperties, LenProperties
  <1>2. SubSeq(a, 1, Len(a)) = SubSeq(a \o b, 1, Len(a))
    BY <1>1, SMT
  <1> QED BY <1>1, <1>2, SMT DEF IsPrefix

(* What a longer sequence begins with. *)
LEMMA PrefixOfAppend ==
  ASSUME NEW D, NEW a \in Seq(D), NEW w \in Seq(D), NEW p \in D, IsPrefix(w, a)
  PROVE  IsPrefix(w, Append(a, p))
  BY SMT DEF IsPrefix

(* The front of a sequence does not see an append, the rest does. *)
LEMMA AppendSplit ==
  ASSUME NEW D, NEW r \in Seq(D), NEW p \in D, NEW n \in 0..Len(r)
  PROVE  /\ SubSeq(Append(r, p), 1, n) = SubSeq(r, 1, n)
         /\ SubSeq(Append(r, p), n + 1, Len(Append(r, p))) = Append(SubSeq(r, n + 1, Len(r)), p)
  <1>1. SubSeq(Append(r, p), 1, n) = SubSeq(r, 1, n)
    BY SMT
  <1> DEFINE a == SubSeq(Append(r, p), n + 1, Len(Append(r, p)))
             b == SubSeq(r, n + 1, Len(r))
  <1>3. /\ Len(r) \in Nat /\ Len(Append(r, p)) = Len(r) + 1 /\ Append(r, p)[Len(r) + 1] = p
        /\ \A i \in 1..Len(r) : Append(r, p)[i] = r[i] /\ r[i] \in D
    BY SMT
  <1>4. a \in Seq(D) /\ Len(a) = Len(r) + 1 - n /\ \A i \in 1..(Len(r) + 1 - n) : a[i] = Append(r, p)[n + i]
    BY <1>3, SMT
  <1>5. b \in Seq(D) /\ Len(b) = Len(r) - n /\ \A i \in 1..(Len(r) - n) : b[i] = r[n + i]
    BY <1>3, SMT
  <1> HIDE DEF a, b
  <1>6. Append(b, p) \in Seq(D) /\ Len(Append(b, p)) = Len(r) + 1 - n
        /\ \A i \in 1..(Len(r) + 1 - n) : Append(b, p)[i] = IF i <= Len(r) - n THEN r[n + i] ELSE p
    <2>1. /\ Append(b, p) \in Seq(D) /\ Len(Append(b, p)) = Len(b) + 1 /\ Append(b, p)[Len(b) + 1] = p
          /\ \A i \in 1..Len(b) : Append(b, p)[i] = b[i]
      BY <1>5, AppendProperties
    <2> QED BY <1>3, <1>5, <2>1, SMT
  <1>7. \A i \in 1..(Len(r) + 1 - n) : a[i] = Append(b, p)[i]
    BY <1>3, <1>4, <1>6, SMT
  <1>8. a = Append(b, p)
    BY <1>4, <1>6, <1>7, SeqEqual
  <1> QED BY <1>1, <1>8 DEF a, b

(* An append to the second of two. *)
LEMMA AppendConcat ==
  \A w, r \in Seq(Packet) : \A p \in Packet : Append(w \o r, p) = w \o Append(r, p)
  <1> TAKE w, r \in Seq(Packet)
  <1> TAKE p \in Packet
  <1> QED BY SMT

-----------------------------------------------------------------------------
(* The order is kept by steps that leave the queues alone *)

(* What the step of t does to the queue of slot s: nothing; and what it    *)
(* sends was taken from it.                                                *)
Elsewhere(t, s) ==
  /\ SameQueue(s)
  /\ \A r \in OpsOf(s, "send")' :
       r \in OpsOf(s, "send") \/ (pc[t] \in Gathered /\ Sess(t) = s /\ r.pkts = frame[t].pkts)
  /\ Begun(s) => /\ accepted'[slot[s].sessionId] = accepted[slot[s].sessionId]
                 /\ wire'[slot[s].sessionId] = wire[slot[s].sessionId]
  /\ Sent(t, s)' <=> Sent(t, s)
  /\ ~(pc'[t] = "so_peek" /\ frame'[t].sess = s)
  /\ pc'[t] \in Gathered /\ frame'[t].sess = s =>
       \/ pc[t] \in Gathered /\ frame'[t] = frame[t]
       \/ pc[t] = "so_peek" /\ Sess(t) = s /\ (Counted(s) => Taken(s, frame'[t].pkts))

(* Then the queue stays right. *)
LEMMA QueueStays ==
  ASSUME NEW t \in Threads, Others(t), NEW s \in Slots, QueueOK(s), Elsewhere(t, s)
  PROVE  QueueOK(s)'
  <1> SUFFICES ASSUME InUse(s)'
               PROVE  /\ (accepted[slot[s].sessionId] = wire[slot[s].sessionId] \o Unsent(s))'
                      /\ \A u \in Threads : (Sent(u, s) \/ (pc[u] = "so_peek" /\ Sess(u) = s))' => Counted(s)'
                      /\ \A u \in Threads : (pc[u] \in Gathered /\ Sess(u) = s)' => Taken(s, frame[u].pkts)'
                      /\ \A r \in OpsOf(s, "send")' : Taken(s, r.pkts)'
    BY DEF QueueOK
  <1>1. InUse(s)
    BY DEF InUse, Begun, Elsewhere, SameQueue
  <1>2. \A u \in Threads : Sent(u, s)' <=> Sent(u, s)
    BY DEF Elsewhere, Others, Sent
  <1>3. Unsent(s)' = Unsent(s)
    BY <1>2 DEF Unsent, Elsewhere, SameQueue
  <1>4. Counted(s)' = Counted(s) /\ \A q : Taken(s, q)' = Taken(s, q)
    BY DEF Counted, Taken, Elsewhere, SameQueue
  <1>5. (accepted[slot[s].sessionId] = wire[slot[s].sessionId] \o Unsent(s))'
    BY <1>1, <1>3 DEF QueueOK, Elsewhere, SameQueue, InUse
  <1>6. ASSUME NEW u \in Threads, Sent(u, s)' \/ (pc'[u] = "so_peek" /\ frame'[u].sess = s) PROVE Counted(s)
    BY <1>1, <1>2, <1>6 DEF QueueOK, Elsewhere, Others, Sess
  <1>7. ASSUME NEW u \in Threads, pc'[u] \in Gathered, frame'[u].sess = s PROVE Taken(s, frame'[u].pkts)
    <2>1. CASE pc[u] \in Gathered /\ frame'[u] = frame[u]
      BY <1>1, <1>7, <2>1 DEF QueueOK, Sess
    <2>2. CASE u = t /\ pc[t] = "so_peek" /\ Sess(t) = s /\ (Counted(s) => Taken(s, frame'[t].pkts))
      BY <1>1, <2>2 DEF QueueOK
    <2> QED BY <1>7, <2>1, <2>2 DEF Elsewhere, Others
  <1>8. \A r \in OpsOf(s, "send")' : Taken(s, r.pkts)
    BY <1>1 DEF QueueOK, Elsewhere
  <1> QED BY <1>4, <1>5, <1>6, <1>7, <1>8 DEF Sess

(* A thread at the enqueue keeps the session it was called for. *)
LEMMA AimStays ==
  ASSUME ThreadInv, OrderInv, NEW t \in Threads, Others(t), \A s \in Slots : slot'[s].sessionId = slot[s].sessionId,
         pc'[t] = "sp_enqueue" => slot'[frame'[t].sess].sessionId = frame'[t].id
  PROVE  \A u \in Threads : pc'[u] = "sp_enqueue" => S(u)'.sessionId = frame'[u].id
  <1> SUFFICES ASSUME NEW u \in Threads, u # t, pc'[u] = "sp_enqueue" PROVE S(u)'.sessionId = frame'[u].id
    BY DEF S, Sess
  <1>1. pc[u] = "sp_enqueue" /\ frame'[u] = frame[u]
    BY DEF Others
  <1>2. Sess(u) \in Slots
    BY <1>1, AtSess DEF SessLabels, Labels, HandlerLabels, FindLabels
  <1> QED BY <1>1, <1>2 DEF OrderInv, S, Sess

(* The order, when the queues are left alone. *)
LEMMA OrderStep ==
  ASSUME ThreadInv, OrderInv, NEW t \in Threads, Others(t),
         pc'[t] = "sp_enqueue" => slot'[frame'[t].sess].sessionId = frame'[t].id,
         accepted' = accepted, wire' = wire, nextSessionId' = nextSessionId,
         \A s \in Slots : Elsewhere(t, s)
  PROVE  OrderInv'
  <1>1. \A s \in Slots : QueueOK(s)'
    BY QueueStays DEF OrderInv
  <1>2. \A s \in Slots : slot'[s].sessionId = slot[s].sessionId
    BY DEF Elsewhere, SameQueue
  <1>3. \A u \in Threads : pc'[u] = "sp_enqueue" => S(u)'.sessionId = frame'[u].id
    BY <1>2, AimStays
  <1>4. SendOrder' /\ \A id \in Ids : id >= nextSessionId' => accepted'[id] = <<>> /\ wire'[id] = <<>>
    BY DEF OrderInv, SendOrder
  <1> QED BY <1>1, <1>3, <1>4 DEF OrderInv

(* Steps that go to another part of the library, or into it. *)
LEMMA AwayElsewhere ==
  ASSUME NEW t \in Threads, pc[t] # "dequeue", pc'[t] \notin Gathered \cup {"so_peek", "dequeue"},
         accepted' = accepted, wire' = wire, \A s \in Slots : SameQueue(s),
         \A s \in Slots : OpsOf(s, "send")' \subseteq OpsOf(s, "send")
  PROVE  \A s \in Slots : Elsewhere(t, s)
  BY DEF Elsewhere, Sent

(* Steps inside a call. *)
LEMMA WalkElsewhere ==
  ASSUME ThreadInv, NEW t \in Threads, Still, Calm, Walks(t), \A s \in Slots : SameQueue(s)
  PROVE  pc'[t] # "sp_enqueue" /\ \A s \in Slots : Elsewhere(t, s)
  <1>1. frame[t].ret \in Rets
    BY FrameTyped DEF Rets
  <1>2. /\ pc'[t] \notin {"sp_enqueue", "so_peek", "dequeue"} /\ pc[t] # "dequeue"
        /\ pc'[t] \in Gathered => pc[t] \in Gathered \cup {"so_check"} /\ frame'[t] = frame[t]
        /\ pc[t] = "so_check" => pc'[t] \notin Gathered
    BY <1>1, SMT DEF Walks, Flow, Leaving, Rets, Gathered
  <1>3. \A s \in Slots : OpsOf(s, "send")' = OpsOf(s, "send")
    BY DEF OpsOf, Calm
  <1> QED BY <1>2, <1>3 DEF Elsewhere, Sent, Still

(* sendPacket finds the session. *)
LEMMA FindOrder ==
  ASSUME SessionInv, OrderInv, NEW t \in Threads, SendPacketFind(t)
  PROVE  OrderInv'
  <1>0. TypeInv /\ ThreadInv /\ Places /\ frame[t].ret \in Rets /\ frame[t] \in Frame
    BY Parts, FrameTyped DEF SessionInv, TypeInv, Rets
  <1> DEFINE s == sessionMap[frame[t].id]
  <1>1. /\ pc[t] = "sp_find" /\ slot' = slot /\ io' = io /\ accepted' = accepted /\ wire' = wire
        /\ nextSessionId' = nextSessionId
        /\ s = NoSlot => Return(t)
        /\ s # NoSlot => frame' = [frame EXCEPT ![t].sess = s] /\ pc' = [pc EXCEPT ![t] = "sp_enqueue"]
    BY DEF SendPacketFind, Reads, kernel, history, tables, Goto
  <1>2. frame[t].id \in Ids
    BY <1>0, <1>1, FrameTyped DEF CtlOf, FindLabels
  <1>3. s # NoSlot => slot[s].sessionId = frame[t].id
    BY <1>0, <1>2 DEF Places
  <1>4. /\ Others(t) /\ pc'[t] \in Rets \cup {"sp_enqueue"}
        /\ pc'[t] = "sp_enqueue" => slot'[frame'[t].sess].sessionId = frame'[t].id
    <2>1. CASE s = NoSlot
      <3>1. Moves(t, frame[t].ret, Back(t))
        BY <1>0, <1>1, <2>1, ReturnMoves
      <3> QED BY <1>0, <3>1 DEF Moves, Others, ThreadInv, Rets
    <2>2. CASE s # NoSlot
      <3>1. frame'[t].sess = s /\ frame'[t].id = frame[t].id
        BY <1>0, <1>1, <2>2, SMT DEF ThreadInv, Frame
      <3> QED BY <1>0, <1>1, <1>3, <2>2, <3>1 DEF Others, ThreadInv
    <2> QED BY <2>1, <2>2
  <1>5. \A q \in Slots : SameQueue(q) /\ OpsOf(q, "send")' = OpsOf(q, "send")
    BY <1>1 DEF SameQueue, OpsOf
  <1>6. \A q \in Slots : Elsewhere(t, q)
    BY <1>1, <1>4, <1>5, AwayElsewhere DEF Gathered, Rets
  <1> QED BY <1>0, <1>1, <1>4, <1>6, OrderStep

(* The packet is queued, or deleted. *)
LEMMA EnqueueOrder ==
  ASSUME SessionInv, OrderInv, NEW t \in Threads, SendPacketEnqueue(t)
  PROVE  OrderInv'
  <1>0. TypeInv /\ ThreadInv /\ IdsOnce /\ frame[t].ret \in Rets /\ pc[t] = "sp_enqueue"
    BY Parts, FrameTyped DEF SessionInv, TypeInv, Rets, SendPacketEnqueue
  <1>1. PICK s \in Slots : s = Sess(t) /\ Begun(s)
    BY <1>0, AtSess DEF SessLabels, Labels, HandlerLabels, FindLabels
  <1> DEFINE r  == slot[s].sendRing
             p  == frame[t].pkts[1]
             id == frame[t].id
  <1>2. /\ r \in Seq(Packet) /\ p \in Packet /\ id \in Ids /\ id = slot[s].sessionId
        /\ accepted[id] \in Seq(Packet) /\ wire[id] \in Seq(Packet) /\ slot[s] \in Session
        /\ id < nextSessionId
    <2>1. frame[t].pkts \in Seq(Packet) /\ frame[t].pkts # <<>> /\ id \in Ids
      BY <1>0, FrameTyped DEF CtlOf, FindLabels
    <2>2. p \in Packet
      BY <2>1, SMT
    <2> QED BY <1>0, <1>1, <2>1, <2>2, SlotTyped DEF OrderInv, S, TypeInv, SharedTypes, SharedPtrs
  <1>3. /\ io' = io /\ wire' = wire /\ nextSessionId' = nextSessionId
        /\ \/ slot' = [slot EXCEPT ![s].sendRing = Append(r, p)]
              /\ accepted' = [accepted EXCEPT ![id] = Append(accepted[id], p)] /\ Step(t, "sp_pending")
           \/ slot' = slot /\ accepted' = accepted /\ Return(t)
    BY <1>0, <1>1, <1>2, SMT DEF SendPacketEnqueue, GoOrReturn, Step, kernel, tables, S, TypeInv, SharedTypes
  <1> HIDE DEF p, id
  <1>4. CASE slot' = slot /\ accepted' = accepted /\ Return(t)
    <2>1. Moves(t, frame[t].ret, Back(t))
      BY <1>0, <1>4, ReturnMoves
    <2>2. Others(t) /\ pc'[t] \in Rets
      BY <1>0, <2>1 DEF Moves, Others, ThreadInv, Rets
    <2>3. \A q \in Slots : SameQueue(q) /\ OpsOf(q, "send")' = OpsOf(q, "send")
      BY <1>3, <1>4 DEF SameQueue, OpsOf
    <2>4. \A q \in Slots : Elsewhere(t, q)
      BY <1>0, <1>3, <1>4, <2>2, <2>3, AwayElsewhere DEF Gathered, Rets
    <2> QED BY <1>0, <1>3, <1>4, <2>2, <2>4, OrderStep DEF Rets
  <1>5. CASE slot' = [slot EXCEPT ![s].sendRing = Append(r, p)]
             /\ accepted' = [accepted EXCEPT ![id] = Append(accepted[id], p)] /\ Step(t, "sp_pending")
    <2>1. /\ Others(t) /\ pc'[t] = "sp_pending" /\ frame' = frame
      BY <1>0, <1>5 DEF Step, Goto, Others, ThreadInv
    <2>2. /\ slot'[s].sendRing = Append(r, p) /\ slot'[s].sessionId = id
          /\ slot'[s].sendPacketCount = slot[s].sendPacketCount
          /\ slot'[s].isTornDown = slot[s].isTornDown
          /\ \A q \in Slots \ {s} : slot'[q] = slot[q]
      BY <1>0, <1>2, <1>5, SMT DEF TypeInv, SharedTypes, Session
    <2>3. /\ accepted'[id] = Append(accepted[id], p)
          /\ \A i \in Ids \ {id} : accepted'[i] = accepted[i]
      BY <1>0, <1>2, <1>5 DEF TypeInv, SharedTypes
    <2>4. ASSUME NEW q \in Slots, q # s PROVE QueueOK(q)'
      <3>1. Begun(q) => slot[q].sessionId \in Ids \ {id}
        BY <1>0, <1>1, <1>2, <2>4, SlotTyped DEF IdsOnce
      <3>2. OpsOf(q, "send")' = OpsOf(q, "send")
        BY <1>3 DEF OpsOf
      <3>3. Elsewhere(t, q)
        BY <1>0, <1>3, <2>1, <2>2, <2>3, <2>4, <3>1, <3>2 DEF Elsewhere, SameQueue, Sent, Gathered
      <3> QED BY <2>1, <3>3, QueueStays DEF OrderInv
    <2>5. QueueOK(s)'
      <3> SUFFICES ASSUME InUse(s)' PROVE QueueOK(s)'
        BY DEF QueueOK
      <3> DEFINE n == slot[s].sendPacketCount
      <3>1. InUse(s) /\ n \in Nat
        BY <1>0, <1>1, <1>2, <2>2, SlotTyped, SessionAssumption, SMT DEF InUse
      <3>2. \A u \in Threads : Sent(u, s)' <=> Sent(u, s)
        BY <1>0, <2>1 DEF Others, Sent
      <3>3. Counted(s) => /\ Counted(s)' /\ n \in 0..Len(r)
                          /\ SubSeq(slot'[s].sendRing, 1, n) = SubSeq(r, 1, n)
                          /\ SubSeq(slot'[s].sendRing, n + 1, Len(slot'[s].sendRing)) = Append(SubSeq(r, n + 1, Len(r)), p)
        <4> SUFFICES ASSUME Counted(s)
                     PROVE  /\ Counted(s)' /\ n \in 0..Len(r)
                            /\ SubSeq(slot'[s].sendRing, 1, n) = SubSeq(r, 1, n)
                            /\ SubSeq(slot'[s].sendRing, n + 1, Len(slot'[s].sendRing))
                                 = Append(SubSeq(r, n + 1, Len(r)), p)
          OBVIOUS
        <4>1. Counted(s)' /\ n \in 0..Len(r)
          BY <1>2, <2>2, <3>1, SMT DEF Counted
        <4> HIDE DEF n
        <4>2. /\ SubSeq(Append(r, p), 1, n) = SubSeq(r, 1, n)
              /\ SubSeq(Append(r, p), n + 1, Len(Append(r, p))) = Append(SubSeq(r, n + 1, Len(r)), p)
          BY <1>2, <4>1, AppendSplit
        <4> QED BY <2>2, <4>1, <4>2
      <3>4. \A q : Taken(s, q) => Taken(s, q)'
        BY <2>2, <3>3 DEF Taken
      <3>5. accepted'[id] = wire'[id] \o Unsent(s)'
        <4>1. CASE \E u \in Threads : Sent(u, s)
          <5>1. Counted(s)
            BY <3>1, <4>1 DEF QueueOK, OrderInv
          <5>2. SubSeq(r, n + 1, Len(r)) \in Seq(Packet)
            BY <1>2, <3>3, <5>1, SeqSplit
          <5>3. accepted[id] = wire[id] \o SubSeq(r, n + 1, Len(r))
            BY <1>2, <3>1, <4>1 DEF QueueOK, OrderInv, Unsent
          <5>4. Unsent(s)' = Append(SubSeq(r, n + 1, Len(r)), p)
            BY <2>2, <3>2, <3>3, <4>1, <5>1 DEF Unsent
          <5>5. Append(wire[id] \o SubSeq(r, n + 1, Len(r)), p) = wire[id] \o Append(SubSeq(r, n + 1, Len(r)), p)
            <6> DEFINE w == wire[id]
                       v == SubSeq(r, n + 1, Len(r))
            <6>1. w \in Seq(Packet) /\ v \in Seq(Packet) /\ p \in Packet
              BY <1>2, <5>2
            <6> HIDE DEF w, v
            <6>2. Append(w \o v, p) = w \o Append(v, p)
              BY <6>1, AppendConcat
            <6> QED BY <6>2 DEF w, v
          <5> QED BY <1>3, <2>3, <5>3, <5>4, <5>5
        <4>2. CASE ~\E u \in Threads : Sent(u, s)
          <5>1. accepted[id] = wire[id] \o r /\ Unsent(s)' = Append(r, p)
            BY <1>2, <2>2, <3>1, <3>2, <4>2 DEF QueueOK, OrderInv, Unsent
          <5>2. Append(wire[id] \o r, p) = wire[id] \o Append(r, p)
            <6> DEFINE w == wire[id]
                       v == r
            <6>1. w \in Seq(Packet) /\ v \in Seq(Packet) /\ p \in Packet
              BY <1>2
            <6> HIDE DEF w, v
            <6>2. Append(w \o v, p) = w \o Append(v, p)
              BY <6>1, AppendConcat
            <6> QED BY <6>2 DEF w, v
          <5> QED BY <1>3, <2>3, <5>1, <5>2
        <4> QED BY <4>1, <4>2
      <3>6. \A u \in Threads : (Sent(u, s) \/ (pc[u] = "so_peek" /\ Sess(u) = s))' => Counted(s)'
        BY <2>1, <3>1, <3>2, <3>3 DEF QueueOK, OrderInv, Others, Sess
      <3>7. \A u \in Threads : (pc[u] \in Gathered /\ Sess(u) = s)' => Taken(s, frame[u].pkts)'
        BY <2>1, <3>1, <3>4 DEF QueueOK, OrderInv, Others, Sess, Gathered
      <3>8. \A o \in OpsOf(s, "send")' : Taken(s, o.pkts)'
        BY <1>3, <3>1, <3>4 DEF QueueOK, OrderInv, OpsOf
      <3> QED BY <2>2, <3>5, <3>6, <3>7, <3>8 DEF QueueOK
    <2>6. \A u \in Threads : pc'[u] = "sp_enqueue" => S(u)'.sessionId = frame'[u].id
      <3>1. \A q \in Slots : slot'[q].sessionId = slot[q].sessionId
        BY <1>2, <2>2
      <3> QED BY <1>0, <2>1, <3>1, AimStays
    <2>7. SendOrder'
      <3>1. IsPrefix(wire[id], Append(accepted[id], p))
        BY <1>2, PrefixOfAppend DEF OrderInv, SendOrder
      <3> QED BY <1>3, <2>3, <3>1 DEF OrderInv, SendOrder
    <2>8. \A i \in Ids : i >= nextSessionId' => accepted'[i] = <<>> /\ wire'[i] = <<>>
      <3>1. ~(id >= nextSessionId)
        BY <1>0, <1>2, NoneApart, SessionAssumption, SMT DEF TypeInv, SharedTypes
      <3> QED BY <1>3, <2>3, <3>1 DEF OrderInv
    <2> QED BY <2>4, <2>5, <2>6, <2>7, <2>8 DEF OrderInv
  <1> QED BY <1>3, <1>4, <1>5
(* Steps that go elsewhere keep the order. *)
LEMMA AwayOrder ==
  ASSUME ThreadInv, OrderInv, NEW t \in Threads, Others(t), pc[t] # "dequeue",
         pc'[t] \notin Gathered \cup {"so_peek", "dequeue", "sp_enqueue"},
         accepted' = accepted, wire' = wire, nextSessionId' = nextSessionId,
         \A s \in Slots : SameQueue(s),
         \A s \in Slots : OpsOf(s, "send")' \subseteq OpsOf(s, "send")
  PROVE  OrderInv'
  <1>1. \A s \in Slots : Elsewhere(t, s)
    BY AwayElsewhere
  <1> QED BY <1>1, OrderStep

(* Steps inside a call do. *)
LEMMA WalkOrder ==
  ASSUME ThreadInv, OrderInv, NEW t \in Threads, Still, Calm, Walks(t), \A s \in Slots : SameQueue(s)
  PROVE  OrderInv'
  <1>1. nextSessionId' = nextSessionId /\ Others(t)
    BY DEF Calm, tables, Walks
  <1> QED BY <1>1, WalkElsewhere, OrderStep DEF Still

(* A count that changes leaves the queues alone. *)
LEMMA IoSame ==
  ASSUME TypeInv, NEW s \in Slots, NEW n \in Int, slot' = [slot EXCEPT ![s] = AddIo(slot[s], n)]
  PROVE  \A q \in Slots : SameQueue(q)
  <1>1. slot[s] \in Session /\ \A q \in Slots : slot'[q] = IF q = s THEN AddIo(slot[s], n) ELSE slot[q]
    BY SlotTyped DEF TypeInv, SharedTypes
  <1>2. SameQueue(s)
    BY <1>1, SMT DEF SameQueue, AddIo, Session
  <1> QED BY <1>1, <1>2 DEF SameQueue

(* removeSession, but for the ring. *)
LEMMA RemoveOrder ==
  ASSUME SessionInv, OrderInv, NEW t \in Threads,
         \/ ReadId(t) \/ RemoveFind(t) \/ RemoveClose(t) \/ RemoveErase(t) \/ RemovePush(t)
  PROVE  OrderInv'
  <1>0. TypeInv /\ ThreadInv /\ frame[t].ret \in Rets
    BY Parts, FrameTyped DEF Rets
  <1>1. /\ slot' = slot /\ io' = io /\ accepted' = accepted /\ wire' = wire /\ nextSessionId' = nextSessionId
        /\ pc[t] \in {"readId", "rm_find", "rm_drain", "rm_erase", "rm_push"}
    BY DEF ReadId, RemoveFind, RemoveClose, RemoveErase, RemovePush, Reads, tables, kernel, history
  <1>2. Others(t) /\ pc'[t] \in Rets \cup {"rm_find", "rm_mark", "rm_closing", "rm_erase", "rm_push"}
    <2>1. CASE Return(t)
      <3>1. Moves(t, frame[t].ret, Back(t))
        BY <1>0, <1>1, <2>1, ReturnMoves
      <3> QED BY <1>0, <3>1 DEF Moves, Others, ThreadInv
    <2>2. CASE \E l \in {"rm_erase", "rm_push"} : Step(t, l)
      BY <1>0, <2>2 DEF Step, Goto, Others, ThreadInv
    <2>3. CASE ReadId(t)
      BY <1>0, <2>3, SMT DEF ReadId, CallRemove, Goto, Others, ThreadInv
    <2>4. CASE RemoveFind(t)
      BY <1>0, <2>1, <2>4, SMT DEF RemoveFind, Goto, Others, ThreadInv
    <2> QED BY <2>1, <2>2, <2>3, <2>4 DEF RemoveClose, RemoveErase, RemovePush
  <1>3. \A s \in Slots : SameQueue(s) /\ OpsOf(s, "send")' = OpsOf(s, "send")
    BY <1>1 DEF SameQueue, OpsOf
  <1> QED BY <1>0, <1>1, <1>2, <1>3, AwayOrder DEF Rets, Gathered

(* A call that fails. *)
LEMMA PostFailsOrder ==
  ASSUME SessionInv, OrderInv, NEW t \in Threads, NEW l \in {"readId", "so_failed"},
         pc[t] \in {"rp_call", "so_call"}, PostFails(t, l)
  PROVE  OrderInv'
  <1>0. TypeInv /\ ThreadInv
    BY Parts
  <1>1. PICK s \in Slots : s = Sess(t)
    BY <1>0, AtSess DEF SessLabels, Labels, HandlerLabels, FindLabels
  <1>2. /\ slot' = [slot EXCEPT ![s] = AddIo(slot[s], -1)]
        /\ io' = io /\ accepted' = accepted /\ wire' = wire /\ nextSessionId' = nextSessionId
    BY <1>1 DEF PostFails, tables, kernel
  <1>3. Others(t) /\ pc'[t] = l
    BY <1>0, SMT DEF PostFails, Goto, Others, ThreadInv
  <1>4. \A q \in Slots : SameQueue(q) /\ OpsOf(q, "send")' = OpsOf(q, "send")
    <2>1. -1 \in Int
      OBVIOUS
    <2> QED BY <1>0, <1>2, <2>1, IoSame DEF OpsOf
  <1> QED BY <1>0, <1>2, <1>3, <1>4, AwayOrder DEF Gathered

(* An operation is posted: a send is made of what was gathered. *)
LEMMA PostOrder ==
  ASSUME SessionInv, OrderInv, NEW t \in Threads,
         \/ pc[t] = "rp_call" /\ Post(t, "recv")
         \/ pc[t] = "so_call" /\ Post(t, "send")
  PROVE  OrderInv'
  <1>0. TypeInv /\ ThreadInv /\ frame[t].ret \in Rets
    BY Parts, FrameTyped DEF Rets
  <1>1. /\ slot' = slot /\ accepted' = accepted /\ wire' = wire /\ nextSessionId' = nextSessionId
        /\ pc[t] \in {"rp_call", "so_call"} /\ Return(t)
    BY DEF Post, tables, history
  <1>2. Others(t) /\ pc'[t] \in Rets
    <2>1. Moves(t, frame[t].ret, Back(t))
      BY <1>0, <1>1, ReturnMoves
    <2> QED BY <1>0, <2>1 DEF Moves, Others, ThreadInv
  <1>3. ASSUME NEW s \in Slots, NEW r \in OpsOf(s, "send")'
        PROVE  r \in OpsOf(s, "send") \/ (pc[t] \in Gathered /\ Sess(t) = s /\ r.pkts = frame[t].pkts)
    BY <1>3 DEF OpsOf, Post, Gathered
  <1>4. \A s \in Slots : Elsewhere(t, s)
    BY <1>1, <1>2, <1>3 DEF Elsewhere, SameQueue, Sent, Gathered, Rets
  <1> QED BY <1>0, <1>1, <1>2, <1>4, OrderStep DEF Rets
(* The front of the ring is what a send is made of. *)
LEMMA PeekOrder ==
  ASSUME SessionInv, OrderInv, NEW t \in Threads, SendPostPeek(t)
  PROVE  OrderInv'
  <1>0. TypeInv /\ ThreadInv /\ pc[t] = "so_peek"
    BY Parts DEF SendPostPeek, Reads
  <1>1. PICK s \in Slots : s = Sess(t)
    BY <1>0, AtSess DEF SessLabels, Labels, HandlerLabels, FindLabels
  <1>2. /\ slot' = slot /\ io' = io /\ accepted' = accepted /\ wire' = wire /\ nextSessionId' = nextSessionId
        /\ Others(t) /\ pc'[t] = "so_gather" /\ frame'[t].sess = s
        /\ frame'[t].pkts = SubSeq(slot[s].sendRing, 1, Min2(slot[s].sendPacketCount, Len(slot[s].sendRing)))
    <2> DEFINE q == SubSeq(slot[s].sendRing, 1, Min2(slot[s].sendPacketCount, Len(slot[s].sendRing)))
    <2>1. /\ slot' = slot /\ io' = io /\ accepted' = accepted /\ wire' = wire /\ nextSessionId' = nextSessionId
          /\ pc' = [pc EXCEPT ![t] = "so_gather"] /\ frame' = [frame EXCEPT ![t].pkts = q]
      BY <1>1 DEF SendPostPeek, Reads, Goto, tables, kernel, history, S
    <2> HIDE DEF q
    <2>2. Others(t) /\ pc'[t] = "so_gather" /\ frame'[t] = [frame[t] EXCEPT !.pkts = q]
      BY <1>0, <2>1 DEF Others, ThreadInv
    <2>3. frame'[t].sess = s /\ frame'[t].pkts = q
      BY <1>0, <1>1, <2>2, FrameTyped, SMT DEF Sess, Frame
    <2> QED BY <2>1, <2>2, <2>3 DEF q
  <1>3. slot[s].sendPacketCount \in Nat /\ Len(slot[s].sendRing) \in Nat
    BY <1>0, SlotTyped, SessionAssumption, SMT
  <1>4. Counted(s) => Min2(slot[s].sendPacketCount, Len(slot[s].sendRing)) = slot[s].sendPacketCount
    BY <1>3, SMT DEF Counted, Min2
  <1>5. Counted(s) => Taken(s, frame'[t].pkts)
    BY <1>2, <1>4 DEF Taken
  <1>6. \A q \in Slots : Elsewhere(t, q)
    BY <1>0, <1>1, <1>2, <1>5 DEF Elsewhere, SameQueue, OpsOf, Sent
  <1> QED BY <1>0, <1>2, <1>6, OrderStep

(* The number of packets of the send is fixed by the one thread that sends. *)
LEMMA CountOrder ==
  ASSUME SessionInv, OrderInv, NEW t \in Threads, SendPostCount(t)
  PROVE  OrderInv'
  <1>0. TypeInv /\ ThreadInv /\ Tokens /\ pc[t] = "so_count"
    BY Parts DEF SendPostCount, Writes, SessionInv
  <1>1. PICK s \in Slots : s = Sess(t)
    BY <1>0, AtSess DEF SessLabels, Labels, HandlerLabels, FindLabels
  <1> DEFINE r == slot[s].sendRing
  <1>2. /\ slot' = [slot EXCEPT ![s] = [slot[s] EXCEPT !.sendPacketCount = Min2(Len(r), MaxBatch)]]
        /\ io' = io /\ accepted' = accepted /\ wire' = wire /\ nextSessionId' = nextSessionId
        /\ Others(t) /\ pc'[t] = "so_peek" /\ frame' = frame
    BY <1>0, <1>1 DEF SendPostCount, Writes, Step, Goto, tables, kernel, history, Others, S, ThreadInv
  <1>3. /\ slot[s] \in Session /\ r \in Seq(Packet) /\ Len(r) \in Nat
        /\ slot'[s].sessionId = slot[s].sessionId /\ slot'[s].sendRing = r
        /\ slot'[s].isTornDown = slot[s].isTornDown
        /\ slot'[s].sendPacketCount = Min2(Len(r), MaxBatch)
        /\ \A q \in Slots \ {s} : slot'[q] = slot[q]
    BY <1>0, <1>2, SlotTyped, SMT DEF TypeInv, SharedTypes, Session
  <1>4. Counted(s)'
    BY <1>3, SessionAssumption, SMT DEF Counted, Min2
  <1>5. SendTok(t, s)
    BY <1>0, <1>1 DEF SendTok
  <1>6. /\ OpsOf(s, "send") = {}
        /\ \A u \in Threads : SendTok(u, s) => u = t
    BY <1>0, <1>5 DEF Tokens
  <1>7. \A u \in Threads : ~Sent(u, s) /\ ~(pc[u] \in Gathered /\ Sess(u) = s)
    BY <1>0, <1>6 DEF SendTok, Sent, Gathered
  <1>8. \A u \in Threads : ~Sent(u, s)' /\ ~(pc'[u] \in Gathered /\ frame'[u].sess = s)
    BY <1>2, <1>7 DEF Others, Sent, Gathered, Sess
  <1>9. QueueOK(s)'
    <2> SUFFICES ASSUME InUse(s)' PROVE QueueOK(s)'
      BY DEF QueueOK
    <2>1. InUse(s)
      BY <1>3 DEF InUse, Begun
    <2>2. accepted[slot[s].sessionId] = wire[slot[s].sessionId] \o r
      BY <1>7, <2>1 DEF QueueOK, OrderInv, Unsent
    <2>3. Unsent(s)' = r
      BY <1>3, <1>8 DEF Unsent
    <2>4. OpsOf(s, "send")' = {}
      BY <1>2, <1>6 DEF OpsOf
    <2> QED BY <1>2, <1>3, <1>4, <1>8, <2>2, <2>3, <2>4 DEF QueueOK, Sess
  <1>10. ASSUME NEW q \in Slots, q # s PROVE QueueOK(q)'
    <2>1. Elsewhere(t, q)
      BY <1>0, <1>1, <1>2, <1>3, <1>10 DEF Elsewhere, SameQueue, OpsOf, Sent, Gathered, Sess
    <2> QED BY <1>2, <2>1, QueueStays DEF OrderInv
  <1>11. \A q \in Slots : slot'[q].sessionId = slot[q].sessionId
    BY <1>3
  <1>12. \A u \in Threads : pc'[u] = "sp_enqueue" => S(u)'.sessionId = frame'[u].id
    BY <1>0, <1>2, <1>11, AimStays
  <1>13. SendOrder' /\ \A id \in Ids : id >= nextSessionId' => accepted'[id] = <<>> /\ wire'[id] = <<>>
    BY <1>2 DEF OrderInv, SendOrder
  <1> QED BY <1>9, <1>10, <1>12, <1>13 DEF OrderInv

(* The packets sent leave the ring. *)
LEMMA DequeueOrder ==
  ASSUME SessionInv, OrderInv, NEW w \in Workers, SendDequeue(w)
  PROVE  OrderInv'
  <1>0. TypeInv /\ ThreadInv /\ Tokens /\ pc[w] = "dequeue" /\ w \in Threads
    BY Parts DEF SendDequeue, SessionInv, Threads
  <1>1. PICK s \in Slots : s = frame[w].client
    BY <1>0, AtHandler DEF HandlerLabels
  <1> DEFINE r == slot[s].sendRing
             c == slot[s].sendPacketCount
             n == Min2(c, Len(r))
  <1>2. /\ slot' = [slot EXCEPT ![s].sendRing = SubSeq(r, n + 1, Len(r))]
        /\ io' = io /\ accepted' = accepted /\ wire' = wire /\ nextSessionId' = nextSessionId
        /\ Others(w) /\ pc'[w] = "clear" /\ frame' = frame
    BY <1>0, <1>1 DEF SendDequeue, Step, Goto, tables, kernel, history, Others, ThreadInv
  <1>3. /\ slot[s] \in Session /\ r \in Seq(Packet) /\ Len(r) \in Nat /\ c \in Nat
        /\ slot'[s].sessionId = slot[s].sessionId /\ slot'[s].sendRing = SubSeq(r, n + 1, Len(r))
        /\ slot'[s].isTornDown = slot[s].isTornDown
        /\ \A q \in Slots \ {s} : slot'[q] = slot[q]
    <2> DEFINE v == SubSeq(r, n + 1, Len(r))
    <2>1. slot' = [slot EXCEPT ![s].sendRing = v]
      BY <1>2
    <2> HIDE DEF v
    <2>2. slot'[s] = [slot[s] EXCEPT !.sendRing = v] /\ \A q \in Slots \ {s} : slot'[q] = slot[q]
      BY <1>0, <2>1 DEF TypeInv, SharedTypes
    <2>3. slot[s] \in Session /\ r \in Seq(Packet) /\ Len(r) \in Nat /\ c \in Nat
      BY <1>0, SlotTyped, SessionAssumption, SMT
    <2>4. /\ slot'[s].sessionId = slot[s].sessionId /\ slot'[s].sendRing = v
          /\ slot'[s].isTornDown = slot[s].isTornDown
      BY <2>2, <2>3, SMT DEF Session
    <2> QED BY <2>2, <2>3, <2>4 DEF v
  <1>5. SendTok(w, s) /\ Sent(w, s)
    BY <1>0, <1>1 DEF SendTok, Sent
  <1>6. /\ OpsOf(s, "send") = {}
        /\ \A u \in Threads : SendTok(u, s) => u = w
    BY <1>0, <1>5 DEF Tokens
  <1>7. ASSUME NEW u \in Threads
        PROVE  /\ u # w => ~Sent(u, s)
               /\ ~(pc[u] \in Gathered \cup {"so_peek"} /\ Sess(u) = s)
    BY <1>0, <1>6 DEF SendTok, Sent, Gathered
  <1>8. \A u \in Threads : ~Sent(u, s)' /\ ~(pc'[u] \in Gathered \cup {"so_peek"} /\ frame'[u].sess = s)
    BY <1>2, <1>7 DEF Others, Sent, Gathered, Sess
  <1>9. QueueOK(s)'
    <2> SUFFICES ASSUME InUse(s)' PROVE QueueOK(s)'
      BY DEF QueueOK
    <2>1. InUse(s)
      BY <1>3 DEF InUse, Begun
    <2>2. Counted(s) /\ accepted[slot[s].sessionId] = wire[slot[s].sessionId] \o SubSeq(r, c + 1, Len(r))
      BY <1>0, <1>5, <2>1 DEF QueueOK, OrderInv, Unsent
    <2>3. n = c
      BY <1>3, <2>2, SMTT(30) DEF Counted, Min2
    <2>4. Unsent(s)' = SubSeq(r, c + 1, Len(r))
      BY <1>3, <1>8, <2>3 DEF Unsent
    <2>5. OpsOf(s, "send")' = {}
      BY <1>2, <1>6 DEF OpsOf
    <2> QED BY <1>2, <1>3, <1>8, <2>2, <2>4, <2>5 DEF QueueOK, Sess
  <1>10. ASSUME NEW q \in Slots, q # s PROVE QueueOK(q)'
    <2>1. Elsewhere(w, q)
      BY <1>0, <1>1, <1>2, <1>3, <1>10 DEF Elsewhere, SameQueue, OpsOf, Sent, Gathered
    <2> QED BY <1>0, <1>2, <2>1, QueueStays DEF OrderInv
  <1>11. \A q \in Slots : slot'[q].sessionId = slot[q].sessionId
    BY <1>3
  <1>12. \A u \in Threads : pc'[u] = "sp_enqueue" => S(u)'.sessionId = frame'[u].id
    BY <1>0, <1>2, <1>11, AimStays
  <1>13. SendOrder' /\ \A id \in Ids : id >= nextSessionId' => accepted'[id] = <<>> /\ wire'[id] = <<>>
    BY <1>2 DEF OrderInv, SendOrder
  <1> QED BY <1>9, <1>10, <1>12, <1>13 DEF OrderInv

(* The ring of a session that is torn down is drained. *)
LEMMA DrainOrder ==
  ASSUME SessionInv, OrderInv, NEW t \in Threads, RemoveDrain(t)
  PROVE  OrderInv'
  <1>0. TypeInv /\ ThreadInv /\ pc[t] = "rm_drain"
    BY Parts DEF RemoveDrain
  <1>1. PICK s \in Slots : s = Sess(t) /\ slot[s].isTornDown
    BY <1>0, AtSess DEF SessLabels, Labels, HandlerLabels, FindLabels, SessionInv, Teardown, TearingDown, S
  <1>2. /\ slot' = [slot EXCEPT ![s].sendRing = Tail(slot[s].sendRing)]
        /\ io' = io /\ accepted' = accepted /\ wire' = wire /\ nextSessionId' = nextSessionId
        /\ pc' = pc /\ frame' = frame
    BY <1>1 DEF RemoveDrain, tables, kernel, history
  <1>3. /\ slot'[s].sessionId = slot[s].sessionId /\ slot'[s].isTornDown
        /\ \A q \in Slots \ {s} : slot'[q] = slot[q]
    BY <1>0, <1>1, <1>2, SlotTyped, SMT DEF TypeInv, SharedTypes, Session
  <1>4. QueueOK(s)'
    BY <1>3 DEF QueueOK, InUse
  <1>5. ASSUME NEW q \in Slots, q # s PROVE QueueOK(q)'
    <2>1. Elsewhere(t, q)
      BY <1>0, <1>2, <1>3, <1>5 DEF Elsewhere, SameQueue, OpsOf, Sent, Gathered, Sess
    <2> QED BY <1>2, <2>1, QueueStays DEF OrderInv, Others
  <1>6. Others(t) /\ pc'[t] # "sp_enqueue" /\ \A q \in Slots : slot'[q].sessionId = slot[q].sessionId
    BY <1>0, <1>2, <1>3 DEF Others
  <1>7. \A u \in Threads : pc'[u] = "sp_enqueue" => S(u)'.sessionId = frame'[u].id
    BY <1>0, <1>6, AimStays
  <1>8. SendOrder' /\ \A id \in Ids : id >= nextSessionId' => accepted'[id] = <<>> /\ wire'[id] = <<>>
    BY <1>2 DEF OrderInv, SendOrder
  <1> QED BY <1>4, <1>5, <1>7, <1>8 DEF OrderInv
(* What a worker does with a completion, but for the ring. *)
LEMMA HandlerOrder ==
  ASSUME SessionInv, OrderInv, NEW w \in Workers,
         OnRecvSend(w) \/ OnRecvClose(w) \/ RecvDone(w) \/ SendMore(w) \/ Decrement(w)
  PROVE  OrderInv'
  <1>0. TypeInv /\ ThreadInv /\ w \in Threads
    BY Parts DEF Threads
  <1>1. /\ io' = io /\ accepted' = accepted /\ wire' = wire /\ nextSessionId' = nextSessionId
        /\ pc[w] \in {"recvLoop", "more", "dec"}
        /\ slot' = slot \/ Decrement(w)
    BY DEF OnRecvSend, OnRecvClose, Condemn, RecvDone, SendMore, Decrement, Reads, Writes, tables, kernel, history
  <1>2. Others(w) /\ pc'[w] \in {"sp_find", "rm_find", "rp_check", "so_xchg", "dec", "readId"}
    <2>1. CASE OnRecvSend(w)
      BY <1>0, <2>1, SMT DEF OnRecvSend, Goto, Others, ThreadInv
    <2>2. CASE OnRecvClose(w)
      BY <1>0, <2>2, SMTT(30) DEF OnRecvClose, CallRemove, Goto, Others, ThreadInv
    <2>3. CASE RecvDone(w) \/ SendMore(w) \/ Decrement(w)
      BY <1>0, <2>3, SMT DEF RecvDone, SendMore, Decrement, Step, Goto, Others, ThreadInv
    <2> QED BY <2>1, <2>2, <2>3
  <1>3. \A s \in Slots : OpsOf(s, "send")' = OpsOf(s, "send")
    BY <1>1 DEF OpsOf
  <1>4. \A s \in Slots : SameQueue(s)
    <2>1. CASE slot' = slot
      BY <2>1 DEF SameQueue
    <2>2. CASE Decrement(w)
      <3>1. PICK s \in Slots : s = frame[w].client
        BY <1>0, <2>2, AtHandler DEF HandlerLabels, Decrement, Writes
      <3>2. slot' = [slot EXCEPT ![s] = AddIo(slot[s], -1)] /\ -1 \in Int
        BY <2>2, <3>1 DEF Decrement, Writes
      <3> QED BY <1>0, <3>2, IoSame
    <2> QED BY <1>1, <2>1, <2>2
  <1> QED BY <1>0, <1>1, <1>2, <1>3, <1>4, AwayOrder DEF Gathered

(* The calls of the application. *)
LEMMA AppOrder ==
  ASSUME SessionInv, OrderInv, NEW a \in Apps, NEW id, AppSend(a, id) \/ AppDisconnect(a, id)
  PROVE  OrderInv'
  <1>0. ThreadInv /\ a \in Threads
    BY Parts DEF SessionInv, TypeInv, Threads
  <1>1. /\ slot' = slot /\ io' = io /\ accepted' = accepted /\ wire' = wire /\ nextSessionId' = nextSessionId
        /\ pc[a] = "idle"
    BY DEF AppSend, AppDisconnect, Condemn, tables, kernel
  <1>2. Others(a) /\ pc'[a] \in {"sp_find", "rm_find"}
    BY <1>0, SMT DEF AppSend, AppDisconnect, CallRemove, Goto, Others, ThreadInv
  <1>3. \A s \in Slots : SameQueue(s) /\ OpsOf(s, "send")' = OpsOf(s, "send")
    BY <1>1 DEF SameQueue, OpsOf
  <1> QED BY <1>0, <1>1, <1>2, <1>3, AwayOrder DEF Gathered

(* The accept thread takes a slot, and publishes it. *)
LEMMA PublishOrder ==
  ASSUME SessionInv, OrderInv, AcceptPop \/ AcceptInsert
  PROVE  OrderInv'
  <1>0. ThreadInv /\ Acceptor \in Threads
    BY Parts DEF SessionInv, TypeInv, Threads
  <1>1. /\ slot' = slot /\ io' = io /\ accepted' = accepted /\ wire' = wire /\ nextSessionId' = nextSessionId
        /\ pc[Acceptor] \in {"idle", "insert"}
    BY DEF AcceptPop, AcceptInsert, kernel, history
  <1>2. Others(Acceptor) /\ pc'[Acceptor] \in {"init", "join"}
    BY <1>0, SMT DEF AcceptPop, AcceptInsert, Step, Goto, Others, ThreadInv
  <1>3. \A s \in Slots : SameQueue(s) /\ OpsOf(s, "send")' = OpsOf(s, "send")
    BY <1>1 DEF SameQueue, OpsOf
  <1> QED BY <1>0, <1>1, <1>2, <1>3, AwayOrder DEF Gathered

(* A new session starts with nothing queued. *)
LEMMA FreshOrder ==
  ASSUME SessionInv, OrderInv, AcceptInit, \A t \in Threads \ {Acceptor} : ~Uses(t, Sess(Acceptor))
  PROVE  OrderInv'
  <1>0. TypeInv /\ ThreadInv /\ Acceptor \in Threads /\ pc[Acceptor] = "init"
    BY Parts DEF Threads, AcceptInit
  <1>1. PICK s \in Slots : s = Sess(Acceptor)
    BY <1>0, AtSess DEF SessLabels, Labels, HandlerLabels, FindLabels
  <1> DEFINE new == [FreshSlot EXCEPT !.sessionId = nextSessionId,
                                      !.sendPacketCount = slot[s].sendPacketCount]
  <1>2. /\ slot' = [slot EXCEPT ![s] = new] /\ nextSessionId' = nextSessionId + 1
        /\ io' = io /\ accepted' = accepted /\ wire' = wire
        /\ Others(Acceptor) /\ pc'[Acceptor] = "insert" /\ frame' = frame
    BY <1>0, <1>1 DEF AcceptInit, Step, Goto, kernel, history, Others, S, ThreadInv
  <1>3. new.sessionId = nextSessionId /\ new.sendRing = <<>>
    BY SMT DEF FreshSlot
  <1> HIDE DEF new
  <1>4. /\ slot'[s].sessionId = nextSessionId /\ slot'[s].sendRing = <<>>
        /\ \A q \in Slots \ {s} : slot'[q] = slot[q]
    BY <1>0, <1>2, <1>3 DEF TypeInv, SharedTypes
  <1>5. nextSessionId \in Ids
    <2>1. nextSessionId < MaxSessions /\ nextSessionId \in Nat /\ MaxSessions \in Nat
      BY <1>0, FrameTyped, SessionAssumption, SMT DEF CtlOf, TypeInv, SharedTypes
    <2> QED BY <2>1, SMT DEF Ids
  <1>6. accepted[nextSessionId] = <<>> /\ wire[nextSessionId] = <<>>
    <2>1. nextSessionId >= nextSessionId
      BY <1>5, NoneApart, SMT
    <2> QED BY <1>5, <2>1 DEF OrderInv
  <1>7. ASSUME NEW u \in Threads
        PROVE  /\ frame[u].client # s
               /\ u # Acceptor /\ Sess(u) = s => pc[u] = "rm_find"
    <2>1. CASE u = Acceptor
      BY <1>0, <2>1, AtClient, NoneApart, SessionAssumption
    <2>2. CASE u # Acceptor
      BY <1>1, <2>2 DEF Uses
    <2> QED BY <2>1, <2>2
  <1>8. OpsOn(s) = {}
    <2>1. CASE Begun(s)
      BY <1>0, <1>1, <2>1 DEF SessionInv, Places, S, Teardown, Dead
    <2>2. CASE ~Begun(s)
      BY <1>0, <2>2 DEF TypeInv, SharedPtrs, OpsOn
    <2> QED BY <2>1, <2>2
  <1>9. QueueOK(s)'
    <2>1. \A u \in Threads : ~Sent(u, s)' /\ ~(pc'[u] \in Gathered \cup {"so_peek"} /\ frame'[u].sess = s)
      BY <1>1, <1>2, <1>7 DEF Sent, Gathered, Others, Sess
    <2>2. OpsOf(s, "send")' = {}
      BY <1>2, <1>8 DEF OpsOf, OpsOn
    <2>3. Unsent(s)' = <<>>
      BY <1>4, <2>1 DEF Unsent
    <2>4. <<>> = <<>> \o <<>>
      OBVIOUS
    <2>5. (accepted[slot[s].sessionId] = wire[slot[s].sessionId] \o Unsent(s))'
      BY <1>2, <1>4, <1>6, <2>3, <2>4
    <2> QED BY <2>1, <2>2, <2>5 DEF QueueOK, Sess
  <1>10. ASSUME NEW q \in Slots, q # s PROVE QueueOK(q)'
    <2>1. Elsewhere(Acceptor, q)
      BY <1>0, <1>2, <1>4, <1>10 DEF Elsewhere, SameQueue, OpsOf, Sent, Gathered
    <2> QED BY <1>0, <1>2, <2>1, QueueStays DEF OrderInv
  <1>11. ASSUME NEW u \in Threads, pc'[u] = "sp_enqueue" PROVE S(u)'.sessionId = frame'[u].id
    <2>1. u # Acceptor /\ pc[u] = "sp_enqueue"
      BY <1>2, <1>11 DEF Others
    <2>2. Sess(u) \in Slots \ {s}
      BY <1>0, <1>7, <2>1, AtSess DEF SessLabels, Labels, HandlerLabels, FindLabels
    <2> QED BY <1>2, <1>4, <2>1, <2>2 DEF OrderInv, S, Sess
  <1>12. \A id \in Ids : id >= nextSessionId' => accepted'[id] = <<>> /\ wire'[id] = <<>>
    <2>1. \A id \in Ids : id >= nextSessionId + 1 => id >= nextSessionId
      BY <1>5, NoneApart, SMT
    <2> QED BY <1>2, <2>1 DEF OrderInv
  <1> QED BY <1>2, <1>9, <1>10, <1>11, <1>12 DEF OrderInv, SendOrder
(* A completion without packets is dequeued. *)
LEMMA GetOtherOrder ==
  ASSUME SessionInv, OrderInv, NEW w \in Workers, NEW r \in io, GetZero(w, r) \/ GetRecv(w, r)
  PROVE  OrderInv'
  <1>0. ThreadInv /\ w \in Threads
    BY Parts DEF SessionInv, TypeInv, Threads
  <1>1. /\ slot' = slot /\ accepted' = accepted /\ wire' = wire /\ nextSessionId' = nextSessionId
        /\ io' \subseteq io /\ pc[w] = "idle"
    BY DEF GetZero, GetRecv, Dequeue, tables
  <1>2. Others(w) /\ pc'[w] \in {"dec", "recvLoop"}
    BY <1>0, SMT DEF GetZero, GetRecv, Dequeue, Goto, Others, ThreadInv
  <1>3. \A s \in Slots : SameQueue(s) /\ OpsOf(s, "send")' \subseteq OpsOf(s, "send")
    BY <1>1 DEF SameQueue, OpsOf
  <1> QED BY <1>0, <1>1, <1>2, <1>3, AwayOrder DEF Gathered

(* A send completes: the peer has what the send was made of. *)
LEMMA GetSendOrder ==
  ASSUME SessionInv, OrderInv, NEW w \in Workers, NEW r \in io, GetSend(w, r)
  PROVE  OrderInv'
  <1>0. TypeInv /\ ThreadInv /\ Tokens /\ Records /\ IdsOnce /\ w \in Threads
    BY Parts DEF SessionInv, Threads
  <1>1. PICK s \in Slots : s = r.slot
    BY <1>0, SMT DEF TypeInv, SharedTypes
  <1> DEFINE ring == slot[s].sendRing
             c    == slot[s].sendPacketCount
             id   == slot[s].sessionId
             rest == SubSeq(ring, c + 1, Len(ring))
  <1>2. /\ slot' = slot /\ accepted' = accepted /\ nextSessionId' = nextSessionId
        /\ io' = io \ {r} /\ pc[w] = "idle" /\ r.kind = "send"
        /\ wire' = [wire EXCEPT ![r.id] = wire[r.id] \o r.pkts]
    BY DEF GetSend, Dequeue, tables
  <1>3. Others(w) /\ pc'[w] = "dequeue" /\ frame'[w].client = s
    <2>1. /\ pc' = [pc EXCEPT ![w] = "dequeue"] /\ frame' = [frame EXCEPT ![w].client = s]
      BY <1>1 DEF GetSend, Dequeue, Goto
    <2>2. Others(w) /\ pc'[w] = "dequeue" /\ frame'[w] = [frame[w] EXCEPT !.client = s]
      BY <1>0, <2>1 DEF Others, ThreadInv
    <2> QED BY <1>0, <2>2, FrameTyped, SMT DEF Frame
  <1>4. r \in OpsOf(s, "send") /\ r.id = id /\ id \in Ids /\ Begun(s)
    BY <1>0, <1>1, <1>2, NoneApart, SMT DEF OpsOf, Records, TypeInv, SharedTypes, SharedPtrs, Begun
  <1>5. InUse(s)
    <2>1. ~Dead(s)
      BY <1>4 DEF Dead, OpsOn, OpsOf
    <2> QED BY <1>4, <2>1 DEF InUse, SessionInv, Teardown
  <1>6. \A u \in Threads : ~SendTok(u, s)
    BY <1>0, <1>4 DEF Tokens
  <1>7. \A u \in Threads : ~Sent(u, s) /\ ~(pc[u] \in Gathered \cup {"so_peek"} /\ Sess(u) = s)
    BY <1>6 DEF SendTok, Sent, Gathered
  <1>8. OpsOf(s, "send")' = {}
    BY <1>0, <1>1, <1>2 DEF Records, OpsOf
  <1>9. /\ ring \in Seq(Packet) /\ wire[id] \in Seq(Packet) /\ c \in 0..Len(ring)
        /\ r.pkts = SubSeq(ring, 1, c) /\ accepted[id] = wire[id] \o ring /\ Counted(s)
    <2>1. Taken(s, r.pkts) /\ accepted[id] = wire[id] \o ring
      BY <1>4, <1>5, <1>7 DEF OrderInv, QueueOK, Unsent
    <2>2. ring \in Seq(Packet) /\ wire[id] \in Seq(Packet) /\ c \in Nat /\ Len(ring) \in Nat
      BY <1>0, <1>4, SlotTyped, SessionAssumption, SMT DEF TypeInv, SharedTypes
    <2>3. c \in 0..Len(ring)
      BY <2>1, <2>2, SMT DEF Taken, Counted
    <2> QED BY <2>1, <2>2, <2>3 DEF Taken
  <1> HIDE DEF ring, c, id
  <1>10. /\ r.pkts \in Seq(Packet) /\ rest \in Seq(Packet) /\ r.pkts \o rest = ring
    <2>1. ring \in Seq(Packet) /\ c \in 0..Len(ring)
      BY <1>9
    <2>2. SubSeq(ring, 1, c) \in Seq(Packet) /\ rest \in Seq(Packet) /\ SubSeq(ring, 1, c) \o rest = ring
      BY <2>1, SeqSplit
    <2> QED BY <1>9, <2>2
  <1> HIDE DEF rest
  <1>11. /\ wire'[id] = wire[id] \o r.pkts
         /\ \A i \in Ids \ {id} : wire'[i] = wire[i]
    BY <1>0, <1>2, <1>4 DEF TypeInv, SharedTypes
  <1>12. accepted[id] = wire'[id] \o rest /\ wire'[id] \in Seq(Packet)
    <2> DEFINE a == wire[id]
               b == r.pkts
    <2>1. a \in Seq(Packet) /\ b \in Seq(Packet) /\ rest \in Seq(Packet)
      BY <1>9, <1>10
    <2> HIDE DEF a, b
    <2>2. a \o (b \o rest) = (a \o b) \o rest
      BY <2>1, ConcatAssociative
    <2>3. a \o b \in Seq(Packet)
      BY <2>1
    <2> QED BY <1>9, <1>10, <1>11, <2>2, <2>3, SMTT(30) DEF a, b
  <1>13. QueueOK(s)'
    <2>1. Sent(w, s)'
      BY <1>3 DEF Sent
    <2>2. Unsent(s)' = rest
      BY <1>0, <1>2, <2>1 DEF Unsent, rest, ring, c
    <2>3. (accepted[slot[s].sessionId] = wire[slot[s].sessionId] \o Unsent(s))'
      BY <1>2, <1>12, <2>2 DEF id
    <2>4. Counted(s)'
      BY <1>2, <1>9 DEF Counted
    <2>5. \A u \in Threads : ~(pc'[u] \in Gathered /\ frame'[u].sess = s)
      BY <1>3, <1>7 DEF Others, Gathered, Sess
    <2> QED BY <1>8, <2>3, <2>4, <2>5 DEF QueueOK, Sess
  <1>14. ASSUME NEW q \in Slots, q # s PROVE QueueOK(q)'
    <2>1. Begun(q) => slot[q].sessionId \in Ids \ {id}
      BY <1>0, <1>4, <1>14, SlotTyped DEF IdsOnce, id
    <2>2. Elsewhere(w, q)
      BY <1>0, <1>2, <1>3, <1>11, <1>14, <2>1 DEF Elsewhere, SameQueue, OpsOf, Sent, Gathered
    <2> QED BY <1>0, <1>3, <2>2, QueueStays DEF OrderInv
  <1>15. \A u \in Threads : pc'[u] = "sp_enqueue" => S(u)'.sessionId = frame'[u].id
    BY <1>0, <1>2, <1>3, AimStays
  <1>16. SendOrder'
    <2>1. IsPrefix(wire'[id], accepted[id])
      BY <1>10, <1>12, PrefixOfConcat
    <2> QED BY <1>2, <1>11, <2>1 DEF OrderInv, SendOrder
  <1>17. \A i \in Ids : i >= nextSessionId' => accepted'[i] = <<>> /\ wire'[i] = <<>>
    <2>1. ~(id >= nextSessionId)
      BY <1>0, <1>1, <1>4, NoneApart, SessionAssumption, SMTT(30) DEF TypeInv, SharedTypes, SharedPtrs, id
    <2>2. \A i \in Ids : i >= nextSessionId => accepted[i] = <<>> /\ wire[i] = <<>>
      BY DEF OrderInv
    <2>3. nextSessionId' = nextSessionId /\ accepted' = accepted
      BY <1>2
    <2> QED BY <1>11, <2>1, <2>2, <2>3
  <1> QED BY <1>13, <1>14, <1>15, <1>16, <1>17 DEF OrderInv

(* Before the first connection nothing was accepted. *)
LEMMA InitOrder == Init => OrderInv
  <1> SUFFICES ASSUME Init PROVE OrderInv
    OBVIOUS
  <1>1. /\ \A t \in Threads : pc[t] = "idle"
        /\ \A id \in Ids : accepted[id] = <<>> /\ wire[id] = <<>>
        /\ \A s \in Slots : slot[s].sessionId = NoId
    BY DEF Init, FreshSlot
  <1>2. IsPrefix(<<>>, <<>>)
    <2>1. <<>> \in Seq(Packet) /\ <<>> \o <<>> = <<>>
      OBVIOUS
    <2> QED BY <2>1, PrefixOfConcat
  <1> QED BY <1>1, <1>2 DEF OrderInv, SendOrder, QueueOK, InUse, Begun

(* Every step keeps the order. *)
LEMMA NextOrder ==
  ASSUME SessionInv, OrderInv, [Next]_vars,
         AcceptInit => \A t \in Threads \ {Acceptor} : ~Uses(t, Sess(Acceptor))
  PROVE  OrderInv'
  <1>0. TypeInv /\ ThreadInv /\ Acceptor \in Threads /\ Workers \subseteq Threads
    BY Parts DEF Threads
  <1>1. ASSUME NEW t \in Threads, Plain(t) \/ (t \in Workers /\ SendClear(t)) \/ (t = Acceptor /\ AcceptJoin)
        PROVE  OrderInv'
    BY <1>0, <1>1, PlainWalks, WalkOrder
  <1>2. CASE Accept
    BY <1>0, <1>1, <1>2, PublishOrder, FreshOrder DEF Accept
  <1>3. ASSUME NEW t \in Threads, RecvPost(t) PROVE OrderInv'
    BY <1>1, <1>3, PostOrder, PostFailsOrder DEF RecvPost, RecvPostCall, Plain
  <1>4. ASSUME NEW t \in Threads, SendPacket(t) PROVE OrderInv'
    BY <1>1, <1>4, FindOrder, EnqueueOrder DEF SendPacket, Plain
  <1>5. ASSUME NEW t \in Threads, SendPost(t) PROVE OrderInv'
    BY <1>1, <1>5, CountOrder, PeekOrder, PostOrder, PostFailsOrder DEF SendPost, SendPostCall, Plain
  <1>6. ASSUME NEW t \in Threads, RemoveSession(t) PROVE OrderInv'
    BY <1>1, <1>6, RemoveOrder, DrainOrder DEF RemoveSession, Plain
  <1>7. ASSUME NEW w \in Workers, (\E r \in io : Get(w, r)) \/ Handle(w) \/ OnRecvSend(w) \/ OnRecvClose(w)
        PROVE  OrderInv'
    BY <1>0, <1>1, <1>7, GetOtherOrder, GetSendOrder, HandlerOrder, DequeueOrder DEF Get, Handle
  <1>8. ASSUME NEW a \in Apps, NEW id \in Joined, AppSend(a, id) \/ AppDisconnect(a, id) PROVE OrderInv'
    BY <1>8, AppOrder
  <1>9. CASE /\ slot' = slot /\ nextSessionId' = nextSessionId /\ io' = io /\ pc' = pc /\ frame' = frame
             /\ accepted' = accepted /\ wire' = wire
    BY <1>9 DEF OrderInv, SendOrder, QueueOK, InUse, Begun, Unsent, Sent, Counted, Taken, OpsOf, S, Sess
  <1>10. ASSUME NEW id \in Ids, PeerClose(id) PROVE OrderInv'
    BY <1>9, <1>10 DEF PeerClose, tables, history
  <1>11. CASE UNCHANGED vars
    BY <1>9, <1>11 DEF vars, tables, kernel, history
  <1>12. CASE Quiescent
    BY <1>11, <1>12 DEF Quiescent
  <1> QED BY <1>2, <1>3, <1>4, <1>5, <1>6, <1>7, <1>8, <1>10, <1>11, <1>12 DEF Next

-----------------------------------------------------------------------------
(* The theorems *)

(* The invariant of every behaviour whose slots are reused unheld. *)
LEMMA OrderInductive == Spec /\ ReusedUnheld => []OrderInv
  <1>1. ASSUME SessionInv, OrderInv, [Next]_vars,
               [AcceptInit => \A t \in Threads \ {Acceptor} : ~Uses(t, Sess(Acceptor))]_vars
        PROVE  OrderInv'
    <2>1. CASE UNCHANGED vars
      <3>1. nextSessionId' = nextSessionId /\ nextSessionId \in Int
        BY <1>1, <2>1, SessionAssumption, SMT DEF vars, tables, SessionInv, TypeInv, SharedTypes
      <3>2. ~AcceptInit
        BY <3>1 DEF AcceptInit
      <3> QED BY <1>1, <3>2, NextOrder
    <2> QED BY <1>1, <2>1, NextOrder
  <1> QED BY <1>1, InitOrder, SessionInductive, PTL DEF Spec, ReusedUnheld

(* What a peer receives is what sendPacket accepted for its id, in that    *)
(* order, without a gap or a duplicate, and nothing meant for another: as  *)
(* long as no slot is given its next session while a thread still points   *)
(* to it, for any threads, batches and packets queued while a send is in   *)
(* flight. Each enqueue is one step here: two senders inside the ring at   *)
(* once are not in the model.                                              *)
THEOREM OrderIsKept == Spec /\ ReusedUnheld => []SendOrder
  <1>1. OrderInv => SendOrder
    BY DEF OrderInv
  <1> QED BY <1>1, OrderInductive, PTL

(* With one worker and no other threads, and in any server up to its first *)
(* connection, that condition always holds, and the order with it.         *)
THEOREM SendsInOrder ==
  ASSUME OneWorker \/ MaxSessions <= 1
  PROVE  Spec => []SendOrder
  <1>1. Spec => ReusedUnheld
    BY OneWorkerReuse, FirstSessionReuse
  <1> QED BY <1>1, OrderIsKept, PTL
-----------------------------------------------------------------------------
(* The packets of the sessions *)

(* From the lookup of a packet's session to the gathering of a send. *)
Sending == {"sp_enqueue", "sp_pending", "so_xchg", "so_check", "so_count", "so_peek", "so_gather"}
Bare    == AcceptLabels \cup HandlerLabels \cup RecvPostLabels

Giving(t)    == pc[t] \in {"sp_find", "sp_enqueue"}
Parcel(t)    == frame[t].pkts[1]
IsNew(id, p) == p[1] = id /\ p[2] < packets /\ p \notin freed \cup ToSet(accepted[id])

(* A worker sends to the session whose completion it has, and what it      *)
(* gives it is new.                                                        *)
HandOK(t) ==
  /\ pc[t] = "sp_find" => /\ frame[t].client # NoSlot
                          /\ frame[t].id = slot[frame[t].client].sessionId
  /\ pc[t] \in Sending => Sess(t) = frame[t].client
  /\ pc[t] \in Bare => frame[t].pkts = <<>>
  /\ Giving(t) => IsNew(frame[t].id, Parcel(t))

(* Free, or with the accept thread for its next session. *)
Spare(s) == Listed(s) \/ (pc[Acceptor] = "init" /\ Sess(Acceptor) = s)

(* What was accepted for the session in slot s waits in the ring, once, or *)
(* is deleted; a session that is closed has nothing left.                  *)
RingOK(s) ==
  LET ring == slot[s].sendRing
      id   == slot[s].sessionId
  IN
  /\ IsInjective(ring)
  /\ ToSet(ring) \cap freed = {}
  /\ ~Begun(s) => ring = <<>>
  /\ Begun(s) => /\ ToSet(ring) \subseteq ToSet(accepted[id])
                 /\ ToSet(accepted[id]) \subseteq freed \cup ToSet(ring)
                 /\ id \in closed => ring = <<>>
                 /\ Spare(s) => id \in closed

PacketInv ==
  /\ \A id \in Ids : \A p \in ToSet(accepted[id]) : p[1] = id /\ p[2] < packets
  /\ \A p \in freed : p[2] < packets
  /\ \A t \in Threads : HandOK(t)
  /\ \A t, u \in Threads : Giving(t) /\ Giving(u) /\ Parcel(t) = Parcel(u) => t = u
  /\ \A s \in Slots : RingOK(s)
  /\ \A id \in Ids : (\A s \in Slots : slot[s].sessionId # id) => ToSet(accepted[id]) \subseteq freed
  /\ \A r \in io : r.kind = "recv" => r.pkts = <<>>

-----------------------------------------------------------------------------
(* Rings and what is in them *)

(* The elements of a sequence. *)
LEMMA Elements ==
  ASSUME NEW D, NEW r \in Seq(D)
  PROVE  /\ ToSet(r) = {r[i] : i \in 1..Len(r)} /\ ToSet(r) \subseteq D
         /\ IsInjective(r) <=> \A i, j \in 1..Len(r) : r[i] = r[j] => i = j
  <1>1. DOMAIN r = 1..Len(r) /\ \A i \in 1..Len(r) : r[i] \in D
    BY SMT
  <1> QED BY <1>1 DEF ToSet, IsInjective

(* The front of a ring without duplicates has nothing of the rest. *)
LEMMA FrontApart ==
  ASSUME NEW r \in Seq(Packet), NEW n \in 0..Len(r)
  PROVE  /\ ToSet(r) = ToSet(SubSeq(r, 1, n)) \cup ToSet(SubSeq(r, n + 1, Len(r)))
         /\ IsInjective(r) => /\ IsInjective(SubSeq(r, n + 1, Len(r)))
                              /\ ToSet(SubSeq(r, 1, n)) \cap ToSet(SubSeq(r, n + 1, Len(r))) = {}
         /\ r = <<>> => SubSeq(r, n + 1, Len(r)) = <<>>
  <1> DEFINE front == SubSeq(r, 1, n)
             rest  == SubSeq(r, n + 1, Len(r))
  <1>1. /\ front \in Seq(Packet) /\ rest \in Seq(Packet) /\ Len(r) \in Nat
        /\ Len(front) = n /\ Len(rest) = Len(r) - n
    BY SeqSplit, LenProperties
  <1>2. /\ \A i \in 1..n : front[i] = r[i]
        /\ \A i \in 1..(Len(r) - n) : rest[i] = r[n + i]
    BY <1>1, SMT
  <1> HIDE DEF front, rest
  <1>3. /\ ToSet(r) = {r[i] : i \in 1..Len(r)}
        /\ ToSet(front) = {r[i] : i \in 1..n}
        /\ ToSet(rest) = {r[n + i] : i \in 1..(Len(r) - n)}
    <2>1. /\ ToSet(r) = {r[i] : i \in 1..Len(r)}
          /\ ToSet(front) = {front[i] : i \in 1..Len(front)}
          /\ ToSet(rest) = {rest[i] : i \in 1..Len(rest)}
      BY <1>1, Elements
    <2>2. Len(front) = n /\ Len(rest) = Len(r) - n
      BY <1>1
    <2>3. {front[i] : i \in 1..n} = {r[i] : i \in 1..n}
      BY <1>2
    <2>4. {rest[i] : i \in 1..(Len(r) - n)} = {r[n + i] : i \in 1..(Len(r) - n)}
      BY <1>2
    <2> QED BY <2>1, <2>2, <2>3, <2>4
  <1>4. ToSet(r) = ToSet(front) \cup ToSet(rest)
    <2>1. \A i \in 1..Len(r) : i \in 1..n \/ (i - n \in 1..(Len(r) - n) /\ n + (i - n) = i)
      BY <1>1, SMT
    <2>2. /\ \A i \in 1..n : i \in 1..Len(r)
          /\ \A i \in 1..(Len(r) - n) : n + i \in 1..Len(r)
      BY <1>1, SMT
    <2> QED BY <1>3, <2>1, <2>2
  <1>5. ASSUME IsInjective(r) PROVE IsInjective(rest) /\ ToSet(front) \cap ToSet(rest) = {}
    <2>1. \A i, j \in 1..Len(r) : r[i] = r[j] => i = j
      BY <1>5, Elements
    <2>2. \A i, j \in 1..(Len(r) - n) : rest[i] = rest[j] => i = j
      <3>1. /\ \A i \in 1..(Len(r) - n) : n + i \in 1..Len(r)
            /\ \A i, j \in 1..(Len(r) - n) : n + i = n + j => i = j
        BY <1>1, SMT
      <3> QED BY <1>2, <2>1, <3>1
    <2>3. \A i \in 1..n, j \in 1..(Len(r) - n) : r[i] # r[n + j]
      BY <1>1, <2>1, SMT
    <2>4. rest \in Seq(Packet) /\ 1..Len(rest) = 1..(Len(r) - n)
      BY <1>1
    <2>5. IsInjective(rest)
      <3>1. \A i, j \in 1..Len(rest) : rest[i] = rest[j] => i = j
        BY <2>2, <2>4
      <3> QED BY <2>4, <3>1, Elements
    <2>6. ToSet(front) \cap ToSet(rest) = {}
      BY <1>3, <2>3
    <2> QED BY <2>5, <2>6
  <1>6. r = <<>> => rest = <<>>
    <2>1. r = <<>> => Len(rest) = 0
      BY <1>1, SMT
    <2> QED BY <1>1, <2>1, EmptySeq
  <1> QED BY <1>4, <1>5, <1>6 DEF front, rest

(* A new packet at the end of a ring. *)
LEMMA BackNew ==
  ASSUME NEW r \in Seq(Packet), NEW p \in Packet
  PROVE  /\ ToSet(Append(r, p)) = ToSet(r) \cup {p}
         /\ IsInjective(r) /\ p \notin ToSet(r) => IsInjective(Append(r, p))
  <1> DEFINE q == Append(r, p)
  <1>1. /\ q \in Seq(Packet) /\ Len(q) = Len(r) + 1 /\ Len(r) \in Nat /\ q[Len(r) + 1] = p
        /\ \A i \in 1..Len(r) : q[i] = r[i]
    BY SMT
  <1> HIDE DEF q
  <1>2. ToSet(r) = {r[i] : i \in 1..Len(r)} /\ ToSet(q) = {q[i] : i \in 1..(Len(r) + 1)}
    BY <1>1, Elements
  <1>3. \A i \in 1..(Len(r) + 1) : i \in 1..Len(r) \/ i = Len(r) + 1
    BY <1>1, SMT
  <1>4. \A i \in 1..Len(r) : i \in 1..(Len(r) + 1)
    BY <1>1, SMT
  <1>5. Len(r) + 1 \in 1..(Len(r) + 1)
    BY <1>1, SMT
  <1>6. ToSet(q) = ToSet(r) \cup {p}
    BY <1>1, <1>2, <1>3, <1>4, <1>5
  <1>7. ASSUME IsInjective(r), p \notin ToSet(r) PROVE IsInjective(q)
    <2>1. /\ \A i, j \in 1..Len(r) : r[i] = r[j] => i = j
          /\ \A i \in 1..Len(r) : r[i] # p
      BY <1>2, <1>7, Elements
    <2>2. \A i, j \in 1..(Len(r) + 1) : q[i] = q[j] => i = j
      BY <1>1, <1>3, <2>1
    <2> QED BY <1>1, <2>2, Elements
  <1> QED BY <1>6, <1>7 DEF q

(* The rings of two sessions have nothing in common. *)
LEMMA RingsApart ==
  ASSUME TypeInv, IdsOnce, PacketInv, NEW s \in Slots, NEW q \in Slots, q # s
  PROVE  ToSet(slot[s].sendRing) \cap ToSet(slot[q].sendRing) = {}
  <1>1. ToSet(<<>>) = {}
    BY DEF ToSet
  <1>2. CASE Begun(s) /\ Begun(q)
    <2>1. slot[s].sessionId \in Ids /\ slot[q].sessionId \in Ids /\ slot[s].sessionId # slot[q].sessionId
      BY <1>2, SlotTyped DEF IdsOnce
    <2> QED BY <1>2, <2>1 DEF PacketInv, RingOK
  <1>3. CASE ~(Begun(s) /\ Begun(q))
    BY <1>1, <1>3 DEF PacketInv, RingOK
  <1> QED BY <1>2, <1>3

-----------------------------------------------------------------------------
(* Steps that leave the packets where they are *)

(* The other threads keep what they have in hand. *)
LEMMA OtherHands ==
  ASSUME ThreadInv, packets \in Nat, PacketInv, NEW t \in Threads, Others(t), packets' \in {packets, packets + 1},
         NEW u \in Threads, u # t,
         \A s \in Slots : frame[u].client = s => slot'[s].sessionId = slot[s].sessionId,
         Giving(u) => Parcel(u) \notin freed' \cup ToSet(accepted'[frame[u].id])
  PROVE  HandOK(u)' /\ (Giving(u)' <=> Giving(u)) /\ Parcel(u)' = Parcel(u)
  <1>1. pc'[u] = pc[u] /\ frame'[u] = frame[u] /\ HandOK(u)
    BY DEF Others, PacketInv
  <1>2. (Giving(u)' <=> Giving(u)) /\ Parcel(u)' = Parcel(u)
    BY <1>1 DEF Giving, Parcel
  <1>3. pc[u] = "sp_find" => slot'[frame[u].client].sessionId = slot[frame[u].client].sessionId
    BY <1>1, AtClient DEF HandOK
  <1>4. Giving(u) => Parcel(u)[2] < packets'
    <2>1. Giving(u) => Parcel(u) \in Packet
      <3>1. Giving(u) => frame[u].pkts \in Seq(Packet) /\ frame[u].pkts # <<>>
        BY FrameTyped DEF Giving, CtlOf
      <3> QED BY <3>1, SMT DEF Parcel
    <2>2. Giving(u) => Parcel(u)[2] \in Nat
      BY <2>1, SMT DEF Packet
    <2> QED BY <1>1, <2>2, SMT DEF HandOK, IsNew
  <1> QED BY <1>1, <1>2, <1>3, <1>4 DEF HandOK, IsNew, Sess

(* What a step of thread t does to the packets: nothing; and what it has   *)
(* in hand after it is what it had, or the one packet just made.           *)
KeepsPackets(t) ==
  /\ Others(t) /\ accepted' = accepted /\ freed' = freed /\ packets' \in {packets, packets + 1}
  /\ closed \subseteq closed'
  /\ \A s \in Slots :
       /\ slot'[s].sessionId = slot[s].sessionId /\ slot'[s].sendRing = slot[s].sendRing
       /\ slot[s].sessionId \in closed' => slot[s].sessionId \in closed \/ slot[s].sendRing = <<>>
       /\ Begun(s) /\ Spare(s)' => Spare(s) \/ slot[s].sessionId \in closed'
  /\ \A r \in io' : r.kind = "recv" => r \in io \/ r.pkts = <<>>
  /\ HandOK(t)'
  /\ Giving(t)' => (Giving(t) /\ Parcel(t)' = Parcel(t)) \/ Parcel(t)'[2] = packets

(* Then they stay accounted for. *)
LEMMA PacketStep ==
  ASSUME TypeInv, PacketInv, NEW t \in Threads, KeepsPackets(t)
  PROVE  PacketInv'
  <1>0. ThreadInv /\ packets \in Nat /\ Others(t) /\ packets' \in {packets, packets + 1}
        /\ \A s \in Slots : slot'[s].sessionId = slot[s].sessionId
    BY SessionAssumption, SMT DEF TypeInv, SharedTypes, KeepsPackets
  <1>1. ASSUME NEW u \in Threads, u # t
        PROVE  HandOK(u)' /\ (Giving(u)' <=> Giving(u)) /\ Parcel(u)' = Parcel(u)
    <2>1. Giving(u) => Parcel(u) \notin freed' \cup ToSet(accepted'[frame[u].id])
      BY DEF PacketInv, HandOK, IsNew, KeepsPackets
    <2> QED BY <1>0, <1>1, <2>1, OtherHands
  <1>2. \A p \in Packet : p[2] < packets => p[2] < packets'
    <2>1. \A p \in Packet : p[2] \in Nat
      BY SMT DEF Packet
    <2> QED BY <1>0, <2>1, SMT
  <1>3. /\ \A id \in Ids : \A p \in ToSet(accepted'[id]) : p[1] = id /\ p[2] < packets'
        /\ \A p \in freed' : p[2] < packets'
    <2>1. \A id \in Ids : accepted[id] \in Seq(Packet)
      BY DEF TypeInv, SharedTypes
    <2>2. \A id \in Ids : ToSet(accepted[id]) \subseteq Packet
      BY <2>1, Elements
    <2>3. freed \subseteq Packet
      BY DEF TypeInv, SharedTypes
    <2> QED BY <1>2, <2>2, <2>3 DEF PacketInv, KeepsPackets
  <1>4. \A u \in Threads : HandOK(u)'
    BY <1>1 DEF KeepsPackets
  <1>5. ASSUME NEW u \in Threads, NEW v \in Threads, u # v, Giving(u)', Giving(v)', Parcel(u)' = Parcel(v)' PROVE FALSE
    <2>1. ASSUME NEW x \in Threads, x # t, Giving(x) PROVE Parcel(x)[2] < packets
      BY <2>1 DEF PacketInv, HandOK, IsNew
    <2>2. \A n : n < packets => n # packets
      BY <1>0, SMT
    <2>3. CASE u # t /\ v # t
      BY <1>1, <1>5, <2>3 DEF PacketInv
    <2>4. CASE u = t
      BY <1>1, <1>5, <2>1, <2>2, <2>4 DEF PacketInv, KeepsPackets
    <2>5. CASE v = t
      BY <1>1, <1>5, <2>1, <2>2, <2>5 DEF PacketInv, KeepsPackets
    <2> QED BY <2>3, <2>4, <2>5
  <1>6. ASSUME NEW s \in Slots PROVE RingOK(s)'
    BY DEF PacketInv, RingOK, KeepsPackets, Begun
  <1>7. \A id \in Ids : (\A s \in Slots : slot'[s].sessionId # id) => ToSet(accepted'[id]) \subseteq freed'
    BY <1>0 DEF PacketInv, KeepsPackets
  <1>8. \A r \in io' : r.kind = "recv" => r.pkts = <<>>
    BY DEF PacketInv, KeepsPackets
  <1> QED BY <1>3, <1>4, <1>5, <1>6, <1>7, <1>8 DEF PacketInv

(* The steps that change neither the ids that are closed nor the slots     *)
(* that are free.                                                          *)
LEMMA HandStep ==
  ASSUME TypeInv, PacketInv, NEW t \in Threads, Others(t), accepted' = accepted, freed' = freed,
         packets' = packets, closed' = closed, freeList' = freeList,
         pc[t] # "init", pc'[t] # "init",
         \A s \in Slots : SameQueue(s), \A r \in io' : r.kind = "recv" => r \in io \/ r.pkts = <<>>,
         HandOK(t)', Giving(t)' => Giving(t) /\ Parcel(t)' = Parcel(t)
  PROVE  PacketInv'
  <1>1. \A s \in Slots : Spare(s)' => Spare(s)
    <2>1. Acceptor \in Threads
      BY DEF Threads
    <2> QED BY <2>1 DEF Spare, Listed, Others, Sess
  <1>2. KeepsPackets(t)
    BY <1>1 DEF KeepsPackets, SameQueue
  <1> QED BY <1>2, PacketStep

(* Steps inside a call. *)
LEMMA WalkPackets ==
  ASSUME TypeInv, PacketInv, NEW t \in Threads, Still, Calm, Walks(t), \A s \in Slots : SameQueue(s)
  PROVE  PacketInv'
  <1>0. ThreadInv /\ frame[t].ret \in Rets
    BY FrameTyped DEF Rets, TypeInv
  <1>1. CASE Flow(pc[t], pc'[t]) /\ frame'[t] = frame[t]
    <2>1. /\ pc[t] # "init" /\ pc'[t] \notin {"init", "sp_find", "sp_enqueue"}
          /\ pc'[t] \in Sending => pc[t] \in Sending
          /\ pc'[t] \in Bare => pc[t] \in Bare
      BY <1>1, SMT DEF Flow, Sending, Bare, AcceptLabels, HandlerLabels, RecvPostLabels
    <2>2. HandOK(t)' /\ ~Giving(t)'
      BY <1>1, <2>1 DEF HandOK, Giving, PacketInv, Sess
    <2> QED BY <2>1, <2>2, HandStep DEF Walks, Calm, tables, Still
  <1>2. CASE pc[t] \in Leaving /\ pc'[t] = frame[t].ret /\ frame'[t] = Back(t)
    <2>1. /\ pc[t] # "init" /\ pc'[t] \notin {"init", "sp_find", "sp_enqueue"} \cup Sending
      BY <1>0, <1>2, SMT DEF Leaving, Rets, Sending
    <2>2. Back(t).pkts = <<>>
      BY SMT DEF Back, NoFrame
    <2>3. HandOK(t)' /\ ~Giving(t)'
      BY <1>2, <2>1, <2>2 DEF HandOK, Giving, Sess
    <2> QED BY <2>1, <2>3, HandStep DEF Walks, Calm, tables, Still
  <1> QED BY <1>1, <1>2 DEF Walks

(* A call that returns leaves nothing in hand. *)
LEMMA ReturnHand ==
  ASSUME ThreadInv, NEW t \in Threads, Return(t)
  PROVE  Others(t) /\ pc'[t] \in Rets /\ HandOK(t)' /\ ~Giving(t)'
  <1>1. Moves(t, frame[t].ret, Back(t))
    BY ReturnMoves
  <1>2. Others(t) /\ pc'[t] \in Rets /\ frame'[t] = Back(t)
    BY <1>1, FrameTyped DEF Moves, Others, ThreadInv, Rets
  <1>3. Back(t).pkts = <<>>
    BY SMT DEF Back, NoFrame
  <1> QED BY <1>2, <1>3 DEF HandOK, Giving, Rets, Sending

(* Nor is there anything in hand in removeSession. *)
LEMMA AwayHand ==
  ASSUME NEW t \in Threads, pc'[t] \in {"so_failed", "readId", "rm_find", "rm_mark", "rm_closing", "rm_erase", "rm_push"}
  PROVE  HandOK(t)' /\ ~Giving(t)' /\ pc'[t] # "init"
  BY DEF HandOK, Giving, Sending, Bare, AcceptLabels, HandlerLabels, RecvPostLabels

(* removeSession finds the session, and takes it from the map. *)
LEMMA RemovePackets ==
  ASSUME TypeInv, PacketInv, NEW t \in Threads, ReadId(t) \/ RemoveFind(t) \/ RemoveErase(t)
  PROVE  PacketInv'
  <1>0. ThreadInv
    BY DEF TypeInv
  <1>1. /\ slot' = slot /\ io' = io /\ accepted' = accepted /\ freed' = freed /\ packets' = packets
        /\ closed' = closed /\ freeList' = freeList /\ pc[t] # "init"
    BY DEF ReadId, RemoveFind, RemoveErase, Reads, tables, kernel, history
  <1>2. Return(t) \/ (Others(t) /\ pc'[t] \in {"rm_find", "rm_mark", "rm_closing", "rm_push"})
    BY <1>0, SMT DEF ReadId, RemoveFind, RemoveErase, CallRemove, Step, Goto, Others, ThreadInv
  <1>3. Others(t) /\ pc'[t] # "init" /\ HandOK(t)' /\ ~Giving(t)'
    BY <1>0, <1>2, ReturnHand, AwayHand DEF Rets
  <1>4. \A s \in Slots : SameQueue(s)
    BY <1>1 DEF SameQueue
  <1> QED BY <1>1, <1>3, <1>4, HandStep

(* The socket is closed when the ring is empty. *)
LEMMA ClosePackets ==
  ASSUME SessionInv, PacketInv, NEW t \in Threads, RemoveClose(t)
  PROVE  PacketInv'
  <1>0. TypeInv /\ ThreadInv /\ IdsOnce /\ pc[t] = "rm_drain" /\ Acceptor \in Threads
    BY Parts DEF SessionInv, RemoveClose, Threads
  <1>1. PICK s \in Slots : s = Sess(t) /\ Begun(s)
    BY <1>0, AtSess DEF SessLabels, Labels, HandlerLabels, FindLabels
  <1>2. /\ slot' = slot /\ io' = io /\ accepted' = accepted /\ freed' = freed /\ packets' = packets
        /\ closed' = closed \cup {slot[s].sessionId} /\ freeList' = freeList /\ slot[s].sendRing = <<>>
        /\ Others(t) /\ pc'[t] = "rm_erase"
    BY <1>0, <1>1 DEF RemoveClose, Step, Goto, tables, S, Others, ThreadInv
  <1>3. \A q \in Slots : Spare(q)' => Spare(q)
    BY <1>0, <1>2 DEF Spare, Listed, Others, Sess
  <1>4. \A q \in Slots : slot[q].sessionId = slot[s].sessionId => q = s
    BY <1>0, <1>1 DEF IdsOnce
  <1>5. HandOK(t)' /\ ~Giving(t)'
    BY <1>2, AwayHand
  <1>6. KeepsPackets(t)
    BY <1>2, <1>3, <1>4, <1>5 DEF KeepsPackets
  <1> QED BY <1>0, <1>6, PacketStep

(* The slot is given back when the session is closed. *)
LEMMA PushPackets ==
  ASSUME ServiceInv, PacketInv, NEW t \in Threads, RemovePush(t)
  PROVE  PacketInv'
  <1>0. TypeInv /\ ThreadInv /\ pc[t] = "rm_push" /\ Acceptor \in Threads
    BY Parts DEF ServiceInv, RemovePush, Threads
  <1>1. PICK s \in Slots : s = Sess(t) /\ slot[s].sessionId \in closed
    <2>1. S(t).sessionId = frame[t].id /\ frame[t].id \in closed
      BY <1>0 DEF ServiceInv, SessionInv, Teardown, AfterFind, Opened
    <2> QED BY <1>0, <2>1, AtSess DEF SessLabels, Labels, HandlerLabels, FindLabels, S
  <1>2. /\ slot' = slot /\ io' = io /\ accepted' = accepted /\ freed' = freed /\ packets' = packets
        /\ closed' = closed /\ freeList' = Append(freeList, s)
    BY <1>1 DEF RemovePush, kernel, history
  <1>3. Others(t) /\ pc'[t] \in Rets /\ HandOK(t)' /\ ~Giving(t)'
    BY <1>0, ReturnHand DEF RemovePush
  <1>4. ASSUME NEW q \in Slots, q # s, Spare(q)' PROVE Spare(q)
    <2>1. CASE Listed(q)'
      <3>1. freeList \in Seq(Slots)
        BY <1>0 DEF TypeInv, SharedTypes
      <3>2. PICK i \in 1..Len(freeList') : freeList'[i] = q
        BY <2>1 DEF Listed
      <3>3. i \in 1..Len(freeList) /\ freeList[i] = q
        BY <1>2, <1>4, <3>1, <3>2, SMT
      <3> QED BY <3>3 DEF Spare, Listed
    <2>2. CASE pc'[Acceptor] = "init" /\ frame'[Acceptor].sess = q
      BY <1>0, <1>3, <2>2 DEF Spare, Others, Sess, Rets
    <2> QED BY <1>4, <2>1, <2>2 DEF Spare, Sess
  <1>5. KeepsPackets(t)
    BY <1>1, <1>2, <1>3, <1>4 DEF KeepsPackets
  <1> QED BY <1>0, <1>5, PacketStep

(* A call that fails. *)
LEMMA PostFailsPackets ==
  ASSUME TypeInv, PacketInv, NEW t \in Threads, NEW l \in {"readId", "so_failed"},
         pc[t] \in {"rp_call", "so_call"}, PostFails(t, l)
  PROVE  PacketInv'
  <1>0. ThreadInv
    BY DEF TypeInv
  <1>1. PICK s \in Slots : s = Sess(t)
    BY <1>0, AtSess DEF SessLabels, Labels, HandlerLabels, FindLabels
  <1>2. /\ slot' = [slot EXCEPT ![s] = AddIo(slot[s], -1)] /\ -1 \in Int
        /\ io' = io /\ accepted' = accepted /\ freed' = freed /\ packets' = packets
        /\ closed' = closed /\ freeList' = freeList
    BY <1>1 DEF PostFails, tables, kernel
  <1>3. Others(t) /\ pc'[t] = l
    BY <1>0, SMT DEF PostFails, Goto, Others, ThreadInv
  <1>4. \A q \in Slots : SameQueue(q)
    BY <1>2, IoSame
  <1>5. HandOK(t)' /\ ~Giving(t)' /\ pc'[t] # "init"
    BY <1>3, AwayHand
  <1> QED BY <1>2, <1>3, <1>4, <1>5, HandStep

(* An operation is posted: a receive refers to no packet. *)
LEMMA PostPackets ==
  ASSUME TypeInv, PacketInv, NEW t \in Threads,
         \/ pc[t] = "rp_call" /\ Post(t, "recv")
         \/ pc[t] = "so_call" /\ Post(t, "send")
  PROVE  PacketInv'
  <1>0. ThreadInv
    BY DEF TypeInv
  <1>1. /\ slot' = slot /\ accepted' = accepted /\ freed' = freed /\ packets' = packets
        /\ closed' = closed /\ freeList' = freeList /\ pc[t] # "init" /\ Return(t)
    BY DEF Post, tables, history
  <1>2. \A r \in io' : r.kind = "recv" => r \in io \/ r.pkts = <<>>
    <2>1. pc[t] = "rp_call" => frame[t].pkts = <<>>
      BY DEF PacketInv, HandOK, Bare, RecvPostLabels
    <2> QED BY <2>1 DEF Post
  <1>3. Others(t) /\ pc'[t] # "init" /\ HandOK(t)' /\ ~Giving(t)'
    BY <1>0, <1>1, ReturnHand DEF Rets
  <1>4. \A s \in Slots : SameQueue(s)
    BY <1>1 DEF SameQueue
  <1> QED BY <1>1, <1>2, <1>3, <1>4, HandStep

(* sendPacket finds the session whose completion the worker has. *)
LEMMA FindPackets ==
  ASSUME SessionInv, PacketInv, NEW t \in Threads, SendPacketFind(t)
  PROVE  PacketInv'
  <1>0. TypeInv /\ ThreadInv /\ Places /\ IdsOnce /\ pc[t] = "sp_find"
    BY Parts DEF SessionInv, SendPacketFind, Reads
  <1> DEFINE s == sessionMap[frame[t].id]
  <1>1. /\ slot' = slot /\ io' = io /\ accepted' = accepted /\ freed' = freed /\ packets' = packets
        /\ closed' = closed /\ freeList' = freeList
        /\ \/ Return(t)
           \/ s # NoSlot /\ frame' = [frame EXCEPT ![t].sess = s] /\ pc' = [pc EXCEPT ![t] = "sp_enqueue"]
    BY DEF SendPacketFind, Reads, kernel, history, tables, Goto
  <1>2. /\ frame[t].client \in Slots /\ Begun(frame[t].client) /\ frame[t].id \in Ids
        /\ frame[t].id = slot[frame[t].client].sessionId
    <2>1. HandOK(t)
      BY DEF PacketInv
    <2> QED BY <1>0, <2>1, AtClient, SlotTyped DEF HandOK
  <1>3. \A q \in Slots : SameQueue(q)
    BY <1>1 DEF SameQueue
  <1>4. CASE Return(t)
    BY <1>0, <1>1, <1>3, <1>4, ReturnHand, HandStep DEF Rets
  <1>5. CASE s # NoSlot /\ frame' = [frame EXCEPT ![t].sess = s] /\ pc' = [pc EXCEPT ![t] = "sp_enqueue"]
    <2>1. s = frame[t].client
      <3>1. s \in Slots /\ slot[s].sessionId = frame[t].id
        BY <1>0, <1>2, <1>5 DEF Places, TypeInv, SharedTypes
      <3> QED BY <1>0, <1>2, <3>1 DEF IdsOnce
    <2>2. /\ Others(t) /\ pc'[t] = "sp_enqueue"
          /\ frame'[t].sess = s /\ frame'[t].client = frame[t].client
          /\ frame'[t].id = frame[t].id /\ frame'[t].pkts = frame[t].pkts
      BY <1>0, <1>5, SMT DEF Others, ThreadInv, Frame
    <2>3. /\ Giving(t) /\ Parcel(t)' = Parcel(t) /\ IsNew(frame[t].id, Parcel(t))
      BY <1>0, <2>2 DEF Giving, Parcel, PacketInv, HandOK
    <2>4. HandOK(t)'
      BY <1>1, <2>1, <2>2, <2>3 DEF HandOK, Bare, AcceptLabels, HandlerLabels, RecvPostLabels, IsNew, Sess
    <2> QED BY <1>0, <1>1, <1>3, <2>2, <2>3, <2>4, HandStep
  <1> QED BY <1>1, <1>4, <1>5

(* sendPost counts the packets of a send... *)
LEMMA CountPackets ==
  ASSUME TypeInv, PacketInv, NEW t \in Threads, SendPostCount(t)
  PROVE  PacketInv'
  <1>0. ThreadInv /\ pc[t] = "so_count"
    BY DEF TypeInv, SendPostCount, Writes
  <1>1. PICK s \in Slots : s = Sess(t)
    BY <1>0, AtSess DEF SessLabels, Labels, HandlerLabels, FindLabels
  <1> DEFINE n   == Min2(Len(slot[s].sendRing), MaxBatch)
             rec == [slot[s] EXCEPT !.sendPacketCount = n]
  <1>2. /\ slot' = [slot EXCEPT ![s] = rec]
        /\ io' = io /\ accepted' = accepted /\ freed' = freed /\ packets' = packets
        /\ closed' = closed /\ freeList' = freeList
        /\ Others(t) /\ pc'[t] = "so_peek" /\ frame'[t] = frame[t]
    BY <1>0, <1>1 DEF SendPostCount, Writes, Step, Goto, tables, kernel, history, Others, S, ThreadInv
  <1> HIDE DEF n
  <1>3. /\ slot'[s].sessionId = slot[s].sessionId /\ slot'[s].sendRing = slot[s].sendRing
        /\ \A q \in Slots \ {s} : slot'[q] = slot[q]
    BY <1>2, SlotTyped, SMT DEF TypeInv, SharedTypes, Session
  <1>4. Sess(t) = frame[t].client
    BY <1>0 DEF PacketInv, HandOK, Sending
  <1>5. HandOK(t)' /\ ~Giving(t)'
    BY <1>2, <1>4 DEF HandOK, Giving, Bare, AcceptLabels, HandlerLabels, RecvPostLabels, Sess
  <1>6. \A q \in Slots : Spare(q)' => Spare(q)
    <2>1. Acceptor \in Threads
      BY DEF Threads
    <2> QED BY <1>2, <2>1 DEF Spare, Listed, Others, Sess
  <1>7. KeepsPackets(t)
    BY <1>2, <1>3, <1>5, <1>6 DEF KeepsPackets
  <1> QED BY <1>7, PacketStep

(* ... and copies their pointers out of the ring. *)
LEMMA PeekPackets ==
  ASSUME TypeInv, PacketInv, NEW t \in Threads, SendPostPeek(t)
  PROVE  PacketInv'
  <1>0. ThreadInv /\ pc[t] = "so_peek"
    BY DEF TypeInv, SendPostPeek, Reads
  <1> DEFINE q == SubSeq(S(t).sendRing, 1, Min2(S(t).sendPacketCount, Len(S(t).sendRing)))
  <1>1. /\ slot' = slot /\ io' = io /\ accepted' = accepted /\ freed' = freed /\ packets' = packets
        /\ closed' = closed /\ freeList' = freeList
        /\ pc' = [pc EXCEPT ![t] = "so_gather"] /\ frame' = [frame EXCEPT ![t].pkts = q]
    BY DEF SendPostPeek, Reads, Goto, tables, kernel, history
  <1> HIDE DEF q
  <1>2. Others(t) /\ pc'[t] = "so_gather" /\ frame'[t] = [frame[t] EXCEPT !.pkts = q] /\ frame[t] \in Frame
    BY <1>0, <1>1 DEF Others, ThreadInv
  <1>3. frame'[t].sess = Sess(t) /\ frame'[t].client = frame[t].client
    BY <1>2, SMT DEF Sess, Frame
  <1>4. Sess(t) = frame[t].client
    BY <1>0 DEF PacketInv, HandOK, Sending
  <1>5. HandOK(t)' /\ ~Giving(t)'
    BY <1>2, <1>3, <1>4 DEF HandOK, Giving, Bare, AcceptLabels, HandlerLabels, RecvPostLabels, Sess
  <1>6. \A s \in Slots : SameQueue(s)
    BY <1>1 DEF SameQueue
  <1> QED BY <1>0, <1>1, <1>2, <1>5, <1>6, HandStep

(* A worker takes a completion, with nothing else in hand. *)
LEMMA GetPackets ==
  ASSUME TypeInv, PacketInv, NEW w \in Workers, NEW r \in io, Get(w, r)
  PROVE  PacketInv'
  <1>0. ThreadInv /\ w \in Threads
    BY DEF TypeInv, Threads
  <1>1. /\ slot' = slot /\ accepted' = accepted /\ freed' = freed /\ packets' = packets
        /\ closed' = closed /\ freeList' = freeList /\ io' \subseteq io /\ pc[w] = "idle"
    BY DEF Get, GetZero, GetRecv, GetSend, Dequeue, tables
  <1>2. frame[w] = NoFrame /\ NoFrame \in Frame /\ NoFrame.pkts = <<>>
    BY <1>0, <1>1, FrameTyped, NoFrameTyped DEF CtlOf, NoFrame
  <1>3. Others(w) /\ pc'[w] \in {"dec", "recvLoop", "dequeue"} /\ frame'[w].pkts = <<>>
    <2>1. ASSUME NEW l, NEW f, pc' = [pc EXCEPT ![w] = l], frame' = [frame EXCEPT ![w] = f]
          PROVE  Others(w) /\ pc'[w] = l /\ frame'[w] = f
      BY <1>0, <2>1 DEF Others, ThreadInv
    <2>2. CASE GetZero(w, r)
      <3> DEFINE f == [frame[w] EXCEPT !.client = r.slot, !.mark = TRUE]
      <3>1. pc' = [pc EXCEPT ![w] = "dec"] /\ frame' = [frame EXCEPT ![w] = f]
        BY <1>0, <2>2 DEF GetZero, Dequeue, Goto, ThreadInv
      <3>2. f.pkts = <<>>
        BY <1>2, SMT DEF Frame
      <3> HIDE DEF f
      <3> QED BY <2>1, <3>1, <3>2
    <2>3. CASE GetRecv(w, r)
      <3> DEFINE f == [frame[w] EXCEPT !.client = r.slot, !.todo = MaxPerRecv]
      <3>1. pc' = [pc EXCEPT ![w] = "recvLoop"] /\ frame' = [frame EXCEPT ![w] = f]
        BY <1>0, <2>3 DEF GetRecv, Dequeue, Goto, ThreadInv
      <3>2. f.pkts = <<>>
        BY <1>2, SMT DEF Frame
      <3> HIDE DEF f
      <3> QED BY <2>1, <3>1, <3>2
    <2>4. CASE GetSend(w, r)
      <3> DEFINE f == [frame[w] EXCEPT !.client = r.slot]
      <3>1. pc' = [pc EXCEPT ![w] = "dequeue"] /\ frame' = [frame EXCEPT ![w] = f]
        BY <1>0, <2>4 DEF GetSend, Dequeue, Goto, ThreadInv
      <3>2. f.pkts = <<>>
        BY <1>2, SMT DEF Frame
      <3> HIDE DEF f
      <3> QED BY <2>1, <3>1, <3>2
    <2> QED BY <2>2, <2>3, <2>4 DEF Get
  <1>4. HandOK(w)' /\ ~Giving(w)'
    BY <1>3 DEF HandOK, Giving, Sending
  <1>5. \A s \in Slots : SameQueue(s)
    BY <1>1 DEF SameQueue
  <1> QED BY <1>0, <1>1, <1>3, <1>4, <1>5, HandStep

(* What a worker does with it, but for the ring and the answers. *)
LEMMA HandlerPackets ==
  ASSUME TypeInv, PacketInv, NEW w \in Workers,
         OnRecvClose(w) \/ RecvDone(w) \/ SendMore(w) \/ Decrement(w)
  PROVE  PacketInv'
  <1>0. ThreadInv /\ w \in Threads
    BY DEF TypeInv, Threads
  <1>1. /\ io' = io /\ accepted' = accepted /\ freed' = freed /\ packets' = packets
        /\ closed' = closed /\ freeList' = freeList
        /\ pc[w] \in {"recvLoop", "more", "dec"}
        /\ slot' = slot \/ Decrement(w)
    BY DEF OnRecvClose, Condemn, RecvDone, SendMore, Decrement, Reads, Writes, tables, kernel, history
  <1>2. frame[w].pkts = <<>>
    BY <1>0, <1>1 DEF PacketInv, HandOK, Bare, HandlerLabels
  <1>3. Others(w) /\ pc'[w] # "init" /\ HandOK(w)' /\ ~Giving(w)'
    <2>1. CASE OnRecvClose(w)
      <3>1. Others(w) /\ pc'[w] = "rm_find"
        BY <1>0, <2>1, SMTT(60) DEF OnRecvClose, CallRemove, Goto, Others, ThreadInv
      <3> QED BY <1>0, <3>1, AwayHand
    <2>2. CASE Decrement(w)
      <3>1. Others(w) /\ pc'[w] = "readId"
        BY <1>0, <2>2, SMT DEF Decrement, Goto, Others, ThreadInv
      <3> QED BY <1>0, <3>1, AwayHand
    <2>3. CASE RecvDone(w) \/ SendMore(w)
      <3>1. /\ Others(w) /\ pc'[w] \in {"rp_check", "so_xchg", "dec"} /\ frame'[w].pkts = frame[w].pkts
            /\ pc'[w] = "so_xchg" => frame'[w].sess = frame'[w].client
        BY <1>0, <2>3, SMT DEF RecvDone, SendMore, Step, Goto, Others, ThreadInv, Frame
      <3> QED BY <1>2, <3>1 DEF HandOK, Giving, Sending, Sess
    <2> QED BY <2>1, <2>2, <2>3
  <1>4. \A s \in Slots : SameQueue(s)
    <2>1. CASE slot' = slot
      BY <2>1 DEF SameQueue
    <2>2. CASE Decrement(w)
      <3>1. PICK s \in Slots : s = frame[w].client
        BY <1>0, <2>2, AtHandler DEF HandlerLabels, Decrement, Writes
      <3>2. slot' = [slot EXCEPT ![s] = AddIo(slot[s], -1)] /\ -1 \in Int
        BY <2>2, <3>1 DEF Decrement, Writes
      <3> QED BY <3>2, IoSame
    <2> QED BY <1>1, <2>1, <2>2
  <1> QED BY <1>0, <1>1, <1>3, <1>4, HandStep

(* An answer of onRecv is a new packet for the worker's session. *)
LEMMA AnswerPackets ==
  ASSUME TypeInv, PacketInv, NEW w \in Workers, OnRecvSend(w)
  PROVE  PacketInv'
  <1>0. ThreadInv /\ w \in Threads /\ Acceptor \in Threads /\ pc[w] = "recvLoop" /\ packets \in Nat
        /\ freed \subseteq Packet
    BY SessionAssumption, SMT DEF TypeInv, Threads, OnRecvSend, SharedTypes
  <1>1. PICK s \in Slots : s = frame[w].client /\ Begun(s)
    BY <1>0, AtHandler DEF HandlerLabels
  <1> DEFINE id == slot[s].sessionId
             p  == <<id, packets>>
             f  == [frame[w] EXCEPT !.id = id, !.pkts = <<p>>, !.todo = frame[w].todo - 1, !.ret = "recvLoop"]
  <1>2. /\ slot' = slot /\ io' = io /\ accepted' = accepted /\ freed' = freed /\ packets' = packets + 1
        /\ closed' = closed /\ freeList' = freeList
        /\ pc' = [pc EXCEPT ![w] = "sp_find"] /\ frame' = [frame EXCEPT ![w] = f]
    BY <1>0, <1>1 DEF OnRecvSend, Goto, tables, kernel, ThreadInv
  <1>3. f.id = id /\ f.pkts = <<p>> /\ f.client = s
    <2>1. frame[w] \in Frame
      BY <1>0, FrameTyped
    <2> QED BY <1>1, <2>1, SMT DEF Frame
  <1> HIDE DEF f
  <1>4. /\ Others(w) /\ pc'[w] = "sp_find" /\ frame'[w].id = id /\ frame'[w].client = s
        /\ Parcel(w)' = p
    BY <1>0, <1>2, <1>3 DEF Others, ThreadInv, Parcel
  <1>5. id \in Ids /\ accepted[id] \in Seq(Packet)
    BY <1>1, SlotTyped DEF TypeInv, SharedTypes
  <1>6. p[1] = id /\ p[2] = packets /\ packets < packets + 1 /\ ~(packets < packets)
    BY <1>0, SMT
  <1> HIDE DEF p, id
  <1>7. p \notin freed \cup ToSet(accepted[id])
    BY <1>5, <1>6 DEF PacketInv
  <1>8. HandOK(w)'
    <2>1. p[1] = id /\ p[2] < packets' /\ p \notin freed' \cup ToSet(accepted'[id])
      BY <1>2, <1>6, <1>7
    <2>3. slot'[s].sessionId = id
      BY <1>2 DEF id
    <2>2. s # NoSlot
      BY NoneApart
    <2> QED BY <1>4, <2>1, <2>2, <2>3 DEF HandOK, Sending, Bare, AcceptLabels, HandlerLabels, RecvPostLabels, IsNew
  <1>9. \A q \in Slots : Spare(q)' => Spare(q)
    BY <1>0, <1>2, <1>4 DEF Spare, Listed, Others, Sess
  <1>10. KeepsPackets(w)
    BY <1>2, <1>4, <1>6, <1>8, <1>9 DEF KeepsPackets
  <1> QED BY <1>0, <1>10, PacketStep

(* The accept thread takes a slot that is free. *)
LEMMA PopPackets ==
  ASSUME TypeInv, PacketInv, AcceptPop
  PROVE  PacketInv'
  <1>0. ThreadInv /\ Acceptor \in Threads /\ pc[Acceptor] = "idle" /\ freeList # <<>> /\ freeList \in Seq(Slots)
    BY DEF TypeInv, Threads, AcceptPop, SharedTypes
  <1> DEFINE n == Len(freeList)
             s == freeList[n]
             f == [frame[Acceptor] EXCEPT !.sess = s]
  <1>1. /\ slot' = slot /\ io' = io /\ accepted' = accepted /\ freed' = freed /\ packets' = packets
        /\ closed' = closed /\ freeList' = SubSeq(freeList, 1, n - 1)
        /\ pc' = [pc EXCEPT ![Acceptor] = "init"] /\ frame' = [frame EXCEPT ![Acceptor] = f]
    BY <1>0 DEF AcceptPop, Goto, kernel, history, ThreadInv
  <1>2. frame[Acceptor] = NoFrame /\ NoFrame \in Frame /\ NoFrame.pkts = <<>>
    BY <1>0, FrameTyped, NoFrameTyped DEF CtlOf, NoFrame
  <1>3. f.pkts = <<>> /\ f.sess = s
    BY <1>2, SMT DEF Frame
  <1>4. n \in 1..Len(freeList) /\ \A i \in 1..Len(freeList') : i \in 1..Len(freeList) /\ freeList'[i] = freeList[i]
    BY <1>0, <1>1, SMT
  <1> HIDE DEF n, f
  <1>5. Others(Acceptor) /\ pc'[Acceptor] = "init" /\ frame'[Acceptor].pkts = <<>> /\ frame'[Acceptor].sess = s
    BY <1>0, <1>1, <1>3 DEF Others, ThreadInv
  <1>6. HandOK(Acceptor)' /\ ~Giving(Acceptor)'
    BY <1>5 DEF HandOK, Giving, Sending
  <1>7. \A q \in Slots : Spare(q)' => Spare(q)
    BY <1>4, <1>5 DEF Spare, Listed, Sess
  <1>8. KeepsPackets(Acceptor)
    BY <1>1, <1>5, <1>6, <1>7 DEF KeepsPackets
  <1> QED BY <1>0, <1>8, PacketStep

(* The accept thread publishes the session. *)
LEMMA InsertPackets ==
  ASSUME TypeInv, PacketInv, AcceptInsert
  PROVE  PacketInv'
  <1>0. ThreadInv /\ Acceptor \in Threads /\ pc[Acceptor] = "insert"
    BY DEF TypeInv, Threads, AcceptInsert
  <1>1. /\ slot' = slot /\ io' = io /\ accepted' = accepted /\ freed' = freed /\ packets' = packets
        /\ closed' = closed /\ freeList' = freeList
        /\ Others(Acceptor) /\ pc'[Acceptor] = "join" /\ frame'[Acceptor] = frame[Acceptor]
    BY <1>0 DEF AcceptInsert, Step, Goto, kernel, history, Others, ThreadInv
  <1>2. HandOK(Acceptor)' /\ ~Giving(Acceptor)'
    BY <1>0, <1>1 DEF PacketInv, HandOK, Giving, Sending, Bare, AcceptLabels
  <1>3. \A s \in Slots : SameQueue(s)
    BY <1>1 DEF SameQueue
  <1> QED BY <1>0, <1>1, <1>2, <1>3, HandStep

-----------------------------------------------------------------------------
(* Steps that move packets *)

(* The first packets of a ring are deleted. *)
LEMMA FreesFront ==
  ASSUME SessionInv, PacketInv, NEW t \in Threads, Others(t), pc[t] # "init",
         pc'[t] \in {"clear", "rm_drain"}, frame'[t].pkts = <<>> \/ pc'[t] = "rm_drain",
         NEW s \in Slots, Begun(s), NEW n \in 0..Len(slot[s].sendRing),
         slot'[s].sessionId = slot[s].sessionId,
         slot'[s].sendRing = SubSeq(slot[s].sendRing, n + 1, Len(slot[s].sendRing)),
         \A q \in Slots \ {s} : slot'[q] = slot[q],
         freed' = freed \cup ToSet(SubSeq(slot[s].sendRing, 1, n)),
         accepted' = accepted, packets' = packets, closed' = closed, freeList' = freeList, io' = io
  PROVE  PacketInv'
  <1> DEFINE r     == slot[s].sendRing
             front == SubSeq(r, 1, n)
             rest  == SubSeq(r, n + 1, Len(r))
             id    == slot[s].sessionId
  <1>0. TypeInv /\ ThreadInv /\ IdsOnce /\ packets \in Nat /\ Acceptor \in Threads /\ id \in Ids /\ r \in Seq(Packet)
    <2>1. TypeInv /\ ThreadInv /\ IdsOnce /\ Acceptor \in Threads
      BY Parts DEF SessionInv, Threads
    <2>2. packets \in Nat
      BY <2>1, SessionAssumption, SMT DEF TypeInv, SharedTypes
    <2> QED BY <2>1, <2>2, SlotTyped
  <1>1. /\ ToSet(r) = ToSet(front) \cup ToSet(rest)
        /\ IsInjective(r) => IsInjective(rest) /\ ToSet(front) \cap ToSet(rest) = {}
        /\ r = <<>> => rest = <<>>
    BY <1>0, FrontApart
  <1> HIDE DEF front, rest
  <1>2. /\ IsInjective(r) /\ ToSet(r) \cap freed = {}
        /\ ToSet(r) \subseteq ToSet(accepted[id])
        /\ ToSet(accepted[id]) \subseteq freed \cup ToSet(r)
        /\ id \in closed => r = <<>>
        /\ Spare(s) => id \in closed
    BY DEF PacketInv, RingOK
  <1>3. slot'[s].sendRing = rest /\ freed' = freed \cup ToSet(front) /\ \A q \in Slots : slot'[q].sessionId = slot[q].sessionId
    BY DEF front, rest
  <1>4. \A q \in Slots : Spare(q)' <=> Spare(q)
    BY <1>0 DEF Spare, Listed, Others, Sess
  <1>5. \A p \in ToSet(r) : p[1] = id /\ p[2] < packets /\ p \in ToSet(accepted[id])
    BY <1>0, <1>2 DEF PacketInv
  <1>6. ASSUME NEW u \in Threads, u # t
        PROVE  HandOK(u)' /\ (Giving(u)' <=> Giving(u)) /\ Parcel(u)' = Parcel(u)
    <2>1. Giving(u) => Parcel(u) \notin freed' \cup ToSet(accepted'[frame[u].id])
      BY <1>1, <1>3, <1>5 DEF PacketInv, HandOK, IsNew
    <2> QED BY <1>0, <1>3, <1>6, <2>1, OtherHands
  <1>7. HandOK(t)' /\ ~Giving(t)'
    BY DEF HandOK, Giving, Sending, Bare, AcceptLabels, HandlerLabels, RecvPostLabels
  <1>8. RingOK(s)'
    BY <1>1, <1>2, <1>3, <1>4 DEF RingOK, Begun
  <1>9. ASSUME NEW q \in Slots, q # s PROVE RingOK(q)'
    <2>1. ToSet(slot[q].sendRing) \cap ToSet(r) = {}
      BY <1>0, <1>9, RingsApart
    <2> QED BY <1>1, <1>3, <1>4, <1>9, <2>1 DEF PacketInv, RingOK, Begun
  <1>10. /\ \A i \in Ids : \A p \in ToSet(accepted'[i]) : p[1] = i /\ p[2] < packets'
         /\ \A p \in freed' : p[2] < packets'
    BY <1>1, <1>3, <1>5 DEF PacketInv
  <1>11. \A u, v \in Threads : Giving(u)' /\ Giving(v)' /\ Parcel(u)' = Parcel(v)' => u = v
    BY <1>6, <1>7 DEF PacketInv
  <1>12. \A i \in Ids : (\A q \in Slots : slot'[q].sessionId # i) => ToSet(accepted'[i]) \subseteq freed'
    BY <1>3 DEF PacketInv
  <1>13. \A o \in io' : o.kind = "recv" => o.pkts = <<>>
    BY DEF PacketInv
  <1> QED BY <1>6, <1>7, <1>8, <1>9, <1>10, <1>11, <1>12, <1>13 DEF PacketInv

(* The packets sent leave the ring. *)
LEMMA DequeuePackets ==
  ASSUME SessionInv, PacketInv, NEW w \in Workers, SendDequeue(w)
  PROVE  PacketInv'
  <1>0. TypeInv /\ ThreadInv /\ pc[w] = "dequeue" /\ w \in Threads
    BY Parts DEF SendDequeue, Threads
  <1>1. PICK s \in Slots : s = frame[w].client /\ Begun(s)
    BY <1>0, AtHandler DEF HandlerLabels
  <1> DEFINE r == slot[s].sendRing
             n == Min2(slot[s].sendPacketCount, Len(r))
             v == SubSeq(r, n + 1, Len(r))
  <1>2. /\ slot' = [slot EXCEPT ![s].sendRing = v] /\ freed' = freed \cup ToSet(SubSeq(r, 1, n))
        /\ io' = io /\ accepted' = accepted /\ packets' = packets /\ closed' = closed /\ freeList' = freeList
        /\ Others(w) /\ pc'[w] = "clear" /\ frame'[w] = frame[w]
    BY <1>0, <1>1 DEF SendDequeue, Step, Goto, tables, kernel, history, Others, ThreadInv
  <1>3. n \in 0..Len(r)
    <2>1. Len(r) \in Nat /\ slot[s].sendPacketCount \in Nat
      BY <1>0, SlotTyped, SessionAssumption, SMT
    <2> QED BY <2>1, SMT DEF Min2
  <1>4. /\ slot'[s].sessionId = slot[s].sessionId /\ slot'[s].sendRing = v
        /\ \A q \in Slots \ {s} : slot'[q] = slot[q]
    <2> HIDE DEF v
    <2>1. slot'[s] = [slot[s] EXCEPT !.sendRing = v] /\ \A q \in Slots \ {s} : slot'[q] = slot[q]
      BY <1>0, <1>2 DEF TypeInv, SharedTypes
    <2>2. slot[s] \in Session
      BY <1>0, SlotTyped
    <2> QED BY <2>1, <2>2, SMT DEF Session
  <1> HIDE DEF n
  <1>5. frame'[w].pkts = <<>>
    BY <1>0, <1>2 DEF PacketInv, HandOK, Bare, HandlerLabels
  <1> QED BY <1>0, <1>1, <1>2, <1>3, <1>4, <1>5, FreesFront

(* One by one, those of a session that is torn down. *)
LEMMA DrainPackets ==
  ASSUME SessionInv, PacketInv, NEW t \in Threads, RemoveDrain(t)
  PROVE  PacketInv'
  <1>0. TypeInv /\ ThreadInv /\ pc[t] = "rm_drain"
    BY Parts DEF RemoveDrain
  <1>1. PICK s \in Slots : s = Sess(t) /\ Begun(s)
    BY <1>0, AtSess DEF SessLabels, Labels, HandlerLabels, FindLabels
  <1> DEFINE r == slot[s].sendRing
  <1>2. /\ slot' = [slot EXCEPT ![s].sendRing = Tail(r)] /\ freed' = freed \cup {Head(r)} /\ r # <<>>
        /\ io' = io /\ accepted' = accepted /\ packets' = packets /\ closed' = closed /\ freeList' = freeList
        /\ pc' = pc /\ frame' = frame
    BY <1>1 DEF RemoveDrain, tables, kernel, history, S
  <1>3. r \in Seq(Packet) /\ slot[s] \in Session
    BY <1>0, SlotTyped
  <1>4. /\ slot'[s].sessionId = slot[s].sessionId /\ slot'[s].sendRing = Tail(r)
        /\ \A q \in Slots \ {s} : slot'[q] = slot[q]
    <2> DEFINE v == Tail(r)
    <2>0. slot' = [slot EXCEPT ![s].sendRing = v]
      BY <1>2
    <2> HIDE DEF v
    <2>1. slot'[s] = [slot[s] EXCEPT !.sendRing = v] /\ \A q \in Slots \ {s} : slot'[q] = slot[q]
      BY <1>0, <2>0 DEF TypeInv, SharedTypes
    <2> QED BY <1>3, <2>1, SMT DEF Session, v
  <1> HIDE DEF r
  <1>5. /\ 1 \in 0..Len(r) /\ Tail(r) = SubSeq(r, 1 + 1, Len(r))
    BY <1>2, <1>3, SMT
  <1>6. ToSet(SubSeq(r, 1, 1)) = {Head(r)}
    <2> DEFINE e == SubSeq(r, 1, 1)
    <2>1. e \in Seq(Packet) /\ Len(e) = 1 /\ e[1] = Head(r)
      BY <1>3, <1>5, SMT
    <2> HIDE DEF e
    <2>2. ToSet(e) = {e[i] : i \in 1..Len(e)}
      BY <2>1, Elements
    <2>3. \A i : i \in 1..1 <=> i = 1
      BY SMT
    <2> QED BY <2>1, <2>2, <2>3 DEF e
  <1>7. Others(t)
    BY <1>2 DEF Others
  <1> QED BY <1>0, <1>1, <1>2, <1>4, <1>5, <1>6, <1>7, FreesFront DEF r

(* The packet is queued behind the others, or deleted. *)
LEMMA EnqueuePackets ==
  ASSUME SessionInv, OrderInv, PacketInv, NEW t \in Threads, SendPacketEnqueue(t)
  PROVE  PacketInv'
  <1> DEFINE p  == Parcel(t)
             id == frame[t].id
  <1>0. TypeInv /\ ThreadInv /\ IdsOnce /\ pc[t] = "sp_enqueue" /\ Acceptor \in Threads
    BY Parts DEF SessionInv, SendPacketEnqueue, Threads
  <1>1. PICK s \in Slots : s = Sess(t) /\ Begun(s)
    BY <1>0, AtSess DEF SessLabels, Labels, HandlerLabels, FindLabels
  <1> DEFINE r == slot[s].sendRing
  <1>2. /\ id \in Ids /\ id = slot[s].sessionId /\ slot[s] \in Session /\ r \in Seq(Packet)
        /\ accepted[id] \in Seq(Packet) /\ p \in Packet /\ freed \subseteq Packet
    <2>1. frame[t].pkts \in Seq(Packet) /\ frame[t].pkts # <<>> /\ id \in Ids
      BY <1>0, FrameTyped DEF CtlOf, FindLabels
    <2>2. p \in Packet
      BY <2>1, SMT DEF Parcel
    <2> QED BY <1>0, <1>1, <2>1, <2>2, SlotTyped DEF OrderInv, S, TypeInv, SharedTypes
  <1>3. /\ io' = io /\ packets' = packets /\ closed' = closed /\ freeList' = freeList
        /\ \/ slot' = [slot EXCEPT ![s].sendRing = Append(r, p)] /\ freed' = freed
              /\ accepted' = [accepted EXCEPT ![id] = Append(accepted[id], p)] /\ Step(t, "sp_pending")
           \/ slot' = slot /\ accepted' = accepted /\ freed' = freed \cup {p} /\ Return(t)
    BY <1>0, <1>1, <1>2, SMT DEF SendPacketEnqueue, GoOrReturn, Step, kernel, tables, S, Parcel, TypeInv, SharedTypes
  <1>p. packets \in Nat
    BY <1>0, SessionAssumption, SMT DEF TypeInv, SharedTypes
  <1>4. IsNew(id, p) /\ Sess(t) = frame[t].client
    BY <1>0 DEF PacketInv, HandOK, Giving, Sending
  <1>5. id \notin closed
    BY <1>0, <1>1, <1>2, <1>4 DEF SessionInv, Teardown, Dead
  <1>6. \A u \in Threads \ {t} : Giving(u) => Parcel(u) # p
    BY <1>0 DEF PacketInv, Giving
  <1>7. \A q \in Slots : p \notin ToSet(slot[q].sendRing)
    <2>1. ASSUME NEW q \in Slots, p \in ToSet(slot[q].sendRing) PROVE FALSE
      <3>1. Begun(q)
        <4>1. ToSet(<<>>) = {}
          BY DEF ToSet
        <4> QED BY <2>1, <4>1 DEF PacketInv, RingOK
      <3>2. slot[q].sessionId \in Ids /\ p \in ToSet(accepted[slot[q].sessionId])
        BY <1>0, <2>1, <3>1, SlotTyped DEF PacketInv, RingOK
      <3>3. slot[q].sessionId = id
        BY <1>4, <3>2 DEF PacketInv, IsNew
      <3> QED BY <1>4, <3>2, <3>3 DEF IsNew
    <2> QED BY <2>1
  <1>8. /\ ToSet(Append(r, p)) = ToSet(r) \cup {p}
        /\ IsInjective(r) => IsInjective(Append(r, p))
        /\ ToSet(Append(accepted[id], p)) = ToSet(accepted[id]) \cup {p}
    <2>1. ToSet(Append(r, p)) = ToSet(r) \cup {p} /\ (p \notin ToSet(r) /\ IsInjective(r) => IsInjective(Append(r, p)))
      BY <1>2, BackNew
    <2>2. ToSet(Append(accepted[id], p)) = ToSet(accepted[id]) \cup {p}
      BY <1>2, BackNew
    <2> QED BY <1>7, <2>1, <2>2
  <1> HIDE DEF p, id
  <1>9. CASE slot' = slot /\ accepted' = accepted /\ freed' = freed \cup {p} /\ Return(t)
    <2>1. Others(t) /\ pc'[t] \in Rets /\ HandOK(t)' /\ ~Giving(t)'
      BY <1>0, <1>9, ReturnHand
    <2>2. ASSUME NEW u \in Threads, u # t
          PROVE  HandOK(u)' /\ (Giving(u)' <=> Giving(u)) /\ Parcel(u)' = Parcel(u)
      <3>1. Giving(u) => Parcel(u) \notin freed' \cup ToSet(accepted'[frame[u].id])
        BY <1>6, <1>9, <2>2 DEF PacketInv, HandOK, IsNew
      <3> QED BY <1>0, <1>3, <1>9, <1>p, <2>1, <2>2, <3>1, OtherHands
    <2>3. \A q \in Slots : Spare(q)' => Spare(q)
      BY <1>0, <1>3, <2>1 DEF Spare, Listed, Others, Sess, Rets
    <2>4. \A q \in Slots : RingOK(q)'
      BY <1>3, <1>7, <1>9, <2>3 DEF PacketInv, RingOK, Begun
    <2>5. /\ \A i \in Ids : \A e \in ToSet(accepted'[i]) : e[1] = i /\ e[2] < packets'
          /\ \A e \in freed' : e[2] < packets'
      BY <1>3, <1>4, <1>9 DEF PacketInv, IsNew
    <2>6. \A u, v \in Threads : Giving(u)' /\ Giving(v)' /\ Parcel(u)' = Parcel(v)' => u = v
      BY <2>1, <2>2 DEF PacketInv
    <2>7. /\ \A i \in Ids : (\A q \in Slots : slot'[q].sessionId # i) => ToSet(accepted'[i]) \subseteq freed'
          /\ \A o \in io' : o.kind = "recv" => o.pkts = <<>>
      BY <1>3, <1>9 DEF PacketInv
    <2> QED BY <2>1, <2>2, <2>4, <2>5, <2>6, <2>7 DEF PacketInv
  <1>10. CASE /\ slot' = [slot EXCEPT ![s].sendRing = Append(r, p)] /\ freed' = freed
              /\ accepted' = [accepted EXCEPT ![id] = Append(accepted[id], p)] /\ Step(t, "sp_pending")
    <2>1. /\ Others(t) /\ pc'[t] = "sp_pending" /\ frame'[t] = frame[t]
      BY <1>0, <1>10 DEF Step, Goto, Others, ThreadInv
    <2>2. /\ slot'[s].sendRing = Append(r, p) /\ slot'[s].sessionId = slot[s].sessionId
          /\ \A q \in Slots \ {s} : slot'[q] = slot[q]
          /\ accepted'[id] = Append(accepted[id], p)
          /\ \A i \in Ids \ {id} : accepted'[i] = accepted[i]
      BY <1>0, <1>2, <1>10, SMT DEF TypeInv, SharedTypes, Session
    <2>3. HandOK(t)' /\ ~Giving(t)'
      BY <1>4, <2>1 DEF HandOK, Giving, Bare, AcceptLabels, HandlerLabels, RecvPostLabels, Sess
    <2>4. \A q \in Slots : slot'[q].sessionId = slot[q].sessionId
      BY <2>2
    <2>5. ASSUME NEW u \in Threads, u # t
          PROVE  HandOK(u)' /\ (Giving(u)' <=> Giving(u)) /\ Parcel(u)' = Parcel(u)
      <3>1. Giving(u) => Parcel(u) \notin freed' \cup ToSet(accepted'[frame[u].id])
        <4>1. Giving(u) => frame[u].id \in Ids /\ IsNew(frame[u].id, Parcel(u)) /\ Parcel(u) # p
          BY <1>0, <1>6, <2>5, FrameTyped DEF Giving, CtlOf, FindLabels, PacketInv, HandOK
        <4> QED BY <1>8, <1>10, <2>2, <4>1 DEF IsNew
      <3> QED BY <1>0, <1>3, <1>p, <2>1, <2>4, <2>5, <3>1, OtherHands
    <2>6. \A q \in Slots : Spare(q)' => Spare(q)
      BY <1>0, <1>3, <2>1 DEF Spare, Listed, Others, Sess
    <2>7. RingOK(s)'
      <3>1. Begun(s)' /\ ~Spare(s)
        BY <1>1, <1>2, <1>5, <2>2 DEF PacketInv, RingOK, Begun
      <3>2. /\ IsInjective(Append(r, p)) /\ ToSet(Append(r, p)) \cap freed' = {}
            /\ ToSet(Append(r, p)) \subseteq ToSet(Append(accepted[id], p))
            /\ ToSet(Append(accepted[id], p)) \subseteq freed' \cup ToSet(Append(r, p))
        <4>1. /\ IsInjective(r) /\ ToSet(r) \cap freed = {} /\ ToSet(r) \subseteq ToSet(accepted[id])
              /\ ToSet(accepted[id]) \subseteq freed \cup ToSet(r)
          BY <1>1, <1>2 DEF PacketInv, RingOK
        <4>2. p \notin freed
          BY <1>4 DEF IsNew
        <4> HIDE DEF r
        <4> QED BY <1>8, <1>10, <4>1, <4>2
      <3> QED BY <1>2, <1>3, <1>5, <2>2, <2>6, <3>1, <3>2 DEF RingOK
    <2>8. ASSUME NEW q \in Slots, q # s PROVE RingOK(q)'
      <3>1. Begun(q) => slot[q].sessionId \in Ids \ {id}
        BY <1>0, <1>1, <1>2, <2>8, SlotTyped DEF IdsOnce
      <3>2. /\ slot'[q] = slot[q] /\ freed' = freed /\ closed' = closed /\ (Spare(q)' => Spare(q)) /\ RingOK(q)
            /\ Begun(q) => accepted'[slot[q].sessionId] = accepted[slot[q].sessionId]
        BY <1>3, <1>10, <2>2, <2>6, <2>8, <3>1 DEF PacketInv
      <3> QED BY <3>2 DEF RingOK, Begun
    <2>9. /\ \A i \in Ids : \A e \in ToSet(accepted'[i]) : e[1] = i /\ e[2] < packets'
          /\ \A e \in freed' : e[2] < packets'
      BY <1>2, <1>3, <1>4, <1>8, <1>10, <2>2, SMTT(30) DEF PacketInv, IsNew
    <2>10. \A u, v \in Threads : Giving(u)' /\ Giving(v)' /\ Parcel(u)' = Parcel(v)' => u = v
      BY <2>3, <2>5 DEF PacketInv
    <2>11. /\ \A i \in Ids : (\A q \in Slots : slot'[q].sessionId # i) => ToSet(accepted'[i]) \subseteq freed'
           /\ \A o \in io' : o.kind = "recv" => o.pkts = <<>>
      BY <1>2, <1>3, <1>10, <2>2, <2>4 DEF PacketInv
    <2> QED BY <2>3, <2>5, <2>7, <2>8, <2>9, <2>10, <2>11 DEF PacketInv
  <1> QED BY <1>3, <1>9, <1>10

(* A new session starts with no packets; those of the session before it in *)
(* the slot are deleted.                                                   *)
LEMMA FreshPackets ==
  ASSUME SessionInv, OrderInv, PacketInv, AcceptInit, \A t \in Threads \ {Acceptor} : ~Uses(t, Sess(Acceptor))
  PROVE  PacketInv'
  <1>0. /\ TypeInv /\ ThreadInv /\ IdsOnce /\ Places /\ Acceptor \in Threads /\ pc[Acceptor] = "init"
        /\ packets \in Nat
    <2>1. TypeInv
      BY DEF SessionInv
    <2>2. packets \in Nat
      BY <2>1, SessionAssumption, SMT DEF TypeInv, SharedTypes
    <2> QED BY <2>2, Parts DEF SessionInv, Threads, AcceptInit
  <1>1. PICK s \in Slots : s = Sess(Acceptor)
    BY <1>0, AtSess DEF SessLabels, Labels, HandlerLabels, FindLabels
  <1> DEFINE new == [FreshSlot EXCEPT !.sessionId = nextSessionId,
                                      !.sendPacketCount = slot[s].sendPacketCount]
             old == slot[s].sessionId
  <1>2. /\ slot' = [slot EXCEPT ![s] = new]
        /\ io' = io /\ accepted' = accepted /\ freed' = freed /\ packets' = packets
        /\ closed' = closed /\ freeList' = freeList
        /\ Others(Acceptor) /\ pc'[Acceptor] = "insert" /\ frame'[Acceptor] = frame[Acceptor]
    BY <1>0, <1>1 DEF AcceptInit, Step, Goto, kernel, history, Others, S, ThreadInv
  <1>3. new.sessionId = nextSessionId /\ new.sendRing = <<>>
    BY SMT DEF FreshSlot
  <1> HIDE DEF new
  <1>4. /\ slot'[s].sessionId = nextSessionId /\ slot'[s].sendRing = <<>>
        /\ \A q \in Slots \ {s} : slot'[q] = slot[q]
    BY <1>0, <1>2, <1>3 DEF TypeInv, SharedTypes
  <1>5. nextSessionId \in Ids /\ nextSessionId >= nextSessionId /\ ~(nextSessionId < nextSessionId)
    <2>1. nextSessionId < MaxSessions /\ nextSessionId \in Nat /\ MaxSessions \in Nat
      BY <1>0, FrameTyped, SessionAssumption, SMT DEF CtlOf, TypeInv, SharedTypes
    <2> QED BY <2>1, SMT DEF Ids
  <1>6. accepted[nextSessionId] = <<>>
    BY <1>5 DEF OrderInv
  <1>7. nextSessionId \notin closed
    BY <1>5 DEF SessionInv, IdsOnce
  <1>8. ToSet(<<>>) = {} /\ IsInjective(<<>>)
    BY DEF ToSet, IsInjective
  <1>9. Begun(s) => ToSet(accepted[old]) \subseteq freed
    <2>1. Spare(s)
      BY <1>0, <1>1 DEF Spare
    <2> QED BY <1>8, <2>1 DEF PacketInv, RingOK
  <1>10. ~Listed(s)
    BY <1>0, <1>1 DEF Places, OnHand
  <1>11. \A q \in Slots : Spare(q)' => q # s /\ Spare(q)
    BY <1>0, <1>2, <1>10 DEF Spare, Listed
  <1>12. RingOK(s)'
    <2>1. nextSessionId # NoId
      BY <1>5, NoneApart
    <2>2. ~Spare(s)'
      BY <1>11
    <2> QED BY <1>2, <1>4, <1>6, <1>7, <1>8, <2>1, <2>2 DEF RingOK, Begun
  <1>13. ASSUME NEW q \in Slots, q # s PROVE RingOK(q)'
    BY <1>2, <1>4, <1>11, <1>13 DEF PacketInv, RingOK, Begun
  <1>14. ASSUME NEW u \in Threads, u # Acceptor
         PROVE  HandOK(u)' /\ (Giving(u)' <=> Giving(u)) /\ Parcel(u)' = Parcel(u)
    <2>1. frame[u].client # s
      BY <1>1, <1>14 DEF Uses
    <2>2. Giving(u) => Parcel(u) \notin freed' \cup ToSet(accepted'[frame[u].id])
      BY <1>2 DEF PacketInv, HandOK, IsNew
    <2>3. \A q \in Slots : frame[u].client = q => slot'[q].sessionId = slot[q].sessionId
      BY <1>4, <2>1
    <2> QED BY <1>0, <1>2, <1>14, <2>2, <2>3, OtherHands
  <1>15. HandOK(Acceptor)' /\ ~Giving(Acceptor)'
    BY <1>0, <1>2 DEF PacketInv, HandOK, Giving, Sending, Bare, AcceptLabels
  <1>16. \A u, v \in Threads : Giving(u)' /\ Giving(v)' /\ Parcel(u)' = Parcel(v)' => u = v
    BY <1>14, <1>15 DEF PacketInv
  <1>17. ASSUME NEW i \in Ids, \A q \in Slots : slot'[q].sessionId # i PROVE ToSet(accepted'[i]) \subseteq freed'
    <2>1. CASE i = old
      <3>1. i # NoId
        BY NoneApart
      <3> QED BY <1>2, <1>9, <2>1, <3>1 DEF Begun
    <2>2. CASE i # old
      BY <1>2, <1>4, <1>17, <2>2 DEF PacketInv
    <2> QED BY <2>1, <2>2
  <1>18. /\ \A i \in Ids : \A e \in ToSet(accepted'[i]) : e[1] = i /\ e[2] < packets'
         /\ \A e \in freed' : e[2] < packets'
         /\ \A o \in io' : o.kind = "recv" => o.pkts = <<>>
    BY <1>2 DEF PacketInv
  <1> QED BY <1>12, <1>13, <1>14, <1>15, <1>16, <1>17, <1>18 DEF PacketInv

(* Before the first connection there are no packets. *)
LEMMA InitPackets == Init => PacketInv
  <1> SUFFICES ASSUME Init PROVE PacketInv
    OBVIOUS
  <1>1. /\ \A t \in Threads : pc[t] = "idle"
        /\ \A id \in Ids : accepted[id] = <<>>
        /\ freed = {} /\ io = {}
        /\ \A s \in Slots : slot[s].sessionId = NoId /\ slot[s].sendRing = <<>>
    BY DEF Init, FreshSlot
  <1>2. ToSet(<<>>) = {} /\ IsInjective(<<>>)
    BY DEF ToSet, IsInjective
  <1> QED BY <1>1, <1>2 DEF PacketInv, HandOK, RingOK, Begun, Giving, Sending, Bare, AcceptLabels, HandlerLabels, RecvPostLabels

(* Every step accounts for the packets. *)
LEMMA NextPackets ==
  ASSUME Apps = {}, ServiceInv, OrderInv, PacketInv, [Next]_vars,
         AcceptInit => \A t \in Threads \ {Acceptor} : ~Uses(t, Sess(Acceptor))
  PROVE  PacketInv'
  <1>0. SessionInv /\ TypeInv /\ Acceptor \in Threads /\ Workers \subseteq Threads
    BY DEF ServiceInv, SessionInv, Threads
  <1>1. ASSUME NEW t \in Threads, Plain(t) \/ (t \in Workers /\ SendClear(t)) \/ (t = Acceptor /\ AcceptJoin)
        PROVE  PacketInv'
    BY <1>0, <1>1, PlainWalks, WalkPackets
  <1>2. CASE Accept
    BY <1>0, <1>1, <1>2, PopPackets, FreshPackets, InsertPackets DEF Accept
  <1>3. ASSUME NEW t \in Threads, RecvPost(t) PROVE PacketInv'
    BY <1>0, <1>1, <1>3, PostPackets, PostFailsPackets DEF RecvPost, RecvPostCall, Plain
  <1>4. ASSUME NEW t \in Threads, SendPacket(t) PROVE PacketInv'
    BY <1>0, <1>1, <1>4, FindPackets, EnqueuePackets DEF SendPacket, Plain
  <1>5. ASSUME NEW t \in Threads, SendPost(t) PROVE PacketInv'
    BY <1>0, <1>1, <1>5, CountPackets, PeekPackets, PostPackets, PostFailsPackets DEF SendPost, SendPostCall, Plain
  <1>6. ASSUME NEW t \in Threads, RemoveSession(t) PROVE PacketInv'
    BY <1>0, <1>1, <1>6, RemovePackets, DrainPackets, ClosePackets, PushPackets DEF RemoveSession, Plain
  <1>7. ASSUME NEW w \in Workers, (\E r \in io : Get(w, r)) \/ Handle(w) \/ OnRecvSend(w) \/ OnRecvClose(w)
        PROVE  PacketInv'
    BY <1>0, <1>1, <1>7, GetPackets, HandlerPackets, AnswerPackets, DequeuePackets DEF Handle
  <1>8. CASE /\ slot' = slot /\ freeList' = freeList /\ io' = io /\ closed' = closed /\ pc' = pc /\ frame' = frame
             /\ freed' = freed /\ accepted' = accepted /\ packets' = packets
    BY <1>8 DEF PacketInv, HandOK, RingOK, Begun, Giving, Parcel, IsNew, Spare, Listed, Sess
  <1>9. ASSUME NEW id \in Ids, PeerClose(id) PROVE PacketInv'
    BY <1>8, <1>9 DEF PeerClose, tables, history
  <1>10. CASE UNCHANGED vars
    BY <1>8, <1>10 DEF vars, tables, kernel, history
  <1>11. CASE Quiescent
    BY <1>10, <1>11 DEF Quiescent
  <1> QED BY <1>2, <1>3, <1>4, <1>5, <1>6, <1>7, <1>9, <1>10, <1>11 DEF Next

(* What the invariants say of the packets. *)
LEMMA PacketsFollow ==
  ASSUME SessionInv, OrderInv, PacketInv
  PROVE  PacketsAccounted
  <1>0. TypeInv /\ ThreadInv /\ IdsOnce /\ Records
    BY DEF SessionInv, TypeInv
  <1>1. ASSUME NEW s \in Slots, ~slot[s].isTornDown, Begun(s), NEW q, Taken(s, q)
        PROVE  ToSet(q) \cap freed = {}
    <2> DEFINE r == slot[s].sendRing
               n == slot[s].sendPacketCount
    <2>1. r \in Seq(Packet) /\ n \in 0..Len(r)
      <3>1. r \in Seq(Packet) /\ n \in Nat /\ Len(r) \in Nat
        BY <1>0, SlotTyped, SessionAssumption, SMT
      <3> QED BY <1>1, <3>1, SMT DEF Taken, Counted
    <2>2. q = SubSeq(r, 1, n) /\ ToSet(r) \cap freed = {}
      BY <1>1 DEF Taken, PacketInv, RingOK
    <2> HIDE DEF r, n
    <2>3. ToSet(SubSeq(r, 1, n)) \subseteq ToSet(r)
      BY <2>1, FrontApart
    <2> QED BY <2>2, <2>3
  <1>2. ASSUME NEW o \in io PROVE ToSet(o.pkts) \cap freed = {}
    <2>1. o.kind \in {"recv", "send"} /\ o.slot \in Slots
      BY <1>0, SMT DEF TypeInv, SharedTypes
    <2>2. CASE o.kind = "recv"
      <3>1. ToSet(<<>>) = {}
        BY DEF ToSet
      <3> QED BY <2>2, <3>1 DEF PacketInv
    <2>3. CASE o.kind = "send"
      <3>1. PICK s \in Slots : s = o.slot /\ Begun(s) /\ o \in OpsOf(s, "send")
        BY <1>0, <2>1, <2>3 DEF OpsOf, TypeInv, SharedPtrs
      <3>2. ~slot[s].isTornDown
        BY <3>1 DEF SessionInv, Teardown, Dead, OpsOf, OpsOn
      <3>3. Taken(s, o.pkts)
        BY <3>1, <3>2 DEF OrderInv, QueueOK, InUse
      <3> QED BY <1>1, <3>1, <3>2, <3>3
    <2> QED BY <2>1, <2>2, <2>3
  <1>3. ASSUME NEW t \in Threads, pc[t] = "so_gather" PROVE ToSet(frame[t].pkts) \cap freed = {}
    <2>1. PICK s \in Slots : s = Sess(t) /\ Begun(s)
      BY <1>0, <1>3, AtSess DEF SessLabels, Labels, HandlerLabels, FindLabels
    <2>2. frame[t].client = s
      BY <1>3, <2>1 DEF PacketInv, HandOK, Sending
    <2>3. ~slot[s].isTornDown
      BY <2>2 DEF SessionInv, Teardown, Dead
    <2>4. Taken(s, frame[t].pkts)
      BY <1>3, <2>1, <2>3 DEF OrderInv, QueueOK, InUse, Gathered
    <2> QED BY <1>1, <2>1, <2>3, <2>4
  <1>4. ASSUME NEW id \in Ids, NEW p \in ToSet(accepted[id]) \ freed
        PROVE  \E s \in Slots : p \in ToSet(slot[s].sendRing) /\ s \notin ToSet(freeList)
    <2>1. PICK s \in Slots : slot[s].sessionId = id
      BY <1>4 DEF PacketInv
    <2>2. Begun(s)
      BY <2>1, NoneApart DEF Begun
    <2>3. p \in ToSet(slot[s].sendRing) /\ ~(id \in closed) /\ ~Spare(s)
      <3>1. ToSet(<<>>) = {}
        BY DEF ToSet
      <3> QED BY <1>4, <2>1, <2>2, <3>1 DEF PacketInv, RingOK
    <2>4. s \notin ToSet(freeList)
      <3>1. freeList \in Seq(Slots)
        BY <1>0 DEF TypeInv, SharedTypes
      <3>2. ToSet(freeList) = {freeList[i] : i \in 1..Len(freeList)}
        BY <3>1, Elements
      <3> QED BY <2>3, <3>2 DEF Spare, Listed
    <2> QED BY <2>3, <2>4
  <1>5. /\ \A s \in Slots : IsInjective(slot[s].sendRing) /\ ToSet(slot[s].sendRing) \cap freed = {}
        /\ \A s1, s2 \in Slots : s1 # s2 => ToSet(slot[s1].sendRing) \cap ToSet(slot[s2].sendRing) = {}
    BY <1>0, RingsApart DEF PacketInv, RingOK
  <1> QED BY <1>2, <1>3, <1>4, <1>5 DEF PacketsAccounted

(* The invariant, of a server whose application calls the library from its *)
(* callbacks only.                                                         *)
LEMMA PacketInductive ==
  ASSUME Apps = {}
  PROVE  Spec /\ ReusedUnheld => []PacketInv
  <1>1. ASSUME ServiceInv, OrderInv, PacketInv, [Next]_vars,
               [AcceptInit => \A t \in Threads \ {Acceptor} : ~Uses(t, Sess(Acceptor))]_vars
        PROVE  PacketInv'
    <2>1. CASE UNCHANGED vars
      <3>1. nextSessionId' = nextSessionId /\ nextSessionId \in Int
        BY <1>1, <2>1, SessionAssumption, SMT DEF vars, tables, ServiceInv, SessionInv, TypeInv, SharedTypes
      <3>2. ~AcceptInit
        BY <3>1 DEF AcceptInit
      <3> QED BY <1>1, <3>2, NextPackets
    <2> QED BY <1>1, <2>1, NextPackets
  <1> QED BY <1>1, InitPackets, ServiceInductive, OrderInductive, PTL DEF Spec, ReusedUnheld

(* Every packet sendPacket took waits in the ring of one session in use,   *)
(* once, or is deleted; and none that a send in flight, or a thread        *)
(* gathering one, refers to is deleted: for any workers, slots,            *)
(* connections and packets, as long as the application calls the library   *)
(* from its callbacks only and no slot is given its next session while a   *)
(* thread still points to it.                                              *)
THEOREM PacketsAreKept ==
  ASSUME Apps = {}
  PROVE  Spec /\ ReusedUnheld => []PacketsAccounted
  <1>1. SessionInv /\ OrderInv /\ PacketInv => PacketsAccounted
    BY PacketsFollow
  <1> QED BY <1>1, SessionInductive, OrderInductive, PacketInductive, PTL

(* Without a condition on the behaviour: with one worker, and with any     *)
(* number up to the first connection.                                      *)
THEOREM NoPacketIsLost ==
  ASSUME Apps = {}, OneWorker \/ MaxSessions <= 1
  PROVE  Spec => []PacketsAccounted
  <1>1. Spec => ReusedUnheld
    BY OneWorkerReuse, FirstSessionReuse
  <1>2. Spec /\ ReusedUnheld => []PacketsAccounted
    BY PacketsAreKept
  <1> QED BY <1>1, <1>2, PTL

-----------------------------------------------------------------------------
(* Where a thread gets to *)

(* Where thread t is after its step, and what its frame holds.             *)
Gone(t, l, c, s, i, m, p) ==
  /\ Others(t) /\ pc'[t] = l
  /\ frame'[t].client = c /\ frame'[t].sess = s /\ frame'[t].id = i
  /\ frame'[t].mark = m /\ frame'[t].pkts = p

(* A new frame. *)
LEMMA GoneHolds ==
  ASSUME ThreadInv, NEW t \in Threads, NEW l, NEW f, Goto(t, l), frame' = [frame EXCEPT ![t] = f],
         NEW c, NEW s, NEW i, NEW m, NEW n, NEW p, NEW r, Holds(f, c, s, i, m, n, p, r)
  PROVE  Gone(t, l, c, s, i, m, p)
  BY DEF ThreadInv, Goto, Holds, Gone, Others

(* The frame stays. *)
LEMMA GoneStep ==
  ASSUME ThreadInv, NEW t \in Threads, NEW l, Step(t, l)
  PROVE  Gone(t, l, frame[t].client, frame[t].sess, frame[t].id, frame[t].mark, frame[t].pkts)
  BY DEF ThreadInv, Step, Goto, Gone, Others

(* The call returns. *)
LEMMA GoneReturn ==
  ASSUME ThreadInv, NEW t \in Threads, pc[t] \notin HandlerLabels, Return(t)
  PROVE  Gone(t, frame[t].ret, frame[t].client, NoSlot, NoId, FALSE, <<>>) /\ frame[t].ret \in Rets
  <1>1. Went(t, frame[t].ret, frame[t].client, NoSlot, NoId, "idle") /\ frame[t].ret \in Rets
    BY ReturnWent
  <1>2. Moves(t, frame[t].ret, Back(t))
    BY ReturnMoves
  <1>3. frame'[t] = Back(t)
    BY <1>2 DEF Moves, ThreadInv
  <1>4. Back(t).mark = FALSE /\ Back(t).pkts = <<>>
    BY SMT DEF Back, NoFrame
  <1> QED BY <1>1, <1>3, <1>4 DEF Gone, Went

(* A call of removeSession. *)
LEMMA GoneCall ==
  ASSUME ThreadInv, NEW t \in Threads, NEW i \in Ids \cup {NoId}, NEW m \in BOOLEAN, NEW r \in Rets,
         CallRemove(t, i, m, r)
  PROVE  Gone(t, "rm_find", frame[t].client, frame[t].sess, i, m, frame[t].pkts)
  <1> DEFINE f == [frame[t] EXCEPT !.id = i, !.mark = m, !.ret = r]
  <1>1. Goto(t, "rm_find") /\ frame' = [frame EXCEPT ![t] = f]
    BY DEF CallRemove, ThreadInv
  <1>2. frame[t] \in Frame
    BY FrameTyped
  <1>3. Holds(f, frame[t].client, frame[t].sess, i, m, frame[t].todo, frame[t].pkts, r)
    BY <1>2, CallFrame
  <1> HIDE DEF f
  <1> QED BY <1>1, <1>3, GoneHolds

(* A lookup finds a session. *)
LEMMA GoneFound ==
  ASSUME ThreadInv, NEW t \in Threads, NEW s \in Slots, NEW l, Goto(t, l), frame' = [frame EXCEPT ![t].sess = s]
  PROVE  Gone(t, l, frame[t].client, s, frame[t].id, frame[t].mark, frame[t].pkts)
  <1> DEFINE f == [frame[t] EXCEPT !.sess = s]
  <1>1. frame' = [frame EXCEPT ![t] = f]
    BY DEF ThreadInv
  <1>2. Holds(f, frame[t].client, s, frame[t].id, frame[t].mark, frame[t].todo, frame[t].pkts, frame[t].ret)
    BY FrameHolds, SetSess
  <1> HIDE DEF f
  <1> QED BY <1>1, <1>2, GoneHolds

(* A call fails. *)
LEMMA GoneFailed ==
  ASSUME ThreadInv, NEW t \in Threads, NEW l, PostFails(t, l)
  PROVE  Gone(t, l, frame[t].client, frame[t].sess, frame[t].id, TRUE, frame[t].pkts)
  <1> DEFINE f == [frame[t] EXCEPT !.mark = TRUE]
  <1>1. Goto(t, l) /\ frame' = [frame EXCEPT ![t] = f]
    BY DEF ThreadInv, PostFails
  <1>2. Holds(f, frame[t].client, frame[t].sess, frame[t].id, TRUE, frame[t].todo, frame[t].pkts, frame[t].ret)
    BY FrameHolds, SetMark
  <1> HIDE DEF f
  <1> QED BY <1>1, <1>2, GoneHolds

(* The pointers are peeked. *)
LEMMA GonePeek ==
  ASSUME TypeInv, NEW t \in Threads, NEW s \in Slots, s = Sess(t), SendPostPeek(t)
  PROVE  Gone(t, "so_gather", frame[t].client, s, frame[t].id, frame[t].mark,
              SubSeq(slot[s].sendRing, 1, Min2(slot[s].sendPacketCount, Len(slot[s].sendRing))))
  <1> DEFINE q == SubSeq(slot[s].sendRing, 1, Min2(slot[s].sendPacketCount, Len(slot[s].sendRing)))
             f == [frame[t] EXCEPT !.pkts = q]
  <1>0. ThreadInv
    BY DEF TypeInv
  <1>1. Goto(t, "so_gather") /\ frame' = [frame EXCEPT ![t] = f]
    BY <1>0 DEF ThreadInv, SendPostPeek, S
  <1>2. q \in Seq(Packet)
    <2>1. slot[s].sendRing \in Seq(Packet) /\ slot[s].sendPacketCount \in Nat
      BY SlotTyped, SessionAssumption, SMT
    <2> QED BY <2>1, RingSplit
  <1> HIDE DEF q
  <1>3. Holds(f, frame[t].client, frame[t].sess, frame[t].id, frame[t].mark, frame[t].todo, q, frame[t].ret)
    BY <1>0, <1>2, FrameHolds, SetPkts
  <1> HIDE DEF f
  <1>4. Gone(t, "so_gather", frame[t].client, frame[t].sess, frame[t].id, frame[t].mark, q)
    BY <1>0, <1>1, <1>3, GoneHolds
  <1> QED BY <1>4 DEF Sess, q

(* A worker takes a completion. *)
LEMMA GoneGet ==
  ASSUME TypeInv, NEW w \in Workers, NEW r \in io, Get(w, r)
  PROVE  \/ GetZero(w, r) /\ Gone(w, "dec", r.slot, NoSlot, NoId, TRUE, <<>>)
         \/ GetRecv(w, r) /\ Gone(w, "recvLoop", r.slot, NoSlot, NoId, FALSE, <<>>)
         \/ GetSend(w, r) /\ Gone(w, "dequeue", r.slot, NoSlot, NoId, FALSE, <<>>)
  <1>1. /\ pc[w] = "idle" /\ frame[w] = NoFrame /\ ThreadInv /\ w \in Threads
        /\ \E l : Went(w, l, r.slot, NoSlot, NoId, "idle")
    BY GetWent DEF TypeInv, Threads
  <1>2. NoFrame \in Frame /\ NoFrame.mark = FALSE /\ NoFrame.pkts = <<>>
    BY NoFrameTyped DEF NoFrame
  <1>3. ASSUME NEW l, NEW f \in Frame, Goto(w, l), frame' = [frame EXCEPT ![w] = f]
        PROVE  Gone(w, l, r.slot, NoSlot, NoId, f.mark, f.pkts)
    <2>1. pc'[w] = l /\ frame'[w] = f /\ Others(w)
      BY <1>1, <1>3 DEF Goto, ThreadInv, Others
    <2> QED BY <1>1, <2>1 DEF Gone, Went
  <1>4. r.slot \in Slots \cup {NoSlot}
    BY SMT DEF TypeInv, SharedTypes
  <1>5. CASE GetZero(w, r)
    <2> DEFINE f == [frame[w] EXCEPT !.client = r.slot, !.mark = TRUE]
    <2>1. Goto(w, "dec") /\ frame' = [frame EXCEPT ![w] = f]
      BY <1>1, <1>5 DEF GetZero, Dequeue, ThreadInv
    <2>2. Holds(f, r.slot, frame[w].sess, frame[w].id, TRUE, frame[w].todo, frame[w].pkts, frame[w].ret)
      BY <1>1, <1>2, <1>4, ZeroFrame
    <2> HIDE DEF f
    <2> QED BY <1>1, <1>2, <1>3, <1>5, <2>1, <2>2 DEF Holds
  <1>6. CASE GetRecv(w, r)
    <2> DEFINE f == [frame[w] EXCEPT !.client = r.slot, !.todo = MaxPerRecv]
    <2>1. Goto(w, "recvLoop") /\ frame' = [frame EXCEPT ![w] = f]
      BY <1>1, <1>6 DEF GetRecv, Dequeue, ThreadInv
    <2>2. MaxPerRecv \in 0..MaxPerRecv
      BY SessionAssumption, SMT
    <2>3. Holds(f, r.slot, frame[w].sess, frame[w].id, frame[w].mark, MaxPerRecv, frame[w].pkts, frame[w].ret)
      BY <1>1, <1>2, <1>4, <2>2, RecvFrame
    <2> HIDE DEF f
    <2> QED BY <1>1, <1>2, <1>3, <1>6, <2>1, <2>3 DEF Holds
  <1>7. CASE GetSend(w, r)
    <2> DEFINE f == [frame[w] EXCEPT !.client = r.slot]
    <2>1. Goto(w, "dequeue") /\ frame' = [frame EXCEPT ![w] = f]
      BY <1>1, <1>7 DEF GetSend, Dequeue, ThreadInv
    <2>2. Holds(f, r.slot, frame[w].sess, frame[w].id, frame[w].mark, frame[w].todo, frame[w].pkts, frame[w].ret)
      BY <1>1, <1>4, FrameHolds, SetClient
    <2> HIDE DEF f
    <2> QED BY <1>1, <1>2, <1>3, <1>7, <2>1, <2>2 DEF Holds
  <1> QED BY <1>5, <1>6, <1>7 DEF Get
(* A worker goes on with the completion it has, in another frame. *)
LEMMA GoneWith ==
  ASSUME TypeInv, NEW w \in Workers, RecvDone(w) \/ SendMore(w) \/ Decrement(w) \/ OnRecvSend(w)
  PROVE  \/ RecvDone(w) /\ Gone(w, "rp_check", frame[w].client, frame[w].client, frame[w].id, frame[w].mark, frame[w].pkts)
         \/ /\ SendMore(w) /\ slot[frame[w].client].sendRing # <<>>
            /\ Gone(w, "so_xchg", frame[w].client, frame[w].client, frame[w].id, frame[w].mark, frame[w].pkts)
         \/ SendMore(w) /\ Gone(w, "dec", frame[w].client, frame[w].sess, frame[w].id, frame[w].mark, frame[w].pkts)
         \/ Decrement(w) /\ Gone(w, "readId", NoSlot, frame[w].client, frame[w].id, frame[w].mark, frame[w].pkts)
         \/ OnRecvSend(w) /\ \E p : Gone(w, "sp_find", frame[w].client, frame[w].sess,
                                         slot[frame[w].client].sessionId, frame[w].mark, p)
  <1>0. ThreadInv /\ w \in Threads /\ frame[w] \in Frame
    BY FrameTyped DEF TypeInv, Threads
  <1>1. ASSUME NEW l, NEW f, pc' = [pc EXCEPT ![w] = l], frame' = [frame EXCEPT ![w] = f]
        PROVE  Gone(w, l, f.client, f.sess, f.id, f.mark, f.pkts)
    BY <1>0, <1>1 DEF Gone, Others, ThreadInv
  <1>2. CASE RecvDone(w)
    <2> DEFINE f == [frame[w] EXCEPT !.sess = frame[w].client, !.todo = 0, !.ret = "dec"]
    <2>1. pc' = [pc EXCEPT ![w] = "rp_check"] /\ frame' = [frame EXCEPT ![w] = f]
      BY <1>0, <1>2 DEF RecvDone, Goto, ThreadInv
    <2>2. /\ f.client = frame[w].client /\ f.sess = frame[w].client /\ f.id = frame[w].id
          /\ f.mark = frame[w].mark /\ f.pkts = frame[w].pkts
      BY <1>0, SMT DEF Frame
    <2> HIDE DEF f
    <2>3. Gone(w, "rp_check", f.client, f.sess, f.id, f.mark, f.pkts)
      BY <1>1, <2>1
    <2> QED BY <1>2, <2>2, <2>3
  <1>3. CASE SendMore(w)
    <2> DEFINE f == [frame[w] EXCEPT !.sess = frame[w].client, !.ret = "dec"]
    <2>1. CASE slot[frame[w].client].sendRing # <<>> /\ ~slot[frame[w].client].isSendPending
      <3>1. pc' = [pc EXCEPT ![w] = "so_xchg"] /\ frame' = [frame EXCEPT ![w] = f]
        BY <1>0, <1>3, <2>1 DEF SendMore, Goto, ThreadInv
      <3>2. /\ f.client = frame[w].client /\ f.sess = frame[w].client /\ f.id = frame[w].id
            /\ f.mark = frame[w].mark /\ f.pkts = frame[w].pkts
        BY <1>0, SMT DEF Frame
      <3> HIDE DEF f
      <3>3. Gone(w, "so_xchg", f.client, f.sess, f.id, f.mark, f.pkts)
        BY <1>1, <3>1
      <3> QED BY <1>3, <2>1, <3>2, <3>3
    <2>2. CASE ~(slot[frame[w].client].sendRing # <<>> /\ ~slot[frame[w].client].isSendPending)
      <3>1. Step(w, "dec")
        BY <1>3, <2>2 DEF SendMore
      <3> QED BY <1>0, <1>3, <3>1, GoneStep
    <2> QED BY <2>1, <2>2
  <1>4. CASE Decrement(w)
    <2> DEFINE f == [frame[w] EXCEPT !.client = NoSlot, !.sess = frame[w].client, !.ret = "idle"]
    <2>1. pc' = [pc EXCEPT ![w] = "readId"] /\ frame' = [frame EXCEPT ![w] = f]
      BY <1>0, <1>4 DEF Decrement, Goto, ThreadInv
    <2>2. /\ f.client = NoSlot /\ f.sess = frame[w].client /\ f.id = frame[w].id
          /\ f.mark = frame[w].mark /\ f.pkts = frame[w].pkts
      BY <1>0, SMT DEF Frame
    <2> HIDE DEF f
    <2>3. Gone(w, "readId", f.client, f.sess, f.id, f.mark, f.pkts)
      BY <1>1, <2>1
    <2> QED BY <1>4, <2>2, <2>3
  <1>5. CASE OnRecvSend(w)
    <2> DEFINE id == slot[frame[w].client].sessionId
               p  == <<<<id, packets>>>>
               f  == [frame[w] EXCEPT !.id = id, !.pkts = p, !.todo = frame[w].todo - 1, !.ret = "recvLoop"]
    <2>1. pc' = [pc EXCEPT ![w] = "sp_find"] /\ frame' = [frame EXCEPT ![w] = f]
      BY <1>0, <1>5 DEF OnRecvSend, Goto, ThreadInv
    <2> HIDE DEF p
    <2>2. /\ f.client = frame[w].client /\ f.sess = frame[w].sess /\ f.id = id
          /\ f.mark = frame[w].mark /\ f.pkts = p
      BY <1>0, SMT DEF Frame
    <2> HIDE DEF f
    <2>3. Gone(w, "sp_find", f.client, f.sess, f.id, f.mark, f.pkts)
      BY <1>1, <2>1
    <2> QED BY <1>5, <2>2, <2>3
  <1> QED BY <1>2, <1>3, <1>4, <1>5

-----------------------------------------------------------------------------
(* Why a session is closed *)

(* No send has been posted for a ring that was found empty. *)
FullSends == \A r \in io : r.kind = "send" => r.pkts # <<>>

(* Whoever is to mark a session has a reason. *)
MarkOK(t) ==
  /\ frame[t].mark => \/ pc[t] = "dec" /\ slot[frame[t].client].sessionId \in cause
                      \/ pc[t] \in {"so_failed", "readId"} /\ S(t).sessionId \in cause
                      \/ pc[t] \in {"rm_find"} \cup AfterFind /\ frame[t].id \in cause
  /\ pc[t] = "rm_mark" => frame[t].mark

CauseInv == ClosedForCause /\ \A t \in Threads : MarkOK(t)

(* Reasons are not forgotten. *)
LEMMA CauseGrows == [Next]_vars => cause \subseteq cause'
  <1> SUFFICES ASSUME [Next]_vars PROVE cause \subseteq cause'
    OBVIOUS
  <1>1. ASSUME NEW t \in Threads, RecvPost(t) \/ SendPacket(t) \/ SendPost(t) PROVE cause \subseteq cause'
    BY <1>1 DEF RecvPost, RecvPostCheck, RecvPostInc, RecvPostRecheck, RecvPostUndo, RecvPostCall, Post, PostFails,
                SendPacket, SendPacketFind, SendPacketEnqueue, SendPacketPending,
                SendPost, SendPostExchange, SendPostCheck, SendPostReset, SendPostCount, SendPostPeek,
                SendPostGather, SendPostRecheck, SendPostUndo, SendPostCall, SendPostFailed,
                Reads, Writes, history
  <1>2. ASSUME NEW t \in Threads, RemoveSession(t) PROVE cause \subseteq cause'
    BY <1>2 DEF RemoveSession, ReadId, RemoveFind, RemoveMark, RemoveClosing, RemoveCount, RemoveCas,
                RemoveDrain, RemoveClose, RemoveErase, RemovePush, Reads, Writes, history
  <1>3. CASE Accept
    BY <1>3 DEF Accept, AcceptPop, AcceptInit, AcceptInsert, AcceptJoin, Reads, history
  <1>4. ASSUME NEW w \in Workers, (\E r \in io : Get(w, r)) \/ Handle(w) \/ OnRecvSend(w) \/ OnRecvClose(w)
        PROVE  cause \subseteq cause'
    BY <1>4 DEF Get, GetZero, GetRecv, GetSend, Handle, RecvDone, SendDequeue, SendClear, SendMore, Decrement,
                OnRecvSend, OnRecvClose, Condemn, Reads, Writes, history
  <1>5. ASSUME NEW a \in Apps, NEW id \in Joined, AppSend(a, id) \/ AppDisconnect(a, id) PROVE cause \subseteq cause'
    BY <1>5 DEF AppSend, AppDisconnect, Condemn
  <1>6. ASSUME NEW id \in Ids, PeerClose(id) PROVE cause \subseteq cause'
    BY <1>6 DEF PeerClose, history
  <1>7. UNCHANGED vars \/ Quiescent => cause \subseteq cause'
    BY DEF vars, history, Quiescent
  <1> QED BY <1>1, <1>2, <1>3, <1>4, <1>5, <1>6, <1>7 DEF Next

(* A step of thread t that marks no session without a reason. *)
LEMMA CauseStep ==
  ASSUME TypeInv, CauseInv, NEW t \in Threads, Others(t), cause \subseteq cause', MarkOK(t)',
         \A s \in Slots : /\ slot'[s].sessionId = slot[s].sessionId
                          /\ slot'[s].isClosing => slot[s].isClosing \/ slot[s].sessionId \in cause
  PROVE  CauseInv'
  <1>1. ClosedForCause'
    BY DEF CauseInv, ClosedForCause
  <1>2. ASSUME NEW u \in Threads, u # t PROVE MarkOK(u)'
    <2>0. ThreadInv
      BY DEF TypeInv
    <2>1. pc'[u] = pc[u] /\ frame'[u] = frame[u] /\ MarkOK(u)
      BY <1>2 DEF Others, CauseInv
    <2>2. pc[u] = "dec" => frame[u].client \in Slots
      BY <2>0, AtHandler DEF HandlerLabels
    <2>3. pc[u] \in {"so_failed", "readId"} => Sess(u) \in Slots
      BY <2>0, AtSess DEF SessLabels, Labels, HandlerLabels, FindLabels
    <2> QED BY <2>1, <2>2, <2>3 DEF MarkOK, S, Sess
  <1> QED BY <1>1, <1>2 DEF CauseInv

(* A quiet step marks the session it was called for. *)
LEMMA QuietCause ==
  ASSUME SessionInv, CauseInv, NEW t \in Threads, Quiet(t), cause \subseteq cause', MarkOK(t)'
  PROVE  CauseInv'
  <1>1. TypeInv /\ Teardown
    BY DEF SessionInv
  <1>2. pc[t] = "rm_mark" => S(t).sessionId \in cause
    BY <1>1 DEF CauseInv, MarkOK, Teardown, AfterFind
  <1>3. \A s \in Slots : /\ slot'[s].sessionId = slot[s].sessionId
                         /\ slot'[s].isClosing => slot[s].isClosing \/ slot[s].sessionId \in cause
    BY <1>2 DEF Quiet, KeepsSession, S
  <1> QED BY <1>1, <1>3, CauseStep DEF Quiet

(* Steps inside a call. *)
LEMMA WalkMark ==
  ASSUME TypeInv, CauseInv, NEW t \in Threads, Walks(t), \A s \in Slots : SameQueue(s), cause \subseteq cause'
  PROVE  MarkOK(t)'
  <1>0. ThreadInv /\ frame[t].ret \in Rets
    BY FrameTyped DEF Rets, TypeInv
  <1>1. CASE Flow(pc[t], pc'[t]) /\ frame'[t] = frame[t]
    <2>1. /\ pc'[t] # "rm_mark" /\ pc[t] \notin {"dec", "readId", "rm_find"}
          /\ pc[t] = "so_failed" => pc'[t] = "readId"
          /\ pc[t] \in AfterFind => pc'[t] \in AfterFind
      BY <1>1, SMT DEF Flow, AfterFind
    <2>2. pc[t] = "so_failed" => Sess(t) \in Slots
      BY <1>0, AtSess DEF SessLabels, Labels, HandlerLabels, FindLabels
    <2> QED BY <1>1, <2>1, <2>2 DEF MarkOK, CauseInv, S, Sess, SameQueue
  <1>2. CASE pc[t] \in Leaving /\ pc'[t] = frame[t].ret /\ frame'[t] = Back(t)
    <2>1. Back(t).mark = FALSE
      BY SMT DEF Back, NoFrame
    <2> QED BY <1>0, <1>2, <2>1 DEF MarkOK, Rets
  <1> QED BY <1>1, <1>2 DEF Walks

(* A thread that is to mark nothing. *)
LEMMA NoMark ==
  ASSUME NEW t \in Threads, NEW l, NEW c, NEW s, NEW i, NEW m, NEW p, Gone(t, l, c, s, i, m, p),
         m = FALSE, l # "rm_mark"
  PROVE  MarkOK(t)' /\ Others(t)
  BY DEF Gone, MarkOK

(* One that has nothing to mark before or after. *)
LEMMA StillNoMark ==
  ASSUME TypeInv, CauseInv, NEW t \in Threads,
         pc[t] \notin {"dec", "so_failed", "readId", "rm_find"} \cup AfterFind,
         NEW l, NEW c, NEW s, NEW i, NEW p, Gone(t, l, c, s, i, frame[t].mark, p), l # "rm_mark"
  PROVE  MarkOK(t)' /\ Others(t)
  <1>1. frame[t].mark = FALSE
    BY FrameTyped DEF CauseInv, MarkOK, TypeInv
  <1> QED BY <1>1, NoMark

-----------------------------------------------------------------------------
(* The calls of the library. *)
LEMMA CallMark ==
  ASSUME TypeInv, CauseInv, NEW t \in Threads, cause \subseteq cause',
         \/ SendPacketFind(t) \/ SendPacketEnqueue(t) \/ SendPostCount(t) \/ SendPostPeek(t)
         \/ ReadId(t) \/ RemoveFind(t) \/ RemoveDrain(t) \/ RemoveClose(t) \/ RemoveErase(t) \/ RemovePush(t)
  PROVE  MarkOK(t)' /\ Others(t)
  <1>0. ThreadInv /\ frame[t].mark \in BOOLEAN /\ MarkOK(t)
    BY FrameTyped DEF TypeInv, CauseInv
  <1>1. ASSUME Return(t), pc[t] \notin HandlerLabels PROVE MarkOK(t)' /\ Others(t)
    <2>1. Gone(t, frame[t].ret, frame[t].client, NoSlot, NoId, FALSE, <<>>) /\ frame[t].ret \in Rets
      BY <1>0, <1>1, GoneReturn
    <2> QED BY <2>1, NoMark DEF Rets
  <1>2. ASSUME NEW l \in AfterFind \ {"rm_mark"}, Step(t, l), pc[t] \in AfterFind PROVE MarkOK(t)' /\ Others(t)
    <2>1. Gone(t, l, frame[t].client, frame[t].sess, frame[t].id, frame[t].mark, frame[t].pkts)
      BY <1>0, <1>2, GoneStep
    <2> QED BY <1>0, <1>2, <2>1 DEF Gone, MarkOK, AfterFind
  <1>3. CASE SendPacketFind(t)
    <2> DEFINE s == sessionMap[frame[t].id]
    <2>1. pc[t] = "sp_find" /\ (s = NoSlot => Return(t))
          /\ (s # NoSlot => Goto(t, "sp_enqueue") /\ frame' = [frame EXCEPT ![t].sess = s])
      BY <1>3 DEF SendPacketFind, Reads
    <2>2. s \in Slots \cup {NoSlot}
      BY <2>1, FrameTyped DEF TypeInv, SharedTypes, CtlOf, FindLabels
    <2>3. s # NoSlot => Gone(t, "sp_enqueue", frame[t].client, s, frame[t].id, frame[t].mark, frame[t].pkts)
      BY <1>0, <2>1, <2>2, GoneFound
    <2> HIDE DEF s
    <2> QED BY <1>1, <2>1, <2>3, StillNoMark DEF AfterFind, HandlerLabels
  <1>4. CASE SendPacketEnqueue(t)
    <2>1. pc[t] = "sp_enqueue" /\ (Return(t) \/ Step(t, "sp_pending"))
      BY <1>4 DEF SendPacketEnqueue, GoOrReturn, Step
    <2>2. Step(t, "sp_pending") =>
            Gone(t, "sp_pending", frame[t].client, frame[t].sess, frame[t].id, frame[t].mark, frame[t].pkts)
      BY <1>0, GoneStep
    <2> QED BY <1>1, <2>1, <2>2, StillNoMark DEF AfterFind, HandlerLabels
  <1>5. CASE SendPostCount(t)
    <2>1. pc[t] = "so_count" /\ Step(t, "so_peek")
      BY <1>5 DEF SendPostCount, Writes
    <2>2. Gone(t, "so_peek", frame[t].client, frame[t].sess, frame[t].id, frame[t].mark, frame[t].pkts)
      BY <1>0, <2>1, GoneStep
    <2> QED BY <2>1, <2>2, StillNoMark DEF AfterFind
  <1>6. CASE SendPostPeek(t)
    <2>1. pc[t] = "so_peek"
      BY <1>6 DEF SendPostPeek, Reads
    <2>2. PICK s \in Slots : s = Sess(t)
      BY <1>0, <2>1, AtSess DEF SessLabels, Labels, HandlerLabels, FindLabels
    <2> DEFINE q == SubSeq(slot[s].sendRing, 1, Min2(slot[s].sendPacketCount, Len(slot[s].sendRing)))
    <2>3. Gone(t, "so_gather", frame[t].client, s, frame[t].id, frame[t].mark, q)
      BY <1>6, <2>2, GonePeek
    <2> HIDE DEF q
    <2> QED BY <2>1, <2>3, StillNoMark DEF AfterFind
  <1>7. CASE ReadId(t)
    <2>1. pc[t] = "readId" /\ slot' = slot /\ CallRemove(t, S(t).sessionId, frame[t].mark, frame[t].ret)
      BY <1>7 DEF ReadId, Reads
    <2>2. Sess(t) \in Slots
      BY <1>0, <2>1, AtSess DEF SessLabels, Labels, HandlerLabels, FindLabels
    <2>3. S(t).sessionId \in Ids \cup {NoId} /\ frame[t].ret \in Rets
      BY <1>0, <2>2, SlotTyped, FrameTyped DEF S, Rets
    <2>4. Gone(t, "rm_find", frame[t].client, frame[t].sess, S(t).sessionId, frame[t].mark, frame[t].pkts)
      BY <1>0, <2>1, <2>3, GoneCall
    <2> QED BY <1>0, <2>1, <2>4 DEF Gone, MarkOK, AfterFind
  <1>8. CASE RemoveFind(t)
    <2> DEFINE s == sessionMap[frame[t].id]
               l == IF frame[t].mark THEN "rm_mark" ELSE "rm_closing"
    <2>1. pc[t] = "rm_find" /\ (s = NoSlot => Return(t))
          /\ (s # NoSlot => Goto(t, l) /\ frame' = [frame EXCEPT ![t].sess = s])
      BY <1>8 DEF RemoveFind, Reads
    <2>2. s \in Slots \cup {NoSlot}
      BY <2>1, FrameTyped DEF TypeInv, SharedTypes, CtlOf, FindLabels
    <2>3. s # NoSlot => Gone(t, l, frame[t].client, s, frame[t].id, frame[t].mark, frame[t].pkts)
      <3> HIDE DEF l
      <3> QED BY <1>0, <2>1, <2>2, GoneFound
    <2> HIDE DEF s
    <2>4. CASE s # NoSlot
      BY <1>0, <2>1, <2>3, <2>4 DEF Gone, MarkOK, AfterFind
    <2> QED BY <1>1, <2>1, <2>4 DEF HandlerLabels
  <1>9. CASE RemoveDrain(t)
    <2>1. pc[t] = "rm_drain" /\ pc' = pc /\ frame' = frame
      BY <1>9 DEF RemoveDrain
    <2> QED BY <1>0, <2>1 DEF MarkOK, AfterFind, Others
  <1>10. CASE RemoveClose(t) \/ RemoveErase(t)
    BY <1>2, <1>10 DEF RemoveClose, RemoveErase, AfterFind
  <1>11. CASE RemovePush(t)
    BY <1>1, <1>11 DEF RemovePush, HandlerLabels
  <1> QED BY <1>3, <1>4, <1>5, <1>6, <1>7, <1>8, <1>9, <1>10, <1>11

(* A call that posts, or fails with a reason to close the session. *)
LEMMA PostMark ==
  ASSUME TypeInv, CauseInv, NEW t \in Threads, NEW kind, NEW l \in {"readId", "so_failed"},
         pc[t] \in {"rp_call", "so_call"}, Post(t, kind) \/ PostFails(t, l)
  PROVE  MarkOK(t)' /\ Others(t)
  <1>0. ThreadInv
    BY DEF TypeInv
  <1>1. PICK s \in Slots : s = Sess(t)
    BY <1>0, AtSess DEF SessLabels, Labels, HandlerLabels, FindLabels
  <1>2. CASE Post(t, kind)
    <2>1. Gone(t, frame[t].ret, frame[t].client, NoSlot, NoId, FALSE, <<>>) /\ frame[t].ret \in Rets
      BY <1>0, <1>2, GoneReturn DEF Post, HandlerLabels
    <2> QED BY <2>1, NoMark DEF Rets
  <1>3. CASE PostFails(t, l)
    <2>1. Gone(t, l, frame[t].client, frame[t].sess, frame[t].id, TRUE, frame[t].pkts)
      BY <1>0, <1>3, GoneFailed
    <2>2. cause' = cause \cup {slot[s].sessionId} /\ slot' = [slot EXCEPT ![s] = AddIo(slot[s], -1)]
      BY <1>1, <1>3 DEF PostFails, S, TypeInv, SharedTypes
    <2>3. slot'[s].sessionId = slot[s].sessionId
      <3>1. -1 \in Int
        OBVIOUS
      <3> QED BY <2>2, <3>1, SlotTyped, UpdatesTyped DEF TypeInv, SharedTypes
    <2> QED BY <1>1, <2>1, <2>2, <2>3 DEF Gone, MarkOK, S, Sess
  <1> QED BY <1>2, <1>3

(* The completions, and what a worker does with one. *)
LEMMA WorkMark ==
  ASSUME TypeInv, Records, FullSends, CauseInv, NEW w \in Workers, cause \subseteq cause',
         \/ \E r \in io : Get(w, r)
         \/ RecvDone(w) \/ SendDequeue(w) \/ SendMore(w) \/ Decrement(w) \/ OnRecvSend(w) \/ OnRecvClose(w)
  PROVE  MarkOK(w)' /\ Others(w)
  <1>0. ThreadInv /\ w \in Threads /\ MarkOK(w)
    BY DEF TypeInv, Threads, CauseInv
  <1>1. ASSUME NEW r \in io, Get(w, r) PROVE MarkOK(w)' /\ Others(w)
    <2>1. CASE GetZero(w, r) /\ Gone(w, "dec", r.slot, NoSlot, NoId, TRUE, <<>>)
      <3>1. r.id \in cause' /\ slot' = slot /\ r.id = slot[r.slot].sessionId
        BY <2>1 DEF GetZero, Dequeue, FullSends, Records
      <3> QED BY <2>1, <3>1 DEF Gone, MarkOK
    <2>2. \/ Gone(w, "recvLoop", r.slot, NoSlot, NoId, FALSE, <<>>)
          \/ Gone(w, "dequeue", r.slot, NoSlot, NoId, FALSE, <<>>)
          => MarkOK(w)' /\ Others(w)
      BY <1>0, NoMark
    <2> QED BY <1>1, <2>1, <2>2, GoneGet
  <1>2. ASSUME NEW l, Step(w, l), l # "rm_mark",
               pc[w] \notin {"dec", "so_failed", "readId", "rm_find"} \cup AfterFind
        PROVE  MarkOK(w)' /\ Others(w)
    <2>1. Gone(w, l, frame[w].client, frame[w].sess, frame[w].id, frame[w].mark, frame[w].pkts)
      BY <1>0, <1>2, GoneStep
    <2> QED BY <1>0, <1>2, <2>1, StillNoMark
  <1>3. CASE SendDequeue(w)
    BY <1>2, <1>3 DEF SendDequeue, AfterFind
  <1>4. CASE RecvDone(w) \/ SendMore(w) \/ OnRecvSend(w)
    <2>1. pc[w] \in {"recvLoop", "more"} /\ ~Decrement(w)
      BY <1>4 DEF RecvDone, SendMore, OnRecvSend, Decrement, Reads, Writes
    <2>2. \E l, s, i, p : Gone(w, l, frame[w].client, s, i, frame[w].mark, p) /\ l # "rm_mark"
      <3>1. \/ Gone(w, "rp_check", frame[w].client, frame[w].client, frame[w].id, frame[w].mark, frame[w].pkts)
            \/ Gone(w, "so_xchg", frame[w].client, frame[w].client, frame[w].id, frame[w].mark, frame[w].pkts)
            \/ Gone(w, "dec", frame[w].client, frame[w].sess, frame[w].id, frame[w].mark, frame[w].pkts)
            \/ \E p : Gone(w, "sp_find", frame[w].client, frame[w].sess,
                           slot[frame[w].client].sessionId, frame[w].mark, p)
        BY <1>4, <2>1, GoneWith
      <3> QED BY <3>1
    <2> QED BY <1>0, <2>1, <2>2, StillNoMark DEF AfterFind
  <1>5. CASE Decrement(w)
    <2>1. pc[w] = "dec"
      BY <1>5 DEF Decrement, Writes
    <2>2. PICK s \in Slots : s = frame[w].client
      BY <1>0, <2>1, AtHandler DEF HandlerLabels
    <2>3. Gone(w, "readId", NoSlot, s, frame[w].id, frame[w].mark, frame[w].pkts)
      <3>1. ~RecvDone(w) /\ ~SendMore(w) /\ ~OnRecvSend(w)
        BY <2>1 DEF RecvDone, SendMore, OnRecvSend, Reads
      <3> QED BY <1>5, <2>2, <3>1, GoneWith
    <2>4. slot'[s].sessionId = slot[s].sessionId
      <3>1. -1 \in Int /\ slot' = [slot EXCEPT ![s] = AddIo(slot[s], -1)]
        BY <1>5, <2>2 DEF Decrement, Writes
      <3> QED BY <3>1, SlotTyped, UpdatesTyped DEF TypeInv, SharedTypes
    <2> QED BY <1>0, <2>1, <2>2, <2>3, <2>4 DEF Gone, MarkOK, S, Sess, AfterFind
  <1>6. CASE OnRecvClose(w)
    <2>1. pc[w] = "recvLoop"
      BY <1>6 DEF OnRecvClose
    <2>2. PICK s \in Slots : s = frame[w].client
      BY <1>0, <2>1, AtHandler DEF HandlerLabels
    <2>3. cause' = cause \cup {slot[s].sessionId}
          /\ \E r \in Rets : CallRemove(w, slot[s].sessionId, TRUE, r)
      BY <1>6, <2>2 DEF OnRecvClose, Condemn, Rets
    <2>4. slot[s].sessionId \in Ids \cup {NoId}
      BY SlotTyped
    <2>5. Gone(w, "rm_find", frame[w].client, frame[w].sess, slot[s].sessionId, TRUE, frame[w].pkts)
      BY <1>0, <2>3, <2>4, GoneCall
    <2> QED BY <2>3, <2>5 DEF Gone, MarkOK
  <1> QED BY <1>1, <1>3, <1>4, <1>5, <1>6

-----------------------------------------------------------------------------
(* What the application asks for is a reason. *)
LEMMA AppMark ==
  ASSUME TypeInv, CauseInv, NEW a \in Apps, NEW id \in Joined, AppSend(a, id) \/ AppDisconnect(a, id)
  PROVE  MarkOK(a)' /\ Others(a)
  <1>0. ThreadInv /\ a \in Threads /\ frame[a] \in Frame /\ pc[a] = "idle" /\ id \in Ids
    BY FrameTyped DEF TypeInv, Threads, AppSend, AppDisconnect, Joined
  <1>1. frame[a].mark = FALSE
    BY <1>0 DEF CauseInv, MarkOK, AfterFind
  <1>2. CASE AppSend(a, id)
    <2> DEFINE p == <<<<id, packets>>>>
               f == [frame[a] EXCEPT !.id = id, !.pkts = p]
    <2>1. pc' = [pc EXCEPT ![a] = "sp_find"] /\ frame' = [frame EXCEPT ![a] = f]
      BY <1>0, <1>2 DEF AppSend, Goto, ThreadInv
    <2> HIDE DEF p
    <2>2. f.mark = FALSE
      BY <1>0, <1>1, SMT DEF Frame
    <2> HIDE DEF f
    <2>3. pc'[a] = "sp_find" /\ frame'[a] = f /\ Others(a)
      BY <1>0, <2>1 DEF ThreadInv, Others
    <2> QED BY <2>2, <2>3 DEF MarkOK
  <1>3. CASE AppDisconnect(a, id)
    <2>1. id \in cause' /\ \E r \in Rets : CallRemove(a, id, TRUE, r)
      BY <1>3 DEF AppDisconnect, Condemn, Rets
    <2>2. Gone(a, "rm_find", frame[a].client, frame[a].sess, id, TRUE, frame[a].pkts)
      BY <1>0, <2>1, GoneCall
    <2> QED BY <2>1, <2>2 DEF Gone, MarkOK
  <1> QED BY <1>2, <1>3

(* The accept thread marks nothing; the session it starts is not closing. *)
LEMMA AcceptCause ==
  ASSUME SessionInv, CauseInv, Accept, cause \subseteq cause',
         AcceptInit => \A t \in Threads \ {Acceptor} : ~Uses(t, Sess(Acceptor))
  PROVE  CauseInv'
  <1>0. /\ TypeInv /\ ThreadInv /\ Acceptor \in Threads /\ frame[Acceptor] \in Frame
        /\ pc[Acceptor] \in {"idle", "init", "insert", "join"}
    BY FrameTyped DEF SessionInv, TypeInv, Threads, Accept, AcceptPop, AcceptInit, AcceptInsert, AcceptJoin, Reads
  <1>1. frame[Acceptor].mark = FALSE
    BY <1>0 DEF CauseInv, MarkOK, AfterFind
  <1>2. CASE AcceptPop
    <2> DEFINE top == freeList[Len(freeList)]
    <2>1. Goto(Acceptor, "init") /\ frame' = [frame EXCEPT ![Acceptor].sess = top] /\ slot' = slot
      BY <1>2 DEF AcceptPop
    <2>2. PICK s \in Slots : s = top
      <3>1. freeList # <<>>
        BY <1>2 DEF AcceptPop
      <3> QED BY <1>0, <3>1, PopTyped DEF TypeInv, SharedTypes
    <2>3. Gone(Acceptor, "init", frame[Acceptor].client, s, frame[Acceptor].id, frame[Acceptor].mark, frame[Acceptor].pkts)
      BY <1>0, <2>1, <2>2, GoneFound
    <2>4. MarkOK(Acceptor)' /\ Others(Acceptor)
      BY <1>0, <1>1, <2>3, NoMark
    <2> QED BY <1>0, <2>1, <2>4, CauseStep
  <1>3. CASE AcceptInsert \/ AcceptJoin
    <2>1. slot' = slot /\ \E l \in {"join", "rp_check"} : Step(Acceptor, l)
      BY <1>3 DEF AcceptInsert, AcceptJoin, Reads
    <2>2. MarkOK(Acceptor)' /\ Others(Acceptor)
      <3>1. PICK l \in {"join", "rp_check"} : Step(Acceptor, l)
        BY <2>1
      <3>2. Gone(Acceptor, l, frame[Acceptor].client, frame[Acceptor].sess, frame[Acceptor].id, frame[Acceptor].mark, frame[Acceptor].pkts)
        BY <1>0, <3>1, GoneStep
      <3> QED BY <1>0, <1>1, <3>2, NoMark
    <2> QED BY <1>0, <2>1, <2>2, CauseStep
  <1>4. CASE AcceptInit
    <2>1. PICK s \in Slots : s = Sess(Acceptor)
      BY <1>0, <1>4, AtSess DEF AcceptInit, SessLabels, Labels, HandlerLabels, FindLabels
    <2> DEFINE new == [FreshSlot EXCEPT !.sessionId = nextSessionId,
                                        !.sendPacketCount = slot[s].sendPacketCount]
    <2>2. /\ slot' = [slot EXCEPT ![s] = new] /\ Others(Acceptor)
          /\ pc'[Acceptor] = "insert" /\ frame'[Acceptor] = frame[Acceptor]
      BY <1>0, <1>4, <2>1 DEF AcceptInit, Step, Goto, Others, S, ThreadInv
    <2>3. new.isClosing = FALSE
      BY SMT DEF FreshSlot
    <2> HIDE DEF new
    <2>4. slot'[s].isClosing = FALSE /\ \A q \in Slots \ {s} : slot'[q] = slot[q]
      BY <1>0, <2>2, <2>3 DEF TypeInv, SharedTypes
    <2>5. ClosedForCause'
      BY <2>4 DEF CauseInv, ClosedForCause
    <2>6. ASSUME NEW u \in Threads, u # Acceptor PROVE MarkOK(u)'
      <3>1. /\ frame[u].client # s /\ (pc[u] # "rm_find" => frame[u].sess # s)
            /\ pc'[u] = pc[u] /\ frame'[u] = frame[u] /\ MarkOK(u)
        BY <1>4, <2>1, <2>2, <2>6 DEF Uses, Others, CauseInv, Sess
      <3>2. pc[u] = "dec" => frame[u].client \in Slots
        BY <1>0, AtHandler DEF HandlerLabels
      <3>3. pc[u] \in {"so_failed", "readId"} => Sess(u) \in Slots
        BY <1>0, AtSess DEF SessLabels, Labels, HandlerLabels, FindLabels
      <3> QED BY <2>4, <3>1, <3>2, <3>3 DEF MarkOK, S, Sess
    <2>7. MarkOK(Acceptor)'
      BY <1>1, <2>2 DEF MarkOK
    <2> QED BY <2>5, <2>6, <2>7 DEF CauseInv
  <1> QED BY <1>2, <1>3, <1>4 DEF Accept

(* Every step keeps to it. *)
LEMMA NextCause ==
  ASSUME SessionInv, FullSends, CauseInv, [Next]_vars,
         AcceptInit => \A t \in Threads \ {Acceptor} : ~Uses(t, Sess(Acceptor))
  PROVE  CauseInv'
  <1>0. /\ TypeInv /\ Records /\ Acceptor \in Threads /\ Workers \subseteq Threads /\ Apps \subseteq Threads
        /\ cause \subseteq cause'
    BY CauseGrows DEF SessionInv, Threads
  <1>1. ASSUME NEW t \in Threads, Plain(t) \/ (t \in Workers /\ SendClear(t)) PROVE MarkOK(t)'
    BY <1>0, <1>1, PlainWalks, WalkMark
  <1>2. CASE Accept
    BY <1>0, <1>2, AcceptCause
  <1>3. ASSUME NEW t \in Threads, NEW kind, NEW l,
               \/ pc[t] = "rp_call" /\ l = "readId"
               \/ pc[t] = "so_call" /\ l = "so_failed",
               Post(t, kind) \/ PostFails(t, l)
        PROVE  CauseInv'
    <2>1. MarkOK(t)' /\ Others(t)
      BY <1>0, <1>3, PostMark
    <2>2. CASE Post(t, kind)
      <3>1. slot' = slot
        BY <2>2 DEF Post
      <3> QED BY <1>0, <2>1, <3>1, CauseStep
    <2>3. CASE PostFails(t, l)
      BY <1>0, <1>3, <2>1, <2>3, PostFailsQuiet, QuietCause
    <2> QED BY <1>3, <2>2, <2>3
  <1>4. ASSUME NEW t \in Threads, RecvPost(t) PROVE CauseInv'
    <2>1. CASE RecvPostCall(t)
      BY <1>3, <2>1 DEF RecvPostCall
    <2>2. CASE RecvPostCheck(t) \/ RecvPostInc(t) \/ RecvPostRecheck(t) \/ RecvPostUndo(t)
      <3>1. Plain(t)
        BY <2>2 DEF Plain
      <3> QED BY <1>0, <1>1, <2>2, <3>1, RecvPostQuiet, QuietCause
    <2> QED BY <1>4, <2>1, <2>2 DEF RecvPost
  <1>5. ASSUME NEW t \in Threads, SendPacket(t) PROVE CauseInv'
    <2>1. MarkOK(t)'
      BY <1>0, <1>1, <1>5, CallMark DEF SendPacket, Plain
    <2> QED BY <1>0, <1>5, <2>1, SendPacketQuiet, QuietCause
  <1>6. ASSUME NEW t \in Threads, SendPost(t) PROVE CauseInv'
    <2>1. CASE SendPostCall(t)
      BY <1>3, <2>1 DEF SendPostCall
    <2>2. CASE ~SendPostCall(t)
      <3>1. MarkOK(t)'
        BY <1>0, <1>1, <1>6, <2>2, CallMark DEF SendPost, Plain
      <3>2. pc[t] # "so_call"
        BY <1>6, <2>2 DEF SendPost, SendPostExchange, SendPostCheck, SendPostReset, SendPostCount,
              SendPostPeek, SendPostGather, SendPostRecheck, SendPostUndo, SendPostFailed, Reads, Writes
      <3> QED BY <1>0, <1>6, <3>1, <3>2, SendPostQuiet, QuietCause
    <2> QED BY <2>1, <2>2
  <1>7. ASSUME NEW t \in Threads, RemoveSession(t) PROVE CauseInv'
    <2>1. MarkOK(t)'
      BY <1>0, <1>1, <1>7, CallMark DEF RemoveSession, Plain
    <2>2. CASE RemoveClose(t) \/ RemoveErase(t) \/ RemovePush(t)
      <3>1. slot' = slot /\ Others(t)
        BY <1>0, <2>2, CallMark DEF RemoveClose, RemoveErase, RemovePush
      <3> QED BY <1>0, <2>1, <3>1, CauseStep
    <2>3. CASE \/ ReadId(t) \/ RemoveFind(t) \/ RemoveMark(t) \/ RemoveClosing(t)
               \/ RemoveCount(t) \/ RemoveCas(t) \/ RemoveDrain(t)
      BY <1>0, <2>1, <2>3, RemoveQuiet, QuietCause
    <2> QED BY <1>7, <2>2, <2>3 DEF RemoveSession
  <1>8. ASSUME NEW w \in Workers, (\E r \in io : Get(w, r)) \/ Handle(w) \/ OnRecvSend(w) \/ OnRecvClose(w)
        PROVE  CauseInv'
    <2>0. w \in Threads
      BY <1>0
    <2>1. MarkOK(w)'
      BY <1>0, <1>1, <1>8, WorkMark DEF Handle
    <2>2. CASE \E r \in io : Get(w, r)
      <3>1. slot' = slot /\ Others(w)
        BY <1>0, <2>2, WorkMark DEF Get, GetZero, GetRecv, GetSend, Dequeue
      <3> QED BY <1>0, <2>0, <2>1, <3>1, CauseStep
    <2>3. CASE Handle(w)
      BY <1>0, <2>0, <2>1, <2>3, HandleQuiet, QuietCause
    <2>4. CASE OnRecvSend(w) \/ OnRecvClose(w)
      BY <1>0, <2>0, <2>1, <2>4, OnRecvQuiet, QuietCause
    <2> QED BY <1>8, <2>2, <2>3, <2>4
  <1>9. ASSUME NEW a \in Apps, NEW id \in Joined, AppSend(a, id) \/ AppDisconnect(a, id) PROVE CauseInv'
    BY <1>0, <1>9, AppMark, AppQuiet, QuietCause
  <1>10. CASE slot' = slot /\ pc' = pc /\ frame' = frame
    <2>1. MarkOK(Acceptor)' /\ Others(Acceptor)
      BY <1>0, <1>10 DEF CauseInv, MarkOK, Others, S, Sess
    <2> QED BY <1>0, <1>10, <2>1, CauseStep
  <1>11. ASSUME NEW id \in Ids, PeerClose(id) PROVE CauseInv'
    BY <1>10, <1>11 DEF PeerClose
  <1>12. CASE UNCHANGED vars \/ Quiescent
    BY <1>10, <1>12 DEF vars, Quiescent
  <1> QED BY <1>2, <1>4, <1>5, <1>6, <1>7, <1>8, <1>9, <1>11, <1>12 DEF Next

(* A server that posts no empty send closes a session for a reason only:   *)
(* its peer has gone, an operation on it has failed, or the application or *)
(* a bad header asked for it.  For any threads, slots, connections and     *)
(* packets, in every behaviour that gives no slot its next session while a *)
(* thread still points to it: two senders that race for an emptied ring    *)
(* are the one way a healthy connection is closed.                         *)
THEOREM MarkedForCause == Spec /\ ReusedUnheld /\ []FullSends => []ClosedForCause
  <1>1. Init => CauseInv
    <2> SUFFICES ASSUME Init PROVE CauseInv
      OBVIOUS
    <2>1. \A t \in Threads : pc[t] = "idle" /\ frame[t] = NoFrame
      BY DEF Init
    <2>2. NoFrame.mark = FALSE /\ \A s \in Slots : slot[s].isClosing = FALSE
      BY SMT DEF Init, NoFrame, FreshSlot
    <2> QED BY <2>1, <2>2 DEF CauseInv, MarkOK, ClosedForCause
  <1>2. ASSUME SessionInv, FullSends, CauseInv, [Next]_vars,
               [AcceptInit => \A t \in Threads \ {Acceptor} : ~Uses(t, Sess(Acceptor))]_vars
        PROVE  CauseInv'
    <2>1. CASE UNCHANGED vars
      <3>1. nextSessionId' = nextSessionId /\ nextSessionId \in Int
        BY <1>2, <2>1, SessionAssumption, SMT DEF vars, tables, SessionInv, TypeInv, SharedTypes
      <3>2. ~AcceptInit
        BY <3>1 DEF AcceptInit
      <3> QED BY <1>2, <3>2, NextCause
    <2> QED BY <1>2, <2>1, NextCause
  <1>3. CauseInv => ClosedForCause
    BY DEF CauseInv
  <1> QED BY <1>1, <1>2, <1>3, SessionInductive, PTL DEF Spec, ReusedUnheld

-----------------------------------------------------------------------------
(* One worker never posts an empty send *)

Filling == {"sp_pending", "so_xchg", "so_check", "so_count", "so_peek"}

(* From the enqueue, or the look at the ring, to the gather the ring is    *)
(* not empty; nor is what was gathered.                                    *)
FillOK(t) ==
  /\ pc[t] \in Filling => S(t).sendRing # <<>>
  /\ pc[t] = "so_peek" => S(t).sendPacketCount > 0
  /\ pc[t] \in Gathered => frame[t].pkts # <<>>

FillInv == FullSends /\ \A t \in Threads : FillOK(t)

(* The one worker is the one thread that sends. *)
LEMMA SenderWorks ==
  ASSUME TypeInv, PacketInv, NEW t \in Threads, pc[t] \in Sending
  PROVE  t \in Workers /\ Sess(t) \in Slots /\ frame[t].client = Sess(t)
  <1>1. ThreadInv /\ CtlOf(t, pc[t], frame[t]) /\ HandOK(t)
    BY FrameTyped DEF TypeInv, PacketInv
  <1>2. Sess(t) \in Slots
    BY <1>1, AtSess DEF Sending, SessLabels, Labels, HandlerLabels, FindLabels
  <1> QED BY <1>1, <1>2, NoneApart DEF HandOK, CtlOf

(* A step of thread t that empties no ring the worker sends from. *)
LEMMA FillStep ==
  ASSUME OneWorker, TypeInv, PacketInv, FillInv, NEW t \in Threads, Others(t), FillOK(t)', FullSends',
         \A s \in Slots : (\E w \in Workers \ {t} : frame[w].client = s) =>
           /\ slot[s].sendRing # <<>> => slot'[s].sendRing # <<>>
           /\ slot'[s].sendPacketCount = slot[s].sendPacketCount
  PROVE  FillInv'
  <1>1. ASSUME NEW u \in Threads, u # t PROVE FillOK(u)'
    <2>1. pc'[u] = pc[u] /\ frame'[u] = frame[u] /\ FillOK(u)
      BY <1>1 DEF Others, FillInv
    <2>2. pc[u] \in Filling => Sess(u) \in Slots /\ u \in Workers \ {t} /\ frame[u].client = Sess(u)
      BY <1>1, SenderWorks DEF Filling, Sending
    <2> QED BY <2>1, <2>2 DEF FillOK, S, Sess, Filling
  <1> QED BY <1>1 DEF FillInv

(* The worker itself is alone. *)
LEMMA WorkerFills ==
  ASSUME OneWorker, TypeInv, PacketInv, FillInv, NEW w \in Workers, Others(w), FillOK(w)', FullSends'
  PROVE  FillInv'
  <1>1. w \in Threads /\ Workers \ {w} = {}
    BY DEF OneWorker, Threads
  <1> QED BY <1>1, FillStep

(* Steps inside a call. *)
LEMMA WalkFill ==
  ASSUME TypeInv, FillInv, NEW t \in Threads, Walks(t), \A s \in Slots : SameQueue(s)
  PROVE  FillOK(t)'
  <1>0. ThreadInv /\ FillOK(t) /\ frame[t].ret \in Rets
    BY FrameTyped DEF Rets, TypeInv, FillInv
  <1>1. CASE Flow(pc[t], pc'[t]) /\ frame'[t] = frame[t]
    <2>1. /\ pc'[t] \in Filling => pc[t] \in Filling
          /\ pc'[t] # "so_peek"
          /\ pc'[t] \in Gathered => pc[t] \in Gathered
      BY <1>1, SMT DEF Flow, Filling, Gathered
    <2>2. pc[t] \in Filling => Sess(t) \in Slots
      BY <1>0, AtSess DEF Filling, SessLabels, Labels, HandlerLabels, FindLabels
    <2> QED BY <1>0, <1>1, <2>1, <2>2 DEF FillOK, S, Sess, SameQueue
  <1>2. CASE pc[t] \in Leaving /\ pc'[t] = frame[t].ret /\ frame'[t] = Back(t)
    BY <1>0, <1>2 DEF FillOK, Rets, Filling, Gathered
  <1> QED BY <1>1, <1>2 DEF Walks

(* What is queued is there to be counted, and what is counted to be        *)
(* gathered.                                                               *)
LEMMA QueueFill ==
  ASSUME TypeInv, FillInv, NEW t \in Threads, SendPacketEnqueue(t) \/ SendPostCount(t) \/ SendPostPeek(t)
  PROVE  FillOK(t)' /\ Others(t)
  <1>0. ThreadInv /\ FillOK(t)
    BY DEF TypeInv, FillInv
  <1>1. pc[t] \in {"sp_enqueue", "so_count", "so_peek"}
    BY DEF SendPacketEnqueue, SendPostCount, SendPostPeek, Reads, Writes
  <1>2. PICK s \in Slots : s = Sess(t)
    BY <1>0, <1>1, AtSess DEF SessLabels, Labels, HandlerLabels, FindLabels
  <1> DEFINE r == slot[s].sendRing
  <1>3. /\ slot[s] \in Session /\ r \in Seq(Packet) /\ Len(r) \in Nat
        /\ slot[s].sendPacketCount \in Nat /\ MaxBatch \in Nat \ {0}
        /\ r # <<>> => Len(r) > 0
    <2>1. slot[s] \in Session /\ r \in Seq(Packet) /\ MaxBatch \in Nat \ {0}
      BY SlotTyped, SessionAssumption DEF TypeInv, SharedTypes
    <2>2. slot[s].sendPacketCount \in Nat
      BY SlotTyped, SessionAssumption, SMT
    <2> HIDE DEF r
    <2> QED BY <2>1, <2>2, SMT
  <1>4. CASE SendPacketEnqueue(t)
    <2> DEFINE p == frame[t].pkts[1]
    <2>1. \/ Return(t)
          \/ slot' = [slot EXCEPT ![s].sendRing = Append(r, p)] /\ Step(t, "sp_pending")
      BY <1>2, <1>4 DEF SendPacketEnqueue, GoOrReturn, Step, S, TypeInv, SharedTypes
    <2>2. CASE Return(t)
      <3>1. Gone(t, frame[t].ret, frame[t].client, NoSlot, NoId, FALSE, <<>>) /\ frame[t].ret \in Rets
        BY <1>0, <1>1, <2>2, GoneReturn DEF HandlerLabels
      <3> QED BY <3>1 DEF Gone, FillOK, Rets, Filling, Gathered
    <2>3. CASE slot' = [slot EXCEPT ![s].sendRing = Append(r, p)] /\ Step(t, "sp_pending")
      <3>1. Gone(t, "sp_pending", frame[t].client, frame[t].sess, frame[t].id, frame[t].mark, frame[t].pkts)
        BY <1>0, <2>3, GoneStep
      <3>2. slot'[s].sendRing = Append(r, p)
        BY <1>3, <2>3, SMT DEF TypeInv, SharedTypes, Session
      <3>3. p \in Packet
        <4>1. frame[t].pkts \in Seq(Packet) /\ frame[t].pkts # <<>>
          BY <1>0, <1>4, FrameTyped DEF CtlOf, SendPacketEnqueue
        <4> QED BY <4>1, SMT
      <3> HIDE DEF r, p
      <3>4. Append(r, p) # <<>>
        <4>1. Len(Append(r, p)) = Len(r) + 1
          BY <1>3, <3>3, AppendProperties
        <4>2. Len(<<>>) = 0 /\ Len(r) + 1 # 0
          BY <1>3, SMT
        <4> QED BY <4>1, <4>2
      <3> QED BY <1>2, <3>1, <3>2, <3>4 DEF Gone, FillOK, S, Sess, Gathered
    <2> QED BY <2>1, <2>2, <2>3
  <1>5. CASE SendPostCount(t)
    <2>1. /\ pc[t] = "so_count" /\ Step(t, "so_peek")
          /\ slot' = [slot EXCEPT ![s] = [slot[s] EXCEPT !.sendPacketCount = Min2(Len(r), MaxBatch)]]
      BY <1>2, <1>5 DEF SendPostCount, Writes, S
    <2>2. Gone(t, "so_peek", frame[t].client, frame[t].sess, frame[t].id, frame[t].mark, frame[t].pkts)
      BY <1>0, <2>1, GoneStep
    <2>3. r # <<>>
      BY <1>0, <1>2, <2>1 DEF FillOK, Filling, S
    <2> DEFINE n == Min2(Len(r), MaxBatch)
    <2>4. n > 0
      BY <1>3, <2>3, SMT DEF Min2
    <2> HIDE DEF n
    <2>5. slot'[s].sendRing = r /\ slot'[s].sendPacketCount = n
      BY <1>3, <2>1, SMT DEF TypeInv, SharedTypes, Session, n
    <2> QED BY <1>2, <2>2, <2>3, <2>4, <2>5 DEF Gone, FillOK, S, Sess, Gathered
  <1>6. CASE SendPostPeek(t)
    <2> DEFINE n == Min2(slot[s].sendPacketCount, Len(r))
    <2>1. Gone(t, "so_gather", frame[t].client, s, frame[t].id, frame[t].mark, SubSeq(r, 1, n))
      BY <1>2, <1>6, GonePeek
    <2>2. pc[t] = "so_peek"
      BY <1>6 DEF SendPostPeek, Reads
    <2>3. n \in Nat /\ n > 0
      <3>1. r # <<>> /\ slot[s].sendPacketCount > 0
        BY <1>0, <1>2, <2>2 DEF FillOK, Filling, S
      <3> QED BY <1>3, <3>1, SMT DEF Min2
    <2> HIDE DEF r, n
    <2>4. SubSeq(r, 1, n) # <<>>
      <3>1. n \in 0..Len(r)
        BY <1>3, <2>3, SMT DEF n, Min2
      <3>2. Len(SubSeq(r, 1, n)) = n
        BY <1>3, <3>1, SeqSplit
      <3>3. Len(<<>>) = 0
        BY SMT
      <3>4. n # 0
        BY <2>3, SMT
      <3> QED BY <3>2, <3>3, <3>4
    <2> QED BY <2>1, <2>4 DEF Gone, FillOK, Filling
  <1> QED BY <1>4, <1>5, <1>6

-----------------------------------------------------------------------------
(* The other steps lead elsewhere. *)
LEMMA AwayFill ==
  ASSUME TypeInv, NEW t \in Threads,
         \/ SendPacketFind(t) \/ \E kind : Post(t, kind)
         \/ PostFails(t, "readId") \/ PostFails(t, "so_failed")
         \/ ReadId(t) \/ RemoveFind(t) \/ RemoveDrain(t) \/ RemoveClose(t) \/ RemoveErase(t) \/ RemovePush(t)
         \/ t \in Workers /\ \/ \E r \in io : Get(t, r)
                             \/ RecvDone(t) \/ SendDequeue(t) \/ Decrement(t) \/ OnRecvSend(t) \/ OnRecvClose(t)
         \/ t = Acceptor /\ (AcceptPop \/ AcceptInit \/ AcceptInsert)
  PROVE  FillOK(t)' /\ Others(t)
  <1>0. ThreadInv /\ frame[t].ret \in Rets
    BY FrameTyped DEF TypeInv, Rets
  <1>1. ASSUME NEW l, Goto(t, l) PROVE pc'[t] = l /\ \A u \in Threads \ {t} : pc'[u] = pc[u]
    BY <1>0, <1>1 DEF Goto, ThreadInv
  <1>2. ASSUME Return(t) PROVE pc'[t] \in Rets /\ Others(t)
    BY <1>0, <1>2, ReturnHand
  <1>3. ASSUME NEW f, frame' = [frame EXCEPT ![t] = f] PROVE \A u \in Threads \ {t} : frame'[u] = frame[u]
    BY <1>0, <1>3 DEF ThreadInv
  <1>4. /\ pc'[t] \notin Filling \cup Gathered
        /\ Others(t)
    <2>1. CASE SendPacketFind(t)
      BY <1>1, <1>2, <1>3, <2>1, SMT DEF SendPacketFind, Rets, Others, Filling, Gathered
    <2>2. CASE \E kind : Post(t, kind)
      BY <1>2, <2>2 DEF Post, Rets, Filling, Gathered
    <2>3. CASE PostFails(t, "readId") \/ PostFails(t, "so_failed")
      BY <1>1, <1>3, <2>3, SMT DEF PostFails, Others, Filling, Gathered
    <2>4. CASE ReadId(t)
      BY <1>0, <2>4, SMT DEF ReadId, CallRemove, Goto, ThreadInv, Others, Filling, Gathered
    <2>5. CASE RemoveFind(t)
      BY <1>1, <1>2, <1>3, <2>5, SMT DEF RemoveFind, Rets, Others, Filling, Gathered
    <2>6. CASE RemoveDrain(t)
      BY <2>6 DEF RemoveDrain, Others, Filling, Gathered
    <2>7. CASE RemoveClose(t) \/ RemoveErase(t)
      BY <1>1, <2>7 DEF RemoveClose, RemoveErase, Step, Others, Filling, Gathered
    <2>8. CASE RemovePush(t)
      BY <1>2, <2>8 DEF RemovePush, Rets, Filling, Gathered
    <2>9. CASE t \in Workers /\ \E r \in io : Get(t, r)
      BY <2>9, GoneGet DEF Gone, Filling, Gathered
    <2>10. CASE t \in Workers /\ (RecvDone(t) \/ Decrement(t) \/ OnRecvSend(t))
      <3>1. ~SendMore(t)
        BY <2>10 DEF RecvDone, Decrement, OnRecvSend, SendMore, Reads, Writes
      <3> QED BY <2>10, <3>1, GoneWith DEF Gone, Filling, Gathered
    <2>11. CASE SendDequeue(t)
      BY <1>1, <2>11 DEF SendDequeue, Step, Others, Filling, Gathered
    <2>12. CASE OnRecvClose(t)
      BY <1>1, <1>3, <2>12, SMTT(30) DEF OnRecvClose, CallRemove, Others, Filling, Gathered
    <2>13. CASE t = Acceptor /\ (AcceptPop \/ AcceptInit \/ AcceptInsert)
      <3>1. \E l \in {"init", "insert", "join"} : Goto(t, l)
        BY <2>13 DEF AcceptPop, AcceptInit, AcceptInsert, Step
      <3>2. \A u \in Threads \ {t} : frame'[u] = frame[u]
        BY <1>0, <2>13, SMT DEF AcceptPop, AcceptInit, AcceptInsert, Step, ThreadInv
      <3> QED BY <1>1, <3>1, <3>2 DEF Others, Filling, Gathered
    <2> QED BY <2>1, <2>2, <2>3, <2>4, <2>5, <2>6, <2>7, <2>8, <2>9, <2>10, <2>11, <2>12, <2>13
  <1> QED BY <1>4 DEF FillOK, Filling

(* What is posted was gathered. *)
LEMMA PostFull ==
  ASSUME TypeInv, FillInv, NEW t \in Threads, NEW kind \in {"recv", "send"}, Post(t, kind),
         kind = "send" => pc[t] = "so_call"
  PROVE  FullSends'
  <1> DEFINE o == [kind |-> kind, slot |-> Sess(t), id |-> S(t).sessionId, pkts |-> frame[t].pkts]
  <1>1. io' = io \cup {o}
    BY DEF Post
  <1>2. o.kind = kind /\ o.pkts = frame[t].pkts
    BY SMT
  <1>3. kind = "send" => frame[t].pkts # <<>>
    BY DEF FillInv, FillOK, Gathered
  <1> HIDE DEF o
  <1> QED BY <1>1, <1>2, <1>3 DEF FillInv, FullSends

-----------------------------------------------------------------------------
(* The accept thread empties no ring the worker sends from. *)
LEMMA AcceptorFills ==
  ASSUME OneWorker, SessionInv, PacketInv, FillInv, Others(Acceptor), FillOK(Acceptor)', FullSends',
         \/ \A s \in Slots : SameQueue(s)
         \/ slot' = slot
         \/ RemoveDrain(Acceptor)
         \/ AcceptInit /\ \A t \in Threads \ {Acceptor} : ~Uses(t, Sess(Acceptor))
  PROVE  FillInv'
  <1>0. TypeInv /\ ThreadInv /\ Acceptor \in Threads /\ Workers \subseteq Threads
    BY DEF SessionInv, TypeInv, Threads
  <1>1. ASSUME NEW s \in Slots, NEW w \in Workers \ {Acceptor}, frame[w].client = s
        PROVE  slot'[s].sendRing = slot[s].sendRing /\ slot'[s].sendPacketCount = slot[s].sendPacketCount
    <2>1. CASE (\A q \in Slots : SameQueue(q)) \/ slot' = slot
      BY <2>1 DEF SameQueue
    <2>2. CASE RemoveDrain(Acceptor)
      <3>1. /\ pc[Acceptor] = "rm_drain"
            /\ slot' = [slot EXCEPT ![Sess(Acceptor)].sendRing = Tail(slot[Sess(Acceptor)].sendRing)]
        BY <2>2 DEF RemoveDrain, S, SessionInv, TypeInv, SharedTypes
      <3>2. Sess(Acceptor) # s
        BY <1>0, <1>1, <3>1 DEF SessionInv, Teardown, AfterCount, Dead
      <3> QED BY <1>0, <3>1, <3>2 DEF TypeInv, SharedTypes
    <2>3. CASE AcceptInit /\ \A t \in Threads \ {Acceptor} : ~Uses(t, Sess(Acceptor))
      <3>1. Sess(Acceptor) # s
        BY <1>0, <1>1, <2>3 DEF Uses
      <3> QED BY <1>0, <2>3, <3>1 DEF AcceptInit, TypeInv, SharedTypes
    <2> QED BY <2>1, <2>2, <2>3
  <1> QED BY <1>0, <1>1, FillStep

(* With one worker every send posted has something to send. *)
LEMMA NextFill ==
  ASSUME OneWorker, SessionInv, PacketInv, FillInv, [Next]_vars,
         AcceptInit => \A t \in Threads \ {Acceptor} : ~Uses(t, Sess(Acceptor))
  PROVE  FillInv'
  <1>0. /\ TypeInv /\ Acceptor \in Threads /\ Workers \subseteq Threads
        /\ \A t \in Threads : t = Acceptor \/ t \in Workers
    BY DEF SessionInv, Threads, OneWorker
  <1>1. io' \subseteq io => FullSends'
    BY DEF FillInv, FullSends
  <1>2. ASSUME NEW t \in Threads, FillOK(t)', Others(t), FullSends',
               t = Acceptor => (\A s \in Slots : SameQueue(s)) \/ slot' = slot \/ RemoveDrain(Acceptor)
        PROVE  FillInv'
    BY <1>0, <1>2, WorkerFills, AcceptorFills
  <1>3. ASSUME NEW t \in Threads, Plain(t) \/ (t \in Workers /\ SendClear(t)) \/ (t = Acceptor /\ AcceptJoin)
        PROVE  FillInv'
    <2>1. Calm /\ Walks(t) /\ \A s \in Slots : SameQueue(s)
      BY <1>0, <1>3, PlainWalks
    <2>2. FillOK(t)' /\ Others(t) /\ io' = io
      BY <1>0, <2>1, WalkFill DEF Walks, Calm
    <2> QED BY <1>1, <1>2, <2>1, <2>2
  <1>4. ASSUME NEW t \in Threads, SendPacketEnqueue(t) \/ SendPostCount(t) \/ SendPostPeek(t)
        PROVE  FillInv'
    <2>1. FillOK(t)' /\ Others(t) /\ io' = io
      BY <1>0, <1>4, QueueFill DEF SendPacketEnqueue, SendPostCount, SendPostPeek, Reads, Writes, kernel
    <2>2. t \in Workers
      BY <1>0, <1>4, SenderWorks DEF SendPacketEnqueue, SendPostCount, SendPostPeek, Reads, Writes, Sending
    <2> QED BY <1>0, <1>1, <2>1, <2>2, WorkerFills
  <1>5. ASSUME NEW t \in Threads, NEW kind \in {"recv", "send"}, NEW l,
               \/ pc[t] = "rp_call" /\ kind = "recv" /\ l = "readId"
               \/ pc[t] = "so_call" /\ kind = "send" /\ l = "so_failed",
               Post(t, kind) \/ PostFails(t, l)
        PROVE  FillInv'
    <2>1. FillOK(t)' /\ Others(t)
      BY <1>0, <1>5, AwayFill
    <2>2. CASE Post(t, kind)
      <3>1. FullSends' /\ slot' = slot
        BY <1>0, <1>5, <2>2, PostFull DEF Post
      <3> QED BY <1>2, <2>1, <3>1
    <2>3. CASE PostFails(t, l)
      <3>1. io' = io /\ slot' = [slot EXCEPT ![Sess(t)] = AddIo(slot[Sess(t)], -1)] /\ -1 \in Int
        BY <1>0, <2>3 DEF PostFails, kernel, TypeInv, SharedTypes
      <3>2. PICK s \in Slots : s = Sess(t)
        BY <1>0, <1>5, AtSess DEF SessLabels, Labels, HandlerLabels, FindLabels, TypeInv
      <3>3. \A q \in Slots : SameQueue(q)
        BY <1>0, <3>1, <3>2, IoSame
      <3> QED BY <1>1, <1>2, <2>1, <3>1, <3>3
    <2> QED BY <1>5, <2>2, <2>3
  <1>6. CASE Accept
    <2>1. CASE AcceptJoin
      BY <1>0, <1>3, <2>1
    <2>2. CASE AcceptPop \/ AcceptInsert
      <3>1. FillOK(Acceptor)' /\ Others(Acceptor)
        BY <1>0, <2>2, AwayFill
      <3>2. slot' = slot /\ io' = io
        BY <2>2 DEF AcceptPop, AcceptInsert, kernel
      <3> QED BY <1>0, <1>1, <1>2, <3>1, <3>2
    <2>3. CASE AcceptInit
      <3>1. FillOK(Acceptor)' /\ Others(Acceptor)
        BY <1>0, <2>3, AwayFill
      <3>2. io' = io
        BY <2>3 DEF AcceptInit, kernel
      <3> QED BY <1>1, <2>3, <3>1, <3>2, AcceptorFills
    <2> QED BY <1>6, <2>1, <2>2, <2>3 DEF Accept
  <1>7. ASSUME NEW t \in Threads, RecvPost(t) \/ SendPost(t) PROVE FillInv'
    BY <1>3, <1>4, <1>5, <1>7 DEF RecvPost, RecvPostCall, SendPost, SendPostCall, Plain
  <1>8. ASSUME NEW t \in Threads, SendPacket(t) PROVE FillInv'
    <2>1. CASE SendPacketFind(t)
      <3>1. slot' = slot /\ io' = io
        BY <2>1 DEF SendPacketFind, Reads, kernel
      <3>2. FillOK(t)' /\ Others(t)
        BY <1>0, <2>1, AwayFill
      <3> QED BY <1>1, <1>2, <3>1, <3>2
    <2> QED BY <1>3, <1>4, <1>8, <2>1 DEF SendPacket, Plain
  <1>9. ASSUME NEW t \in Threads, RemoveSession(t) PROVE FillInv'
    <2>1. CASE ReadId(t) \/ RemoveFind(t) \/ RemoveDrain(t) \/ RemoveClose(t) \/ RemoveErase(t) \/ RemovePush(t)
      <3>1. io' = io /\ (slot' = slot \/ RemoveDrain(t))
        BY <2>1 DEF ReadId, RemoveFind, RemoveDrain, RemoveClose, RemoveErase, RemovePush, Reads, kernel
      <3>2. FillOK(t)' /\ Others(t)
        BY <1>0, <2>1, AwayFill
      <3> QED BY <1>1, <1>2, <3>1, <3>2
    <2> QED BY <1>3, <1>9, <2>1 DEF RemoveSession, Plain
  <1>10. ASSUME NEW w \in Workers, (\E r \in io : Get(w, r)) \/ Handle(w) \/ OnRecvSend(w) \/ OnRecvClose(w)
         PROVE  FillInv'
    <2>1. CASE SendClear(w)
      BY <1>0, <1>3, <2>1
    <2>2. CASE SendMore(w)
      <3>1. io' = io /\ slot' = slot /\ pc[w] = "more" /\ ThreadInv
        BY <1>0, <2>2 DEF SendMore, Reads, kernel, TypeInv
      <3>2. PICK s \in Slots : s = frame[w].client
        BY <1>0, <3>1, AtHandler DEF HandlerLabels
      <3>3. ~RecvDone(w) /\ ~Decrement(w) /\ ~OnRecvSend(w)
        BY <3>1 DEF RecvDone, Decrement, OnRecvSend, Reads, Writes
      <3>4. \/ /\ slot[s].sendRing # <<>>
               /\ Gone(w, "so_xchg", s, s, frame[w].id, frame[w].mark, frame[w].pkts)
            \/ Gone(w, "dec", s, frame[w].sess, frame[w].id, frame[w].mark, frame[w].pkts)
        BY <1>0, <2>2, <3>2, <3>3, GoneWith
      <3>5. FillOK(w)' /\ Others(w)
        BY <3>1, <3>4 DEF Gone, FillOK, S, Sess, Filling, Gathered
      <3> QED BY <1>0, <1>1, <3>1, <3>5, WorkerFills
    <2>3. CASE \/ \E r \in io : Get(w, r)
               \/ RecvDone(w) \/ SendDequeue(w) \/ Decrement(w) \/ OnRecvSend(w) \/ OnRecvClose(w)
      <3>1. FillOK(w)' /\ Others(w)
        BY <1>0, <2>3, AwayFill
      <3>2. io' \subseteq io
        BY <2>3 DEF Get, GetZero, GetRecv, GetSend, Dequeue, RecvDone, SendDequeue, Decrement, OnRecvSend,
                    OnRecvClose, Condemn, Reads, Writes, kernel
      <3> QED BY <1>0, <1>1, <3>1, <3>2, WorkerFills
    <2> QED BY <1>10, <2>1, <2>2, <2>3 DEF Handle
  <1>11. CASE slot' = slot /\ pc' = pc /\ frame' = frame /\ io' = io
    BY <1>11 DEF FillInv, FullSends, FillOK, S, Sess
  <1>12. ASSUME NEW id \in Ids, PeerClose(id) PROVE FillInv'
    BY <1>11, <1>12 DEF PeerClose
  <1>13. CASE UNCHANGED vars \/ Quiescent
    BY <1>11, <1>13 DEF vars, kernel, Quiescent
  <1>14. Apps = {}
    BY DEF OneWorker
  <1> QED BY <1>6, <1>7, <1>8, <1>9, <1>10, <1>12, <1>13, <1>14 DEF Next

(* With one worker no connection is closed without a reason: not for what  *)
(* is on the wire, and not for how the server's threads interleave.  For   *)
(* any slots, connections, packets and batches.                            *)
THEOREM OneWorkerClosesForCause ==
  ASSUME OneWorker
  PROVE  Spec => []ClosedForCause
  <1>1. Init => FillInv
    BY DEF Init, FillInv, FullSends, FillOK, Filling, Gathered
  <1>2. ASSUME SessionInv, PacketInv, FillInv, [Next]_vars,
               [AcceptInit => \A t \in Threads \ {Acceptor} : ~Uses(t, Sess(Acceptor))]_vars
        PROVE  FillInv'
    <2>1. CASE UNCHANGED vars
      <3>1. nextSessionId' = nextSessionId /\ nextSessionId \in Int
        BY <1>2, <2>1, SessionAssumption, SMT DEF vars, tables, SessionInv, TypeInv, SharedTypes
      <3>2. ~AcceptInit
        BY <3>1 DEF AcceptInit
      <3> QED BY <1>2, <3>2, NextFill
    <2> QED BY <1>2, <2>1, NextFill
  <1>3. Apps = {}
    BY DEF OneWorker
  <1>4. Spec /\ ReusedUnheld => []PacketInv
    BY <1>3, PacketInductive
  <1>5. Spec => ReusedUnheld
    BY OneWorkerReuse
  <1>6. FillInv => FullSends
    BY DEF FillInv
  <1> QED BY <1>1, <1>2, <1>4, <1>5, <1>6, SessionInductive, MarkedForCause, PTL DEF Spec, ReusedUnheld

-----------------------------------------------------------------------------
(* A busy session is polled *)

SendLabels == {"sp_enqueue", "sp_pending", "so_xchg", "so_check", "so_reset", "so_count", "so_peek",
               "so_gather", "so_recheck", "so_undo", "so_call", "so_failed"}
PostLabels == RecvPostLabels \ {"join"}
Opening    == {"insert"} \cup RecvPostLabels

(* A thread of the library sends to, and receives from, the session whose  *)
(* completion it has; the accept thread receives from the one it opens.    *)
Own(t) ==
  /\ pc[t] = "sp_find" => frame[t].client # NoSlot /\ frame[t].id = slot[frame[t].client].sessionId
  /\ pc[t] \in SendLabels \cup PostLabels =>
       Sess(t) = frame[t].client \/ (t = Acceptor /\ pc[t] \in PostLabels)

(* Thread t may get to slot s. *)
Knows(t, s) == Uses(t, s) \/ (pc[t] \in FindLabels /\ frame[t].id = slot[s].sessionId)

(* Nobody else gets to the session the accept thread is opening. *)
Untold == pc[Acceptor] \in Opening =>
            /\ OpsOn(Sess(Acceptor)) = {}
            /\ \A t \in Threads \ {Acceptor} : ~Knows(t, Sess(Acceptor))

PollInv == /\ ClosingIsPolled /\ Untold
           /\ \A t \in Threads : Own(t)
           /\ \A t \in Threads : pc[t] \in FindLabels => frame[t].id < nextSessionId

(* What a step of thread t must do: it gets to slots from what it has...   *)
Local(t) ==
  /\ Own(t)'
  /\ pc'[t] \in FindLabels => frame'[t].id < nextSessionId
  /\ t = Acceptor /\ pc'[t] \in Opening => pc[t] \in Opening /\ frame'[t].sess = Sess(t)
  /\ t # Acceptor => \A s \in Slots : Knows(t, s)' => Knows(t, s) \/ OpsOn(s) # {}

(* ... and leaves none that is closing to nobody. *)
Polled(t, s) ==
  /\ slot'[s].isClosing /\ ~slot'[s].isTornDown
  /\ OpsOn(s) # {} \/ WillCheck(t, s) \/ ~slot[s].isClosing
  => OpsOn(s)' # {} \/ WillCheck(t, s)' \/ \E u \in Threads \ {t} : Handling(u, s)

(* The same where the operations stay. *)
Turns(t, s) ==
  WillCheck(t, s) /\ slot'[s].isClosing /\ ~slot'[s].isTornDown =>
    WillCheck(t, s)' \/ OpsOn(s) # {} \/ \E u \in Threads \ {t} : Handling(u, s)

(* Such a step keeps the invariant. *)
LEMMA PollStep ==
  ASSUME TypeInv, PollInv, NEW t \in Threads, Others(t), nextSessionId' = nextSessionId,
         Local(t), \A s \in Slots : Polled(t, s),
         \A s \in Slots : /\ slot'[s].sessionId = slot[s].sessionId
                          /\ slot[s].isTornDown => slot'[s].isTornDown
                          /\ ~slot[s].isTornDown => \A id \in Ids : sessionMap[id] = s => sessionMap'[id] = s
                          /\ OpsOn(s)' \subseteq OpsOn(s) \/ (Uses(t, s) /\ pc'[t] \notin Opening)
  PROVE  PollInv'
  <1>0. ThreadInv /\ Acceptor \in Threads
    BY DEF TypeInv, Threads
  <1>1. ASSUME NEW u \in Threads PROVE Own(u)'
    <2>1. CASE u = t
      BY <2>1 DEF Local
    <2>2. CASE u # t
      <3>1. pc'[u] = pc[u] /\ frame'[u] = frame[u] /\ Own(u)
        BY <2>2 DEF Others, PollInv
      <3>2. frame[u].client # NoSlot => frame[u].client \in Slots
        BY <1>0, AtClient
      <3> QED BY <3>1, <3>2 DEF Own, Sess
    <2> QED BY <2>1, <2>2
  <1>2. \A u \in Threads : pc'[u] \in FindLabels => frame'[u].id < nextSessionId'
    BY DEF PollInv, Local, Others
  <1>3. Untold'
    <2> SUFFICES ASSUME pc'[Acceptor] \in Opening
                 PROVE  /\ OpsOn(Sess(Acceptor))' = {}
                        /\ \A u \in Threads \ {Acceptor} : ~Knows(u, Sess(Acceptor))'
      BY DEF Untold
    <2>1. pc[Acceptor] \in Opening /\ frame'[Acceptor].sess = Sess(Acceptor)
      BY <1>0 DEF Local, Others, Sess
    <2>2. PICK s \in Slots : s = Sess(Acceptor)
      BY <1>0, <2>1, AtSess DEF Opening, RecvPostLabels, SessLabels, Labels, HandlerLabels, FindLabels
    <2>3. OpsOn(s) = {} /\ \A u \in Threads \ {Acceptor} : ~Knows(u, s)
      BY <2>1, <2>2 DEF PollInv, Untold
    <2>4. OpsOn(s)' = {}
      <3>1. t # Acceptor => ~Uses(t, s)
        BY <2>3 DEF Knows
      <3> QED BY <2>3, <3>1
    <2>5. ASSUME NEW u \in Threads \ {Acceptor} PROVE ~Knows(u, s)'
      <3>1. CASE u = t
        BY <2>3, <3>1 DEF Local
      <3>2. CASE u # t
        <4>1. pc'[u] = pc[u] /\ frame'[u] = frame[u] /\ slot'[s].sessionId = slot[s].sessionId
          BY <3>2 DEF Others
        <4> QED BY <2>3, <4>1 DEF Knows, Uses, Sess
      <3> QED BY <3>1, <3>2
    <2>6. s = Sess(Acceptor)'
      BY <2>1, <2>2 DEF Sess
    <2> QED BY <2>4, <2>5, <2>6 DEF OpsOn, Knows, Uses
  <1>4. ASSUME NEW s \in Slots, slot'[s].isClosing, ~slot'[s].isTornDown
        PROVE  OpsOn(s)' # {} \/ \E u \in Threads : WillCheck(u, s)'
    <2>1. ASSUME NEW u \in Threads, u # t, WillCheck(u, s) PROVE WillCheck(u, s)'
      <3>1. pc'[u] = pc[u] /\ frame'[u] = frame[u]
        BY <2>1 DEF Others
      <3>2. pc[u] = "rm_find" => frame[u].id \in Ids
        BY <1>0, FrameTyped DEF CtlOf, FindLabels
      <3>3. pc[u] = "rm_find" /\ sessionMap[frame[u].id] = s => sessionMap'[frame[u].id] = s
        BY <1>4, <3>2
      <3> QED BY <2>1, <3>1, <3>3 DEF WillCheck, Handling, Sess
    <2>2. ASSUME NEW u \in Threads \ {t}, Handling(u, s) PROVE WillCheck(u, s)'
      BY <2>1, <2>2 DEF WillCheck
    <2>3. \/ OpsOn(s) # {} \/ WillCheck(t, s) \/ ~slot[s].isClosing
          \/ \E u \in Threads : u # t /\ WillCheck(u, s)
      BY <1>4 DEF PollInv, ClosingIsPolled
    <2> QED BY <1>4, <2>1, <2>2, <2>3 DEF Polled
  <1>5. ClosingIsPolled'
    BY <1>4 DEF ClosingIsPolled
  <1> QED BY <1>1, <1>2, <1>3, <1>5 DEF PollInv

(* A quiet step closes no other session than the one it was called for. *)
LEMMA QuietPoll ==
  ASSUME SessionInv, PollInv, NEW t \in Threads, Quiet(t), Local(t), \A s \in Slots : Turns(t, s)
  PROVE  PollInv'
  <1>1. /\ TypeInv /\ Others(t) /\ io' = io /\ sessionMap' = sessionMap /\ nextSessionId' = nextSessionId
        /\ \A s \in Slots : KeepsSession(t, s)
    BY DEF SessionInv, Quiet, tables
  <1>2. ASSUME NEW s \in Slots PROVE OpsOn(s)' = OpsOn(s)
    BY <1>1 DEF OpsOn
  <1>3. ASSUME NEW s \in Slots PROVE Polled(t, s)
    <2>1. slot'[s].isClosing => slot[s].isClosing \/ WillCheck(t, s)
      BY <1>1 DEF KeepsSession, WillCheck
    <2> QED BY <1>2, <2>1 DEF Polled, Turns
  <1> QED BY <1>1, <1>2, <1>3, PollStep DEF KeepsSession

(* A step that leaves the session alone. *)
LEMMA SlotPoll ==
  ASSUME TypeInv, PollInv, NEW t \in Threads, Others(t), nextSessionId' = nextSessionId,
         slot' = slot, io' = io, Local(t), \A s \in Slots : Turns(t, s),
         \A s \in Slots : ~slot[s].isTornDown => \A id \in Ids : sessionMap[id] = s => sessionMap'[id] = s
  PROVE  PollInv'
  <1>1. \A s \in Slots : OpsOn(s)' = OpsOn(s)
    BY DEF OpsOn
  <1>2. \A s \in Slots : Polled(t, s)
    BY <1>1 DEF Polled, Turns
  <1> QED BY <1>1, <1>2, PollStep

(* Nothing but the completion in hand is left to check. *)
LEMMA HandTurns ==
  ASSUME NEW t \in Threads, NEW l, NEW s, NEW i, NEW m, NEW p, Gone(t, l, frame[t].client, s, i, m, p),
         NEW q \in Slots, WillCheck(t, q) => Handling(t, q)
  PROVE  Turns(t, q)
  BY DEF Gone, Turns, WillCheck, Handling

(* A call returns. *)
LEMMA ReturnLocal ==
  ASSUME ThreadInv, NEW t \in Threads, pc[t] \notin HandlerLabels, Return(t)
  PROVE  /\ Local(t) /\ Others(t) /\ pc'[t] \notin Opening
         /\ \A q \in Slots : (WillCheck(t, q) => Handling(t, q)) => Turns(t, q)
  <1>1. Gone(t, frame[t].ret, frame[t].client, NoSlot, NoId, FALSE, <<>>) /\ frame[t].ret \in Rets
    BY GoneReturn
  <1>2. /\ pc'[t] \in Rets /\ frame'[t].client = frame[t].client /\ frame'[t].sess = NoSlot /\ Others(t)
    BY <1>1 DEF Gone
  <1>3. Local(t)
    BY <1>2, NoneApart DEF Local, Own, Knows, Uses, Sess, Rets, FindLabels, SendLabels, PostLabels, Opening,
                           RecvPostLabels
  <1> QED BY <1>1, <1>2, <1>3, HandTurns DEF Rets, Opening, RecvPostLabels

(* A thread goes on with the session it has. *)
LEMMA StayLocal ==
  ASSUME PollInv, NEW t \in Threads, NEW l, NEW i, NEW m, NEW p, Gone(t, l, frame[t].client, Sess(t), i, m, p),
         pc[t] \notin FindLabels, l \notin FindLabels, l # "insert",
         l \in SendLabels \cup PostLabels =>
           \/ pc[t] \in SendLabels /\ l \in SendLabels
           \/ pc[t] \in PostLabels /\ l \in PostLabels
           \/ t = Acceptor /\ pc[t] \in RecvPostLabels /\ l \in RecvPostLabels,
         l # "join"
  PROVE  Local(t)
  <1>1. pc'[t] = l /\ frame'[t].client = frame[t].client /\ frame'[t].sess = Sess(t) /\ Own(t)
    BY DEF Gone, PollInv
  <1>2. Own(t)'
    BY <1>1 DEF Own, Sess, FindLabels, SendLabels, PostLabels, RecvPostLabels
  <1>3. \A s : Knows(t, s)' => Knows(t, s)
    BY <1>1 DEF Knows, Uses, Sess, FindLabels
  <1>4. t = Acceptor /\ l \in Opening => pc[t] \in Opening
    BY DEF Opening, SendLabels, PostLabels, RecvPostLabels
  <1> QED BY <1>1, <1>2, <1>3, <1>4 DEF Local

-----------------------------------------------------------------------------
(* Steps inside a call, other than those that decide about a teardown. *)
LEMMA WalkPoll ==
  ASSUME SessionInv, PollInv, NEW t \in Threads, Walks(t), pc[t] \notin {"rm_closing", "rm_count", "rm_cas"},
         \A s \in Slots : SameQueue(s)
  PROVE  Local(t) /\ \A s \in Slots : Turns(t, s)
  <1>0. ThreadInv /\ CtlOf(t, pc[t], frame[t]) /\ frame[t].ret \in Rets
    BY Parts, FrameTyped DEF Rets
  <1>1. CASE Flow(pc[t], pc'[t]) /\ frame'[t] = frame[t]
    <2>1. Gone(t, pc'[t], frame[t].client, Sess(t), frame[t].id, frame[t].mark, frame[t].pkts)
      BY <1>1 DEF Gone, Walks, Sess
    <2>2. Local(t)
      <3>1. pc[t] = "join" => t = Acceptor
        BY <1>0 DEF CtlOf, AcceptLabels
      <3> DEFINE l == pc'[t]
      <3>2. /\ pc[t] \notin FindLabels /\ l \notin FindLabels /\ l \notin {"insert", "join"}
            /\ l \in SendLabels \cup PostLabels =>
                 \/ pc[t] \in SendLabels /\ l \in SendLabels
                 \/ pc[t] \in PostLabels /\ l \in PostLabels
                 \/ t = Acceptor /\ pc[t] \in RecvPostLabels /\ l \in RecvPostLabels
        BY <1>1, <3>1, SMT DEF Flow, FindLabels, SendLabels, PostLabels, RecvPostLabels
      <3>3. Gone(t, l, frame[t].client, Sess(t), frame[t].id, frame[t].mark, frame[t].pkts)
        BY <2>1
      <3> HIDE DEF l
      <3> QED BY <3>2, <3>3, StayLocal
    <2>3. ASSUME NEW s \in Slots PROVE Turns(t, s)
      <3>1. CASE pc[t] \in {"so_failed", "rm_mark"}
        <4>1. pc'[t] \in {"readId", "rm_closing"}
          BY <1>1, <3>1, SMT DEF Flow
        <4> QED BY <1>1, <3>1, <4>1 DEF Turns, WillCheck, Handling, Sess
      <3>2. CASE pc[t] \notin {"so_failed", "rm_mark"}
        <4>1. WillCheck(t, s) => Handling(t, s)
          BY <1>1, <3>2, SMT DEF Flow, WillCheck
        <4> QED BY <2>1, <4>1, HandTurns
      <3> QED BY <3>1, <3>2
    <2> QED BY <2>2, <2>3
  <1>2. CASE pc[t] \in Leaving /\ pc'[t] = frame[t].ret /\ frame'[t] = Back(t)
    <2>1. Back(t).client = frame[t].client /\ Back(t).sess = NoSlot /\ Back(t).id = NoId
      <3>1. frame[t].ret = "idle" => frame[t].client = NoSlot
        BY <1>0, <1>2 DEF CtlOf, Leaving, HandlerLabels
      <3> QED BY <3>1, SMT DEF Back, NoFrame
    <2>2. Gone(t, frame[t].ret, frame[t].client, NoSlot, NoId, Back(t).mark, Back(t).pkts)
      BY <1>2, <2>1 DEF Gone, Walks
    <2>3. ASSUME NEW s \in Slots PROVE Turns(t, s)
      <3>1. WillCheck(t, s) => Handling(t, s)
        BY <1>2 DEF Leaving, WillCheck
      <3> QED BY <2>2, <3>1, HandTurns
    <2>4. Local(t)
      <3>1. /\ pc'[t] \in Rets /\ frame'[t].client = frame[t].client /\ frame'[t].sess = NoSlot
        BY <1>0, <2>2 DEF Gone
      <3> QED BY <3>1, NoneApart DEF Local, Own, Knows, Uses, Sess, Rets, FindLabels, SendLabels, PostLabels, Opening,
                           RecvPostLabels
    <2> QED BY <2>3, <2>4
  <1> QED BY <1>1, <1>2 DEF Walks

(* The id of a thread's session, and the way back from it. *)
LEMMA IdOf ==
  ASSUME SessionInv, NEW s \in Slots, Begun(s)
  PROVE  /\ slot[s].sessionId \in Ids /\ slot[s].sessionId < nextSessionId
         /\ \A q \in Slots : slot[q].sessionId = slot[s].sessionId => q = s
  BY SlotTyped DEF SessionInv, TypeInv, SharedPtrs, IdsOnce

(* sendPacket and sendPost stay with the session of the completion. *)
LEMMA SendPoll ==
  ASSUME SessionInv, PollInv, NEW t \in Threads,
         SendPacketFind(t) \/ SendPacketEnqueue(t) \/ SendPostCount(t) \/ SendPostPeek(t)
  PROVE  Local(t) /\ \A s \in Slots : Turns(t, s)
  <1>0. /\ TypeInv /\ ThreadInv /\ CtlOf(t, pc[t], frame[t]) /\ Own(t)
        /\ pc[t] \in {"sp_find", "sp_enqueue", "so_count", "so_peek"}
    BY Parts DEF PollInv, SendPacketFind, SendPacketEnqueue, SendPostCount, SendPostPeek, Reads, Writes
  <1>1. \A s \in Slots : WillCheck(t, s) => Handling(t, s)
    BY <1>0 DEF WillCheck
  <1>2. ASSUME Return(t) PROVE Local(t) /\ \A s \in Slots : Turns(t, s)
    BY <1>0, <1>1, <1>2, ReturnLocal DEF HandlerLabels
  <1>3. ASSUME NEW l \in SendLabels, NEW i, NEW m, NEW p, Gone(t, l, frame[t].client, Sess(t), i, m, p),
               pc[t] # "sp_find"
        PROVE  Local(t) /\ \A s \in Slots : Turns(t, s)
    <2>1. /\ pc[t] \notin FindLabels /\ l \notin FindLabels /\ l \notin {"insert", "join"}
          /\ pc[t] \in SendLabels
      BY <1>0, <1>3 DEF FindLabels, SendLabels
    <2>2. Local(t)
      BY <1>3, <2>1, StayLocal
    <2> QED BY <1>1, <1>3, <2>2, HandTurns
  <1>4. CASE SendPacketFind(t)
    <2> DEFINE s == sessionMap[frame[t].id]
    <2>1. pc[t] = "sp_find" /\ slot' = slot /\ (s = NoSlot => Return(t))
          /\ (s # NoSlot => Goto(t, "sp_enqueue") /\ frame' = [frame EXCEPT ![t].sess = s])
      BY <1>4 DEF SendPacketFind, Reads
    <2>2. frame[t].id \in Ids /\ s \in Slots \cup {NoSlot}
      BY <1>0, <2>1, FrameTyped DEF TypeInv, SharedTypes, CtlOf, FindLabels
    <2>3. CASE s # NoSlot
      <3>1. PICK c \in Slots : c = frame[t].client /\ Begun(c) /\ frame[t].id = slot[c].sessionId
        BY <1>0, <2>1, AtClient DEF Own
      <3>2. s = c
        <4>1. slot[s].sessionId = frame[t].id /\ s \in Slots
          BY <2>2, <2>3 DEF SessionInv, Places
        <4> QED BY <3>1, <4>1, IdOf
      <3>3. Gone(t, "sp_enqueue", c, c, frame[t].id, frame[t].mark, frame[t].pkts)
        <4>1. Goto(t, "sp_enqueue") /\ frame' = [frame EXCEPT ![t].sess = c]
          BY <2>1, <2>3, <3>2
        <4> QED BY <1>0, <3>1, <4>1, GoneFound
      <3>4. pc'[t] = "sp_enqueue" /\ frame'[t].client = c /\ frame'[t].sess = c
        BY <3>3 DEF Gone
      <3>5. Local(t)
        <4>1. Own(t)'
          BY <3>4 DEF Own, Sess, SendLabels
        <4>2. \A q \in Slots : Knows(t, q)' => q = c
          BY <3>4 DEF Knows, Uses, Sess, FindLabels
        <4>3. Knows(t, c)
          BY <3>1 DEF Knows, Uses
        <4> QED BY <3>4, <4>1, <4>2, <4>3 DEF Local, Opening, RecvPostLabels, FindLabels
      <3> QED BY <1>1, <3>1, <3>3, <3>5, HandTurns
    <2> QED BY <1>2, <2>1, <2>3
  <1>5. CASE SendPacketEnqueue(t)
    <2>1. pc[t] = "sp_enqueue" /\ (Return(t) \/ Step(t, "sp_pending"))
      BY <1>5 DEF SendPacketEnqueue, GoOrReturn, Step
    <2>2. Step(t, "sp_pending") =>
            Gone(t, "sp_pending", frame[t].client, Sess(t), frame[t].id, frame[t].mark, frame[t].pkts)
      BY <1>0, GoneStep DEF Sess
    <2>3. "sp_pending" \in SendLabels
      BY DEF SendLabels
    <2> QED BY <1>2, <1>3, <2>1, <2>2, <2>3
  <1>6. CASE SendPostCount(t)
    <2>1. pc[t] = "so_count" /\ Step(t, "so_peek")
      BY <1>6 DEF SendPostCount, Writes
    <2>2. Gone(t, "so_peek", frame[t].client, Sess(t), frame[t].id, frame[t].mark, frame[t].pkts)
      BY <1>0, <2>1, GoneStep DEF Sess
    <2>3. "so_peek" \in SendLabels
      BY DEF SendLabels
    <2> QED BY <1>3, <2>1, <2>2, <2>3
  <1>7. CASE SendPostPeek(t)
    <2>1. pc[t] = "so_peek"
      BY <1>7 DEF SendPostPeek, Reads
    <2>2. PICK s \in Slots : s = Sess(t)
      BY <1>0, <2>1, AtSess DEF SessLabels, Labels, HandlerLabels, FindLabels
    <2> DEFINE q == SubSeq(slot[s].sendRing, 1, Min2(slot[s].sendPacketCount, Len(slot[s].sendRing)))
    <2>3. Gone(t, "so_gather", frame[t].client, s, frame[t].id, frame[t].mark, q)
      BY <1>0, <1>7, <2>2, GonePeek
    <2> HIDE DEF q
    <2>4. "so_gather" \in SendLabels
      BY DEF SendLabels
    <2> QED BY <1>3, <2>1, <2>2, <2>3, <2>4
  <1> QED BY <1>4, <1>5, <1>6, <1>7

-----------------------------------------------------------------------------
(* removeSession decides on a teardown: it leaves the session to the       *)
(* operation, or the call, that still counts.                              *)
LEMMA DecidePoll ==
  ASSUME SessionInv, PollInv, NEW t \in Threads, RemoveClosing(t) \/ RemoveCount(t) \/ RemoveCas(t)
  PROVE  Local(t) /\ \A s \in Slots : Turns(t, s)
  <1>0. /\ TypeInv /\ ThreadInv /\ IoAccounting /\ Records /\ pc[t] \in {"rm_closing", "rm_count", "rm_cas"}
    BY Parts DEF RemoveClosing, RemoveCount, RemoveCas, Reads, Writes
  <1>1. PICK s \in Slots : s = Sess(t)
    BY <1>0, AtSess DEF SessLabels, Labels, HandlerLabels, FindLabels
  <1>2. ASSUME NEW q \in Slots, WillCheck(t, q) PROVE Handling(t, q) \/ q = s
    BY <1>0, <1>1, <1>2 DEF WillCheck
  <1>3. ASSUME NEW l \in {"rm_count", "rm_cas", "rm_drain"}, Step(t, l)
        PROVE  /\ Gone(t, l, frame[t].client, s, frame[t].id, frame[t].mark, frame[t].pkts)
               /\ Local(t)
    <2>1. Gone(t, l, frame[t].client, Sess(t), frame[t].id, frame[t].mark, frame[t].pkts)
      BY <1>0, <1>3, GoneStep DEF Sess
    <2>2. /\ pc[t] \notin FindLabels /\ l \notin FindLabels /\ l \notin {"insert", "join"}
          /\ l \notin SendLabels \cup PostLabels
      BY <1>0 DEF FindLabels, SendLabels, PostLabels, RecvPostLabels
    <2> QED BY <1>1, <2>1, <2>2, StayLocal
  <1>4. ASSUME Return(t)
        PROVE  /\ Local(t)
               /\ Turns(t, s) => \A q \in Slots : Turns(t, q)
    BY <1>0, <1>2, <1>4, ReturnLocal DEF HandlerLabels
  <1>5. CASE RemoveClosing(t)
    <2>1. slot' = slot /\ (slot[s].isClosing => Step(t, "rm_count")) /\ (~slot[s].isClosing => Return(t))
      BY <1>1, <1>5 DEF RemoveClosing, GoOrReturn, Step, Reads, S
    <2>2. CASE slot[s].isClosing
      <3>1. Local(t) /\ pc'[t] = "rm_count" /\ frame'[t].sess = s /\ frame'[t].client = frame[t].client
        BY <1>3, <2>1, <2>2 DEF Gone
      <3> QED BY <1>2, <3>1 DEF Turns, WillCheck, Handling, Sess
    <2>3. CASE ~slot[s].isClosing
      <3>1. Turns(t, s)
        BY <2>1, <2>3 DEF Turns
      <3> QED BY <1>4, <2>1, <2>3, <3>1
    <2> QED BY <2>2, <2>3
  <1>6. CASE RemoveCount(t)
    <2>1. /\ pc[t] = "rm_count" /\ slot' = slot
          /\ (slot[s].ioCount = 0 => Step(t, "rm_cas")) /\ (slot[s].ioCount # 0 => Return(t))
      BY <1>1, <1>6 DEF RemoveCount, GoOrReturn, Step, Reads, S
    <2>2. CASE slot[s].ioCount = 0
      <3>1. Local(t) /\ pc'[t] = "rm_cas" /\ frame'[t].sess = s /\ frame'[t].client = frame[t].client
        BY <1>3, <2>1, <2>2 DEF Gone
      <3> QED BY <1>2, <3>1 DEF Turns, WillCheck, Handling, Sess
    <2>3. CASE slot[s].ioCount # 0
      <3>1. OpsOn(s) # {} \/ \E u \in Threads : Posting(u, s) \/ Handling(u, s)
        <4>1. SUFFICES ASSUME OpsOn(s) = {}, {u \in Threads : Posting(u, s)} = {},
                              {u \in Threads : Handling(u, s)} = {}
                       PROVE  slot[s].ioCount = 0
          BY <2>3
        <4>2. Cardinality({}) = 0
          BY FS_EmptySet
        <4>3. slot[s].ioCount = 0 + 0 + 0
          BY <1>0, <4>1, <4>2 DEF IoAccounting
        <4> QED BY <4>3, SMT
      <3>2. ASSUME NEW u \in Threads, Posting(u, s) PROVE Handling(u, s)
        <4>1. Own(u) /\ Untold /\ u # t
          BY <1>0, <2>1, <3>2 DEF PollInv, Posting
        <4>2. ~(u = Acceptor /\ pc[u] \in PostLabels)
          <5>1. Knows(t, s)
            BY <1>1, <2>1 DEF Knows, Uses
          <5> QED BY <3>2, <4>1, <5>1 DEF Untold, Opening, PostLabels, Posting, Sess
        <4> QED BY <3>2, <4>1, <4>2 DEF Own, Posting, Handling, Sess, SendLabels, PostLabels, RecvPostLabels
      <3>3. Turns(t, s)
        <4>1. \A u \in Threads : Handling(u, s) => WillCheck(u, s)
          BY DEF WillCheck
        <4>2. Gone(t, frame[t].ret, frame[t].client, NoSlot, NoId, FALSE, <<>>)
          BY <1>0, <2>1, <2>3, GoneReturn DEF HandlerLabels
        <4>3. Handling(t, s) => WillCheck(t, s)'
          BY <4>2 DEF Gone, WillCheck, Handling
        <4> QED BY <3>1, <3>2, <4>3 DEF Turns
      <3> QED BY <1>4, <2>1, <2>3, <3>3
    <2> QED BY <2>2, <2>3
  <1>7. CASE RemoveCas(t)
    <2>1. /\ slot' = [slot EXCEPT ![s] = [slot[s] EXCEPT !.isTornDown = TRUE]]
          /\ Step(t, "rm_drain") \/ Return(t)
      BY <1>1, <1>7 DEF RemoveCas, Writes, GoOrReturn, Step, S
    <2>2. slot'[s].isTornDown
      <3>1. slot[s] \in Session /\ slot'[s] = [slot[s] EXCEPT !.isTornDown = TRUE]
        BY <1>0, <2>1, SlotTyped DEF TypeInv, SharedTypes
      <3> QED BY <3>1, SMT DEF Session
    <2>3. Turns(t, s)
      BY <2>2 DEF Turns
    <2>4. CASE Step(t, "rm_drain")
      <3>1. /\ Gone(t, "rm_drain", frame[t].client, s, frame[t].id, frame[t].mark, frame[t].pkts)
            /\ Local(t)
        BY <1>3, <2>4
      <3> QED BY <1>2, <2>3, <3>1, HandTurns
    <2> QED BY <1>4, <2>1, <2>3, <2>4
  <1> QED BY <1>5, <1>6, <1>7

(* removeSession is called with the id of a session the thread has. *)
LEMMA CallPoll ==
  ASSUME SessionInv, PollInv, NEW t \in Threads, pc[t] \notin FindLabels, NEW s \in Slots, Begun(s),
         Sess(t) = s \/ frame[t].client = s,
         \A q \in Slots : slot'[q].sessionId = slot[q].sessionId,
         NEW l \in FindLabels, NEW d, NEW m, NEW p, Gone(t, l, frame[t].client, d, slot[s].sessionId, m, p),
         l = "sp_find" => frame[t].client = s /\ d = Sess(t)
  PROVE  Local(t)
  <1>1. /\ pc'[t] = l /\ frame'[t].client = frame[t].client /\ frame'[t].id = slot[s].sessionId
    BY DEF Gone
  <1>2. Own(t)'
    BY <1>1, NoneApart DEF Own, FindLabels, SendLabels, PostLabels, RecvPostLabels
  <1>3. slot[s].sessionId < nextSessionId /\ \A q \in Slots : slot[q].sessionId = slot[s].sessionId => q = s
    BY IdOf
  <1>4. Knows(t, s)
    BY DEF Knows, Uses, FindLabels
  <1>5. ASSUME NEW q \in Slots, Knows(t, q)' PROVE Knows(t, q)
    <2>1. CASE frame[t].client = q
      BY <2>1 DEF Knows, Uses
    <2>2. CASE frame[t].client # q /\ frame'[t].id = slot'[q].sessionId
      <3>1. q = s
        BY <1>1, <1>3, <2>2
      <3> QED BY <1>4, <3>1
    <2>3. CASE l = "sp_find" /\ frame'[t].sess = q
      BY <2>3 DEF Knows, Uses, Gone, FindLabels
    <2> QED BY <1>1, <1>5, <2>1, <2>2, <2>3 DEF Knows, Uses, Sess, FindLabels
  <1> QED BY <1>1, <1>2, <1>3, <1>5 DEF Local, Opening, RecvPostLabels, FindLabels

-----------------------------------------------------------------------------
(* From reading the id to giving the slot back. *)
LEMMA RemovePoll ==
  ASSUME SessionInv, PollInv, NEW t \in Threads,
         \/ ReadId(t) \/ RemoveFind(t) \/ RemoveDrain(t) \/ RemoveClose(t) \/ RemoveErase(t) \/ RemovePush(t)
  PROVE  PollInv'
  <1>0. TypeInv /\ ThreadInv /\ CtlOf(t, pc[t], frame[t])
    BY Parts
  <1>1. ASSUME NEW s \in Slots, s = Sess(t), TearingDown(t)
        PROVE  slot[s].isTornDown /\ \A q \in Slots : WillCheck(t, q) => Handling(t, q)
    BY <1>1 DEF SessionInv, Teardown, S, WillCheck, TearingDown
  <1>2. CASE ReadId(t)
    <2>1. pc[t] = "readId" /\ slot' = slot /\ sessionMap' = sessionMap
          /\ CallRemove(t, S(t).sessionId, frame[t].mark, frame[t].ret)
      BY <1>2 DEF ReadId, Reads, tables
    <2>2. PICK s \in Slots : s = Sess(t) /\ Begun(s)
      BY <1>0, <2>1, AtSess DEF SessLabels, Labels, HandlerLabels, FindLabels
    <2>3. slot[s].sessionId \in Ids
      BY <2>2, IdOf
    <2>4. Gone(t, "rm_find", frame[t].client, frame[t].sess, slot[s].sessionId, frame[t].mark, frame[t].pkts)
      BY <1>0, <2>1, <2>2, <2>3, FrameTyped, GoneCall DEF S, Rets
    <2>5. Local(t)
      BY <2>1, <2>2, <2>4, CallPoll DEF FindLabels
    <2>6. ASSUME NEW q \in Slots PROVE Turns(t, q)
      <3>1. CASE q = s
        <4>1. ~slot[s].isTornDown => sessionMap[slot[s].sessionId] = s
          BY <2>1, <2>2, NotTornMapped DEF Mapped, SessLabels, Labels, HandlerLabels, FindLabels
        <4> QED BY <2>1, <2>4, <3>1, <4>1 DEF Turns, WillCheck, Gone
      <3>2. CASE q # s
        <4>1. WillCheck(t, q) => Handling(t, q)
          BY <2>1, <2>2, <3>2 DEF WillCheck
        <4> QED BY <2>4, <4>1, HandTurns
      <3> QED BY <3>1, <3>2
    <2> QED BY <1>2, <2>5, <2>6, RemoveQuiet, QuietPoll
  <1>3. CASE RemoveFind(t)
    <2> DEFINE s == sessionMap[frame[t].id]
               l == IF frame[t].mark THEN "rm_mark" ELSE "rm_closing"
    <2>1. pc[t] = "rm_find" /\ slot' = slot /\ (s = NoSlot => Return(t))
          /\ (s # NoSlot => Goto(t, l) /\ frame' = [frame EXCEPT ![t].sess = s])
      BY <1>3 DEF RemoveFind, Reads
    <2>2. frame[t].id \in Ids /\ s \in Slots \cup {NoSlot}
      BY <1>0, <2>1, FrameTyped DEF TypeInv, SharedTypes, CtlOf, FindLabels
    <2>3. ASSUME NEW q \in Slots, WillCheck(t, q) PROVE Handling(t, q) \/ s = q
      BY <2>1, <2>3 DEF WillCheck
    <2>4. CASE s = NoSlot
      <3>1. Return(t) /\ \A q \in Slots : s # q
        BY <2>1, <2>4, NoneApart
      <3>2. Local(t) /\ \A q \in Slots : Turns(t, q)
        BY <1>0, <2>1, <2>3, <3>1, ReturnLocal DEF HandlerLabels
      <3> QED BY <1>3, <3>2, RemoveQuiet, QuietPoll
    <2>5. CASE s # NoSlot
      <3>1. PICK r \in Slots : r = s
        BY <2>2, <2>5
      <3>2. Gone(t, l, frame[t].client, r, frame[t].id, frame[t].mark, frame[t].pkts) /\ l \in {"rm_mark", "rm_closing"}
        <4>1. l \in {"rm_mark", "rm_closing"}
          OBVIOUS
        <4> HIDE DEF l
        <4> QED BY <1>0, <2>1, <2>5, <3>1, <4>1, GoneFound
      <3> HIDE DEF l
      <3>3. slot[r].sessionId = frame[t].id
        BY <2>2, <2>5, <3>1 DEF SessionInv, Places
      <3>4. pc'[t] \in {"rm_mark", "rm_closing"} /\ frame'[t].client = frame[t].client /\ frame'[t].sess = r
        BY <3>2 DEF Gone
      <3>5. Local(t)
        <4>1. Own(t)' /\ pc'[t] \notin FindLabels /\ pc'[t] \notin Opening
          BY <3>4 DEF Own, FindLabels, SendLabels, PostLabels, Opening, RecvPostLabels
        <4>2. \A q \in Slots : Knows(t, q)' => Knows(t, q)
          BY <2>1, <3>3, <3>4, <4>1 DEF Knows, Uses, Sess, FindLabels
        <4> QED BY <4>1, <4>2 DEF Local
      <3>6. \A q \in Slots : Turns(t, q)
        BY <2>3, <3>1, <3>4 DEF Turns, WillCheck, Handling, Sess
      <3> QED BY <1>3, <3>5, <3>6, RemoveQuiet, QuietPoll
    <2> QED BY <2>4, <2>5
  <1>4. CASE RemoveDrain(t)
    <2>1. pc[t] = "rm_drain" /\ pc' = pc /\ frame' = frame /\ sessionMap' = sessionMap
      BY <1>4 DEF RemoveDrain, tables
    <2>2. Gone(t, "rm_drain", frame[t].client, Sess(t), frame[t].id, frame[t].mark, frame[t].pkts)
      BY <2>1 DEF Gone, Others, Sess
    <2>3. Local(t)
      BY <2>1, <2>2, StayLocal DEF FindLabels, SendLabels, PostLabels, RecvPostLabels
    <2>4. \A q \in Slots : WillCheck(t, q) => Handling(t, q)
      BY <2>1 DEF WillCheck
    <2>5. \A q \in Slots : Turns(t, q)
      BY <2>2, <2>4, HandTurns
    <2> QED BY <1>4, <2>3, <2>5, RemoveQuiet, QuietPoll
  <1>5. CASE RemoveClose(t) \/ RemoveErase(t)
    <2>1. /\ TearingDown(t) /\ slot' = slot /\ io' = io /\ nextSessionId' = nextSessionId
          /\ \/ sessionMap' = sessionMap
             \/ pc[t] = "rm_erase" /\ sessionMap' = [sessionMap EXCEPT ![S(t).sessionId] = NoSlot]
          /\ \E l \in {"rm_erase", "rm_push"} : Step(t, l)
      BY <1>5 DEF RemoveClose, RemoveErase, TearingDown, kernel, tables
    <2>2. PICK l \in {"rm_erase", "rm_push"} : Step(t, l)
      BY <2>1
    <2>3. Gone(t, l, frame[t].client, Sess(t), frame[t].id, frame[t].mark, frame[t].pkts)
      BY <1>0, <2>2, GoneStep DEF Sess
    <2>4. PICK s \in Slots : s = Sess(t) /\ Begun(s)
      BY <1>0, <2>1, AtSess DEF TearingDown, SessLabels, Labels, HandlerLabels, FindLabels
    <2>5. Local(t)
      <3>1. /\ pc[t] \notin FindLabels /\ l \notin FindLabels /\ l \notin {"insert", "join"}
            /\ l \notin SendLabels \cup PostLabels
        BY <2>1 DEF TearingDown, FindLabels, SendLabels, PostLabels, RecvPostLabels
      <3> QED BY <2>3, <3>1, StayLocal
    <2>6. \A q \in Slots : Turns(t, q)
      BY <1>1, <2>1, <2>3, <2>4, HandTurns
    <2>7. ASSUME NEW q \in Slots, ~slot[q].isTornDown, NEW id \in Ids, sessionMap[id] = q
          PROVE  sessionMap'[id] = q
      <3>1. q # s /\ slot[q].sessionId = id /\ slot[s].sessionId \in Ids
        <4>1. slot[s].isTornDown
          BY <1>1, <2>1, <2>4
        <4>2. slot[q].sessionId = id
          BY <2>7, NoneApart DEF SessionInv, Places
        <4> QED BY <2>4, <2>7, <4>1, <4>2, IdOf
      <3>2. slot[s].sessionId # id
        BY <2>4, <3>1, IdOf
      <3> QED BY <1>0, <2>1, <2>4, <2>7, <3>2 DEF S, TypeInv, SharedTypes
    <2> QED BY <1>0, <2>1, <2>3, <2>5, <2>6, <2>7, SlotPoll DEF Gone
  <1>6. CASE RemovePush(t)
    <2>1. /\ pc[t] = "rm_push" /\ slot' = slot /\ io' = io /\ nextSessionId' = nextSessionId
          /\ sessionMap' = sessionMap /\ Return(t)
      BY <1>6 DEF RemovePush, kernel
    <2>2. \A q \in Slots : WillCheck(t, q) => Handling(t, q)
      BY <2>1 DEF WillCheck
    <2>3. Local(t) /\ Others(t) /\ \A q \in Slots : Turns(t, q)
      BY <1>0, <2>1, <2>2, ReturnLocal DEF HandlerLabels
    <2> QED BY <1>0, <2>1, <2>3, SlotPoll
  <1> QED BY <1>2, <1>3, <1>4, <1>5, <1>6

-----------------------------------------------------------------------------
(* An operation that is posted polls the session when it completes; one    *)
(* that fails, at once.                                                    *)
LEMMA PostPoll ==
  ASSUME SessionInv, PollInv, NEW t \in Threads, NEW kind, NEW l,
         \/ pc[t] = "rp_call" /\ l = "readId"
         \/ pc[t] = "so_call" /\ l = "so_failed",
         Post(t, kind) \/ PostFails(t, l)
  PROVE  PollInv'
  <1>0. TypeInv /\ ThreadInv /\ Own(t) /\ pc[t] \notin FindLabels \cup HandlerLabels
    BY Parts DEF PollInv, FindLabels, HandlerLabels
  <1>1. PICK s \in Slots : s = Sess(t)
    BY <1>0, AtSess DEF SessLabels, Labels, HandlerLabels, FindLabels
  <1>2. CASE Post(t, kind)
    <2> DEFINE o == [kind |-> kind, slot |-> s, id |-> S(t).sessionId, pkts |-> frame[t].pkts]
    <2>1. /\ io' = io \cup {o} /\ slot' = slot /\ sessionMap' = sessionMap /\ nextSessionId' = nextSessionId
          /\ Return(t)
      BY <1>1, <1>2 DEF Post, tables
    <2>2. o.slot = s
      OBVIOUS
    <2> HIDE DEF o
    <2>3. Local(t) /\ Others(t) /\ pc'[t] \notin Opening
      BY <1>0, <2>1, ReturnLocal
    <2>4. OpsOn(s)' # {} /\ \A q \in Slots : OpsOn(q) \subseteq OpsOn(q)' /\ (OpsOn(q)' \subseteq OpsOn(q) \/ q = s)
      BY <2>1, <2>2 DEF OpsOn
    <2>5. Uses(t, s)
      BY <1>0, <1>1 DEF Uses, FindLabels
    <2>6. ASSUME NEW q \in Slots PROVE Polled(t, q)
      <3>1. WillCheck(t, q) => Handling(t, q) \/ q = s
        BY <1>0, <1>1 DEF WillCheck, FindLabels
      <3>2. Handling(t, q) => WillCheck(t, q)'
        <4>1. Gone(t, frame[t].ret, frame[t].client, NoSlot, NoId, FALSE, <<>>)
          BY <1>0, <2>1, GoneReturn
        <4> QED BY <4>1 DEF Gone, WillCheck, Handling
      <3> QED BY <2>1, <2>4, <3>1, <3>2 DEF Polled
    <2> QED BY <1>0, <2>1, <2>3, <2>4, <2>5, <2>6, PollStep
  <1>3. CASE PostFails(t, l)
    <2>1. Gone(t, l, frame[t].client, Sess(t), frame[t].id, TRUE, frame[t].pkts)
      BY <1>0, <1>3, GoneFailed DEF Sess
    <2>2. /\ l \notin FindLabels /\ l \notin {"insert", "join"}
          /\ l \in SendLabels \cup PostLabels => pc[t] \in SendLabels /\ l \in SendLabels
      BY DEF FindLabels, SendLabels, PostLabels, RecvPostLabels
    <2>3. Local(t)
      BY <1>0, <2>1, <2>2, StayLocal
    <2>4. \A q \in Slots : Turns(t, q)
      BY <1>0, <2>1 DEF Gone, Turns, WillCheck, Handling, Sess, FindLabels
    <2> QED BY <1>3, <2>3, <2>4, PostFailsQuiet, QuietPoll
  <1> QED BY <1>2, <1>3

(* A worker takes a completion, and calls removeSession when it is done.   *)
LEMMA WorkPoll ==
  ASSUME SessionInv, PollInv, NEW w \in Workers,
         \/ \E r \in io : Get(w, r)
         \/ RecvDone(w) \/ SendDequeue(w) \/ SendMore(w) \/ Decrement(w) \/ OnRecvSend(w) \/ OnRecvClose(w)
  PROVE  PollInv'
  <1>0. TypeInv /\ ThreadInv /\ w \in Threads /\ w # Acceptor /\ Workers \subseteq Threads
    BY SessionAssumption DEF SessionInv, TypeInv, Threads
  <1>1. ASSUME NEW r \in io, Get(w, r) PROVE PollInv'
    <2>1. /\ pc[w] = "idle" /\ io' = io \ {r} /\ slot' = slot
          /\ sessionMap' = sessionMap /\ nextSessionId' = nextSessionId
      BY <1>0, <1>1, GetWent DEF tables
    <2>2. \E l \in {"dec", "recvLoop", "dequeue"} : Went(w, l, r.slot, NoSlot, NoId, "idle")
      BY <1>0, <1>1, GetWent
    <2>3. PICK s \in Slots : s = r.slot
      BY <1>0 DEF TypeInv, SharedTypes
    <2>4. pc'[w] \in {"dec", "recvLoop", "dequeue"} /\ frame'[w].client = s /\ frame'[w].sess = NoSlot /\ Others(w)
      BY <2>2, <2>3 DEF Went
    <2>5. r \in OpsOn(s)
      BY <2>3 DEF OpsOn
    <2>6. Local(w)
      <3>1. Own(w)' /\ pc'[w] \notin FindLabels /\ pc'[w] \notin Opening
        BY <2>4 DEF Own, FindLabels, SendLabels, PostLabels, Opening, RecvPostLabels
      <3>2. \A q \in Slots : Knows(w, q)' => q = s
        BY <2>4, <3>1, NoneApart DEF Knows, Uses, Sess
      <3> QED BY <2>5, <3>1, <3>2 DEF Local
    <2>7. ASSUME NEW q \in Slots PROVE Polled(w, q)
      <3>1. WillCheck(w, s)'
        BY <2>4 DEF WillCheck, Handling
      <3>2. q # s => OpsOn(q)' = OpsOn(q)
        BY <2>1, <2>3 DEF OpsOn
      <3>3. ~WillCheck(w, q)
        BY <1>0, <2>1, FrameTyped, NoneApart DEF WillCheck, Handling, CtlOf, NoFrame
      <3> QED BY <2>1, <3>1, <3>2, <3>3 DEF Polled
    <2>8. \A q \in Slots : OpsOn(q)' \subseteq OpsOn(q)
      BY <2>1 DEF OpsOn
    <2> QED BY <1>0, <2>1, <2>4, <2>6, <2>7, <2>8, PollStep
  <1>2. ASSUME RecvDone(w) \/ SendDequeue(w) \/ SendMore(w) \/ Decrement(w) \/ OnRecvSend(w) \/ OnRecvClose(w)
        PROVE  PollInv'
    <2>1. /\ pc[w] \in HandlerLabels /\ \A q \in Slots : WillCheck(w, q) => Handling(w, q)
      BY <1>2 DEF RecvDone, SendDequeue, SendMore, Decrement, OnRecvSend, OnRecvClose, Reads, Writes, HandlerLabels, WillCheck
    <2>2. PICK s \in Slots : s = frame[w].client /\ Begun(s)
      BY <1>0, <2>1, AtHandler
    <2>3. slot[s].sessionId \in Ids
      BY <2>2, IdOf
    <2>4. CASE RecvDone(w) \/ SendMore(w) \/ SendDequeue(w)
      <3>1. \E l, d, i, m, p :
              /\ l \in {"rp_check", "so_xchg", "dec", "clear"}
              /\ Gone(w, l, s, d, i, m, p)
              /\ d = s \/ (d = Sess(w) /\ l \in {"dec", "clear"})
        <4>1. CASE SendDequeue(w)
          BY <1>0, <2>2, <4>1, GoneStep DEF SendDequeue, Sess
        <4>2. CASE RecvDone(w) \/ SendMore(w)
          <5>1. pc[w] \in {"recvLoop", "more"} /\ pc'[w] # "sp_find"
            BY <1>0, <4>2 DEF RecvDone, SendMore, Step, Goto, Reads, ThreadInv
          <5>2. ~Decrement(w) /\ ~OnRecvSend(w)
            BY <1>0, <5>1 DEF Decrement, OnRecvSend, Writes, Goto, ThreadInv
          <5> QED BY <1>0, <2>2, <4>2, <5>2, GoneWith DEF Sess
        <4> QED BY <2>4, <4>1, <4>2
      <3>2. PICK l, d, i, m, p :
              /\ l \in {"rp_check", "so_xchg", "dec", "clear"}
              /\ Gone(w, l, s, d, i, m, p)
              /\ d = s \/ (d = Sess(w) /\ l \in {"dec", "clear"})
        BY <3>1
      <3>3. pc'[w] = l /\ frame'[w].client = s /\ frame'[w].sess = d
        BY <3>2 DEF Gone
      <3>4. Local(w)
        <4>1. Own(w)'
          BY <3>2, <3>3 DEF Own, Sess, SendLabels, PostLabels, RecvPostLabels
        <4>2. \A q \in Slots : Knows(w, q)' => Knows(w, q)
          BY <2>1, <2>2, <3>2, <3>3 DEF Knows, Uses, Sess, FindLabels, HandlerLabels
        <4> QED BY <1>0, <3>2, <3>3, <4>1, <4>2 DEF Local, FindLabels, Opening, RecvPostLabels
      <3>5. \A q \in Slots : Turns(w, q)
        BY <1>0, <2>1, <2>2, <3>2, HandTurns
      <3>6. Quiet(w)
        BY <2>4, HandleQuiet DEF Handle
      <3> QED BY <1>0, <3>4, <3>5, <3>6, QuietPoll
    <2>5. CASE Decrement(w)
      <3>1. ~RecvDone(w) /\ ~SendMore(w) /\ ~OnRecvSend(w)
        BY <2>5 DEF RecvDone, SendMore, Decrement, OnRecvSend, Reads, Writes
      <3>2. Gone(w, "readId", NoSlot, s, frame[w].id, frame[w].mark, frame[w].pkts)
        BY <1>0, <2>2, <2>5, <3>1, GoneWith
      <3>3. pc'[w] = "readId" /\ frame'[w].client = NoSlot /\ frame'[w].sess = s
        BY <3>2 DEF Gone
      <3>4. Local(w)
        <4>1. Own(w)' /\ pc'[w] \notin FindLabels
          BY <3>3 DEF Own, SendLabels, PostLabels, RecvPostLabels, FindLabels
        <4>2. \A q \in Slots : Knows(w, q)' => q = s
          BY <3>3, <4>1, NoneApart DEF Knows, Uses, Sess
        <4>3. Knows(w, s)
          BY <2>2 DEF Knows, Uses
        <4> QED BY <1>0, <4>1, <4>2, <4>3 DEF Local
      <3>5. \A q \in Slots : Turns(w, q)
        BY <2>1, <2>2, <3>3 DEF Turns, WillCheck, Handling, Sess
      <3>6. Quiet(w)
        BY <2>5, HandleQuiet DEF Handle
      <3> QED BY <1>0, <3>4, <3>5, <3>6, QuietPoll
    <2>6. CASE OnRecvSend(w) \/ OnRecvClose(w)
      <3>1. slot' = slot
        BY <2>6 DEF OnRecvSend, OnRecvClose, Condemn
      <3>2. \E l, d, m, p :
              /\ l \in FindLabels
              /\ Gone(w, l, frame[w].client, d, slot[s].sessionId, m, p)
              /\ l = "sp_find" => d = Sess(w)
        <4>1. CASE OnRecvSend(w)
          <5>1. pc[w] = "recvLoop" /\ pc'[w] = "sp_find"
            BY <1>0, <4>1 DEF OnRecvSend, Goto, ThreadInv
          <5>2. ~RecvDone(w) /\ ~SendMore(w) /\ ~Decrement(w)
            BY <1>0, <5>1 DEF RecvDone, SendMore, Decrement, Reads, Writes, Goto, ThreadInv
          <5> QED BY <1>0, <2>2, <4>1, <5>2, GoneWith DEF FindLabels, Sess
        <4>2. CASE OnRecvClose(w)
          <5>1. \E r \in Rets : CallRemove(w, slot[s].sessionId, TRUE, r)
            BY <2>2, <4>2 DEF OnRecvClose, Rets
          <5>2. Gone(w, "rm_find", frame[w].client, frame[w].sess, slot[s].sessionId, TRUE, frame[w].pkts)
            BY <1>0, <2>3, <5>1, GoneCall
          <5>3. "rm_find" \in FindLabels /\ "rm_find" # "sp_find"
            BY DEF FindLabels
          <5> QED BY <5>2, <5>3, Zenon
        <4> QED BY <2>6, <4>1, <4>2
      <3>3. PICK l, d, m, p :
              /\ l \in FindLabels
              /\ Gone(w, l, frame[w].client, d, slot[s].sessionId, m, p)
              /\ l = "sp_find" => d = Sess(w)
        BY <3>2
      <3>4. Local(w)
        <4>1. pc[w] \notin FindLabels
          BY <2>1 DEF FindLabels, HandlerLabels
        <4> QED BY <1>0, <2>2, <3>1, <3>3, <4>1, CallPoll
      <3>5. \A q \in Slots : Turns(w, q)
        BY <1>0, <2>1, <3>3, HandTurns
      <3> QED BY <1>0, <2>6, <3>4, <3>5, OnRecvQuiet, QuietPoll
    <2> QED BY <1>2, <2>4, <2>5, <2>6
  <1> QED BY <1>1, <1>2

-----------------------------------------------------------------------------
(* The accept thread takes a slot nobody gets to, and publishes it. *)
LEMMA OpenPoll ==
  ASSUME SessionInv, PollInv, AcceptPop \/ AcceptInsert
  PROVE  PollInv'
  <1>0. TypeInv /\ ThreadInv /\ Acceptor \in Threads
    BY DEF SessionInv, TypeInv, Threads
  <1>1. /\ slot' = slot /\ io' = io /\ nextSessionId' = nextSessionId
        /\ pc[Acceptor] \in {"idle", "insert"}
    BY DEF AcceptPop, AcceptInsert, kernel
  <1>2. frame[Acceptor].client = NoSlot
    BY <1>0, AtClient, SessionAssumption
  <1>3. \A q \in Slots : ~WillCheck(Acceptor, q)
    BY <1>1, <1>2, NoneApart DEF WillCheck, Handling
  <1>4. \A q \in Slots : Turns(Acceptor, q)
    BY <1>3 DEF Turns
  <1>5. CASE AcceptPop
    <2>1. Goto(Acceptor, "init") /\ sessionMap' = sessionMap
          /\ frame' = [frame EXCEPT ![Acceptor].sess = freeList[Len(freeList)]]
      BY <1>5 DEF AcceptPop
    <2>2. pc'[Acceptor] = "init" /\ Others(Acceptor)
      BY <1>0, <2>1 DEF Goto, ThreadInv, Others
    <2>3. Local(Acceptor)
      BY <2>2 DEF Local, Own, FindLabels, SendLabels, PostLabels, Opening, RecvPostLabels
    <2> QED BY <1>0, <1>1, <1>4, <2>1, <2>2, <2>3, SlotPoll
  <1>6. CASE AcceptInsert
    <2>1. pc[Acceptor] = "insert" /\ Step(Acceptor, "join")
          /\ sessionMap' = [sessionMap EXCEPT ![S(Acceptor).sessionId] = Sess(Acceptor)]
      BY <1>6 DEF AcceptInsert
    <2>2. pc'[Acceptor] = "join" /\ frame' = frame /\ Others(Acceptor)
      BY <1>0, <2>1 DEF Step, Goto, ThreadInv, Others
    <2>3. Local(Acceptor)
      BY <2>1, <2>2 DEF Local, Own, Sess, FindLabels, SendLabels, PostLabels, Opening, RecvPostLabels
    <2>4. PICK s \in Slots : s = Sess(Acceptor) /\ Begun(s)
      BY <1>0, <2>1, AtSess DEF SessLabels, Labels, HandlerLabels, FindLabels
    <2>5. ASSUME NEW q \in Slots, NEW id \in Ids, sessionMap[id] = q PROVE sessionMap'[id] = q
      <3>1. slot[q].sessionId = id
        BY <2>5, NoneApart DEF SessionInv, Places
      <3>2. id = slot[s].sessionId => q = s
        BY <2>4, <3>1, IdOf
      <3> QED BY <1>0, <2>1, <2>4, <2>5, <3>2 DEF S, TypeInv, SharedTypes
    <2> QED BY <1>0, <1>1, <1>4, <2>2, <2>3, <2>5, SlotPoll
  <1> QED BY <1>5, <1>6

(* The id given to a slot is new, and no pointer to the slot is old. *)
LEMMA FreshPoll ==
  ASSUME SessionInv, SessionInv', PollInv, AcceptInit,
         \A t \in Threads \ {Acceptor} : ~Uses(t, Sess(Acceptor))
  PROVE  PollInv'
  <1>0. TypeInv /\ ThreadInv /\ Acceptor \in Threads
    BY DEF SessionInv, TypeInv, Threads
  <1>1. /\ pc[Acceptor] = "init" /\ slot' = [slot EXCEPT ![Sess(Acceptor)] = NewSlot]
        /\ nextSessionId' = nextSessionId + 1 /\ Step(Acceptor, "insert")
        /\ sessionMap' = sessionMap /\ io' = io
    BY DEF AcceptInit, NewSlot, kernel, history
  <1>2. PICK s \in Slots : s = Sess(Acceptor)
    BY <1>0, <1>1, AtSess DEF SessLabels, Labels, HandlerLabels, FindLabels
  <1>3. nextSessionId \in Ids /\ nextSessionId \in Nat
    <2>1. nextSessionId < MaxSessions
      BY <1>0, <1>1, FrameTyped DEF CtlOf
    <2> QED BY <1>0, <2>1, SessionAssumption, SMT DEF TypeInv, SharedTypes, Ids
  <1>4. /\ slot'[s].sessionId = nextSessionId /\ ~slot'[s].isClosing
        /\ \A q \in Slots \ {s} : slot'[q] = slot[q]
    <2>1. NewSlot.sessionId = nextSessionId /\ NewSlot.isClosing = FALSE
      BY <1>0, <1>2, <1>3, NewSlotTyped, SlotTyped DEF S
    <2> QED BY <1>0, <1>1, <1>2, <2>1 DEF TypeInv, SharedTypes
  <1>5. /\ frame' = frame /\ pc'[Acceptor] = "insert"
        /\ \A u \in Threads \ {Acceptor} : pc'[u] = pc[u]
    BY <1>0, <1>1 DEF Step, Goto, ThreadInv
  <1>6. \A u \in Threads : pc[u] \in FindLabels => frame[u].id < nextSessionId /\ frame[u].id \in Int
    BY <1>0, FrameTyped, NoneApart, SMT DEF PollInv, NoId
  <1>7. \A u \in Threads : pc'[u] \in FindLabels => frame'[u].id < nextSessionId' /\ frame'[u].id # nextSessionId
    BY <1>1, <1>3, <1>5, <1>6, SMT DEF FindLabels
  <1>8. Untold'
    <2>1. s = Sess(Acceptor)'
      BY <1>2, <1>5 DEF Sess
    <2>2. OpsOn(s)' = {} /\ \A t \in Threads \ {Acceptor} : ~Uses(t, s)'
      BY <1>2, <1>5, <2>1 DEF SessionInv, Places, OpsOn, Uses
    <2>3. \A t \in Threads \ {Acceptor} : ~Knows(t, s)'
      BY <1>4, <1>7, <2>2 DEF Knows
    <2> QED BY <2>1, <2>2, <2>3 DEF Untold, OpsOn, Knows, Uses
  <1>9. ASSUME NEW u \in Threads PROVE Own(u)'
    <2>1. CASE u = Acceptor
      BY <1>5, <2>1 DEF Own, SendLabels, PostLabels, RecvPostLabels
    <2>2. CASE u # Acceptor
      <3>1. pc'[u] = pc[u] /\ frame'[u] = frame[u] /\ Own(u) /\ frame[u].client # s
        BY <1>2, <1>5, <2>2 DEF PollInv, Uses
      <3>2. frame[u].client # NoSlot => frame[u].client \in Slots \ {s}
        BY <1>0, <3>1, AtClient
      <3> QED BY <1>4, <3>1, <3>2 DEF Own, Sess
    <2> QED BY <2>1, <2>2
  <1>10. ClosingIsPolled'
    <2> SUFFICES ASSUME NEW q \in Slots, slot'[q].isClosing, ~slot'[q].isTornDown
                 PROVE  OpsOn(q)' # {} \/ \E t \in Threads : WillCheck(t, q)'
      BY DEF ClosingIsPolled
    <2>1. q # s /\ slot'[q] = slot[q] /\ OpsOn(q)' = OpsOn(q)
      BY <1>1, <1>4 DEF OpsOn
    <2>2. frame[Acceptor].client = NoSlot
      BY <1>0, AtClient, SessionAssumption
    <2>3. ASSUME NEW u \in Threads, WillCheck(u, q) PROVE WillCheck(u, q)'
      <3>1. u # Acceptor
        BY <1>1, <2>2, <2>3, NoneApart DEF WillCheck, Handling
      <3> QED BY <1>1, <1>5, <2>3, <3>1 DEF WillCheck, Handling, Sess
    <2> QED BY <2>1, <2>3 DEF PollInv, ClosingIsPolled
  <1> QED BY <1>7, <1>8, <1>9, <1>10 DEF PollInv

(* A step between two decisions. *)
LEMMA PlainPoll ==
  ASSUME SessionInv, PollInv, NEW t \in Threads,
         Plain(t) \/ (t \in Workers /\ SendClear(t)) \/ (t = Acceptor /\ AcceptJoin)
  PROVE  PollInv'
  <1>0. TypeInv
    BY DEF SessionInv
  <1>1. pc[t] # "so_call"
    BY DEF Plain, SendClear, AcceptJoin, Reads, Writes, RecvPostCheck, RecvPostInc, RecvPostRecheck, RecvPostUndo, SendPacketPending, SendPostExchange, SendPostCheck, SendPostReset, SendPostGather, SendPostRecheck, SendPostUndo, SendPostFailed, RemoveMark, RemoveClosing, RemoveCount, RemoveCas
  <1>2. Quiet(t)
    BY <1>1, RecvPostQuiet, SendPacketQuiet, SendPostQuiet, RemoveQuiet, HandleQuiet, JoinQuiet
       DEF Plain, Handle, SendPacket, SendPost
  <1>3. CASE RemoveClosing(t) \/ RemoveCount(t) \/ RemoveCas(t)
    BY <1>2, <1>3, DecidePoll, QuietPoll
  <1>4. CASE ~(RemoveClosing(t) \/ RemoveCount(t) \/ RemoveCas(t))
    <2>1. pc[t] \notin {"rm_closing", "rm_count", "rm_cas"}
      BY <1>4 DEF Plain, SendClear, AcceptJoin, Reads, Writes, RecvPostCheck, RecvPostInc, RecvPostRecheck, RecvPostUndo, SendPacketPending, SendPostExchange, SendPostCheck, SendPostReset, SendPostGather, SendPostRecheck, SendPostUndo, SendPostFailed, RemoveMark
    <2>2. Walks(t) /\ \A s \in Slots : SameQueue(s)
      BY <1>0, PlainWalks
    <2> QED BY <1>2, <2>1, <2>2, WalkPoll, QuietPoll
  <1> QED BY <1>3, <1>4

(* Nothing is closing in the beginning. *)
LEMMA InitPoll == Init => PollInv
  <1> SUFFICES ASSUME Init PROVE PollInv
    OBVIOUS
  <1>1. Acceptor \in Threads /\ \A t \in Threads : pc[t] = "idle"
    BY DEF Init, Threads
  <1>2. \A s \in Slots : ~slot[s].isClosing
    BY DEF Init, FreshSlot
  <1> QED BY <1>1, <1>2 DEF PollInv, ClosingIsPolled, Untold, Own, Opening, RecvPostLabels, FindLabels, SendLabels, PostLabels

(* Every step keeps the invariant. *)
LEMMA NextPoll ==
  ASSUME Apps = {}, SessionInv, SessionInv', PollInv, [Next]_vars,
         AcceptInit => \A t \in Threads \ {Acceptor} : ~Uses(t, Sess(Acceptor))
  PROVE  PollInv'
  <1>0. TypeInv /\ Acceptor \in Threads /\ Workers \subseteq Threads
    BY DEF SessionInv, Threads
  <1>1. ASSUME NEW t \in Threads, Plain(t) \/ (t \in Workers /\ SendClear(t)) \/ (t = Acceptor /\ AcceptJoin)
        PROVE  PollInv'
    BY <1>1, PlainPoll
  <1>2. CASE Accept
    BY <1>0, <1>1, <1>2, OpenPoll, FreshPoll DEF Accept
  <1>3. ASSUME NEW t \in Threads, RecvPost(t) PROVE PollInv'
    <2>1. CASE RecvPostCall(t)
      BY <2>1, PostPoll DEF RecvPostCall
    <2> QED BY <1>1, <1>3, <2>1 DEF RecvPost, Plain
  <1>4. ASSUME NEW t \in Threads, SendPacketFind(t) \/ SendPacketEnqueue(t) \/ SendPostCount(t) \/ SendPostPeek(t)
        PROVE  PollInv'
    <2>1. Quiet(t)
      <3>1. pc[t] # "so_call"
        BY <1>4 DEF SendPacketFind, SendPacketEnqueue, SendPostCount, SendPostPeek, Reads, Writes
      <3> QED BY <1>4, <3>1, SendPacketQuiet, SendPostQuiet DEF SendPacket, SendPost
    <2> QED BY <1>4, <2>1, SendPoll, QuietPoll
  <1>5. ASSUME NEW t \in Threads, SendPost(t) PROVE PollInv'
    <2>1. CASE SendPostCall(t)
      BY <2>1, PostPoll DEF SendPostCall
    <2> QED BY <1>1, <1>4, <1>5, <2>1 DEF SendPost, Plain
  <1>6. ASSUME NEW t \in Threads, SendPacket(t) PROVE PollInv'
    BY <1>1, <1>4, <1>6 DEF SendPacket, Plain
  <1>7. ASSUME NEW t \in Threads, RemoveSession(t) PROVE PollInv'
    BY <1>1, <1>7, RemovePoll DEF RemoveSession, Plain
  <1>8. ASSUME NEW w \in Workers, (\E r \in io : Get(w, r)) \/ Handle(w) \/ OnRecvSend(w) \/ OnRecvClose(w)
        PROVE  PollInv'
    BY <1>0, <1>1, <1>8, WorkPoll DEF Handle
  <1>9. CASE /\ slot' = slot /\ io' = io /\ sessionMap' = sessionMap /\ nextSessionId' = nextSessionId
             /\ pc' = pc /\ frame' = frame
    BY <1>9 DEF PollInv, ClosingIsPolled, Untold, Own, Knows, Uses, OpsOn, WillCheck, Handling, Sess
  <1>10. ASSUME NEW id \in Ids, PeerClose(id) PROVE PollInv'
    BY <1>9, <1>10 DEF PeerClose, tables
  <1>11. CASE UNCHANGED vars
    BY <1>9, <1>11 DEF vars, tables, kernel
  <1>12. CASE Quiescent
    BY <1>11, <1>12 DEF Quiescent
  <1> QED BY <1>2, <1>3, <1>5, <1>6, <1>7, <1>8, <1>10, <1>11, <1>12 DEF Next

(* A closing session that is not torn down yet has an operation in flight  *)
(* or a thread that will check it again: for any workers, slots,           *)
(* connections and packets, as long as the application calls the library   *)
(* from its callbacks only and no slot is given its next session while a   *)
(* thread still points to it.                                              *)
THEOREM NobodyForgetsToClose ==
  ASSUME Apps = {}
  PROVE  Spec /\ ReusedUnheld => []ClosingIsPolled
  <1>1. ASSUME SessionInv, SessionInv', PollInv, [Next]_vars,
               [AcceptInit => \A t \in Threads \ {Acceptor} : ~Uses(t, Sess(Acceptor))]_vars
        PROVE  PollInv'
    <2>1. CASE UNCHANGED vars
      <3>1. nextSessionId' = nextSessionId /\ nextSessionId \in Int
        BY <1>1, <2>1, SessionAssumption, SMT DEF vars, tables, SessionInv, TypeInv, SharedTypes
      <3>2. ~AcceptInit
        BY <3>1 DEF AcceptInit
      <3> QED BY <1>1, <3>2, NextPoll
    <2> QED BY <1>1, <2>1, NextPoll
  <1>2. PollInv => ClosingIsPolled
    BY DEF PollInv
  <1> QED BY <1>1, <1>2, InitPoll, SessionInductive, PTL DEF Spec, ReusedUnheld

(* Without a condition on the behaviour: with one worker, and with any     *)
(* number up to the first connection.                                      *)
THEOREM EveryClosingIsPolled ==
  ASSUME Apps = {}, OneWorker \/ MaxSessions <= 1
  PROVE  Spec => []ClosingIsPolled
  <1>1. Spec => ReusedUnheld
    BY OneWorkerReuse, FirstSessionReuse
  <1>2. Spec /\ ReusedUnheld => []ClosingIsPolled
    BY NobodyForgetsToClose
  <1> QED BY <1>1, <1>2, PTL
=============================================================================
