-------------------------- MODULE SessionLifecycle --------------------------
(***************************************************************************)
(* CLockFreeCore.cpp: the life of a session, from accept to the return of  *)
(* its slot, as the accept thread, the worker threads, threads of the      *)
(* application and the operating system interleave on it.                  *)
(*                                                                         *)
(* A slot is a Session object of m_sessionPool; it serves one connection   *)
(* after another, each under a new id.  The id also names the connection's *)
(* socket.  Every read or write of a field that several threads use        *)
(* without a lock is a step of its own: the closing protocol is about      *)
(* nothing else.  A pop or push of the free list (LockFreeStack) and a use *)
(* of m_sessionMap inside its critical section are one step each.          *)
(*                                                                         *)
(* Data is left out: a recv delivers some number of whole packets, and     *)
(* possibly a bad header; a packet is its addressee and a serial number.   *)
(***************************************************************************)
EXTENDS Integers, Sequences, FiniteSets, SequencesExt

CONSTANTS Acceptor,      \* the accept thread
          Workers,       \* the worker threads (workerMax)
          Apps,          \* application threads that call sendPacket, disconnect
          SlotCount,     \* m_sessionMax
          MaxSessions,   \* bound: connections accepted in all
          MaxPackets,    \* bound: packets sent in all
          MaxCalls,      \* bound: disconnect calls and bad headers in all
          MaxPerRecv,    \* bound: packets framed from one recv
          RingCap,       \* pointers m_sendRingBuff can hold
          MaxBatch       \* buffers of one WSASend (1000)

ASSUME SessionAssumption ==
  /\ SlotCount \in Nat /\ MaxSessions \in Nat /\ MaxPackets \in Nat
  /\ MaxCalls \in Nat /\ MaxPerRecv \in Nat
  /\ RingCap \in Nat \ {0} /\ MaxBatch \in Nat \ {0}
  /\ Acceptor \notin Workers \cup Apps /\ Workers \cap Apps = {}
  /\ IsFiniteSet(Workers) /\ IsFiniteSet(Apps)

Slots   == 1..SlotCount
NoSlot  == 0
Ids     == 0..(MaxSessions - 1)
NoId    == -1
Threads == {Acceptor} \cup Workers \cup Apps

VARIABLES
  slot,            \* slot[s]: the Session object
  sessionMap,      \* m_sessionMap: id -> slot, NoSlot when absent
  freeList,        \* m_sessionFreeList, the top last
  nextSessionId,
  io,              \* posted operations no worker has dequeued yet
  closed,          \* ids whose socket has been closed
  peerGone,        \* ids whose peer has closed the connection
  pc, frame,       \* where each thread is, and its locals
  freed,           \* deleted packets
  packets, calls,  \* packets made and disconnects asked so far
  left,            \* left[id]: calls of onClientLeave(id)
  cause,           \* ids the server has been given a reason to close
  accepted,        \* accepted[id]: packets sendPacket queued for id
  wire             \* wire[id]: packets sent on id's socket

tables  == <<sessionMap, freeList, nextSessionId>>
kernel  == <<io, closed, peerGone>>
history == <<packets, calls, left, cause, accepted, wire>>
vars    == <<slot, tables, kernel, pc, frame, freed, history>>

FreshSlot == [sessionId |-> NoId, ioCount |-> 0, isSendPending |-> FALSE,
              isClosing |-> FALSE, isTornDown |-> FALSE, sendRing |-> <<>>,
              sendPacketCount |-> 0]

(* client: client_Session, while a worker owes it the m_ioCount of the     *)
(* completion it dequeued; sess: the Session* being worked on; id, mark:   *)
(* the arguments of removeSession and sendPacket; todo: packets the recv   *)
(* loop may still frame; pkts: the packet given to sendPacket, then the    *)
(* gathered send buffers; ret: where the call in progress returns to.      *)
NoFrame == [client |-> NoSlot, sess |-> NoSlot, id |-> NoId, mark |-> FALSE,
            todo |-> 0, pkts |-> <<>>, ret |-> "idle"]

Init == /\ slot = [s \in Slots |-> FreshSlot]
        /\ sessionMap = [i \in Ids |-> NoSlot]
        /\ freeList = [i \in Slots |-> i]
        /\ nextSessionId = 0
        /\ io = {} /\ closed = {} /\ peerGone = {}
        /\ pc = [t \in Threads |-> "idle"]
        /\ frame = [t \in Threads |-> NoFrame]
        /\ freed = {} /\ packets = 0 /\ calls = 0 /\ cause = {}
        /\ left = [i \in Ids |-> 0]
        /\ accepted = [i \in Ids |-> <<>>]
        /\ wire = [i \in Ids |-> <<>>]

-----------------------------------------------------------------------------
(* Kinds of steps *)

Goto(t, label) == pc' = [pc EXCEPT ![t] = label]
Sess(t)        == frame[t].sess
S(t)           == slot[Sess(t)]

(* The call in progress returns; every nested call is its caller's last. *)
Return(t) ==
  /\ Goto(t, frame[t].ret)
  /\ frame' = [frame EXCEPT ![t] =
                 IF frame[t].ret = "idle" THEN NoFrame
                 ELSE [NoFrame EXCEPT !.client = frame[t].client, !.todo = frame[t].todo]]

(* Go on to the label if the condition holds, else return. *)
GoOrReturn(t, condition, label) ==
  IF condition THEN Goto(t, label) /\ UNCHANGED frame ELSE Return(t)

(* A step that only reads shared state. *)
Reads(t, label) == pc[t] = label /\ UNCHANGED <<slot, tables, kernel, freed, history>>

(* A step that writes one field of slot s, and nothing else shared. *)
Writes(t, label, s, fields) ==
  /\ pc[t] = label
  /\ slot' = [slot EXCEPT ![s] = fields]
  /\ UNCHANGED <<tables, kernel, freed, history>>

Step(t, label) == Goto(t, label) /\ UNCHANGED frame

AddIo(record, n)      == [record EXCEPT !.ioCount = @ + n]
SetPending(record, b) == [record EXCEPT !.isSendPending = b]

-----------------------------------------------------------------------------
(* The accept thread *)

(* accept returns a connection; a slot is taken from the free list.  When  *)
(* the list is empty the connection is refused and nothing changes.        *)
AcceptPop ==
  /\ pc[Acceptor] = "idle"
  /\ nextSessionId < MaxSessions
  /\ freeList # <<>>
  /\ frame' = [frame EXCEPT ![Acceptor].sess = freeList[Len(freeList)]]
  /\ freeList' = SubSeq(freeList, 1, Len(freeList) - 1)
  /\ Goto(Acceptor, "init")
  /\ UNCHANGED <<slot, sessionMap, nextSessionId, kernel, freed, history>>

(* Mutant: the reused slot is still marked as closing. *)
AcceptInitKeepsClosing ==
  /\ pc[Acceptor] = "init"
  /\ slot' = [slot EXCEPT ![Sess(Acceptor)] =
                [FreshSlot EXCEPT !.sessionId = nextSessionId,
                                  !.isClosing = S(Acceptor).isClosing,
                                  !.sendPacketCount = S(Acceptor).sendPacketCount]]
  /\ nextSessionId' = nextSessionId + 1
  /\ Step(Acceptor, "insert")
  /\ UNCHANGED <<sessionMap, freeList, kernel, freed, history>>

AcceptInit ==
  /\ pc[Acceptor] = "init"
  /\ slot' = [slot EXCEPT ![Sess(Acceptor)] =
                [FreshSlot EXCEPT !.sessionId = nextSessionId,
                                  !.sendPacketCount = S(Acceptor).sendPacketCount]]
  /\ nextSessionId' = nextSessionId + 1
  /\ Step(Acceptor, "insert")
  /\ UNCHANGED <<sessionMap, freeList, kernel, freed, history>>

AcceptInsert ==
  /\ pc[Acceptor] = "insert"
  /\ sessionMap' = [sessionMap EXCEPT ![S(Acceptor).sessionId] = Sess(Acceptor)]
  /\ Step(Acceptor, "join")
  /\ UNCHANGED <<slot, freeList, nextSessionId, kernel, freed, history>>

(* onClientJoin tells the application the id; recvPost follows. *)
AcceptJoin == Reads(Acceptor, "join") /\ Step(Acceptor, "rp_check")

Joined == {id \in Ids : /\ id < nextSessionId
                        /\ pc[Acceptor] \in {"insert", "join"} => id # S(Acceptor).sessionId}

-----------------------------------------------------------------------------
(* recvPost *)

RecvPostCheck(t)   == Reads(t, "rp_check") /\ GoOrReturn(t, ~S(t).isClosing, "rp_inc")

RecvPostInc(t)     == Writes(t, "rp_inc", Sess(t), AddIo(S(t), 1)) /\ Step(t, "rp_recheck")

RecvPostRecheck(t) == Reads(t, "rp_recheck") /\ Step(t, IF S(t).isClosing THEN "rp_undo" ELSE "rp_call")

RecvPostUndo(t)    == Writes(t, "rp_undo", Sess(t), AddIo(S(t), -1)) /\ Return(t)

(* A socket call fails on a closed socket, and may once the peer is gone. *)
MayFail(id) == id \in closed \cup peerGone

(* The operation is posted: its completion will be dequeued by a worker. *)
Post(t, kind) ==
  LET id == S(t).sessionId IN
  /\ id \notin closed
  /\ io' = io \cup {[kind |-> kind, slot |-> Sess(t), id |-> id, pkts |-> frame[t].pkts]}
  /\ Return(t)
  /\ UNCHANGED <<slot, tables, closed, peerGone, freed, history>>

(* Mutant: a failed call does not give its count back. *)
PostFailsKeepsCount(t, label) ==
  /\ MayFail(S(t).sessionId)
  /\ cause' = cause \cup {S(t).sessionId}
  /\ frame' = [frame EXCEPT ![t].mark = TRUE]
  /\ Goto(t, label)
  /\ UNCHANGED <<slot, tables, kernel, freed, packets, calls, left, accepted, wire>>

(* The call fails: the count goes back, and the session will be marked. *)
PostFails(t, label) ==
  /\ MayFail(S(t).sessionId)
  /\ slot' = [slot EXCEPT ![Sess(t)] = AddIo(@, -1)]
  /\ cause' = cause \cup {S(t).sessionId}
  /\ frame' = [frame EXCEPT ![t].mark = TRUE]
  /\ Goto(t, label)
  /\ UNCHANGED <<tables, kernel, freed, packets, calls, left, accepted, wire>>

RecvPostCall(t) == pc[t] = "rp_call" /\ (Post(t, "recv") \/ PostFails(t, "readId"))

-----------------------------------------------------------------------------
(* sendPacket *)

(* No session under that id: the packet stays with nobody. *)
SendPacketFind(t) ==
  LET s == sessionMap[frame[t].id] IN
  /\ Reads(t, "sp_find")
  /\ IF s = NoSlot THEN Return(t)
     ELSE frame' = [frame EXCEPT ![t].sess = s] /\ Goto(t, "sp_enqueue")

(* A full ring: the packet is deleted and the caller told. *)
SendPacketEnqueue(t) ==
  LET room == Len(S(t).sendRing) < RingCap
      p    == frame[t].pkts[1]
  IN
  /\ pc[t] = "sp_enqueue"
  /\ slot' = IF room THEN [slot EXCEPT ![Sess(t)].sendRing = Append(@, p)] ELSE slot
  /\ accepted' = IF room THEN [accepted EXCEPT ![frame[t].id] = Append(@, p)] ELSE accepted
  /\ freed' = IF room THEN freed ELSE freed \cup {p}
  /\ GoOrReturn(t, room, "sp_pending")
  /\ UNCHANGED <<tables, kernel, packets, calls, left, cause, wire>>

SendPacketPending(t) == Reads(t, "sp_pending") /\ GoOrReturn(t, ~S(t).isSendPending, "so_xchg")

-----------------------------------------------------------------------------
(* sendPost *)

SendPostExchange(t) == Writes(t, "so_xchg", Sess(t), SetPending(S(t), TRUE))
                       /\ GoOrReturn(t, ~S(t).isSendPending, "so_check")

SendPostCheck(t) == Reads(t, "so_check") /\ Step(t, IF S(t).isClosing THEN "so_reset" ELSE "so_count")

SendPostReset(t) == Writes(t, "so_reset", Sess(t), SetPending(S(t), FALSE)) /\ Return(t)

Min2(a, b) == IF a < b THEN a ELSE b

(* Mutant: the number of buffers is not limited. *)
SendPostCountUnlimited(t) ==
  /\ Writes(t, "so_count", Sess(t), [S(t) EXCEPT !.sendPacketCount = Len(S(t).sendRing)])
  /\ Step(t, "so_peek")

SendPostCount(t) ==
  /\ Writes(t, "so_count", Sess(t),
            [S(t) EXCEPT !.sendPacketCount = Min2(Len(S(t).sendRing), MaxBatch)])
  /\ Step(t, "so_peek")

(* The pointers are copied out of the ring... *)
SendPostPeek(t) ==
  /\ Reads(t, "so_peek")
  /\ frame' = [frame EXCEPT ![t].pkts =
                 SubSeq(S(t).sendRing, 1, Min2(S(t).sendPacketCount, Len(S(t).sendRing)))]
  /\ Goto(t, "so_gather")

(* ... and the packets they point to are read, before m_ioCount is raised. *)
SendPostGather(t) == Writes(t, "so_gather", Sess(t), AddIo(S(t), 1)) /\ Step(t, "so_recheck")

(* Mutant: m_isClosing is not checked again. *)
SendPostRecheckDropped(t) == Reads(t, "so_recheck") /\ Step(t, "so_call")

SendPostRecheck(t) == Reads(t, "so_recheck") /\ Step(t, IF S(t).isClosing THEN "so_undo" ELSE "so_call")

SendPostUndo(t) == Writes(t, "so_undo", Sess(t), AddIo(S(t), -1)) /\ Step(t, "so_reset")

SendPostCall(t) == pc[t] = "so_call" /\ (Post(t, "send") \/ PostFails(t, "so_failed"))

SendPostFailed(t) == Writes(t, "so_failed", Sess(t), SetPending(S(t), FALSE)) /\ Step(t, "readId")

-----------------------------------------------------------------------------
(* removeSession *)

CallRemove(t, id, mark, ret) ==
  /\ Goto(t, "rm_find")
  /\ frame' = [frame EXCEPT ![t].id = id, ![t].mark = mark, ![t].ret = ret]

(* The argument session->m_sessionId is read from the slot. *)
ReadId(t) == Reads(t, "readId") /\ CallRemove(t, S(t).sessionId, frame[t].mark, frame[t].ret)

RemoveFind(t) ==
  LET s == sessionMap[frame[t].id] IN
  /\ Reads(t, "rm_find")
  /\ IF s = NoSlot THEN Return(t)
     ELSE /\ frame' = [frame EXCEPT ![t].sess = s]
          /\ Goto(t, IF frame[t].mark THEN "rm_mark" ELSE "rm_closing")

RemoveMark(t) == Writes(t, "rm_mark", Sess(t), [S(t) EXCEPT !.isClosing = TRUE])
                 /\ Step(t, "rm_closing")

RemoveClosing(t) == Reads(t, "rm_closing") /\ GoOrReturn(t, S(t).isClosing, "rm_count")

(* Mutant: the session is torn down whatever m_ioCount says. *)
RemoveCountIgnored(t) == Reads(t, "rm_count") /\ Step(t, "rm_cas")

RemoveCount(t) == Reads(t, "rm_count") /\ GoOrReturn(t, S(t).ioCount = 0, "rm_cas")

(* Mutant: m_isTornDown is set but not tested. *)
RemoveCasUntested(t) == Writes(t, "rm_cas", Sess(t), [S(t) EXCEPT !.isTornDown = TRUE])
                        /\ Step(t, "rm_drain")

RemoveCas(t) == Writes(t, "rm_cas", Sess(t), [S(t) EXCEPT !.isTornDown = TRUE])
                /\ GoOrReturn(t, ~S(t).isTornDown, "rm_drain")

(* Mutant: the packets left in the ring are dropped but not deleted. *)
RemoveDrainLeaks(t) ==
  /\ pc[t] = "rm_drain"
  /\ S(t).sendRing # <<>>
  /\ slot' = [slot EXCEPT ![Sess(t)].sendRing = Tail(@)]
  /\ UNCHANGED <<tables, kernel, pc, frame, freed, history>>

(* One turn of the loop that deletes the packets left in the ring. *)
RemoveDrain(t) ==
  /\ pc[t] = "rm_drain"
  /\ S(t).sendRing # <<>>
  /\ freed' = freed \cup {Head(S(t).sendRing)}
  /\ slot' = [slot EXCEPT ![Sess(t)].sendRing = Tail(@)]
  /\ UNCHANGED <<tables, kernel, pc, frame, history>>

(* Mutant: the slot is given back before the session map forgets it. *)
RemoveClosePushes(t) ==
  /\ pc[t] = "rm_drain"
  /\ S(t).sendRing = <<>>
  /\ closed' = closed \cup {S(t).sessionId}
  /\ left' = [left EXCEPT ![S(t).sessionId] = @ + 1]
  /\ freeList' = Append(freeList, Sess(t))
  /\ Step(t, "rm_erase")
  /\ UNCHANGED <<slot, sessionMap, nextSessionId, io, peerGone, freed, packets, calls, cause,
                 accepted, wire>>

(* closesocket and onClientLeave *)
RemoveClose(t) ==
  /\ pc[t] = "rm_drain"
  /\ S(t).sendRing = <<>>
  /\ closed' = closed \cup {S(t).sessionId}
  /\ left' = [left EXCEPT ![S(t).sessionId] = @ + 1]
  /\ Step(t, "rm_erase")
  /\ UNCHANGED <<slot, tables, io, peerGone, freed, packets, calls, cause, accepted, wire>>

(* Mutant: the session map keeps the id. *)
RemoveEraseSkipped(t) == Reads(t, "rm_erase") /\ Step(t, "rm_push")

RemoveErase(t) ==
  /\ pc[t] = "rm_erase"
  /\ sessionMap' = [sessionMap EXCEPT ![S(t).sessionId] = NoSlot]
  /\ Step(t, "rm_push")
  /\ UNCHANGED <<slot, freeList, nextSessionId, kernel, freed, history>>

(* Mutant: the slot is not given back. *)
RemovePushSkipped(t) == Reads(t, "rm_push") /\ Return(t)

RemovePush(t) ==
  /\ pc[t] = "rm_push"
  /\ freeList' = Append(freeList, Sess(t))
  /\ Return(t)
  /\ UNCHANGED <<slot, sessionMap, nextSessionId, kernel, freed, history>>

-----------------------------------------------------------------------------
(* The worker threads *)

Dequeue(w, r, label) ==
  /\ pc[w] = "idle"
  /\ io' = io \ {r}
  /\ Goto(w, label)
  /\ UNCHANGED <<slot, tables, closed, peerGone, freed, packets, calls, left, accepted>>

(* 0 bytes: the peer is gone, or the operation failed or had nothing to do. *)
GetZero(w, r) ==
  /\ MayFail(r.id) \/ (r.kind = "send" /\ r.pkts = <<>>)
  /\ Dequeue(w, r, "dec")
  /\ cause' = IF MayFail(r.id) THEN cause \cup {r.id} ELSE cause
  /\ frame' = [frame EXCEPT ![w].client = r.slot, ![w].mark = TRUE]
  /\ UNCHANGED wire

GetRecv(w, r) ==
  /\ r.kind = "recv" /\ ~MayFail(r.id)
  /\ Dequeue(w, r, "recvLoop")
  /\ frame' = [frame EXCEPT ![w].client = r.slot, ![w].todo = MaxPerRecv]
  /\ UNCHANGED <<cause, wire>>

GetSend(w, r) ==
  /\ r.kind = "send" /\ r.pkts # <<>> /\ r.id \notin closed
  /\ Dequeue(w, r, "dequeue")
  /\ wire' = [wire EXCEPT ![r.id] = @ \o r.pkts]
  /\ frame' = [frame EXCEPT ![w].client = r.slot]
  /\ UNCHANGED cause

(* onRecv answers with sendPacket, as the echo server does. *)
OnRecvSend(w) ==
  LET id == slot[frame[w].client].sessionId IN
  /\ pc[w] = "recvLoop"
  /\ frame[w].todo > 0 /\ packets < MaxPackets
  /\ packets' = packets + 1
  /\ frame' = [frame EXCEPT ![w].id = id, ![w].pkts = <<<<id, packets>>>>,
                            ![w].todo = @ - 1, ![w].ret = "recvLoop"]
  /\ Goto(w, "sp_find")
  /\ UNCHANGED <<slot, tables, kernel, freed, calls, left, cause, accepted, wire>>

Condemn(id) ==
  /\ calls < MaxCalls
  /\ calls' = calls + 1
  /\ cause' = cause \cup {id}
  /\ UNCHANGED <<slot, tables, kernel, freed, packets, left, accepted, wire>>

(* onRecv calls disconnect; or the header is bad, and no recv is posted. *)
OnRecvClose(w) ==
  LET id == slot[frame[w].client].sessionId IN
  /\ pc[w] = "recvLoop"
  /\ frame[w].todo > 0
  /\ Condemn(id)
  /\ CallRemove(w, id, TRUE, "recvLoop") \/ CallRemove(w, id, TRUE, "dec")

(* No whole packet is left: post the next recv. *)
RecvDone(w) ==
  /\ Reads(w, "recvLoop")
  /\ frame' = [frame EXCEPT ![w].sess = frame[w].client, ![w].todo = 0, ![w].ret = "dec"]
  /\ Goto(w, "rp_check")

(* Mutant: one of the packets sent stays in the ring. *)
SendDequeueShort(w) ==
  LET s == frame[w].client
      ring == slot[s].sendRing
      n == Min2(slot[s].sendPacketCount, Len(ring)) - 1
  IN
  /\ pc[w] = "dequeue"
  /\ freed' = freed \cup ToSet(SubSeq(ring, 1, n))
  /\ slot' = [slot EXCEPT ![s].sendRing = SubSeq(ring, n + 1, Len(ring))]
  /\ Step(w, "clear")
  /\ UNCHANGED <<tables, kernel, history>>

(* The packets sent leave the ring and are deleted. *)
SendDequeue(w) ==
  LET s == frame[w].client
      ring == slot[s].sendRing
      n == Min2(slot[s].sendPacketCount, Len(ring))
  IN
  /\ pc[w] = "dequeue"
  /\ freed' = freed \cup ToSet(SubSeq(ring, 1, n))
  /\ slot' = [slot EXCEPT ![s].sendRing = SubSeq(ring, n + 1, Len(ring))]
  /\ Step(w, "clear")
  /\ UNCHANGED <<tables, kernel, history>>

SendClear(w) ==
  LET s == frame[w].client IN
  Writes(w, "clear", s, SetPending(slot[s], FALSE)) /\ Step(w, "more")

(* Mutant: nothing is posted for the packets queued meanwhile. *)
SendMoreNever(w) == Reads(w, "more") /\ Step(w, "dec")

SendMore(w) ==
  LET s == frame[w].client IN
  /\ Reads(w, "more")
  /\ IF slot[s].sendRing # <<>> /\ ~slot[s].isSendPending
     THEN frame' = [frame EXCEPT ![w].sess = s, ![w].ret = "dec"] /\ Goto(w, "so_xchg")
     ELSE Step(w, "dec")

(* Mutant: no polling call after an ordinary completion. *)
DecrementNoPoll(w) ==
  LET s == frame[w].client IN
  /\ Writes(w, "dec", s, AddIo(slot[s], -1))
  /\ frame' = [frame EXCEPT ![w] = IF @.mark THEN [@ EXCEPT !.client = NoSlot, !.sess = s, !.ret = "idle"]
                                   ELSE NoFrame]
  /\ Goto(w, IF frame[w].mark THEN "readId" ELSE "idle")

(* The count of the dequeued completion goes back; then removeSession, to *)
(* mark after a completion of 0 bytes and to poll after any other.        *)
Decrement(w) ==
  LET s == frame[w].client IN
  /\ Writes(w, "dec", s, AddIo(slot[s], -1))
  /\ frame' = [frame EXCEPT ![w].client = NoSlot, ![w].sess = s, ![w].ret = "idle"]
  /\ Goto(w, "readId")

-----------------------------------------------------------------------------
(* The application and the peers *)

AppSend(a, id) ==
  /\ pc[a] = "idle" /\ packets < MaxPackets
  /\ packets' = packets + 1
  /\ frame' = [frame EXCEPT ![a].id = id, ![a].pkts = <<<<id, packets>>>>]
  /\ Goto(a, "sp_find")
  /\ UNCHANGED <<slot, tables, kernel, freed, calls, left, cause, accepted, wire>>

AppDisconnect(a, id) == pc[a] = "idle" /\ Condemn(id) /\ CallRemove(a, id, TRUE, "idle")

PeerClose(id) ==
  /\ id < nextSessionId /\ id \notin peerGone
  /\ peerGone' = peerGone \cup {id}
  /\ UNCHANGED <<slot, tables, io, closed, pc, frame, freed, history>>

-----------------------------------------------------------------------------

Accept == AcceptPop \/ AcceptInit \/ AcceptInsert \/ AcceptJoin

RecvPost(t) == \/ RecvPostCheck(t) \/ RecvPostInc(t) \/ RecvPostRecheck(t)
               \/ RecvPostUndo(t) \/ RecvPostCall(t)

SendPacket(t) == SendPacketFind(t) \/ SendPacketEnqueue(t) \/ SendPacketPending(t)

SendPost(t) == \/ SendPostExchange(t) \/ SendPostCheck(t) \/ SendPostReset(t)
               \/ SendPostCount(t) \/ SendPostPeek(t) \/ SendPostGather(t)
               \/ SendPostRecheck(t) \/ SendPostUndo(t) \/ SendPostCall(t) \/ SendPostFailed(t)

RemoveSession(t) == \/ ReadId(t) \/ RemoveFind(t) \/ RemoveMark(t) \/ RemoveClosing(t)
                    \/ RemoveCount(t) \/ RemoveCas(t) \/ RemoveDrain(t)
                    \/ RemoveClose(t) \/ RemoveErase(t) \/ RemovePush(t)

Get(w, r) == GetZero(w, r) \/ GetRecv(w, r) \/ GetSend(w, r)

Handle(w) == RecvDone(w) \/ SendDequeue(w) \/ SendClear(w) \/ SendMore(w) \/ Decrement(w)

(* Every thread waits and no operation is in flight. *)
Quiescent == /\ \A t \in Threads : pc[t] = "idle"
             /\ io = {}
             /\ nextSessionId = MaxSessions \/ freeList = <<>>
             /\ UNCHANGED vars

Next == \/ Accept
        \/ \E t \in Threads : RecvPost(t) \/ SendPacket(t) \/ SendPost(t) \/ RemoveSession(t)
        \/ \E w \in Workers : \/ \E r \in io : Get(w, r)
                              \/ Handle(w) \/ OnRecvSend(w) \/ OnRecvClose(w)
        \/ \E a \in Apps, id \in Joined : AppSend(a, id) \/ AppDisconnect(a, id)
        \/ \E id \in Ids : PeerClose(id)
        \/ Quiescent

Spec == Init /\ [][Next]_vars

(* A thread that is in the middle of something goes on: it waits for nothing. *)
Running(t) == \/ RecvPost(t) \/ SendPacket(t) \/ SendPost(t) \/ RemoveSession(t)
              \/ t \in Workers /\ Handle(t)
              \/ t = Acceptor /\ Accept

(* The completion queue is a FIFO and the workers take turns at it, so a   *)
(* completed operation is dequeued in the end, however many others are.    *)
(* A send completes, and so does a recv whose peer has gone.               *)
Completes(id, kind) ==
  /\ kind = "send" \/ MayFail(id)
  /\ \E w \in Workers, r \in io : r.id = id /\ r.kind = kind /\ Get(w, r)

FairSpec == /\ Spec
            /\ \A t \in Threads : WF_vars(Running(t))
            /\ \A id \in Ids, kind \in {"recv", "send"} : SF_vars(Completes(id, kind))

-----------------------------------------------------------------------------
(* Properties *)

Labels == {"idle", "init", "insert", "join", "recvLoop", "dequeue", "clear", "more", "dec",
           "rp_check", "rp_inc", "rp_recheck", "rp_undo", "rp_call",
           "sp_find", "sp_enqueue", "sp_pending",
           "so_xchg", "so_check", "so_reset", "so_count", "so_peek", "so_gather",
           "so_recheck", "so_undo", "so_call", "so_failed",
           "readId", "rm_find", "rm_mark", "rm_closing", "rm_count", "rm_cas",
           "rm_drain", "rm_erase", "rm_push"}

Packet == Ids \X Nat

Session == [sessionId : Ids \cup {NoId}, ioCount : Int, isSendPending : BOOLEAN,
            isClosing : BOOLEAN, isTornDown : BOOLEAN, sendRing : Seq(Packet),
            sendPacketCount : 0..MaxBatch]

Frame == [client : Slots \cup {NoSlot}, sess : Slots \cup {NoSlot}, id : Ids \cup {NoId},
          mark : BOOLEAN, todo : 0..MaxPerRecv, pkts : Seq(Packet),
          ret : {"idle", "recvLoop", "dec"}]

TypeOK == /\ slot \in [Slots -> Session]
          /\ sessionMap \in [Ids -> Slots \cup {NoSlot}]
          /\ freeList \in Seq(Slots)
          /\ nextSessionId \in 0..MaxSessions
          /\ io \subseteq [kind : {"recv", "send"}, slot : Slots, id : Ids, pkts : Seq(Packet)]
          /\ closed \subseteq Ids /\ peerGone \subseteq Ids /\ cause \subseteq Ids
          /\ pc \in [Threads -> Labels]
          /\ frame \in [Threads -> Frame]
          /\ freed \subseteq Packet
          /\ packets \in 0..MaxPackets /\ calls \in 0..MaxCalls
          /\ left \in [Ids -> Nat]
          /\ accepted \in [Ids -> Seq(Packet)] /\ wire \in [Ids -> Seq(Packet)]

(* A thread that has incremented m_ioCount of s for a call it has not made *)
(* or undone yet; and a worker that has not given back a completion's.     *)
Posting(t, s) == frame[t].sess = s
              /\ pc[t] \in {"rp_recheck", "rp_undo", "rp_call", "so_recheck", "so_undo", "so_call"}
Handling(t, s) == frame[t].client = s

OpsOn(s) == {r \in io : r.slot = s}

(* m_ioCount is exact: it counts the operations in flight and the threads  *)
(* that are posting or completing one.  Zero then means that nothing       *)
(* touches the session any more.                                           *)
IoAccounting ==
  \A s \in Slots :
    slot[s].ioCount = Cardinality(OpsOn(s)) + Cardinality({t \in Threads : Posting(t, s)})
                 + Cardinality({t \in Threads : Handling(t, s)})

(* The two-stage guard (check m_isClosing, increment, check again) does    *)
(* what it is for: no operation is in flight or about to be posted on a    *)
(* socket that has been closed.                                            *)
NoIoOnClosedSocket ==
  /\ \A r \in io : r.id \notin closed
  /\ \A t \in Threads : pc[t] \in {"rp_call", "so_call"} => S(t).sessionId \notin closed

TearingDown(t) == pc[t] \in {"rm_drain", "rm_erase", "rm_push"}

(* A session is torn down once, by one thread, with no operation left in  *)
(* flight: its socket is closed and onClientLeave called exactly once.     *)
TeardownOnce ==
  /\ \A id \in Ids : left[id] = IF id \in closed THEN 1 ELSE 0
  /\ \A t, u \in Threads : TearingDown(t) /\ TearingDown(u) /\ Sess(t) = Sess(u) => t = u
  /\ \A t \in Threads : TearingDown(t) => OpsOn(Sess(t)) = {}

(* A slot is in one place: once in the free list, or with the accept       *)
(* thread, or under the one id that is its own in the session map, or with *)
(* the thread about to give it back.                                       *)
SlotsArePartitioned ==
  /\ \A id \in Ids : sessionMap[id] # NoSlot => slot[sessionMap[id]].sessionId = id
  /\ \A s \in Slots :
       Cardinality({i \in 1..Len(freeList) : freeList[i] = s})
       + Cardinality({id \in Ids : sessionMap[id] = s})
       + Cardinality({t \in Threads : Sess(t) = s /\ pc[t] \in {"init", "insert", "rm_push"}}) = 1

(* What a peer receives is what sendPacket accepted for its id, in that    *)
(* order, without a gap or a duplicate, and nothing meant for another.     *)
SendOrder == \A id \in Ids : IsPrefix(wire[id], accepted[id])

(* Every packet taken by sendPacket is deleted once: until then it is       *)
(* queued in one session that is in use, and no send in flight, or thread  *)
(* gathering one, refers to it after.                                      *)
PacketsAccounted ==
  /\ \A s \in Slots : IsInjective(slot[s].sendRing) /\ ToSet(slot[s].sendRing) \cap freed = {}
  /\ \A s1, s2 \in Slots : s1 # s2 => ToSet(slot[s1].sendRing) \cap ToSet(slot[s2].sendRing) = {}
  /\ \A r \in io : ToSet(r.pkts) \cap freed = {}
  /\ \A t \in Threads : pc[t] = "so_gather" => ToSet(frame[t].pkts) \cap freed = {}
  /\ \A id \in Ids : \A p \in ToSet(accepted[id]) \ freed :
       \E s \in Slots : p \in ToSet(slot[s].sendRing) /\ s \notin ToSet(freeList)

(* The comment of removeSession: a session found busy is cleaned up by the *)
(* removeSession call of the operation it is waiting for.  While a closing *)
(* session is not torn down there is such an operation or such a call.     *)
WillCheck(t, s) ==
  \/ Handling(t, s)
  \/ Sess(t) = s /\ pc[t] \in {"readId", "rm_mark", "rm_closing", "rm_count", "rm_cas", "so_failed",
                             "rp_call", "so_call"}
  \/ pc[t] = "rm_find" /\ sessionMap[frame[t].id] = s

ClosingIsPolled ==
  \A s \in Slots : slot[s].isClosing /\ ~slot[s].isTornDown =>
    OpsOn(s) # {} \/ \E t \in Threads : WillCheck(t, s)

(* Only a session whose peer has gone, whose IO has failed or that the     *)
(* application or a bad header condemned is marked as closing.             *)
ClosedForCause == \A s \in Slots : slot[s].isClosing => slot[s].sessionId \in cause

(* Seen from outside, each id is opened once, in increasing order, within  *)
(* the capacity of the pool, and closed once, after it was marked and when *)
(* no operation is left on its socket.                                     *)
Stage(id) == IF id \in closed THEN "closed"
             ELSE IF sessionMap[id] = NoSlot THEN "none"
             ELSE IF slot[sessionMap[id]].isClosing THEN "closing" ELSE "open"

Service == INSTANCE SessionService
  WITH Capacity <- SlotCount,
       stage    <- [id \in Ids |-> Stage(id)],
       inflight <- [id \in Ids |-> Cardinality({r \in io : r.id = id})]

Refinement == Service!Spec

(* The comment on session ids: they are never reused, so that whoever holds *)
(* the id of a session that is gone does not touch the session that now    *)
(* has its slot.                                                           *)
OldIdTouchesNoOther ==
  \A t \in Threads : pc[t] \in {"rm_mark", "rm_drain", "rm_erase"} =>
    S(t).sessionId = frame[t].id

(* The comment on session ids again: a slot is given its next session only *)
(* when no other thread has a pointer to it from the one before.  (At      *)
(* rm_find the old pointer is no longer used.)                             *)
Uses(t, s) == frame[t].client = s \/ (Sess(t) = s /\ pc[t] # "rm_find")

ReusedUnheld ==
  [][AcceptInit => \A t \in Threads \ {Acceptor} : ~Uses(t, Sess(Acceptor))]_vars

(* A session whose peer has gone is closed in the end, its id leaves the    *)
(* session map and its slot, which shows the id until the next session      *)
(* takes it, is back in the free list.                                      *)
GivenBack(id) == /\ id \in closed
                 /\ sessionMap[id] = NoSlot
                 /\ \A s \in Slots : slot[s].sessionId = id => s \in ToSet(freeList)

PeerGoneIsClosed == \A id \in Ids : (id \in Joined \cap peerGone) ~> GivenBack(id)

(* A packet sendPacket took is sent, unless its session is being closed: a *)
(* wake-up of the sender is never lost among the workers.                  *)
AcceptedIsSent ==
  \A id \in Ids, n \in 0..(MaxPackets - 1) :
    (<<id, n>> \in ToSet(accepted[id]))
      ~> (<<id, n>> \in ToSet(wire[id]) \/ Stage(id) \in {"closing", "closed"})
=============================================================================
