------------------------------ MODULE Framing ------------------------------
(***************************************************************************)
(* The receiving side of a session: workerThread cuts the bytes that the   *)
(* peer sent, in whatever pieces they come, into packets, and recvPost     *)
(* asks for more.  One receive is outstanding at a time, so one worker at  *)
(* a time runs this code for a session.                                    *)
(*                                                                         *)
(* The peer writes packets, a header that holds the size of the payload    *)
(* and the payload, and now and then a header that no packet has.  `wire`  *)
(* is what it wrote and the server has not received; the network delivers  *)
(* any part of it, and the end of the connection after all of it.  `sent`, *)
(* `bad` and `received` are history variables.                             *)
(***************************************************************************)
EXTENDS RingBuffer, SequencesExt

CONSTANTS Size,             \* DEFAULT_BUFFER_SIZE
          HEADER_SIZE,
          MAX_PACKET_SIZE,
          Base,             \* the values of a byte, 256 in the code
          Payloads,         \* payloads the peer sends
          BadHeaders,       \* sizes it may declare that no packet has
          Window,           \* bytes the peer leaves unread by the server
          MaxPackets        \* bound on what the peer sends

Byte == 0..(Base - 1)

ASSUME FramingAssumption ==
  /\ HEADER_SIZE = 2
  /\ MAX_PACKET_SIZE \in Nat
  /\ Base \in Nat \ {0, 1}
  /\ Size \in Nat /\ Size > MAX_PACKET_SIZE + HEADER_SIZE
  /\ Payloads \subseteq Seq(Byte)
  /\ \A p \in Payloads : Len(p) <= MAX_PACKET_SIZE
  /\ MAX_PACKET_SIZE < (Base * Base) \div 2       \* a size fits into a short
  /\ BadHeaders \subseteq (-((Base * Base) \div 2))..((Base * Base) \div 2 - 1)
  /\ \A h \in BadHeaders : h < 0 \/ h > MAX_PACKET_SIZE
  /\ Window \in Nat /\ MaxPackets \in Nat

VARIABLES ring,      \* m_recvRingBuff
          posted,    \* the length of the buffer given to WSARecv
          pc,        \* "recv": a receive is outstanding; "frame": in the loop;
                     \* "closing": the session was marked and no receive posted
          gone,      \* the peer has closed its socket
          wire, sent, bad, received

vars == <<ring, posted, pc, gone, wire, sent, bad, received>>

(* A short, the low byte first. *)
Bytes(short) == LET n == short % (Base * Base) IN <<n % Base, n \div Base>>

Short(bytes) == LET n == bytes[1] + Base * bytes[2]
                IN  IF n >= (Base * Base) \div 2 THEN n - Base * Base ELSE n

Packet(payload) == Bytes(Len(payload)) \o payload

(* acceptThread empties the ring and posts the first receive. *)
Init == /\ ring = NewRing(Size, 0)
        /\ posted = getDirectWriteSize(ring)
        /\ pc = "recv" /\ gone = FALSE
        /\ wire = <<>> /\ sent = <<>> /\ bad = FALSE /\ received = <<>>

-----------------------------------------------------------------------------
(* The peer *)

PeerSend(payload) == /\ ~gone /\ Len(sent) < MaxPackets
                     /\ getUseSize(ring) + Len(wire) + Len(Packet(payload)) <= Window
                     /\ wire' = wire \o Packet(payload)
                     /\ sent' = IF bad THEN sent ELSE Append(sent, payload)
                     /\ UNCHANGED <<ring, posted, pc, gone, bad, received>>

PeerSendBad(header) == /\ ~gone /\ ~bad
                       /\ getUseSize(ring) + Len(wire) + HEADER_SIZE <= Window
                       /\ wire' = wire \o Bytes(header)
                       /\ bad' = TRUE
                       /\ UNCHANGED <<ring, posted, pc, gone, sent, received>>

PeerClose == /\ ~gone
             /\ gone' = TRUE
             /\ UNCHANGED <<ring, posted, pc, wire, sent, bad, received>>

-----------------------------------------------------------------------------
(* workerThread and recvPost *)

(* A completion of n bytes: they are in the buffer, moveRearPos takes them *)
(* in.                                                                     *)
RecvDone(n) == /\ pc = "recv"
               /\ n <= posted
               /\ ring' = moveRearPos(CopyIn(ring, SubSeq(wire, 1, n)), n)
               /\ wire' = SubSeq(wire, n + 1, Len(wire))
               /\ pc' = "frame"
               /\ UNCHANGED <<posted, gone, sent, bad, received>>

(* A completion of 0 bytes ends the session: the peer has closed, or the   *)
(* buffer had no room.                                                     *)
RecvNothing == /\ pc = "recv"
               /\ posted = 0 \/ (gone /\ wire = <<>>)
               /\ pc' = "closing"
               /\ UNCHANGED <<ring, posted, gone, wire, sent, bad, received>>

(* Mutant: a header alone is not looked at. *)
HasMore   == getUseSize(ring) > HEADER_SIZE
HasHeader == getUseSize(ring) >= HEADER_SIZE

header == Short(peek(ring, HEADER_SIZE))

(* Mutants: no upper bound on the size, and one too small. *)
IsNegative  == header < 0
IsBadStrict == header < 0 \/ header >= MAX_PACKET_SIZE
IsBad       == header < 0 \/ header > MAX_PACKET_SIZE

IsWhole == header + HEADER_SIZE <= getUseSize(ring)

(* The loop makes a packet and gives it to onRecv ... *)
Deliver == /\ pc = "frame"
           /\ HasHeader /\ ~IsBad /\ IsWhole
           /\ received' = Append(received, Tail(Tail(peek(ring, header + HEADER_SIZE))))
           /\ ring' = dequeue(ring, header + HEADER_SIZE)
           /\ UNCHANGED <<posted, pc, gone, wire, sent, bad>>

(* ... stops at a header no packet has, closing the session ... *)
Reject == /\ pc = "frame"
          /\ HasHeader /\ IsBad
          /\ pc' = "closing"
          /\ UNCHANGED <<ring, posted, gone, wire, sent, bad, received>>

(* ... or ends when no whole packet is left, and recvPost asks for more. *)
recvPost == /\ pc = "frame"
            /\ HasHeader => ~IsBad /\ ~IsWhole
            /\ posted' = getDirectWriteSize(ring)
            /\ pc' = "recv"
            /\ UNCHANGED <<ring, gone, wire, sent, bad, received>>

-----------------------------------------------------------------------------

Worker  == Deliver \/ Reject \/ recvPost
Receive == RecvNothing \/ \E n \in 1..Len(wire) : RecvDone(n)
Peer    == \/ PeerClose
           \/ \E p \in Payloads : PeerSend(p)
           \/ \E h \in BadHeaders : PeerSendBad(h)

Next == Peer \/ Receive \/ Worker

Spec == Init /\ [][Next]_vars

(* The worker goes on, and what is on the wire arrives. *)
FairSpec == Spec /\ WF_vars(Worker) /\ WF_vars(Receive)

-----------------------------------------------------------------------------
(* Properties *)

TypeOK == /\ ring \in [size : {Size}, front : 0..(Size - 1), rear : 0..(Size - 1),
                       buffer : [0..(Size - 1) -> Byte]]
          /\ posted \in 0..Size
          /\ pc \in {"recv", "frame", "closing"}
          /\ wire \in Seq(Byte) /\ sent \in Seq(Payloads) /\ received \in Seq(Seq(Byte))
          /\ bad \in BOOLEAN /\ gone \in BOOLEAN

Content == BytesAt(ring, ring.front, getUseSize(ring))

(* Whatever the cuts and wherever the ring wraps around, no byte is lost,  *)
(* doubled or moved: the packets given to onRecv are the first of those    *)
(* the peer sent, and the ring and the wire hold the rest.                 *)
Reassembles ==
  /\ IsPrefix(received, sent)
  /\ LET rest == FlattenSeq([i \in 1..(Len(sent) - Len(received)) |->
                               Packet(sent[Len(received) + i])])
     IN  IF bad THEN IsPrefix(rest, Content \o wire) ELSE Content \o wire = rest

(* A receive always has room: whatever is left in the ring by the loop is  *)
(* less than a packet, so a session is never closed for a full ring.       *)
RecvHasRoom == pc = "recv" => posted > 0

(* A peer that sends only packets is not closed unless it has left, and    *)
(* what it sent before it left has been given to onRecv.                   *)
ClosedForCause ==
  pc = "closing" => bad \/ (gone /\ wire = <<>> /\ received = sent)

(* Every packet sent is given to onRecv in the end. *)
AllReceived == \A k \in 1..MaxPackets : Len(sent) >= k ~> Len(received) >= k
=============================================================================
