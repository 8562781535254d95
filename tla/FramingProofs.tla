--------------------------- MODULE FramingProofs ---------------------------
(***************************************************************************)
(* Theorems about Framing, for any ring that is larger than the largest    *)
(* packet, any peer and any cutting of its bytes: the types of the ring;   *)
(* that a receive always has room; and, when no receive can fill the ring  *)
(* to the last byte, that the packets come out as they were sent and that  *)
(* a session is closed only for cause.  The bytes are those of FlattenSeq, *)
(* a recursion over the packets: what is needed of it is proved here by    *)
(* induction, from the least of a set of numbers.  And about EchoServer:   *)
(* that a packet of one field comes back as it was.                        *)
(***************************************************************************)
EXTENDS EchoServer, SequenceTheorems, WellFoundedInduction, NaturalsInduction, TLAPS

Ring == [size : {Size}, front : 0..(Size - 1), rear : 0..(Size - 1),
         buffer : [0..(Size - 1) -> Byte]]

-----------------------------------------------------------------------------
(* The ring *)

(* The sizes of the ring and of its bytes are positive.                    *)
LEMMA Sizes == /\ Size \in Nat /\ Size > MAX_PACKET_SIZE + 2 /\ MAX_PACKET_SIZE \in Nat
               /\ HEADER_SIZE = 2 /\ Base \in Nat /\ Base > 1
  BY FramingAssumption

(* What the fields of a ring are.                                          *)
LEMMA RingFields ==
  ASSUME NEW r \in Ring
  PROVE  /\ r.size = Size /\ r.front \in Int /\ r.rear \in Int
         /\ 0 <= r.front /\ r.front < Size /\ 0 <= r.rear /\ r.rear < Size
         /\ r.buffer \in [0..(Size - 1) -> Byte]
  BY Sizes DEF Ring

(* The remainder of a division is less than the divisor.                   *)
LEMMA Remainder == ASSUME NEW a \in Int, NEW b \in Nat, b > 0 PROVE a % b \in 0..(b - 1)
  BY SMT

(* A full ring has all of its bytes but one in use.                        *)
LEMMA UseSize ==
  ASSUME NEW r \in Ring
  PROVE  /\ getUseSize(r) \in 0..(Size - 1)
         /\ isFull(r) => getUseSize(r) = Size - 1
         /\ isEmpty(r) => getUseSize(r) = 0
  <1>1. /\ r.size = Size /\ r.front \in Int /\ r.rear \in Int
        /\ 0 <= r.front /\ r.front < Size /\ 0 <= r.rear /\ r.rear < Size
    BY RingFields
  <1>2. isFull(r) => ~isEmpty(r)
    BY <1>1, Sizes DEF isFull, isEmpty
  <1>3. CASE isEmpty(r)
    BY <1>1, <1>2, <1>3, Sizes DEF getUseSize
  <1>4. CASE isFull(r)
    BY <1>1, <1>2, <1>4, Sizes DEF getUseSize
  <1>5. CASE ~isEmpty(r) /\ ~isFull(r)
    <2>1. getUseSize(r) = IF r.front < r.rear THEN r.rear - r.front
                          ELSE Size - (r.front - r.rear)
      BY <1>1, <1>5 DEF getUseSize
    <2>2. r.front # r.rear
      BY <1>5 DEF isEmpty
    <2> QED BY <1>1, <1>5, <2>1, <2>2, Sizes
  <1> QED BY <1>3, <1>4, <1>5

(* There is room to write without going around the end, unless the ring is *)
(* full: when rear is at the end and front at the start it is.             *)
LEMMA DirectWrite ==
  ASSUME NEW r \in Ring
  PROVE  getDirectWriteSize(r) \in 0..Size /\ (~isFull(r) => getDirectWriteSize(r) > 0)
  <1>1. /\ r.size = Size /\ r.front \in Int /\ r.rear \in Int
        /\ 0 <= r.front /\ r.front < Size /\ 0 <= r.rear /\ r.rear < Size
    BY RingFields
  <1>2. (r.rear + 1) % Size \in 0..(Size - 1)
    BY <1>1, Sizes, Remainder
  <1> DEFINE m == (r.rear + 1) % Size
  <1>3. m = (r.rear + 1) % r.size /\ m \in Int /\ 0 <= m /\ m < Size
    BY <1>1, <1>2, Sizes
  <1> HIDE DEF m
  <1>4. CASE isFull(r)
    <2>1. ~isEmpty(r)
      BY <1>1, <1>4, Sizes DEF isFull, isEmpty
    <2>2. ~(r.front < r.rear /\ r.front # 0)
      BY <1>1, <1>4, Sizes DEF isFull
    <2>3. getDirectWriteSize(r) \in 0..Size
      BY <1>1, <1>3, <1>4, <2>1, <2>2, Sizes DEF getDirectWriteSize
    <2> QED BY <1>4, <2>3
  <1>5. CASE ~isFull(r) /\ isEmpty(r)
    BY <1>1, <1>5, Sizes DEF getDirectWriteSize
  <1>6. CASE ~isFull(r) /\ ~isEmpty(r) /\ r.front < r.rear /\ r.front = 0
    <2>1. getDirectWriteSize(r) = Size - m
      BY <1>1, <1>3, <1>6 DEF getDirectWriteSize
    <2> QED BY <1>3, <2>1, Sizes
  <1>7. CASE ~isFull(r) /\ ~isEmpty(r) /\ r.front < r.rear /\ r.front # 0
    BY <1>1, <1>7, Sizes DEF getDirectWriteSize
  <1>8. CASE ~isFull(r) /\ ~isEmpty(r) /\ ~(r.front < r.rear)
    <2>1. getDirectWriteSize(r) = (r.front - 1) - r.rear
      BY <1>1, <1>8 DEF getDirectWriteSize
    <2>2. r.front # r.rear /\ r.front # r.rear + 1
      BY <1>8 DEF isFull, isEmpty
    <2> QED BY <1>1, <1>8, <2>1, <2>2, Sizes
  <1> QED BY <1>4, <1>5, <1>6, <1>7, <1>8

(* peek finds all it is asked for, when that much is in use.               *)
LEMMA PeekAll ==
  ASSUME NEW r \in Ring, NEW n \in Nat, n <= getUseSize(r)
  PROVE  PeekSize(r, n) = n
  <1>1. /\ r.size = Size /\ r.front \in Int /\ r.rear \in Int
        /\ 0 <= r.front /\ r.front < Size /\ 0 <= r.rear /\ r.rear < Size
    BY RingFields
  <1>2. getDirectReadSize(r) \in Nat /\ getUseSize(r) \in Nat
    BY <1>1, Sizes DEF getDirectReadSize, getUseSize, isEmpty, isFull
  <1>3. isEmpty(r) => n = 0
    BY UseSize
  <1> HIDE DEF isEmpty, getDirectReadSize, getUseSize
  <1> QED BY <1>2, <1>3 DEF PeekSize

(* The bytes peeked are bytes.                                             *)
LEMMA PeekType ==
  ASSUME NEW r \in Ring, NEW n \in Nat, n <= getUseSize(r)
  PROVE  peek(r, n) \in Seq(Byte) /\ Len(peek(r, n)) = n
  <1>1. peek(r, n) = [i \in 1..n |-> r.buffer[(r.front + i - 1) % Size]]
    BY PeekAll, RingFields DEF peek, BytesAt
  <1>2. ASSUME NEW i \in 1..n PROVE r.buffer[(r.front + i - 1) % Size] \in Byte
    <2>1. (r.front + i - 1) % Size \in 0..(Size - 1)
      BY RingFields, Sizes, Remainder
    <2> QED BY <2>1, RingFields
  <1>3. peek(r, n) \in [1..n -> Byte]
    BY <1>1, <1>2
  <1> QED BY <1>3

(* Moving front or rear keeps it inside the buffer.                        *)
LEMMA MoveType ==
  ASSUME NEW r \in Ring, NEW n \in Int
  PROVE  moveFrontPos(r, n) \in Ring /\ moveRearPos(r, n) \in Ring
  <1>1. (r.front + n) % Size \in 0..(Size - 1) /\ (r.rear + n) % Size \in 0..(Size - 1)
    BY RingFields, Sizes, Remainder
  <1> QED BY <1>1, RingFields DEF moveFrontPos, moveRearPos, Ring

(* Copying bytes in changes no position.                                   *)
LEMMA CopyType ==
  ASSUME NEW r \in Ring, NEW bytes \in Seq(Byte)
  PROVE  CopyIn(r, bytes) \in Ring
  <1> DEFINE b == [p \in 0..(r.size - 1) |->
                     LET i == p - r.rear + 1
                     IN  IF i \in 1..Len(bytes) THEN bytes[i] ELSE r.buffer[p]]
  <1>1. b \in [0..(Size - 1) -> Byte]
    <2>1. ASSUME NEW p \in 0..(Size - 1) PROVE b[p] \in Byte
      <3>1. r.size = Size /\ r.buffer[p] \in Byte
        BY RingFields
      <3>2. ASSUME NEW i \in 1..Len(bytes) PROVE bytes[i] \in Byte
        OBVIOUS
      <3> QED BY <3>1, <3>2
    <2> QED BY <2>1, RingFields
  <1> HIDE DEF b
  <1>2. [r EXCEPT !.buffer = b] \in Ring
    BY <1>1 DEF Ring
  <1> QED BY <1>2 DEF CopyIn, b

-----------------------------------------------------------------------------
(* Headers *)

(* A short is two bytes ...                                                *)
LEMMA BytesType == ASSUME NEW n \in Int PROVE Bytes(n) \in Seq(Byte)
  <1> DEFINE m == n % (Base * Base)
             q == m \div Base
  <1>1. Base * Base \in Nat /\ Base * Base > 0
    BY Sizes, SMT
  <1>2. m \in 0..(Base * Base - 1)
    BY <1>1, Remainder
  <1> HIDE DEF m
  <1>3. m % Base \in 0..(Base - 1)
    BY <1>1, <1>2, Sizes, Remainder
  <1>4. q \in Int /\ q >= 0 /\ Base * q <= m
    BY <1>1, <1>2, Sizes, SMT
  <1> HIDE DEF q
  <1>5. q < Base
    <2> SUFFICES ASSUME q >= Base PROVE FALSE
      BY <1>4, Sizes
    <2>1. Base * q >= Base * Base
      BY <1>4, Sizes, SMT
    <2> QED BY <2>1, <1>1, <1>2, <1>4, Sizes
  <1>6. m % Base \in Byte /\ q \in Byte
    BY <1>3, <1>4, <1>5, Sizes DEF Byte
  <1>7. <<m % Base, q>> \in Seq(Byte)
    BY <1>6
  <1>8. Bytes(n) = <<m % Base, q>>
    BY DEF Bytes, m, q
  <1> QED BY <1>7, <1>8

(* ... and two bytes are a number.                                         *)
LEMMA HeaderType ==
  ASSUME ring \in Ring, HasHeader PROVE header \in Int
  <1>1. peek(ring, 2) \in Seq(Byte) /\ Len(peek(ring, 2)) = 2
    BY PeekType, Sizes DEF HasHeader
  <1>2. peek(ring, 2)[1] \in Int /\ peek(ring, 2)[2] \in Int
    <2> DEFINE s == peek(ring, 2)
    <2>1. s \in Seq(Byte) /\ 1 \in 1..Len(s) /\ 2 \in 1..Len(s)
      BY <1>1
    <2> HIDE DEF s
    <2>2. s[1] \in Byte /\ s[2] \in Byte
      BY <2>1
    <2>3. s[1] \in Int /\ s[2] \in Int
      BY <2>2, Sizes DEF Byte
    <2> QED BY <2>3 DEF s
  <1>3. Base * peek(ring, 2)[2] \in Int /\ Base * Base \in Int
    BY <1>2, Sizes
  <1> QED BY <1>2, <1>3, Sizes DEF header, Short

(* A packet is a sequence of bytes.                                        *)
LEMMA PacketType == ASSUME NEW p \in Payloads PROVE Packet(p) \in Seq(Byte)
  <1>1. p \in Seq(Byte) /\ Len(p) \in Int
    BY FramingAssumption
  <1> QED BY <1>1, BytesType DEF Packet

-----------------------------------------------------------------------------
(* The types *)

(* The first receive is posted for an empty ring.                          *)
LEMMA InitType == Init => TypeOK
  <1> SUFFICES ASSUME Init PROVE TypeOK
    OBVIOUS
  <1>1. ring \in Ring
    BY Sizes DEF Init, NewRing, Ring, Byte
  <1>2. posted \in 0..Size
    BY <1>1, DirectWrite DEF Init
  <1>3. wire \in Seq(Byte) /\ sent \in Seq(Payloads) /\ received \in Seq(Seq(Byte))
    BY DEF Init
  <1>4. pc = "recv" /\ bad = FALSE /\ gone = FALSE
    BY DEF Init
  <1> HIDE DEF Init
  <1> QED BY <1>1, <1>2, <1>3, <1>4 DEF TypeOK, Ring

(* Each action keeps the types.                                            *)
LEMMA StepType == TypeOK /\ [Next]_vars => TypeOK'
  <1> SUFFICES ASSUME TypeOK, [Next]_vars PROVE TypeOK'
    OBVIOUS
  <1>0. /\ ring \in Ring /\ posted \in 0..Size /\ pc \in {"recv", "frame", "closing"}
        /\ wire \in Seq(Byte) /\ sent \in Seq(Payloads) /\ received \in Seq(Seq(Byte))
        /\ bad \in BOOLEAN /\ gone \in BOOLEAN
    BY DEF TypeOK, Ring
  <1>1. ASSUME NEW p \in Payloads, PeerSend(p) PROVE TypeOK'
    <2>1. wire' \in Seq(Byte)
      BY <1>0, <1>1, PacketType DEF PeerSend
    <2>2. sent' \in Seq(Payloads)
      BY <1>0, <1>1 DEF PeerSend
    <2> QED BY <1>0, <1>1, <2>1, <2>2 DEF PeerSend, TypeOK, Ring
  <1>2. ASSUME NEW h \in BadHeaders, PeerSendBad(h) PROVE TypeOK'
    <2>1. Bytes(h) \in Seq(Byte)
      BY FramingAssumption, BytesType
    <2>2. wire' \in Seq(Byte)
      BY <1>0, <1>2, <2>1 DEF PeerSendBad
    <2> QED BY <1>0, <1>2, <2>2 DEF PeerSendBad, TypeOK, Ring
  <1>3. ASSUME NEW n \in 1..Len(wire), RecvDone(n) PROVE TypeOK'
    <2>1. SubSeq(wire, 1, n) \in Seq(Byte) /\ SubSeq(wire, n + 1, Len(wire)) \in Seq(Byte)
      <3>1. n \in Int /\ 1 <= n /\ n <= Len(wire) /\ Len(wire) \in Nat
        BY <1>0
      <3>2. n + 1 \in 1..(Len(wire) + 1) /\ Len(wire) \in ((n + 1) - 1)..Len(wire)
        BY <3>1
      <3>3. 1 \in 1..(Len(wire) + 1) /\ n \in (1 - 1)..Len(wire)
        BY <3>1
      <3> QED BY <1>0, <3>2, <3>3, SubSeqProperties
    <2>2. ring' \in Ring
      <3> DEFINE copy == CopyIn(ring, SubSeq(wire, 1, n))
      <3>1. copy \in Ring
        BY <1>0, <2>1, CopyType
      <3>2. n \in Int
        BY <1>0
      <3>3. ring' = moveRearPos(copy, n)
        BY <1>3 DEF RecvDone
      <3> HIDE DEF copy
      <3> QED BY <3>1, <3>2, <3>3, MoveType
    <2> QED BY <1>0, <1>3, <2>1, <2>2 DEF RecvDone, TypeOK, Ring
  <1>4. CASE RecvNothing
    BY <1>0, <1>4 DEF RecvNothing, TypeOK, Ring
  <1>5. CASE Deliver
    <2> DEFINE n == header + 2
               s == peek(ring, n)
    <2>1. header \in Int /\ header >= 0 /\ n \in Nat /\ n >= 2 /\ n <= getUseSize(ring)
      BY <1>0, <1>5, HeaderType, Sizes DEF Deliver, IsBad, IsWhole
    <2> HIDE DEF n
    <2>2. s \in Seq(Byte) /\ Len(s) = n
      BY <1>0, <2>1, PeekType
    <2>3. received' = Append(received, Tail(Tail(s))) /\ ring' = dequeue(ring, n)
      BY <1>5, Sizes DEF Deliver, n
    <2> HIDE DEF s
    <2>4. s # <<>> /\ Tail(s) \in Seq(Byte) /\ Len(Tail(s)) = n - 1
      BY <2>1, <2>2
    <2>5. Tail(Tail(s)) \in Seq(Byte)
      BY <2>1, <2>4
    <2>6. received' \in Seq(Seq(Byte))
      BY <1>0, <2>3, <2>5
    <2>7. ring' \in Ring
      <3>1. PeekSize(ring, n) = n
        BY <1>0, <2>1, PeekAll
      <3> QED BY <1>0, <2>1, <2>3, <3>1, MoveType DEF dequeue
    <2> QED BY <1>0, <1>5, <2>6, <2>7 DEF Deliver, TypeOK, Ring
  <1>6. CASE Reject
    BY <1>0, <1>6 DEF Reject, TypeOK, Ring
  <1>7. CASE recvPost
    <2>1. posted' \in 0..Size
      BY <1>0, <1>7, DirectWrite DEF recvPost
    <2> QED BY <1>0, <1>7, <2>1 DEF recvPost, TypeOK, Ring
  <1>8. CASE UNCHANGED vars
    BY <1>0, <1>8 DEF vars, TypeOK, Ring
  <1>9. CASE PeerClose
    BY <1>0, <1>9 DEF PeerClose, TypeOK, Ring
  <1> QED BY <1>1, <1>2, <1>3, <1>4, <1>5, <1>6, <1>7, <1>8, <1>9 DEF Next, Peer, Receive, Worker

(* The ring's positions stay inside its buffer, and what is received for   *)
(* is never more than the buffer, through every cut and wrap: moveFrontPos *)
(* and moveRearPos in workerThread.                                        *)
THEOREM Types == Spec => []TypeOK
  BY InitType, StepType, PTL DEF Spec

-----------------------------------------------------------------------------
(* A receive has room *)

(* A full ring would hold a whole packet, or a header that no packet has:  *)
(* in either case the loop would not have ended.                           *)
LEMMA RoomStep == TypeOK /\ RecvHasRoom /\ [Next]_vars => RecvHasRoom'
  <1> SUFFICES ASSUME TypeOK, RecvHasRoom, [Next]_vars PROVE RecvHasRoom'
    OBVIOUS
  <1>1. CASE recvPost
    <2>1. ring \in Ring
      BY DEF TypeOK, Ring
    <2>2. ~isFull(ring)
      <3> SUFFICES ASSUME isFull(ring) PROVE FALSE
        OBVIOUS
      <3>1. getUseSize(ring) = Size - 1
        BY <2>1, UseSize
      <3>2. HasHeader
        BY <3>1, Sizes DEF HasHeader
      <3>3. header \in Int
        BY <2>1, <3>2, HeaderType
      <3>4. ~IsBad /\ ~IsWhole
        BY <1>1, <3>2 DEF recvPost
      <3> QED BY <3>1, <3>3, <3>4, Sizes DEF IsBad, IsWhole
    <2> QED BY <1>1, <2>1, <2>2, DirectWrite DEF recvPost, RecvHasRoom
  <1>2. CASE Deliver \/ Reject
    BY <1>2 DEF Deliver, Reject, RecvHasRoom
  <1>3. CASE Receive
    BY <1>3 DEF Receive, RecvNothing, RecvDone, RecvHasRoom
  <1>4. CASE Peer
    BY <1>4 DEF Peer, PeerClose, PeerSend, PeerSendBad, RecvHasRoom
  <1>5. CASE UNCHANGED vars
    BY <1>5 DEF vars, RecvHasRoom
  <1> QED BY <1>1, <1>2, <1>3, <1>4, <1>5 DEF Next, Worker

(* recvPost never asks for 0 bytes, which the worker would take for the    *)
(* end of the connection.                                                  *)
THEOREM HasRoom == Spec => []RecvHasRoom
  <1>1. Init => RecvHasRoom
    BY Sizes DEF Init, NewRing, getDirectWriteSize, isFull, isEmpty, RecvHasRoom
  <1> QED BY <1>1, Types, RoomStep, PTL DEF Spec

-----------------------------------------------------------------------------
(* Induction *)

(* A set of numbers has a least one ...                                    *)
LEMMA Least ==
  ASSUME NEW A, A \subseteq Nat, A # {}
  PROVE  \E m \in A : \A n \in A : m <= n
  <1> DEFINE R == {p \in Nat \X Nat : p[1] < p[2]}
  <1>1. IsWellFoundedOn(R, Nat)
    BY NatLessThanWellFounded DEF OpToRel
  <1>2. \A m, n \in Nat : <<n, m>> \notin R => m <= n
    BY SMT
  <1> HIDE DEF R
  <1>3. PICK m \in A : \A n \in A : <<n, m>> \notin R
    BY <1>1, WFMin
  <1> QED BY <1>2, <1>3

(* ... so that what holds of 0, and of n + 1 where it holds of n, holds of *)
(* them all.                                                               *)
LEMMA Induct ==
  ASSUME NEW A, 0 \in A, \A n \in Nat : n \in A => n + 1 \in A
  PROVE  Nat \subseteq A
  <1> SUFFICES ASSUME Nat \ A # {} PROVE FALSE
    OBVIOUS
  <1>1. PICK m \in Nat \ A : \A n \in Nat \ A : m <= n
    BY Least
  <1>2. m # 0 /\ m - 1 \in Nat
    BY <1>1, SMT
  <1>3. m - 1 \in A
    BY <1>1, <1>2, SMT
  <1>4. m - 1 + 1 \in A
    BY <1>2, <1>3
  <1>5. m - 1 + 1 = m
    BY <1>1, SMT
  <1> QED BY <1>1, <1>4, <1>5

-----------------------------------------------------------------------------
(* One sequence out of many *)

(* f puts the first n sequences of s together, one after the other.        *)
JoinsTo(n, f, s) == \A i \in 1..n : f[i] = IF i = 1 THEN s[i] ELSE f[i - 1] \o s[i]

Joins(f, s) == f = [i \in 1..Len(s) |-> IF i = 1 THEN s[i] ELSE f[i - 1] \o s[i]]

(* One more of them. *)
LEMMA JoinMore ==
  ASSUME NEW X, NEW s \in Seq(Seq(X)), NEW n \in Nat, n + 1 <= Len(s),
         NEW f \in [1..n -> Seq(X)], JoinsTo(n, f, s)
  PROVE  \E g \in [1..(n + 1) -> Seq(X)] : JoinsTo(n + 1, g, s)
  <1> DEFINE last == IF n = 0 THEN s[n + 1] ELSE f[n] \o s[n + 1]
             g == [i \in 1..(n + 1) |-> IF i = n + 1 THEN last ELSE f[i]]
  <1>1. s[n + 1] \in Seq(X)
    OBVIOUS
  <1>2. n # 0 => f[n] \in Seq(X)
    OBVIOUS
  <1>3. last \in Seq(X)
    <2>1. n # 0 => f[n] \o s[n + 1] \in Seq(X)
      BY <1>1, <1>2
    <2> QED BY <1>1, <2>1
  <1>4. ASSUME NEW i \in 1..(n + 1)
        PROVE  g[i] \in Seq(X) /\ g[i] = IF i = 1 THEN s[i] ELSE g[i - 1] \o s[i]
    <2>1. CASE i = n + 1
      <3>1. g[i] = last /\ (i # 1 => g[i - 1] = f[n] /\ n # 0) /\ (i = 1 => n = 0)
        <4> HIDE DEF last
        <4> QED BY <2>1
      <3> HIDE DEF g
      <3> QED BY <1>3, <2>1, <3>1
    <2>2. CASE i # n + 1
      <3>1. i \in 1..n /\ g[i] = f[i] /\ (i # 1 => g[i - 1] = f[i - 1])
        BY <2>2
      <3> HIDE DEF g
      <3> QED BY <3>1 DEF JoinsTo
    <2> QED BY <2>1, <2>2
  <1>5. g \in [1..(n + 1) -> Seq(X)]
    <2> HIDE DEF last
    <2> QED BY <1>4
  <1> HIDE DEF g
  <1> QED BY <1>4, <1>5 DEF JoinsTo

(* There is a function that puts them all together ...                     *)
LEMMA JoinExists ==
  ASSUME NEW X, NEW s \in Seq(Seq(X))
  PROVE  \E f \in [1..Len(s) -> Seq(X)] : Joins(f, s)
  <1> DEFINE A == {n \in Nat : n <= Len(s) => \E f \in [1..n -> Seq(X)] : JoinsTo(n, f, s)}
  <1>1. 0 \in A
    <2>1. \E f \in [1..0 -> Seq(X)] : JoinsTo(0, f, s)
      <3> DEFINE f == [i \in 1..0 |-> <<>>]
      <3>1. f \in [1..0 -> Seq(X)] /\ JoinsTo(0, f, s)
        BY SMT DEF JoinsTo
      <3> HIDE DEF f
      <3> QED BY <3>1
    <2> QED BY <2>1
  <1>2. ASSUME NEW n \in Nat, n \in A PROVE n + 1 \in A
    <2>1. ASSUME n + 1 <= Len(s) PROVE \E f \in [1..(n + 1) -> Seq(X)] : JoinsTo(n + 1, f, s)
      <3>1. Len(s) \in Nat
        OBVIOUS
      <3>2. n <= Len(s)
        BY <2>1, <3>1
      <3>3. PICK f \in [1..n -> Seq(X)] : JoinsTo(n, f, s)
        BY <1>2, <3>2
      <3> QED BY <2>1, <3>3, JoinMore
    <2> QED BY <2>1
  <1> HIDE DEF A
  <1>3. Len(s) \in A
    BY <1>1, <1>2, Induct
  <1>4. PICK f \in [1..Len(s) -> Seq(X)] : JoinsTo(Len(s), f, s)
    BY <1>3 DEF A
  <1>5. f = [i \in 1..Len(s) |-> IF i = 1 THEN s[i] ELSE f[i - 1] \o s[i]]
    BY <1>4 DEF JoinsTo
  <1> QED BY <1>5 DEF Joins

(* t begins with s. *)
Begins(s, t) == Len(s) <= Len(t) /\ \A i \in 1..Len(s) : s[i] = t[i]

(* ... and one only, whose values on a first part need no more than that.  *)
LEMMA JoinUnique ==
  ASSUME NEW s, NEW t, NEW f, NEW g, Joins(f, s), Joins(g, t),
         Len(s) \in Nat, Len(t) \in Nat, Begins(s, t)
  PROVE  \A i \in 1..Len(s) : f[i] = g[i]
  <1> DEFINE n == Len(s)
             A == {k \in Nat : k \in 1..n => f[k] = g[k]}
  <1>1. 0 \in A
    OBVIOUS
  <1>2. ASSUME NEW k \in Nat, k \in A PROVE k + 1 \in A
    <2> SUFFICES ASSUME k + 1 \in 1..n PROVE f[k + 1] = g[k + 1]
      OBVIOUS
    <2>1. k + 1 \in 1..Len(s) /\ k + 1 \in 1..Len(t) /\ s[k + 1] = t[k + 1] /\ k + 1 - 1 = k
      BY DEF Begins
    <2>2. /\ f[k + 1] = IF k + 1 = 1 THEN s[k + 1] ELSE f[k] \o s[k + 1]
          /\ g[k + 1] = IF k + 1 = 1 THEN t[k + 1] ELSE g[k] \o t[k + 1]
      <3> DEFINE F(i) == IF i = 1 THEN s[i] ELSE f[i - 1] \o s[i]
                 G(i) == IF i = 1 THEN t[i] ELSE g[i - 1] \o t[i]
      <3>1. f = [i \in 1..Len(s) |-> F(i)] /\ g = [i \in 1..Len(t) |-> G(i)]
        BY DEF Joins
      <3>2. f[k + 1] = F(k + 1) /\ g[k + 1] = G(k + 1)
        <4> HIDE DEF F, G
        <4> QED BY <2>1, <3>1
      <3> QED BY <2>1, <3>2
    <2> QED BY <1>2, <2>1, <2>2
  <1> HIDE DEF A
  <1>3. Nat \subseteq A
    BY <1>1, <1>2, Induct
  <1> QED BY <1>3 DEF A

(* FlattenSeq is the last value of that function. *)
LEMMA FlatJoin ==
  ASSUME NEW X, NEW s \in Seq(Seq(X)), NEW f, Joins(f, s), s # <<>>
  PROVE  FlattenSeq(s) = f[Len(s)] /\ FlattenSeq(s) \in Seq(X)
  <1> DEFINE g == CHOOSE g : g = [i \in 1..Len(s) |-> IF i = 1 THEN s[i] ELSE g[i - 1] \o s[i]]
  <1>0. Len(s) \in Nat \ {0}
    OBVIOUS
  <1>1. PICK h \in [1..Len(s) -> Seq(X)] : Joins(h, s)
    BY JoinExists
  <1>2. Joins(g, s)
    BY <1>1 DEF Joins
  <1>3. FlattenSeq(s) = g[Len(s)]
    BY <1>0 DEF FlattenSeq
  <1> HIDE DEF g
  <1>4. g[Len(s)] = f[Len(s)] /\ g[Len(s)] = h[Len(s)]
    <2>1. Begins(s, s) /\ Len(s) \in 1..Len(s)
      BY <1>0 DEF Begins
    <2> QED BY <1>0, <1>1, <1>2, <2>1, JoinUnique
  <1>5. h[Len(s)] \in Seq(X)
    <2>1. Len(s) \in 1..Len(s)
      BY <1>0
    <2> QED BY <1>1, <2>1
  <1> QED BY <1>3, <1>4, <1>5

-----------------------------------------------------------------------------
(* The values of such a function. *)
LEMMA JoinAt ==
  ASSUME NEW f, NEW s, Joins(f, s), NEW i \in 1..Len(s)
  PROVE  f[i] = IF i = 1 THEN s[i] ELSE f[i - 1] \o s[i]
  <1> DEFINE F(j) == IF j = 1 THEN s[j] ELSE f[j - 1] \o s[j]
  <1>1. f = [j \in 1..Len(s) |-> F(j)]
    BY DEF Joins
  <1>2. f[i] = F(i)
    <2> HIDE DEF F
    <2> QED BY <1>1
  <1> QED BY <1>2

(* The next of them. *)
LEMMA JoinNext ==
  ASSUME NEW f, NEW s, Joins(f, s), NEW n \in Nat, n + 1 \in 1..Len(s)
  PROVE  f[n + 1] = IF n = 0 THEN s[n + 1] ELSE f[n] \o s[n + 1]
  <1> DEFINE i == n + 1
  <1>1. i - 1 = n /\ (i = 1 <=> n = 0) /\ i \in 1..Len(s)
    OBVIOUS
  <1> HIDE DEF i
  <1>2. f[i] = IF i = 1 THEN s[i] ELSE f[i - 1] \o s[i]
    BY <1>1, JoinAt
  <1>3. f[i] = IF n = 0 THEN s[i] ELSE f[n] \o s[i]
    BY <1>1, <1>2
  <1> QED BY <1>3 DEF i

(* What is in front stays there: u and w are what comes of v and a with b  *)
(* behind them.                                                            *)
Behind(X, h, a, b, u, v, w) ==
  h \in Seq(X) /\ a \in Seq(X) /\ b \in Seq(X) /\ v = h \o a /\ u = v \o b /\ w = a \o b

(* The parts are put together in either order.                             *)
LEMMA InFront ==
  ASSUME NEW X, NEW h, NEW a, NEW b, NEW u, NEW v, NEW w, Behind(X, h, a, b, u, v, w)
  PROVE  u = h \o w
  <1>1. (h \o a) \o b = h \o (a \o b)
    BY ConcatAssociative DEF Behind
  <1> QED BY <1>1 DEF Behind

(* What is put together is a sequence. *)
LEMMA FlatType ==
  ASSUME NEW X, NEW s \in Seq(Seq(X))
  PROVE  FlattenSeq(s) \in Seq(X) /\ (s = <<>> => FlattenSeq(s) = <<>>)
  <1>1. CASE s = <<>>
    BY <1>1 DEF FlattenSeq
  <1>2. CASE s # <<>>
    BY <1>2, JoinExists, FlatJoin
  <1> QED BY <1>1, <1>2

(* One sequence more at the end. *)
LEMMA FlatAppend ==
  ASSUME NEW X, NEW s \in Seq(Seq(X)), NEW x \in Seq(X)
  PROVE  FlattenSeq(Append(s, x)) = FlattenSeq(s) \o x
  <1> DEFINE t == Append(s, x)
  <1>1. /\ t \in Seq(Seq(X)) /\ t # <<>> /\ Len(s) \in Nat /\ Len(t) = Len(s) + 1
        /\ t[Len(s) + 1] = x /\ \A i \in 1..Len(s) : t[i] = s[i]
    BY AppendProperties
  <1> HIDE DEF t
  <1>2. PICK g : g \in [1..Len(t) -> Seq(X)] /\ Joins(g, t)
    BY <1>1, JoinExists
  <1>3. FlattenSeq(t) = g[Len(t)]
    BY <1>1, <1>2, FlatJoin
  <1>4. Len(t) \in 1..Len(t) /\ (Len(t) = 1 <=> Len(s) = 0) /\ Len(t) - 1 = Len(s)
    BY <1>1
  <1>5. g[Len(t)] = IF Len(s) = 0 THEN x ELSE g[Len(s)] \o x
    <2>1. Len(s) + 1 \in 1..Len(t)
      BY <1>1
    <2>2. g[Len(s) + 1] = IF Len(s) = 0 THEN t[Len(s) + 1] ELSE g[Len(s)] \o t[Len(s) + 1]
      BY <1>1, <1>2, <2>1, JoinNext
    <2> QED BY <1>1, <2>2
  <1>6. CASE s = <<>>
    <2>1. FlattenSeq(s) = <<>> /\ Len(s) = 0
      BY <1>6, FlatType
    <2>2. <<>> \o x = x
      BY ConcatEmptySeq
    <2> QED BY <1>3, <1>5, <2>1, <2>2 DEF t
  <1>7. CASE s # <<>>
    <2>1. Len(s) # 0 /\ Len(s) \in 1..Len(s)
      BY <1>1, <1>7, EmptySeq
    <2>2. PICK f : f \in [1..Len(s) -> Seq(X)] /\ Joins(f, s)
      BY JoinExists
    <2>3. FlattenSeq(s) = f[Len(s)]
      BY <1>7, <2>2, FlatJoin
    <2>4. f[Len(s)] = g[Len(s)]
      <3>1. Begins(s, t) /\ Len(t) \in Nat
        BY <1>1 DEF Begins
      <3>2. Joins(f, s) /\ Joins(g, t) /\ Len(s) \in Nat /\ Len(t) \in Nat /\ Begins(s, t)
        BY <1>1, <1>2, <2>2, <3>1
      <3>3. \A i \in 1..Len(s) : f[i] = g[i]
        BY <3>2, JoinUnique
      <3> QED BY <2>1, <3>3
    <2> QED BY <1>3, <1>5, <2>1, <2>3, <2>4 DEF t
  <1> QED BY <1>6, <1>7

(* The first sequence apart. *)
LEMMA FlatHead ==
  ASSUME NEW X, NEW s \in Seq(Seq(X)), s # <<>>
  PROVE  FlattenSeq(s) = Head(s) \o FlattenSeq(Tail(s))
  <1> DEFINE t == Tail(s)
             h == Head(s)
  <1>1. /\ t \in Seq(Seq(X)) /\ Len(s) \in Nat /\ Len(t) \in Nat /\ Len(s) = Len(t) + 1
        /\ h \in Seq(X) /\ s[1] = h /\ \A i \in 1..Len(t) : t[i] = s[i + 1]
    BY HeadTailProperties
  <1> HIDE DEF t, h
  <1>2. PICK f : f \in [1..Len(s) -> Seq(X)] /\ Joins(f, s)
    BY JoinExists
  <1>3. FlattenSeq(s) = f[Len(s)]
    BY <1>2, FlatJoin
  <1>4. f[1] = h
    <2>1. 1 \in 1..Len(s)
      BY <1>1
    <2> QED BY <1>1, <1>2, <2>1, JoinAt
  <1>5. CASE t = <<>>
    <2>1. FlattenSeq(t) = <<>>
      BY <1>1, <1>5, FlatType
    <2>0. Len(s) = 1
      BY <1>1, <1>5
    <2>2. h \o <<>> = h
      BY <1>1, ConcatEmptySeq
    <2> QED BY <1>3, <1>4, <2>0, <2>1, <2>2 DEF h, t
  <1>6. CASE t # <<>>
    <2>1. Len(t) # 0
      BY <1>1, <1>6, EmptySeq
    <2>2. PICK g : g \in [1..Len(t) -> Seq(X)] /\ Joins(g, t)
      BY <1>1, JoinExists
    <2>3. FlattenSeq(t) = g[Len(t)]
      BY <1>1, <1>6, <2>2, FlatJoin
    <2> DEFINE A == {n \in Nat : n \in 1..Len(t) => f[n + 1] = h \o g[n]}
    <2>4. 0 \in A
      OBVIOUS
    <2>5. ASSUME NEW n \in Nat, n \in A PROVE n + 1 \in A
      <3> SUFFICES ASSUME n + 1 \in 1..Len(t) PROVE f[n + 1 + 1] = h \o g[n + 1]
        OBVIOUS
      <3>1. n + 1 + 1 \in 1..Len(s) /\ n + 1 + 1 # 1 /\ n + 1 + 1 - 1 = n + 1 /\ n + 1 - 1 = n /\ (n + 1 = 1 <=> n = 0)
        BY <1>1
      <3>2. f[n + 1 + 1] = f[n + 1] \o s[n + 1 + 1]
        <4> DEFINE m == n + 1
        <4>1. m \in Nat /\ m + 1 \in 1..Len(s) /\ m # 0
          BY <3>1
        <4> HIDE DEF m
        <4>2. f[m + 1] = f[m] \o s[m + 1]
          BY <1>2, <4>1, JoinNext
        <4> QED BY <4>2 DEF m
      <3>3. g[n + 1] = IF n = 0 THEN t[n + 1] ELSE g[n] \o t[n + 1]
        BY <2>2, JoinNext
      <3>4. s[n + 1 + 1] = t[n + 1] /\ t[n + 1] \in Seq(X)
        BY <1>1
      <3>5. CASE n = 0
        <4>1. n + 1 = 1 /\ n + 1 + 1 = 2
          BY <3>5
        <4>2. f[n + 1 + 1] = h \o s[n + 1 + 1]
          BY <1>4, <3>2, <4>1
        <4> QED BY <3>3, <3>4, <3>5, <4>2
      <3>6. CASE n # 0
        <4>1. n \in 1..Len(t)
          BY <1>1, <3>6
        <4>2. f[n + 1] = h \o g[n] /\ g[n] \in Seq(X)
          BY <2>2, <2>5, <4>1
        <4>3. g[n + 1] = g[n] \o t[n + 1]
          BY <3>3, <3>6
        <4> DEFINE a == g[n]
                   b == t[n + 1]
                   u == f[n + 1 + 1]
                   v == f[n + 1]
                   w == g[n + 1]
        <4>4. Behind(X, h, a, b, u, v, w)
          BY <1>1, <3>2, <3>4, <4>2, <4>3 DEF Behind
        <4> HIDE DEF a, b, u, v, w
        <4>5. u = h \o w
          BY <4>4, InFront
        <4> QED BY <4>5 DEF u, w
      <3> QED BY <3>5, <3>6
    <2> HIDE DEF A
    <2>6. Nat \subseteq A
      BY <2>4, <2>5, Induct
    <2>7. Len(t) \in 1..Len(t)
      BY <1>1, <2>1
    <2>8. f[Len(t) + 1] = h \o g[Len(t)]
      BY <1>1, <2>6, <2>7 DEF A
    <2> QED BY <1>1, <1>3, <2>3, <2>8 DEF h, t
  <1> QED BY <1>5, <1>6

-----------------------------------------------------------------------------
(* Around the end of the ring *)

(* A position beyond the end, by less than a whole turn.                   *)
LEMMA Wrap ==
  ASSUME NEW a \in Int, 0 <= a, a < 2 * Size
  PROVE  a % Size = IF a < Size THEN a ELSE a - Size
  <1>0. Size \in Int /\ Size > 0
    BY Sizes
  <1>1. CASE a < Size
    BY <1>0, <1>1, SMT
  <1>2. CASE a >= Size
    <2> DEFINE q == a \div Size
               r == a % Size
    <2>1. q \in Int /\ r \in Int /\ 0 <= r /\ r < Size /\ a = Size * q + r
      BY <1>0, SMT
    <2> HIDE DEF q, r
    <2>2. q <= 0 => Size * q <= 0
      BY <1>0, <2>1, SMT
    <2>3. q >= 2 => Size * q >= Size * 2
      BY <1>0, <2>1, SMT
    <2>4. q = 1 => Size * q = Size
      BY <1>0
    <2>5. ~(q <= 0) /\ ~(q >= 2)
      <3>1. Size * q \in Int
        BY <1>0, <2>1
      <3> QED BY <1>0, <1>2, <2>1, <2>2, <2>3, <3>1
    <2>6. q = 1
      BY <2>1, <2>5
    <2>7. r = a - Size
      BY <1>0, <2>1, <2>4, <2>6
    <2>8. a % Size = a - Size
      BY <2>7 DEF r
    <2> HIDE DEF r
    <2> QED BY <1>0, <1>2, <2>8
  <1> QED BY <1>0, <1>1, <1>2

(* What is in use, full ring or not.                                       *)
LEMMA UseIs ==
  ASSUME NEW r \in Ring
  PROVE  getUseSize(r) = IF r.front <= r.rear THEN r.rear - r.front
                         ELSE Size + r.rear - r.front
  <1>1. /\ r.size = Size /\ r.front \in Int /\ r.rear \in Int
        /\ 0 <= r.front /\ r.front < Size /\ 0 <= r.rear /\ r.rear < Size
    BY RingFields
  <1>3. CASE isEmpty(r)
    <2>1. getUseSize(r) = 0 /\ r.front = r.rear
      BY <1>3, UseSize DEF isEmpty
    <2> QED BY <1>1, <2>1
  <1>4. CASE ~isEmpty(r) /\ isFull(r)
    BY <1>1, <1>4, Sizes DEF getUseSize, isFull
  <1>5. CASE ~isEmpty(r) /\ ~isFull(r)
    <2>1. getUseSize(r) = IF r.front < r.rear THEN r.rear - r.front
                          ELSE Size - (r.front - r.rear)
      BY <1>1, <1>5 DEF getUseSize
    <2>2. r.front # r.rear
      BY <1>5 DEF isEmpty
    <2> QED BY <1>1, <2>1, <2>2, Sizes
  <1> QED BY <1>3, <1>4, <1>5

(* What can be written without going around ends at the end of the buffer. *)
LEMMA DirectEnds ==
  ASSUME NEW r \in Ring
  PROVE  r.rear + getDirectWriteSize(r) <= Size
  <1>1. /\ r.size = Size /\ r.front \in Int /\ r.rear \in Int
        /\ 0 <= r.front /\ r.front < Size /\ 0 <= r.rear /\ r.rear < Size
    BY RingFields
  <1> DEFINE m == (r.rear + 1) % Size
  <1>2. m = IF r.rear + 1 < Size THEN r.rear + 1 ELSE r.rear + 1 - Size
    BY <1>1, Sizes, Wrap
  <1>3. m = (r.rear + 1) % r.size
    BY <1>1
  <1> HIDE DEF m
  <1>4. CASE isFull(r)
    <2>1. getDirectWriteSize(r) = 0
      BY <1>4 DEF getDirectWriteSize
    <2> QED BY <1>1, <2>1, Sizes
  <1>5. CASE ~isFull(r) /\ isEmpty(r)
    <2>1. getDirectWriteSize(r) = Size - r.rear
      BY <1>1, <1>5, Sizes DEF getDirectWriteSize, isEmpty
    <2> QED BY <1>1, <2>1, Sizes
  <1>6. CASE ~isFull(r) /\ ~isEmpty(r) /\ r.front < r.rear /\ r.front = 0
    <2>1. getDirectWriteSize(r) = Size - m
      BY <1>1, <1>3, <1>6 DEF getDirectWriteSize
    <2>2. r.rear # Size - 1
      BY <1>1, <1>6 DEF isFull
    <2> QED BY <1>1, <1>2, <2>1, <2>2, Sizes
  <1>7. CASE ~isFull(r) /\ ~isEmpty(r) /\ r.front < r.rear /\ r.front # 0
    BY <1>1, <1>7, Sizes DEF getDirectWriteSize
  <1>8. CASE ~isFull(r) /\ ~isEmpty(r) /\ ~(r.front < r.rear)
    <2>1. getDirectWriteSize(r) = (r.front - 1) - r.rear
      BY <1>1, <1>8 DEF getDirectWriteSize
    <2> QED BY <1>1, <2>1, Sizes
  <1> QED BY <1>4, <1>5, <1>6, <1>7, <1>8

(* Bytes at a place and those behind them.                                 *)
LEMMA BytesSplit ==
  ASSUME NEW r \in Ring, NEW from \in 0..(Size - 1), NEW m \in Nat, NEW k \in Nat, m + k <= Size
  PROVE  BytesAt(r, from, m + k) = BytesAt(r, from, m) \o BytesAt(r, (from + m) % Size, k)
  <1>0. r.size = Size /\ Size \in Int /\ Size > 0
    BY RingFields, Sizes
  <1> DEFINE at == (from + m) % Size
             a == BytesAt(r, from, m)
             b == BytesAt(r, at, k)
             c == BytesAt(r, from, m + k)
  <1>1. at = IF from + m < Size THEN from + m ELSE from + m - Size
    BY <1>0, Wrap
  <1> HIDE DEF at
  <1>2. a = [i \in 1..m |-> r.buffer[(from + i - 1) % Size]]
    BY <1>0 DEF BytesAt
  <1>3. b = [i \in 1..k |-> r.buffer[(at + i - 1) % Size]]
    BY <1>0 DEF BytesAt
  <1>4. c = [i \in 1..(m + k) |-> r.buffer[(from + i - 1) % Size]]
    BY <1>0 DEF BytesAt
  <1> HIDE DEF a, b, c
  <1>5. ASSUME NEW j \in 1..k
        PROVE  (at + j - 1) % Size = (from + (m + j) - 1) % Size
    <2> DEFINE u == at + j - 1
               v == from + (m + j) - 1
    <2>1. u \in Int /\ 0 <= u /\ u < 2 * Size /\ v \in Int /\ 0 <= v /\ v < 2 * Size
      BY <1>0, <1>1
    <2>2. u = v \/ (u = v - Size /\ u < Size /\ v >= Size)
      BY <1>0, <1>1
    <2> HIDE DEF u, v
    <2>3. u % Size = (IF u < Size THEN u ELSE u - Size) /\ v % Size = (IF v < Size THEN v ELSE v - Size)
      BY <2>1, Wrap
    <2>4. u % Size = v % Size
      BY <1>0, <2>1, <2>2, <2>3
    <2> QED BY <2>4 DEF u, v
  <1>6. a \in Seq(Byte) /\ Len(a) = m
    <2>1. ASSUME NEW i \in 1..m PROVE r.buffer[(from + i - 1) % Size] \in Byte
      <3>1. (from + i - 1) % Size \in 0..(Size - 1)
        BY <1>0, Remainder
      <3> QED BY <3>1, RingFields
    <2>2. a \in [1..m -> Byte]
      BY <1>2, <2>1
    <2> QED BY <2>2
  <1>7. b \in Seq(Byte) /\ Len(b) = k
    <2>1. ASSUME NEW i \in 1..k PROVE r.buffer[(at + i - 1) % Size] \in Byte
      <3>1. (at + i - 1) % Size \in 0..(Size - 1)
        BY <1>0, <1>1, Remainder
      <3> QED BY <3>1, RingFields
    <2>2. b \in [1..k -> Byte]
      BY <1>3, <2>1
    <2> QED BY <2>2
  <1>8. a \o b \in Seq(Byte) /\ Len(a \o b) = m + k
    BY <1>6, <1>7
  <1>9. c \in Seq(Byte) /\ Len(c) = m + k
    <2>1. ASSUME NEW i \in 1..(m + k) PROVE r.buffer[(from + i - 1) % Size] \in Byte
      <3>1. (from + i - 1) % Size \in 0..(Size - 1)
        BY <1>0, Remainder
      <3> QED BY <3>1, RingFields
    <2>2. c \in [1..(m + k) -> Byte]
      BY <1>4, <2>1
    <2> QED BY <2>2
  <1>10. ASSUME NEW i \in 1..(m + k) PROVE c[i] = (a \o b)[i]
    <2>1. CASE i <= m
      <3>1. i \in 1..m /\ (a \o b)[i] = a[i]
        BY <1>6, <1>7, <2>1
      <3> QED BY <1>2, <1>4, <3>1
    <2>2. CASE i > m
      <3> DEFINE j == i - m
      <3>1. j \in 1..k /\ i = m + j /\ (a \o b)[i] = b[j]
        BY <1>6, <1>7, <2>2
      <3> HIDE DEF j
      <3>2. c[i] = r.buffer[(from + (m + j) - 1) % Size]
        BY <1>4, <3>1
      <3>3. b[j] = r.buffer[(at + j - 1) % Size]
        BY <1>3, <3>1
      <3> QED BY <1>5, <3>1, <3>2, <3>3
    <2>3. i <= m \/ i > m
      OBVIOUS
    <2> QED BY <2>1, <2>2, <2>3
  <1>11. c = a \o b
    BY <1>8, <1>9, <1>10, SeqEqual
  <1> QED BY <1>11 DEF a, b, c, at

-----------------------------------------------------------------------------
(* The bytes in use *)

InUse(r) == BytesAt(r, r.front, getUseSize(r))

(* They are bytes.                                                         *)
LEMMA BytesAtType ==
  ASSUME NEW r \in Ring, NEW from \in Int, NEW n \in Nat
  PROVE  BytesAt(r, from, n) \in Seq(Byte) /\ Len(BytesAt(r, from, n)) = n
  <1>1. BytesAt(r, from, n) = [i \in 1..n |-> r.buffer[(from + i - 1) % Size]]
    BY RingFields DEF BytesAt
  <1>2. ASSUME NEW i \in 1..n PROVE r.buffer[(from + i - 1) % Size] \in Byte
    <2>1. (from + i - 1) % Size \in 0..(Size - 1)
      BY Sizes, Remainder
    <2> QED BY <2>1, RingFields
  <1>3. BytesAt(r, from, n) \in [1..n -> Byte]
    BY <1>1, <1>2
  <1> QED BY <1>3

(* Reading m of them leaves the others.                                    *)
LEMMA ReadSome ==
  ASSUME NEW r \in Ring, NEW m \in Nat, m <= getUseSize(r)
  PROVE  /\ getUseSize(dequeue(r, m)) = getUseSize(r) - m
         /\ InUse(r) = peek(r, m) \o InUse(dequeue(r, m))
  <1> DEFINE d == dequeue(r, m)
             use == getUseSize(r)
             at == (r.front + m) % Size
  <1>1. /\ r.size = Size /\ r.front \in Int /\ r.rear \in Int
        /\ 0 <= r.front /\ r.front < Size /\ 0 <= r.rear /\ r.rear < Size
    BY RingFields
  <1>2. use \in Int /\ 0 <= use /\ use < Size /\ m <= use
    BY UseSize, Sizes
  <1>3. use = IF r.front <= r.rear THEN r.rear - r.front ELSE Size + r.rear - r.front
    BY UseIs
  <1>4. d = [r EXCEPT !.front = at]
    BY PeekAll, <1>1 DEF dequeue, moveFrontPos
  <1>5. at = IF r.front + m < Size THEN r.front + m ELSE r.front + m - Size
    <2> DEFINE u == r.front + m
    <2>1. u \in Int /\ 0 <= u /\ u < 2 * Size
      BY <1>1, <1>2, Sizes
    <2>2. at = u % Size
      OBVIOUS
    <2> HIDE DEF u, at
    <2>3. u % Size = IF u < Size THEN u ELSE u - Size
      BY <2>1, Wrap
    <2>4. at = IF u < Size THEN u ELSE u - Size
      BY <2>2, <2>3
    <2>5. (u < Size => at = u) /\ (~(u < Size) => at = u - Size)
      BY <2>4
    <2> QED BY <1>1, <2>1, <2>5, Sizes DEF u
  <1> HIDE DEF use, at, d
  <1>6. at \in 0..(Size - 1)
    BY <1>1, <1>2, <1>5, Sizes
  <1>7. d \in Ring /\ d.front = at /\ d.rear = r.rear /\ d.buffer = r.buffer /\ d.size = Size
    BY <1>1, <1>4, <1>6 DEF Ring
  <1>8. getUseSize(d) = use - m
    <2>1. getUseSize(d) = IF at <= r.rear THEN r.rear - at ELSE Size + r.rear - at
      BY <1>7, UseIs
    <2> QED BY <1>1, <1>2, <1>3, <1>5, <2>1, Sizes
  <1>9. InUse(d) = BytesAt(r, at, use - m)
    BY <1>1, <1>7, <1>8 DEF InUse, BytesAt
  <1>10. peek(r, m) = BytesAt(r, r.front, m)
    BY PeekAll DEF peek
  <1>11. BytesAt(r, r.front, use) = BytesAt(r, r.front, m) \o BytesAt(r, at, use - m)
    <2> DEFINE k == use - m
    <2>1. r.front \in 0..(Size - 1) /\ k \in Nat /\ m + k <= Size /\ m + k = use
      BY <1>1, <1>2, Sizes
    <2> HIDE DEF k
    <2>2. BytesAt(r, r.front, m + k) = BytesAt(r, r.front, m) \o BytesAt(r, at, k)
      BY <2>1, BytesSplit DEF at
    <2> QED BY <2>1, <2>2 DEF k
  <1> QED BY <1>8, <1>9, <1>10, <1>11 DEF InUse, use, d

(* Bytes written behind them join them, unless they fill the buffer.       *)
LEMMA WriteSome ==
  ASSUME NEW r \in Ring, NEW bytes \in Seq(Byte),
         Len(bytes) <= getDirectWriteSize(r), getUseSize(r) + Len(bytes) < Size
  PROVE  /\ getUseSize(moveRearPos(CopyIn(r, bytes), Len(bytes))) = getUseSize(r) + Len(bytes)
         /\ InUse(moveRearPos(CopyIn(r, bytes), Len(bytes))) = InUse(r) \o bytes
  <1> DEFINE c == CopyIn(r, bytes)
             n == Len(bytes)
             d == moveRearPos(c, n)
             use == getUseSize(r)
             to == (r.rear + n) % Size
  <1>1. /\ r.size = Size /\ r.front \in Int /\ r.rear \in Int
        /\ 0 <= r.front /\ r.front < Size /\ 0 <= r.rear /\ r.rear < Size
    BY RingFields
  <1>2. use \in Int /\ 0 <= use /\ n \in Int /\ 0 <= n /\ use + n < Size /\ r.rear + n <= Size
    <2>1. n \in Int /\ 0 <= n
      OBVIOUS
    <2>2. use \in Int /\ 0 <= use
      BY UseSize, Sizes
    <2>3. getDirectWriteSize(r) \in Int
      BY DirectWrite, Sizes
    <2> HIDE DEF n, use
    <2>4. n <= getDirectWriteSize(r) /\ use + n < Size
      BY DEF n, use
    <2> QED BY <1>1, <2>1, <2>2, <2>3, <2>4, DirectEnds, Sizes
  <1>3. use = IF r.front <= r.rear THEN r.rear - r.front ELSE Size + r.rear - r.front
    BY UseIs
  <1>4. c \in Ring /\ c.front = r.front /\ c.rear = r.rear /\ c.size = Size
    BY <1>1, CopyType, SMTT(30) DEF CopyIn
  <1>5. ASSUME NEW p \in 0..(Size - 1)
        PROVE  c.buffer[p] = IF p - r.rear + 1 \in 1..n THEN bytes[p - r.rear + 1] ELSE r.buffer[p]
    <2>1. c = [r EXCEPT !.buffer = [q \in 0..(Size - 1) |->
                IF q - r.rear + 1 \in 1..n THEN bytes[q - r.rear + 1] ELSE r.buffer[q]]]
      BY <1>1 DEF CopyIn
    <2> DEFINE b == [q \in 0..(Size - 1) |->
                IF q - r.rear + 1 \in 1..n THEN bytes[q - r.rear + 1] ELSE r.buffer[q]]
    <2>2. b[p] = IF p - r.rear + 1 \in 1..n THEN bytes[p - r.rear + 1] ELSE r.buffer[p]
      OBVIOUS
    <2> HIDE DEF b
    <2>3. c.buffer = b
      <3>1. c = [r EXCEPT !.buffer = b]
        BY <2>1 DEF b
      <3> QED BY <3>1 DEF Ring
    <2> QED BY <2>2, <2>3
  <1>6. to = IF r.rear + n < Size THEN r.rear + n ELSE r.rear + n - Size
    <2> DEFINE u == r.rear + n
    <2>1. u \in Int /\ 0 <= u /\ u < 2 * Size
      BY <1>1, <1>2, Sizes
    <2>2. to = u % Size
      OBVIOUS
    <2> HIDE DEF u, to
    <2>3. u % Size = IF u < Size THEN u ELSE u - Size
      BY <2>1, Wrap
    <2>4. to = IF u < Size THEN u ELSE u - Size
      BY <2>2, <2>3
    <2>5. (u < Size => to = u) /\ (~(u < Size) => to = u - Size)
      BY <2>4
    <2> QED BY <1>1, <2>1, <2>5, Sizes DEF u
  <1>7. d = [c EXCEPT !.rear = to]
    BY <1>4 DEF moveRearPos
  <1> HIDE DEF use, to, n, d, c
  <1>8. to \in 0..(Size - 1)
    BY <1>1, <1>2, <1>6, Sizes
  <1>9. d \in Ring /\ d.front = r.front /\ d.rear = to /\ d.buffer = c.buffer /\ d.size = Size
    BY <1>4, <1>7, <1>8 DEF Ring
  <1>10. getUseSize(d) = use + n
    <2>1. getUseSize(d) = IF r.front <= to THEN to - r.front ELSE Size + to - r.front
      BY <1>9, UseIs
    <2>2. Size \in Int
      BY Sizes
    <2>3. CASE r.front <= r.rear
      <3>1. use = r.rear - r.front
        BY <1>3, <2>3
      <3>2. CASE r.rear + n < Size
        BY <1>1, <1>2, <1>6, <2>1, <2>2, <3>1, <3>2, SMTT(30)
      <3>3. CASE r.rear + n = Size
        BY <1>1, <1>2, <1>6, <2>1, <2>2, <3>1, <3>3, SMTT(30)
      <3> QED BY <1>1, <1>2, <2>2, <3>2, <3>3
    <2>4. CASE r.front > r.rear
      <3>1. use = Size + r.rear - r.front
        BY <1>1, <1>3, <2>4
      <3>2. to = r.rear + n /\ to < r.front
        BY <1>1, <1>2, <1>6, <2>2, <2>4, <3>1, SMTT(30)
      <3> QED BY <1>1, <1>2, <2>1, <2>2, <3>1, <3>2
    <2> QED BY <1>1, <2>3, <2>4
  <1>11. InUse(d) = BytesAt(d, r.front, use + n)
    BY <1>9, <1>10 DEF InUse
  <1>12. BytesAt(d, r.front, use + n)
           = BytesAt(d, r.front, use) \o BytesAt(d, (r.front + use) % Size, n)
    <2>1. r.front \in 0..(Size - 1) /\ use \in Nat /\ n \in Nat /\ use + n <= Size
      BY <1>1, <1>2, Sizes
    <2> QED BY <1>9, <2>1, BytesSplit
  <1>13. (r.front + use) % Size = r.rear
    <2>1. r.front + use \in Int /\ 0 <= r.front + use /\ r.front + use < 2 * Size
      BY <1>1, <1>2, Sizes
    <2> DEFINE u == r.front + use
    <2>2. u % Size = IF u < Size THEN u ELSE u - Size
      BY <2>1, Wrap
    <2>3. u = r.rear \/ u = r.rear + Size
      BY <1>1, <1>2, <1>3, Sizes
    <2> HIDE DEF u
    <2>4. u % Size = r.rear
      BY <1>1, <2>2, <2>3, Sizes
    <2> QED BY <2>4 DEF u
  <1>14. BytesAt(d, r.front, use) = InUse(r)
    <2>1. ASSUME NEW i \in 1..use
          PROVE  d.buffer[(r.front + i - 1) % Size] = r.buffer[(r.front + i - 1) % Size]
      <3> DEFINE u == r.front + i - 1
                 p == u % Size
      <3>1. u \in Int /\ 0 <= u /\ u < 2 * Size
        BY <1>1, <1>2, Sizes
      <3>2. p = IF u < Size THEN u ELSE u - Size
        <4> HIDE DEF u
        <4> QED BY <3>1, Wrap
      <3>3. u = r.front + i - 1 /\ i \in Int /\ 1 <= i /\ i <= use
        BY <1>2
      <3> HIDE DEF u, p
      <3>4. p \in 0..(Size - 1) /\ p - r.rear + 1 \notin 1..n
        <4>1. Size \in Int /\ p \in Int /\ 0 <= p /\ p < Size
          BY <3>1, <3>2, Sizes
        <4>2. p < r.rear \/ p >= r.rear + n
          <5>1. CASE r.front <= r.rear
            <6>1. use = r.rear - r.front
              BY <1>3, <5>1
            <6>2. u < r.rear
              BY <1>1, <3>3, <6>1
            <6> QED BY <1>1, <3>1, <3>2, <4>1, <6>2
          <5>2. CASE r.front > r.rear
            <6>1. use = Size + r.rear - r.front
              BY <1>1, <1>3, <5>2
            <6>2. u >= r.front /\ u < Size + r.rear /\ r.rear + n < r.front
              BY <1>1, <1>2, <3>3, <4>1, <6>1, SMTT(30)
            <6> QED BY <1>1, <1>2, <3>1, <3>2, <4>1, <6>2
          <5> QED BY <1>1, <5>1, <5>2
        <4> QED BY <1>1, <1>2, <4>1, <4>2
      <3>5. c.buffer[p] = r.buffer[p]
        BY <1>5, <3>4
      <3> QED BY <1>9, <3>5 DEF p, u
    <2>2. BytesAt(d, r.front, use) = [i \in 1..use |-> d.buffer[(r.front + i - 1) % Size]]
      BY <1>9 DEF BytesAt
    <2>3. InUse(r) = [i \in 1..use |-> r.buffer[(r.front + i - 1) % Size]]
      BY <1>1 DEF InUse, BytesAt, use
    <2> QED BY <2>1, <2>2, <2>3
  <1>15. BytesAt(d, r.rear, n) = bytes
    <2>1. ASSUME NEW i \in 1..n PROVE d.buffer[(r.rear + i - 1) % Size] = bytes[i]
      <3> DEFINE u == r.rear + i - 1
                 p == u % Size
      <3>1. u \in Int /\ 0 <= u /\ u < Size /\ u < 2 * Size
        BY <1>1, <1>2, Sizes
      <3>2. p = u
        <4> HIDE DEF u
        <4> QED BY <3>1, Wrap
      <3>3. p \in 0..(Size - 1) /\ p - r.rear + 1 = i
        BY <1>1, <3>1, <3>2, Sizes
      <3> HIDE DEF u, p
      <3>5. c.buffer[p] = bytes[i]
        BY <1>5, <3>3
      <3> QED BY <1>9, <3>5 DEF p, u
    <2>2. BytesAt(d, r.rear, n) = [i \in 1..n |-> d.buffer[(r.rear + i - 1) % Size]]
      BY <1>9 DEF BytesAt
    <2>3. bytes = [i \in 1..n |-> bytes[i]]
      BY DEF n
    <2> QED BY <2>1, <2>2, <2>3
  <1>16. InUse(d) = InUse(r) \o bytes
    BY <1>11, <1>12, <1>13, <1>14, <1>15
  <1> QED BY <1>10, <1>16 DEF d, c, n, use

-----------------------------------------------------------------------------
(* What is in front *)

SameCut(X, a, b, c, d) ==
  /\ a \in Seq(X) /\ b \in Seq(X) /\ c \in Seq(X) /\ d \in Seq(X)
  /\ Len(a) = Len(c) /\ a \o b = c \o d

(* Two ways to cut a sequence at one place give the same parts.            *)
LEMMA Cut ==
  ASSUME NEW X, NEW a, NEW b, NEW c, NEW d, SameCut(X, a, b, c, d)
  PROVE  a = c /\ b = d
  <1>1. /\ a \in Seq(X) /\ b \in Seq(X) /\ c \in Seq(X) /\ d \in Seq(X)
        /\ Len(a) = Len(c) /\ a \o b = c \o d
    BY DEF SameCut
  <1> DEFINE u == a \o b
  <1>2. /\ \A i \in 1..Len(a) : u[i] = a[i]
        /\ \A i \in 1..Len(b) : u[Len(a) + i] = b[i]
        /\ Len(u) = Len(a) + Len(b)
    <2>1. Len(a) \in Nat /\ Len(b) \in Nat
      BY <1>1
    <2>2. \A i \in 1..Len(a) : u[i] = a[i]
      BY <1>1, <2>1
    <2>3. \A i \in 1..Len(b) : u[Len(a) + i] = b[i]
      BY <1>1, <2>1
    <2>4. Len(u) = Len(a) + Len(b)
      BY <1>1, SMTT(30)
    <2> QED BY <2>2, <2>3, <2>4
  <1>3. /\ \A i \in 1..Len(c) : u[i] = c[i]
        /\ \A i \in 1..Len(d) : u[Len(c) + i] = d[i]
        /\ Len(u) = Len(c) + Len(d)
    <2> DEFINE v == c \o d
    <2>1. /\ \A i \in 1..Len(c) : v[i] = c[i]
          /\ \A i \in 1..Len(d) : v[Len(c) + i] = d[i]
          /\ Len(v) = Len(c) + Len(d)
      BY <1>1
    <2>2. u = v
      BY <1>1
    <2> HIDE DEF u, v
    <2> QED BY <2>1, <2>2
  <1> HIDE DEF u
  <1>4. Len(b) = Len(d)
    BY <1>1, <1>2, <1>3
  <1>5. a = c
    BY <1>1, <1>2, <1>3, SeqEqual
  <1>6. b = d
    <2>1. \A i \in 1..Len(b) : b[i] = d[i]
      BY <1>1, <1>2, <1>3, <1>4
    <2> QED BY <1>1, <1>4, <2>1, SeqEqual
  <1> QED BY <1>5, <1>6

(* What is in use and on the wire starts with a: peek finds a, and what is *)
(* left after it is read comes next.                                       *)
LEMMA FrontIs ==
  ASSUME NEW r \in Ring, NEW a \in Seq(Byte), NEW b \in Seq(Byte), NEW w \in Seq(Byte),
         Len(a) <= getUseSize(r), InUse(r) \o w = a \o b
  PROVE  peek(r, Len(a)) = a /\ InUse(dequeue(r, Len(a))) \o w = b
  <1> DEFINE m == Len(a)
             p == peek(r, m)
             d == dequeue(r, m)
             q == InUse(d)
  <1>1. m \in Nat /\ m <= getUseSize(r)
    OBVIOUS
  <1> HIDE DEF m
  <1>2. p \in Seq(Byte) /\ Len(p) = m
    BY <1>1, PeekType
  <1>3. d \in Ring
    BY <1>1, PeekAll, MoveType DEF dequeue
  <1>4. q \in Seq(Byte)
    BY <1>3, UseSize, RingFields, BytesAtType, Sizes DEF InUse
  <1>5. InUse(r) = p \o q
    BY <1>1, ReadSome
  <1> HIDE DEF p, q, d
  <1>6. (p \o q) \o w = p \o (q \o w) /\ q \o w \in Seq(Byte)
    <2>1. p \in Seq(Byte) /\ q \in Seq(Byte) /\ w \in Seq(Byte)
      BY <1>2, <1>4
    <2>2. (p \o q) \o w = p \o (q \o w)
      BY <2>1, ConcatAssociative, SMTT(30)
    <2>3. q \o w \in Seq(Byte)
      BY <2>1
    <2> QED BY <2>2, <2>3
  <1>7. SameCut(Byte, p, q \o w, a, b)
    BY <1>2, <1>5, <1>6 DEF SameCut, m
  <1>8. p = a /\ q \o w = b
    BY <1>7, Cut
  <1> QED BY <1>8 DEF p, q, d, m

-----------------------------------------------------------------------------
(* A header is read as it was written *)

Shorts == (-((Base * Base) \div 2))..((Base * Base) \div 2 - 1)

(* Its two bytes make the number again.                                    *)
LEMMA ShortBytes ==
  ASSUME NEW x \in Shorts
  PROVE  Bytes(x) \in Seq(Byte) /\ Len(Bytes(x)) = 2 /\ Short(Bytes(x)) = x
  <1> DEFINE B == Base * Base
             H == B \div 2
             n == x % B
             q == n \div Base
             r == n % Base
  <1>1. B \in Int /\ B > 0
    BY Sizes, SMT
  <1> HIDE DEF B
  <1>2. H \in Int /\ 2 * H <= B /\ 0 <= H /\ H < B
    BY <1>1, SMT
  <1>3. x \in Int /\ -H <= x /\ x < H
    BY <1>2 DEF Shorts, B
  <1> HIDE DEF H
  <1>4. n = IF x >= 0 THEN x ELSE x + B
    <2>1. CASE x >= 0
      BY <1>1, <1>2, <1>3, <2>1, SMT
    <2>2. CASE x < 0
      BY <1>1, <1>2, <1>3, <2>2, SMT
    <2> QED BY <1>3, <2>1, <2>2
  <1> HIDE DEF n
  <1>5. n \in Int /\ 0 <= n
    BY <1>1, <1>2, <1>3, <1>4
  <1>6. q \in Int /\ r \in Int /\ n = Base * q + r
    BY <1>5, Sizes, SMT
  <1>7. Bytes(x) = <<r, q>>
    BY DEF Bytes, n, B
  <1> HIDE DEF q, r
  <1>8. Short(<<r, q>>) = IF n >= H THEN n - B ELSE n
    <2>1. <<r, q>>[1] = r /\ <<r, q>>[2] = q
      OBVIOUS
    <2>2. r + Base * q = n
      <3>1. Base * q \in Int
        BY <1>6, Sizes
      <3> QED BY <1>6, <3>1
    <2> QED BY <2>1, <2>2 DEF Short, H, B
  <1>9. Short(<<r, q>>) = x
    BY <1>1, <1>2, <1>3, <1>4, <1>8
  <1>10. Bytes(x) \in Seq(Byte)
    BY <1>3, BytesType
  <1>11. Len(<<r, q>>) = 2
    OBVIOUS
  <1> QED BY <1>7, <1>9, <1>10, <1>11

(* A size and the headers no packet has are shorts.                        *)
LEMMA Headers ==
  /\ BadHeaders \subseteq Shorts
  /\ \A h \in BadHeaders : h < 0 \/ h > MAX_PACKET_SIZE
  /\ \A p \in Payloads : Len(p) \in Shorts /\ Len(p) \in Nat /\ Len(p) <= MAX_PACKET_SIZE
  <1> DEFINE H == (Base * Base) \div 2
  <1>1. H \in Int
    BY Sizes, SMT
  <1>2. MAX_PACKET_SIZE < H
    BY FramingAssumption
  <1>3. Shorts = (-H)..(H - 1)
    BY DEF Shorts
  <1>4. BadHeaders \subseteq Shorts
    BY FramingAssumption DEF Shorts
  <1> HIDE DEF H
  <1>5. ASSUME NEW p \in Payloads
        PROVE  Len(p) \in Shorts /\ Len(p) \in Nat /\ Len(p) <= MAX_PACKET_SIZE
    <2>1. p \in Seq(Byte) /\ Len(p) <= MAX_PACKET_SIZE
      BY FramingAssumption
    <2>2. Len(p) \in Nat
      BY <2>1
    <2> QED BY <1>1, <1>2, <1>3, <2>1, <2>2, Sizes
  <1> QED BY <1>4, <1>5, FramingAssumption

(* The header at the front is the one the peer wrote there.                *)
LEMMA HeaderIs ==
  ASSUME ring \in Ring, wire \in Seq(Byte), HasHeader, NEW x \in Shorts, NEW b \in Seq(Byte),
         InUse(ring) \o wire = Bytes(x) \o b
  PROVE  header = x
  <1> DEFINE a == Bytes(x)
  <1>1. a \in Seq(Byte) /\ Len(a) = 2 /\ Short(a) = x
    BY ShortBytes
  <1> HIDE DEF a
  <1>2. Len(a) <= getUseSize(ring)
    BY <1>1, UseSize, Sizes DEF HasHeader
  <1>3. InUse(ring) \o wire = a \o b
    BY DEF a
  <1>4. peek(ring, Len(a)) = a
    BY <1>1, <1>2, <1>3, FrontIs
  <1> QED BY <1>1, <1>4, Sizes DEF header

-----------------------------------------------------------------------------
(* The packets still to come *)

Packets(s, k) == [i \in 1..(Len(s) - k) |-> Packet(s[k + i])]

Ends(tail, b) ==
  IF b THEN \E h \in BadHeaders : \E more \in Seq(Byte) : tail = Bytes(h) \o more
  ELSE tail = <<>>

(* all holds the packets of s from the k-th on, and behind them nothing or *)
(* a header no packet has and more.                                        *)
Following(all, s, k, b) ==
  \E tail \in Seq(Byte) : all = FlattenSeq(Packets(s, k)) \o tail /\ Ends(tail, b)

(* They are sequences of bytes.                                            *)
LEMMA PacketsType ==
  ASSUME NEW s \in Seq(Payloads), NEW k \in 0..Len(s)
  PROVE  /\ Packets(s, k) \in Seq(Seq(Byte)) /\ Len(Packets(s, k)) = Len(s) - k
         /\ \A i \in 1..(Len(s) - k) : Packets(s, k)[i] = Packet(s[k + i])
         /\ FlattenSeq(Packets(s, k)) \in Seq(Byte)
  <1> DEFINE n == Len(s) - k
             q == Packets(s, k)
  <1>1. n \in Nat /\ Len(s) \in Nat /\ k \in Nat
    OBVIOUS
  <1>2. ASSUME NEW i \in 1..n PROVE Packet(s[k + i]) \in Seq(Byte)
    <2>1. k + i \in 1..Len(s)
      BY <1>1
    <2>2. s[k + i] \in Payloads
      BY <2>1
    <2> QED BY <2>2, PacketType
  <1>3. q = [i \in 1..n |-> Packet(s[k + i])]
    BY DEF Packets
  <1> HIDE DEF n, q
  <1>4. q \in [1..n -> Seq(Byte)]
    BY <1>2, <1>3
  <1>5. q \in Seq(Seq(Byte)) /\ Len(q) = n
    BY <1>1, <1>4
  <1>6. FlattenSeq(q) \in Seq(Byte)
    BY <1>5, FlatType
  <1> QED BY <1>3, <1>5, <1>6 DEF q, n

(* One more is sent.                                                       *)
LEMMA PacketsMore ==
  ASSUME NEW s \in Seq(Payloads), NEW k \in 0..Len(s), NEW p \in Payloads
  PROVE  Packets(Append(s, p), k) = Append(Packets(s, k), Packet(p))
  <1> DEFINE t == Append(s, p)
             n == Len(s) - k
             q == Packets(s, k)
             z == Packets(t, k)
             y == Append(q, Packet(p))
  <1>1. /\ t \in Seq(Payloads) /\ Len(s) \in Nat /\ Len(t) = Len(s) + 1 /\ t[Len(s) + 1] = p
        /\ \A i \in 1..Len(s) : t[i] = s[i]
    BY AppendProperties
  <1>2. n \in Nat /\ k \in Nat /\ k + n = Len(s) /\ k \in 0..Len(t) /\ Len(t) - k = n + 1
    BY <1>1
  <1>3. /\ q \in Seq(Seq(Byte)) /\ Len(q) = n /\ \A i \in 1..n : q[i] = Packet(s[k + i])
    BY PacketsType
  <1> HIDE DEF t
  <1>4. /\ z \in Seq(Seq(Byte)) /\ Len(z) = n + 1
        /\ \A i \in 1..(n + 1) : z[i] = Packet(t[k + i])
    <2>1. /\ z \in Seq(Seq(Byte)) /\ Len(z) = Len(t) - k
          /\ \A i \in 1..(Len(t) - k) : z[i] = Packet(t[k + i])
      BY <1>1, <1>2, PacketsType
    <2> QED BY <1>2, <2>1
  <1> HIDE DEF n, q, z
  <1>5. Packet(p) \in Seq(Byte)
    BY PacketType
  <1>6. /\ y \in Seq(Seq(Byte)) /\ Len(y) = n + 1 /\ y[n + 1] = Packet(p)
        /\ \A i \in 1..n : y[i] = q[i]
    BY <1>3, <1>5, AppendProperties
  <1> HIDE DEF y
  <1>7. ASSUME NEW i \in 1..(n + 1) PROVE z[i] = y[i]
    <2>1. CASE i = n + 1
      <3>1. k + i = Len(s) + 1
        BY <1>1, <1>2, <2>1
      <3> QED BY <1>1, <1>4, <1>6, <2>1, <3>1
    <2>2. CASE i # n + 1
      <3>1. i \in 1..n /\ k + i \in 1..Len(s)
        BY <1>1, <1>2, <2>2
      <3> QED BY <1>1, <1>3, <1>4, <1>6, <3>1
    <2> QED BY <2>1, <2>2
  <1>8. z = y
    <2>1. Len(z) = Len(y) /\ \A i \in 1..Len(z) : z[i] = y[i]
      BY <1>4, <1>6, <1>7
    <2> QED BY <1>4, <1>6, <2>1, SeqEqual
  <1> QED BY <1>8 DEF z, y, q, t

(* The first is received.                                                  *)
LEMMA PacketsLess ==
  ASSUME NEW s \in Seq(Payloads), NEW k \in 0..Len(s), k # Len(s)
  PROVE  /\ Packets(s, k) # <<>> /\ Head(Packets(s, k)) = Packet(s[k + 1])
         /\ Tail(Packets(s, k)) = Packets(s, k + 1)
  <1> DEFINE n == Len(s) - k
             q == Packets(s, k)
             z == Packets(s, k + 1)
             y == Tail(q)
  <1>1. n \in Nat /\ n # 0 /\ k \in Nat /\ k + 1 \in 0..Len(s) /\ Len(s) - (k + 1) = n - 1
        /\ Len(s) \in Nat
    OBVIOUS
  <1>2. /\ q \in Seq(Seq(Byte)) /\ Len(q) = n /\ \A i \in 1..n : q[i] = Packet(s[k + i])
    BY PacketsType
  <1>3. /\ z \in Seq(Seq(Byte)) /\ Len(z) = n - 1
        /\ \A i \in 1..(n - 1) : z[i] = Packet(s[k + 1 + i])
    <2>1. /\ z \in Seq(Seq(Byte)) /\ Len(z) = Len(s) - (k + 1)
          /\ \A i \in 1..(Len(s) - (k + 1)) : z[i] = Packet(s[k + 1 + i])
      BY <1>1, PacketsType
    <2> QED BY <1>1, <2>1
  <1> HIDE DEF n, q, z
  <1>4. q # <<>>
    BY <1>1, <1>2
  <1>5. Head(q) = q[1] /\ y \in Seq(Seq(Byte)) /\ Len(y) = n - 1 /\ \A i \in 1..(n - 1) : y[i] = q[i + 1]
    BY <1>1, <1>2, <1>4, HeadTailProperties
  <1> HIDE DEF y
  <1>6. Head(q) = Packet(s[k + 1])
    BY <1>1, <1>2, <1>5
  <1>7. ASSUME NEW i \in 1..(n - 1) PROVE y[i] = z[i]
    <2>1. i + 1 \in 1..n /\ k + (i + 1) = k + 1 + i
      BY <1>1
    <2>2. q[i + 1] = Packet(s[k + (i + 1)])
      BY <1>2, <2>1
    <2> QED BY <1>3, <1>5, <2>1, <2>2
  <1>8. y = z
    <2>1. Len(y) = Len(z) /\ \A i \in 1..Len(y) : y[i] = z[i]
      BY <1>3, <1>5, <1>7
    <2> QED BY <1>3, <1>5, <2>1, SeqEqual
  <1> QED BY <1>4, <1>6, <1>8 DEF q, y, z

(* A packet sent comes behind the others ...                               *)
LEMMA FollowPacket ==
  ASSUME NEW s \in Seq(Payloads), NEW k \in 0..Len(s), NEW p \in Payloads, NEW all,
         Following(all, s, k, FALSE)
  PROVE  Following(all \o Packet(p), Append(s, p), k, FALSE)
  <1> DEFINE f == FlattenSeq(Packets(s, k))
             x == Packet(p)
             g == FlattenSeq(Packets(Append(s, p), k))
  <1>1. f \in Seq(Byte) /\ Packets(s, k) \in Seq(Seq(Byte))
    BY PacketsType
  <1>2. x \in Seq(Byte)
    BY PacketType
  <1>3. g = f \o x
    <2>1. FlattenSeq(Append(Packets(s, k), x)) = f \o x
      BY <1>1, <1>2, FlatAppend
    <2> QED BY <2>1, PacketsMore
  <1> HIDE DEF f, x, g
  <1>4. all = f \o <<>>
    BY DEF Following, Ends, f
  <1>5. all \o x = g \o <<>>
    <2>1. f \o <<>> = f /\ f \o x \in Seq(Byte)
      BY <1>1, <1>2, ConcatEmptySeq
    <2>2. g \o <<>> = g
      BY <1>3, <2>1, ConcatEmptySeq
    <2> QED BY <1>3, <1>4, <2>1, <2>2
  <1>6. <<>> \in Seq(Byte) /\ Ends(<<>>, FALSE)
    BY DEF Ends
  <1>7. \E tail \in Seq(Byte) : all \o x = g \o tail /\ Ends(tail, FALSE)
    BY <1>5, <1>6
  <1> QED BY <1>7 DEF Following, g, x

(* ... and so does a header that no packet has ...                         *)
LEMMA FollowBad ==
  ASSUME NEW s \in Seq(Payloads), NEW k \in 0..Len(s), NEW h \in BadHeaders, NEW all,
         Following(all, s, k, FALSE)
  PROVE  Following(all \o Bytes(h), s, k, TRUE)
  <1> DEFINE f == FlattenSeq(Packets(s, k))
             x == Bytes(h)
  <1>1. f \in Seq(Byte)
    BY PacketsType
  <1>2. x \in Seq(Byte)
    BY Headers, ShortBytes
  <1>3. all = f \o <<>>
    BY DEF Following, Ends
  <1>4. f \o <<>> = f
    BY <1>1, ConcatEmptySeq
  <1>5. x = Bytes(h) \o <<>>
    BY <1>2, ConcatEmptySeq
  <1>6. Ends(x, TRUE)
    <2>1. <<>> \in Seq(Byte)
      OBVIOUS
    <2> HIDE DEF x
    <2> QED BY <1>5, <2>1 DEF Ends
  <1>7. \E tail \in Seq(Byte) : all \o x = f \o tail /\ Ends(tail, TRUE)
    BY <1>2, <1>3, <1>4, <1>6
  <1> QED BY <1>7 DEF Following

(* ... and whatever comes behind that.                                     *)
LEMMA FollowMore ==
  ASSUME NEW s \in Seq(Payloads), NEW k \in 0..Len(s), NEW x \in Seq(Byte), NEW all,
         Following(all, s, k, TRUE)
  PROVE  Following(all \o x, s, k, TRUE)
  <1> DEFINE f == FlattenSeq(Packets(s, k))
  <1>1. f \in Seq(Byte)
    BY PacketsType
  <1>2. PICK tail : tail \in Seq(Byte) /\ all = f \o tail /\ Ends(tail, TRUE)
    BY DEF Following
  <1>3. PICK h, more : h \in BadHeaders /\ more \in Seq(Byte) /\ tail = Bytes(h) \o more
    BY <1>2 DEF Ends
  <1> DEFINE b == Bytes(h)
  <1>4. b \in Seq(Byte)
    BY <1>3, Headers, ShortBytes
  <1> HIDE DEF f
  <1>5. all \o x = f \o (tail \o x) /\ tail \o x \in Seq(Byte)
    <2>1. tail \in Seq(Byte) /\ all = f \o tail
      BY <1>2
    <2>2. (f \o tail) \o x = f \o (tail \o x)
      BY <1>1, <2>1, ConcatAssociative
    <2>3. tail \o x \in Seq(Byte)
      BY <2>1
    <2> QED BY <2>1, <2>2, <2>3
  <1>6. tail \o x = b \o (more \o x) /\ more \o x \in Seq(Byte)
    <2>1. more \in Seq(Byte) /\ tail = b \o more
      BY <1>3
    <2> HIDE DEF b
    <2>2. (b \o more) \o x = b \o (more \o x)
      BY <1>4, <2>1, ConcatAssociative
    <2>3. more \o x \in Seq(Byte)
      BY <2>1
    <2> QED BY <2>1, <2>2, <2>3
  <1>7. Ends(tail \o x, TRUE)
    BY <1>3, <1>6 DEF Ends
  <1>8. \E rest \in Seq(Byte) : all \o x = f \o rest /\ Ends(rest, TRUE)
    BY <1>5, <1>7
  <1> QED BY <1>8 DEF Following, f

(* The first of them comes first.                                          *)
LEMMA FirstPacket ==
  ASSUME NEW s \in Seq(Payloads), NEW k \in 0..Len(s), k # Len(s), NEW b, NEW all,
         Following(all, s, k, b)
  PROVE  \E rest : rest \in Seq(Byte) /\ all = Packet(s[k + 1]) \o rest /\ Following(rest, s, k + 1, b)
  <1> DEFINE f == FlattenSeq(Packets(s, k))
             g == FlattenSeq(Packets(s, k + 1))
             x == Packet(s[k + 1])
  <1>1. PICK tail : tail \in Seq(Byte) /\ all = f \o tail /\ Ends(tail, b)
    BY DEF Following
  <1>2. x \in Seq(Byte)
    <2>1. k + 1 \in 1..Len(s)
      OBVIOUS
    <2>2. s[k + 1] \in Payloads
      BY <2>1
    <2> QED BY <2>2, PacketType
  <1>3. g \in Seq(Byte)
    <2>1. k + 1 \in 0..Len(s)
      OBVIOUS
    <2> QED BY <2>1, PacketsType
  <1>4. f = x \o g
    <2>1. Packets(s, k) \in Seq(Seq(Byte))
      BY PacketsType
    <2> DEFINE q == Packets(s, k)
    <2>2. q # <<>> /\ Head(q) = x /\ Tail(q) = Packets(s, k + 1)
      BY PacketsLess
    <2>3. f = Head(q) \o FlattenSeq(Tail(q))
      BY <2>1, <2>2, FlatHead
    <2> QED BY <2>2, <2>3
  <1> HIDE DEF f, g, x
  <1>5. (x \o g) \o tail = x \o (g \o tail) /\ g \o tail \in Seq(Byte)
    <2>1. tail \in Seq(Byte)
      BY <1>1
    <2>2. (x \o g) \o tail = x \o (g \o tail)
      BY <1>2, <1>3, <2>1, ConcatAssociative, SMTT(30)
    <2>3. g \o tail \in Seq(Byte)
      BY <1>3, <2>1
    <2> QED BY <2>2, <2>3
  <1>6. Following(g \o tail, s, k + 1, b)
    BY <1>1 DEF Following, g
  <1>7. all = x \o (g \o tail)
    BY <1>1, <1>4, <1>5
  <1> QED BY <1>5, <1>6, <1>7 DEF x

(* After the last there is nothing, or a header that no packet has.        *)
LEMMA NoPacket ==
  ASSUME NEW s \in Seq(Payloads), NEW b, NEW all, Following(all, s, Len(s), b)
  PROVE  Ends(all, b)
  <1>1. PICK tail : tail \in Seq(Byte) /\ all = FlattenSeq(Packets(s, Len(s))) \o tail /\ Ends(tail, b)
    BY DEF Following
  <1>2. FlattenSeq(Packets(s, Len(s))) = <<>>
    <2>1. Len(s) \in 0..Len(s) /\ Len(s) - Len(s) = 0
      OBVIOUS
    <2> DEFINE q == Packets(s, Len(s))
    <2>2. q \in Seq(Seq(Byte)) /\ Len(q) = 0
      BY <2>1, PacketsType
    <2> HIDE DEF q
    <2>3. q = <<>>
      BY <2>2
    <2>4. FlattenSeq(q) = <<>>
      BY <2>2, <2>3, FlatType
    <2> QED BY <2>4 DEF q
  <1>3. <<>> \o tail = tail
    BY <1>1, ConcatEmptySeq
  <1> QED BY <1>1, <1>2, <1>3

-----------------------------------------------------------------------------
(* Every byte has its place *)

Fits == getUseSize(ring) + Len(wire) <= Window

Posted == pc = "recv" => /\ posted = getDirectWriteSize(ring)
                         /\ HasHeader => ~IsBad /\ ~IsWhole

FirstOnes == /\ Len(received) <= Len(sent)
             /\ \A i \in 1..Len(received) : received[i] = sent[i]

RestComes == Following(Content \o wire, sent, Len(received), bad)

Whole == TypeOK /\ Fits /\ Posted /\ FirstOnes /\ RestComes /\ ClosedForCause

(* The types, taken apart.                                                 *)
LEMMA Parts ==
  ASSUME TypeOK, FirstOnes
  PROVE  /\ ring \in Ring /\ wire \in Seq(Byte) /\ sent \in Seq(Payloads)
         /\ received \in Seq(Seq(Byte)) /\ bad \in BOOLEAN
         /\ Len(wire) \in Nat /\ Len(sent) \in Nat /\ Len(received) \in Nat
         /\ Len(received) \in 0..Len(sent) /\ getUseSize(ring) \in Nat
         /\ Content = InUse(ring) /\ Content \in Seq(Byte) /\ Len(Content) = getUseSize(ring)
  <1>1. /\ ring \in Ring /\ wire \in Seq(Byte) /\ sent \in Seq(Payloads)
        /\ received \in Seq(Seq(Byte)) /\ bad \in BOOLEAN
    BY DEF TypeOK, Ring
  <1>2. Len(wire) \in Nat /\ Len(sent) \in Nat /\ Len(received) \in Nat
    BY <1>1
  <1>3. Len(received) \in 0..Len(sent)
    BY <1>2 DEF FirstOnes
  <1>4. getUseSize(ring) \in Nat
    BY <1>1, UseSize, Sizes
  <1>5. Content = InUse(ring)
    BY DEF Content, InUse
  <1>6. InUse(ring) \in Seq(Byte) /\ Len(InUse(ring)) = getUseSize(ring)
    <2>1. ring.front \in Int
      BY <1>1, RingFields
    <2> QED BY <1>1, <1>4, <2>1, BytesAtType DEF InUse
  <1> QED BY <1>1, <1>2, <1>3, <1>4, <1>5, <1>6

(* The header at the front is that of the next packet, or one that no      *)
(* packet has, behind all of them.                                         *)
LEMMA NextHeader ==
  ASSUME TypeOK, FirstOnes, RestComes, HasHeader
  PROVE  /\ Len(received) # Len(sent) => header = Len(sent[Len(received) + 1]) /\ ~IsBad
         /\ Len(received) = Len(sent) => bad /\ IsBad
  <1> DEFINE k == Len(received)
             all == InUse(ring) \o wire
  <1>1. /\ ring \in Ring /\ wire \in Seq(Byte) /\ sent \in Seq(Payloads) /\ k \in 0..Len(sent)
        /\ bad \in BOOLEAN /\ Content = InUse(ring) /\ Content \in Seq(Byte)
        /\ Len(Content) = getUseSize(ring)
    BY Parts
  <1>2. Following(all, sent, k, bad)
    BY <1>1 DEF RestComes
  <1>3. CASE k # Len(sent)
    <2> DEFINE p == sent[k + 1]
               n == Len(p)
    <2>1. PICK rest : rest \in Seq(Byte) /\ all = Packet(p) \o rest
      <3> HIDE DEF all, k
      <3>1. \E rest : /\ rest \in Seq(Byte) /\ all = Packet(sent[k + 1]) \o rest
                      /\ Following(rest, sent, k + 1, bad)
        BY <1>1, <1>2, <1>3, FirstPacket
      <3> QED BY <3>1
    <2>2. p \in Payloads
      <3>1. k + 1 \in 1..Len(sent)
        BY <1>1, <1>3
      <3> QED BY <1>1, <3>1
    <2> HIDE DEF p
    <2>3. p \in Seq(Byte) /\ n \in Shorts /\ n \in Nat /\ n <= MAX_PACKET_SIZE
      BY <2>2, Headers, FramingAssumption
    <2>4. Bytes(n) \in Seq(Byte)
      BY <2>3, ShortBytes
    <2> DEFINE b == Bytes(n)
               m == p \o rest
    <2>5. m \in Seq(Byte) /\ all = b \o m
      <3> HIDE DEF b, all
      <3>0. p \in Seq(Byte) /\ rest \in Seq(Byte) /\ b \in Seq(Byte)
        BY <2>1, <2>3, <2>4 DEF b
      <3>1. (b \o p) \o rest = b \o (p \o rest)
        BY <3>0, ConcatAssociative
      <3>2. p \o rest \in Seq(Byte)
        BY <3>0
      <3>3. all = (b \o p) \o rest
        BY <2>1 DEF b, Packet
      <3> QED BY <3>1, <3>2, <3>3
    <2> HIDE DEF n, m
    <2>6. header = n
      BY <1>1, <2>3, <2>5, HeaderIs
    <2>7. ~IsBad
      BY <2>3, <2>6, Sizes DEF IsBad
    <2> QED BY <1>3, <2>6, <2>7 DEF n, p
  <1>4. CASE k = Len(sent)
    <2>1. Ends(all, bad)
      <3> HIDE DEF all
      <3>1. Following(all, sent, Len(sent), bad)
        BY <1>2, <1>4
      <3> QED BY <1>1, <3>1, NoPacket
    <2>2. bad
      <3> SUFFICES ASSUME ~bad PROVE FALSE
        OBVIOUS
      <3>1. all = <<>>
        BY <2>1 DEF Ends
      <3>2. Content \in Seq(Byte) /\ wire \in Seq(Byte) /\ Content \o wire = <<>>
        BY <1>1, <3>1
      <3>3. Content = <<>>
        BY <3>2, ConcatEqualIffEmpty
      <3>4. Len(Content) = 0
        BY <3>3
      <3>5. Len(Content) >= 2
        BY <1>1, Sizes DEF HasHeader
      <3> QED BY <3>4, <3>5
    <2>3. PICK h, more : h \in BadHeaders /\ more \in Seq(Byte) /\ all = Bytes(h) \o more
      BY <2>1, <2>2 DEF Ends
    <2>4. h \in Shorts /\ (h < 0 \/ h > MAX_PACKET_SIZE)
      BY <2>3, Headers
    <2>5. header = h
      BY <1>1, <2>3, <2>4, HeaderIs
    <2>6. IsBad
      BY <2>4, <2>5 DEF IsBad
    <2> QED BY <1>4, <2>2, <2>6
  <1> QED BY <1>3, <1>4

(* When all that was sent is in the ring and there is no bad header, a     *)
(* packet not yet received is whole.                                       *)
LEMMA AllThere ==
  ASSUME TypeOK, FirstOnes, RestComes, wire = <<>>, ~bad, HasHeader => ~IsBad /\ ~IsWhole
  PROVE  Len(received) = Len(sent)
  <1> SUFFICES ASSUME Len(received) # Len(sent) PROVE FALSE
    OBVIOUS
  <1> DEFINE k == Len(received)
             all == InUse(ring) \o wire
             p == sent[k + 1]
             n == Len(p)
  <1>1. /\ ring \in Ring /\ wire \in Seq(Byte) /\ sent \in Seq(Payloads) /\ k \in 0..Len(sent)
        /\ Content = InUse(ring) /\ Content \in Seq(Byte) /\ Len(Content) = getUseSize(ring)
    BY Parts
  <1>2. Following(all, sent, k, bad)
    BY <1>1 DEF RestComes
  <1>3. PICK rest : rest \in Seq(Byte) /\ all = Packet(p) \o rest
    <2> HIDE DEF all, k
    <2>1. k # Len(sent)
      BY DEF k
    <2>2. \E rest : /\ rest \in Seq(Byte) /\ all = Packet(sent[k + 1]) \o rest
                    /\ Following(rest, sent, k + 1, bad)
      BY <1>1, <1>2, <2>1, FirstPacket
    <2> QED BY <2>2
  <1>4. p \in Payloads
    <2>1. k + 1 \in 1..Len(sent)
      BY <1>1
    <2> QED BY <1>1, <2>1
  <1> HIDE DEF p
  <1>5. p \in Seq(Byte) /\ n \in Shorts /\ n \in Nat
    BY <1>4, Headers, FramingAssumption
  <1>6. Bytes(n) \in Seq(Byte) /\ Len(Bytes(n)) = 2
    BY <1>5, ShortBytes
  <1>7. Len(Packet(p)) = n + 2 /\ Packet(p) \in Seq(Byte)
    <2> DEFINE b == Bytes(n)
    <2>1. b \in Seq(Byte) /\ Len(b) = 2 /\ p \in Seq(Byte) /\ Packet(p) = b \o p
      BY <1>5, <1>6 DEF Packet
    <2> HIDE DEF b
    <2>2. b \o p \in Seq(Byte) /\ Len(b \o p) = Len(b) + Len(p)
      BY <2>1, ConcatProperties
    <2> QED BY <1>5, <2>1, <2>2
  <1>8. Len(all) >= n + 2
    BY <1>3, <1>5, <1>7
  <1>9. all = Content
    BY <1>1, ConcatEmptySeq
  <1> HIDE DEF all
  <1>10. getUseSize(ring) >= n + 2
    BY <1>1, <1>8, <1>9
  <1>11. HasHeader
    BY <1>1, <1>5, <1>10, Sizes, UseSize DEF HasHeader
  <1>12. header = n
    BY <1>11, NextHeader DEF p
  <1>13. IsWhole
    <2>1. n + 2 <= getUseSize(ring)
      BY <1>5, <1>10, <1>1, UseSize, Sizes
    <2> QED BY <1>12, <2>1, Sizes DEF IsWhole
  <1> QED BY <1>11, <1>13

-----------------------------------------------------------------------------
(* Every step keeps it *)

(* At first there is nothing.                                              *)
LEMMA InitWhole == Init => Whole
  <1> SUFFICES ASSUME Init PROVE Whole
    OBVIOUS
  <1>1. TypeOK
    BY InitType
  <1>2. /\ wire = <<>> /\ sent = <<>> /\ received = <<>> /\ bad = FALSE /\ pc = "recv"
        /\ posted = getDirectWriteSize(ring)
    BY DEF Init
  <1>3. getUseSize(ring) = 0
    BY DEF Init, NewRing, getUseSize, isEmpty, isFull
  <1>4. Fits
    BY <1>2, <1>3, FramingAssumption DEF Fits
  <1>5. Posted
    BY <1>2, <1>3, Sizes DEF Posted, HasHeader
  <1>6. FirstOnes
    BY <1>2 DEF FirstOnes
  <1>7. RestComes
    <2>1. Content \in Seq(Byte) /\ Len(Content) = 0
      BY <1>1, <1>3, <1>6, Parts
    <2>2. Content = <<>>
      BY <2>1
    <2>3. Content \o wire = <<>>
      BY <1>2, <2>2
    <2> DEFINE q == Packets(sent, Len(received))
    <2>4. q \in Seq(Seq(Byte)) /\ Len(q) = 0
      <3>1. sent \in Seq(Payloads) /\ Len(received) \in 0..Len(sent) /\ Len(sent) - Len(received) = 0
        BY <1>2
      <3> QED BY <3>1, PacketsType
    <2> HIDE DEF q
    <2>5. FlattenSeq(q) = <<>>
      <3>1. q = <<>>
        BY <2>4
      <3> QED BY <2>4, <3>1, FlatType
    <2>6. <<>> = <<>> \o <<>> /\ <<>> \in Seq(Byte) /\ Ends(<<>>, bad)
      BY <1>2 DEF Ends
    <2>7. \E tail \in Seq(Byte) : Content \o wire = FlattenSeq(q) \o tail /\ Ends(tail, bad)
      BY <2>3, <2>5, <2>6
    <2> QED BY <2>7 DEF RestComes, Following, q
  <1>8. ClosedForCause
    BY <1>2 DEF ClosedForCause
  <1> QED BY <1>1, <1>4, <1>5, <1>6, <1>7, <1>8 DEF Whole

(* What depends on the ring and on what is posted stays as they do.        *)
LEMMA SameRing ==
  ASSUME Posted, UNCHANGED <<ring, posted, pc>>
  PROVE  Posted' /\ Content' = Content /\ getUseSize(ring)' = getUseSize(ring)
  BY DEF Posted, Content, HasHeader, IsBad, IsWhole, header

(* Packets go on the wire ...                                              *)
LEMMA SendWhole ==
  ASSUME Whole, TypeOK', NEW p \in Payloads, PeerSend(p) PROVE Whole'
  <1> DEFINE k == Len(received)
             all == Content \o wire
             x == Packet(p)
  <1>1. TypeOK /\ Fits /\ Posted /\ FirstOnes /\ RestComes /\ ClosedForCause
    BY DEF Whole
  <1>2. /\ ~gone /\ getUseSize(ring) + Len(wire) + Len(x) <= Window
        /\ wire' = wire \o x /\ sent' = IF bad THEN sent ELSE Append(sent, p)
        /\ UNCHANGED <<ring, posted, pc, gone, bad, received>>
    BY DEF PeerSend
  <1>3. /\ ring \in Ring /\ wire \in Seq(Byte) /\ sent \in Seq(Payloads)
        /\ received \in Seq(Seq(Byte)) /\ bad \in BOOLEAN
        /\ Len(wire) \in Nat /\ Len(sent) \in Nat /\ Len(received) \in Nat
        /\ k \in 0..Len(sent) /\ getUseSize(ring) \in Nat /\ Content \in Seq(Byte)
    BY <1>1, Parts
  <1>4. x \in Seq(Byte)
    BY PacketType
  <1>5. Posted' /\ Content' = Content /\ getUseSize(ring)' = getUseSize(ring)
    BY <1>1, <1>2, SameRing
  <1> HIDE DEF x
  <1>6. Fits'
    <2>1. Len(wire') = Len(wire) + Len(x) /\ Len(x) \in Nat
      BY <1>2, <1>3, <1>4
    <2>2. Fits' <=> getUseSize(ring)' + Len(wire') <= Window
      BY DEF Fits
    <2> QED BY <1>2, <1>3, <1>5, <2>1, <2>2, FramingAssumption
  <1>7. Content' \o wire' = all \o x
    <2>1. Content \in Seq(Byte) /\ wire \in Seq(Byte)
      BY <1>3
    <2>2. (Content \o wire) \o x = Content \o (wire \o x)
      BY <1>4, <2>1, ConcatAssociative
    <2> QED BY <1>2, <1>5, <2>2
  <1>8. FirstOnes' /\ RestComes'
    <2>1. CASE bad
      <3>1. sent' = sent /\ received' = received /\ bad' = bad /\ bad = TRUE
        BY <1>2, <1>3, <2>1
      <3>2. FirstOnes'
        BY <1>1, <3>1 DEF FirstOnes
      <3>3. Following(all, sent, k, TRUE)
        BY <1>1, <3>1 DEF RestComes
      <3> HIDE DEF all, k
      <3>4. Following(all \o x, sent, k, TRUE)
        BY <1>3, <1>4, <3>3, FollowMore
      <3> QED BY <1>7, <3>1, <3>2, <3>4 DEF RestComes, k
    <2>2. CASE ~bad
      <3>1. sent' = Append(sent, p) /\ received' = received /\ bad' = bad /\ bad = FALSE
        BY <1>2, <1>3, <2>2
      <3>2. FirstOnes'
        <4>1. Len(sent') = Len(sent) + 1 /\ \A i \in 1..Len(sent) : sent'[i] = sent[i]
          BY <1>3, <3>1, AppendProperties
        <4> QED BY <1>1, <1>3, <3>1, <4>1 DEF FirstOnes
      <3>3. Following(all, sent, k, FALSE)
        BY <1>1, <3>1 DEF RestComes
      <3> HIDE DEF all, k
      <3>4. Following(all \o x, Append(sent, p), k, FALSE)
        BY <1>3, <3>3, FollowPacket DEF x
      <3> QED BY <1>7, <3>1, <3>2, <3>4 DEF RestComes, k
    <2> QED BY <2>1, <2>2
  <1>9. ClosedForCause'
    BY <1>1, <1>2 DEF ClosedForCause
  <1> QED BY <1>5, <1>6, <1>8, <1>9 DEF Whole

(* ... and so does a header that no packet has.                            *)
LEMMA SendBadWhole ==
  ASSUME Whole, TypeOK', NEW h \in BadHeaders, PeerSendBad(h) PROVE Whole'
  <1> DEFINE k == Len(received)
             all == Content \o wire
             x == Bytes(h)
  <1>1. TypeOK /\ Fits /\ Posted /\ FirstOnes /\ RestComes /\ ClosedForCause
    BY DEF Whole
  <1>2. /\ bad = FALSE /\ getUseSize(ring) + Len(wire) + 2 <= Window
        /\ wire' = wire \o x /\ bad' = TRUE
        /\ UNCHANGED <<ring, posted, pc, gone, sent, received>>
    <2>1. bad \in BOOLEAN
      BY <1>1, Parts
    <2> QED BY <2>1, Sizes DEF PeerSendBad
  <1>3. /\ ring \in Ring /\ wire \in Seq(Byte) /\ sent \in Seq(Payloads)
        /\ received \in Seq(Seq(Byte)) /\ Len(wire) \in Nat
        /\ k \in 0..Len(sent) /\ getUseSize(ring) \in Nat /\ Content \in Seq(Byte)
    BY <1>1, Parts
  <1>4. x \in Seq(Byte) /\ Len(x) = 2
    BY Headers, ShortBytes
  <1>5. Posted' /\ Content' = Content /\ getUseSize(ring)' = getUseSize(ring)
    BY <1>1, <1>2, SameRing
  <1> HIDE DEF x
  <1>6. Fits'
    <2>1. Len(wire') = Len(wire) + 2
      <3>1. wire \in Seq(Byte) /\ x \in Seq(Byte)
        BY <1>3, <1>4
      <3>2. Len(wire \o x) = Len(wire) + Len(x)
        BY <3>1, ConcatProperties
      <3> QED BY <1>2, <1>4, <3>2
    <2>2. Fits' <=> getUseSize(ring)' + Len(wire') <= Window
      BY DEF Fits
    <2> QED BY <1>2, <1>3, <1>5, <2>1, <2>2, FramingAssumption
  <1>7. Content' \o wire' = all \o x
    <2>1. Content \in Seq(Byte) /\ wire \in Seq(Byte)
      BY <1>3
    <2>2. (Content \o wire) \o x = Content \o (wire \o x)
      BY <1>4, <2>1, ConcatAssociative
    <2> QED BY <1>2, <1>5, <2>2
  <1>8. FirstOnes'
    BY <1>1, <1>2 DEF FirstOnes
  <1>9. RestComes'
    <2>1. Following(all, sent, k, FALSE)
      BY <1>1, <1>2 DEF RestComes
    <2> HIDE DEF all, k
    <2>2. Following(all \o x, sent, k, TRUE)
      BY <1>3, <2>1, FollowBad DEF x
    <2> QED BY <1>2, <1>7, <2>2 DEF RestComes, k
  <1>10. ClosedForCause'
    BY <1>2 DEF ClosedForCause
  <1> QED BY <1>5, <1>6, <1>8, <1>9, <1>10 DEF Whole

(* What arrives goes from the wire into the ring.                          *)
LEMMA RecvWhole ==
  ASSUME Window < Size, Whole, TypeOK', NEW n \in 1..Len(wire), RecvDone(n) PROVE Whole'
  <1> DEFINE bytes == SubSeq(wire, 1, n)
             rest == SubSeq(wire, n + 1, Len(wire))
  <1>1. TypeOK /\ Fits /\ Posted /\ FirstOnes /\ RestComes /\ ClosedForCause
    BY DEF Whole
  <1>2. /\ ring \in Ring /\ wire \in Seq(Byte) /\ Len(wire) \in Nat
        /\ getUseSize(ring) \in Nat /\ Content \in Seq(Byte) /\ Content = InUse(ring)
    BY <1>1, Parts
  <1>3. n \in Nat /\ 1 <= n /\ n <= Len(wire)
    BY <1>2
  <1>4. /\ bytes \in Seq(Byte) /\ Len(bytes) = n
        /\ rest \in Seq(Byte) /\ Len(rest) = Len(wire) - n
        /\ wire = bytes \o rest
    <2>1. \A i \in 1..Len(wire) : wire[i] \in Byte
      BY <1>2
    <2>2. /\ bytes \in Seq(Byte) /\ Len(bytes) = n /\ \A i \in 1..n : bytes[i] = wire[i]
      <3>1. \A i \in 1..n : wire[i] \in Byte
        BY <1>2, <1>3, <2>1
      <3>2. /\ bytes \in Seq(Byte) /\ Len(bytes) = (IF 1 <= n THEN n - 1 + 1 ELSE 0)
            /\ \A i \in 1..(n - 1 + 1) : bytes[i] = wire[1 + i - 1]
        BY <1>3, <3>1, SubSeqProperties
      <3>3. n - 1 + 1 = n /\ \A i \in 1..n : 1 + i - 1 = i
        BY <1>3
      <3> HIDE DEF bytes
      <3> QED BY <1>3, <3>2, <3>3
    <2>3. /\ rest \in Seq(Byte) /\ Len(rest) = Len(wire) - n
          /\ \A i \in 1..(Len(wire) - n) : rest[i] = wire[n + i]
      <3>1. \A i \in (n + 1)..Len(wire) : wire[i] \in Byte
        BY <1>2, <1>3, <2>1
      <3>2. /\ rest \in Seq(Byte)
            /\ Len(rest) = (IF n + 1 <= Len(wire) THEN Len(wire) - (n + 1) + 1 ELSE 0)
            /\ \A i \in 1..(Len(wire) - (n + 1) + 1) : rest[i] = wire[n + 1 + i - 1]
        <4> DEFINE m == n + 1
        <4>1. m \in Int /\ Len(wire) \in Int
          BY <1>2, <1>3
        <4> HIDE DEF m
        <4>2. /\ SubSeq(wire, m, Len(wire)) \in Seq(Byte)
              /\ Len(SubSeq(wire, m, Len(wire))) = (IF m <= Len(wire) THEN Len(wire) - m + 1 ELSE 0)
              /\ \A i \in 1..(Len(wire) - m + 1) : SubSeq(wire, m, Len(wire))[i] = wire[m + i - 1]
          BY <3>1, <4>1, SubSeqProperties DEF m
        <4> QED BY <4>2 DEF m
      <3>3. /\ Len(wire) - (n + 1) + 1 = Len(wire) - n
            /\ \A i \in 1..(Len(wire) - n) : n + 1 + i - 1 = n + i
        BY <1>2, <1>3
      <3> HIDE DEF rest
      <3> QED BY <1>2, <1>3, <3>2, <3>3
    <2> HIDE DEF bytes, rest
    <2>4. wire = bytes \o rest
      <3> DEFINE z == bytes \o rest
      <3>1. /\ z \in Seq(Byte) /\ Len(z) = Len(wire)
            /\ \A i \in 1..Len(wire) : z[i] = IF i <= n THEN bytes[i] ELSE rest[i - n]
        <4>1. bytes \in Seq(Byte) /\ rest \in Seq(Byte)
          BY <2>2, <2>3
        <4>2. /\ z \in Seq(Byte) /\ Len(z) = Len(bytes) + Len(rest)
              /\ \A i \in 1..(Len(bytes) + Len(rest)) :
                   z[i] = IF i <= Len(bytes) THEN bytes[i] ELSE rest[i - Len(bytes)]
          BY <4>1, ConcatProperties
        <4>3. Len(bytes) = n /\ Len(bytes) + Len(rest) = Len(wire)
          BY <1>2, <1>3, <2>2, <2>3
        <4> HIDE DEF z
        <4> QED BY <4>2, <4>3
      <3> HIDE DEF z
      <3>2. ASSUME NEW i \in 1..Len(wire) PROVE wire[i] = z[i]
        <4>1. CASE i <= n
          <5>1. i \in 1..n
            BY <1>3, <4>1
          <5> QED BY <2>2, <3>1, <4>1, <5>1
        <4>2. CASE i > n
          <5>1. i - n \in 1..(Len(wire) - n) /\ n + (i - n) = i /\ ~(i <= n)
            BY <1>2, <1>3, <4>2
          <5>2. rest[i - n] = wire[n + (i - n)]
            BY <2>3, <5>1
          <5> QED BY <3>1, <5>1, <5>2
        <4> QED BY <1>3, <4>1, <4>2
      <3> QED BY <1>2, <3>1, <3>2, SeqEqual DEF z
    <2> QED BY <2>2, <2>3, <2>4
  <1>5. /\ pc = "recv" /\ n <= posted /\ ring' = moveRearPos(CopyIn(ring, bytes), n)
        /\ wire' = rest /\ pc' = "frame" /\ UNCHANGED <<posted, gone, sent, bad, received>>
    BY DEF RecvDone
  <1> HIDE DEF bytes, rest
  <1>6. /\ getUseSize(ring') = getUseSize(ring) + n
        /\ InUse(ring') = InUse(ring) \o bytes
    <2>1. n <= getDirectWriteSize(ring)
      BY <1>1, <1>5 DEF Posted
    <2>2. getUseSize(ring) + n < Size
      BY <1>1, <1>2, <1>3, FramingAssumption DEF Fits
    <2>3. /\ getUseSize(moveRearPos(CopyIn(ring, bytes), Len(bytes))) = getUseSize(ring) + Len(bytes)
          /\ InUse(moveRearPos(CopyIn(ring, bytes), Len(bytes))) = InUse(ring) \o bytes
      BY <1>2, <1>4, <2>1, <2>2, WriteSome
    <2> QED BY <1>4, <1>5, <2>3
  <1>7. Fits'
    <2>1. Fits' <=> getUseSize(ring') + Len(wire') <= Window
      BY DEF Fits
    <2> QED BY <1>1, <1>2, <1>3, <1>4, <1>5, <1>6, <2>1 DEF Fits
  <1>8. RestComes'
    <2>1. Content' = InUse(ring')
      BY DEF Content, InUse
    <2>2. Content \in Seq(Byte) /\ bytes \in Seq(Byte) /\ rest \in Seq(Byte)
      BY <1>2, <1>4
    <2>3. (Content \o bytes) \o rest = Content \o (bytes \o rest)
      BY <2>2, ConcatAssociative
    <2>4. Content' \o wire' = Content \o wire
      BY <1>2, <1>4, <1>5, <1>6, <2>1, <2>3
    <2> QED BY <1>1, <1>5, <2>4 DEF RestComes
  <1>9. FirstOnes' /\ Posted' /\ ClosedForCause'
    BY <1>1, <1>5 DEF FirstOnes, Posted, ClosedForCause
  <1> QED BY <1>7, <1>8, <1>9 DEF Whole

-----------------------------------------------------------------------------
(* A completion of nothing comes when the peer has left and all it sent    *)
(* has been received.                                                      *)
LEMMA NothingWhole ==
  ASSUME Whole, TypeOK', RecvHasRoom, RecvNothing PROVE Whole'
  <1>1. TypeOK /\ Fits /\ Posted /\ FirstOnes /\ RestComes /\ ClosedForCause
    BY DEF Whole
  <1>2. /\ pc = "recv" /\ (posted = 0 \/ (gone /\ wire = <<>>)) /\ pc' = "closing"
        /\ UNCHANGED <<ring, posted, gone, wire, sent, bad, received>>
    BY DEF RecvNothing
  <1>3. gone /\ wire = <<>>
    BY <1>2 DEF RecvHasRoom
  <1>4. ~bad => received = sent
    <2> SUFFICES ASSUME ~bad PROVE received = sent
      OBVIOUS
    <2>1. HasHeader => ~IsBad /\ ~IsWhole
      BY <1>1, <1>2 DEF Posted
    <2>2. Len(received) = Len(sent)
      BY <1>1, <1>3, <2>1, AllThere
    <2>3. received \in Seq(Seq(Byte)) /\ sent \in Seq(Payloads) /\ Payloads \subseteq Seq(Byte)
      BY <1>1, Parts, FramingAssumption
    <2>4. sent \in Seq(Seq(Byte))
      BY <2>3
    <2>5. \A i \in 1..Len(received) : received[i] = sent[i]
      BY <1>1 DEF FirstOnes
    <2> QED BY <2>2, <2>3, <2>4, <2>5, SeqEqual
  <1>5. ClosedForCause'
    BY <1>2, <1>3, <1>4 DEF ClosedForCause
  <1>6. Fits' /\ FirstOnes' /\ RestComes' /\ Posted'
    BY <1>1, <1>2 DEF Fits, FirstOnes, RestComes, Posted, Content
  <1> QED BY <1>5, <1>6 DEF Whole

(* onRecv is given the next packet, and no byte of another one.            *)
LEMMA DeliverWhole ==
  ASSUME Whole, TypeOK', Deliver PROVE Whole'
  <1> DEFINE k == Len(received)
             all == InUse(ring) \o wire
             p == sent[k + 1]
             x == Packet(p)
  <1>1. TypeOK /\ Fits /\ Posted /\ FirstOnes /\ RestComes /\ ClosedForCause
    BY DEF Whole
  <1>2. /\ HasHeader /\ ~IsBad /\ IsWhole /\ pc = "frame"
        /\ received' = Append(received, Tail(Tail(peek(ring, header + 2))))
        /\ ring' = dequeue(ring, header + 2)
        /\ UNCHANGED <<posted, pc, gone, wire, sent, bad>>
    BY Sizes DEF Deliver
  <1>3. /\ ring \in Ring /\ wire \in Seq(Byte) /\ sent \in Seq(Payloads)
        /\ received \in Seq(Seq(Byte)) /\ Len(wire) \in Nat /\ Len(sent) \in Nat /\ k \in Nat
        /\ k \in 0..Len(sent) /\ getUseSize(ring) \in Nat /\ Content = InUse(ring)
    BY <1>1, Parts
  <1>4. k # Len(sent) /\ header = Len(p)
    BY <1>1, <1>2, NextHeader
  <1>5. p \in Payloads
    <2>1. k + 1 \in 1..Len(sent)
      BY <1>3, <1>4
    <2> QED BY <1>3, <2>1
  <1>6. PICK rest : rest \in Seq(Byte) /\ all = x \o rest /\ Following(rest, sent, k + 1, bad)
    <2>1. Following(all, sent, k, bad)
      BY <1>1, <1>3 DEF RestComes
    <2> HIDE DEF all, k
    <2>2. k # Len(sent) /\ sent \in Seq(Payloads) /\ k \in 0..Len(sent)
      BY <1>3, <1>4
    <2>3. \E rest : /\ rest \in Seq(Byte) /\ all = Packet(sent[k + 1]) \o rest
                    /\ Following(rest, sent, k + 1, bad)
      BY <2>1, <2>2, FirstPacket
    <2> QED BY <2>3
  <1> HIDE DEF p, x, k
  <1>7. /\ x \in Seq(Byte) /\ Len(x) = Len(p) + 2 /\ Tail(Tail(x)) = p /\ Len(p) \in Nat
        /\ p \in Seq(Byte)
    <2> DEFINE b == Bytes(Len(p))
               m == Len(p)
    <2>1. p \in Seq(Byte) /\ m \in Shorts /\ m \in Nat
      BY <1>5, Headers, FramingAssumption
    <2>2. b \in Seq(Byte) /\ Len(b) = 2
      BY <2>1, ShortBytes
    <2>3. x = b \o p
      BY DEF x, Packet
    <2> HIDE DEF b, m
    <2>4. /\ x \in Seq(Byte) /\ Len(x) = m + 2
          /\ \A i \in 1..(m + 2) : x[i] = IF i <= 2 THEN b[i] ELSE p[i - 2]
      <3>1. /\ x \in Seq(Byte) /\ Len(x) = Len(b) + Len(p)
            /\ \A i \in 1..(Len(b) + Len(p)) : x[i] = IF i <= Len(b) THEN b[i] ELSE p[i - Len(b)]
        BY <2>1, <2>2, <2>3, ConcatProperties
      <3>2. Len(b) = 2 /\ Len(b) + Len(p) = m + 2
        BY <2>1, <2>2 DEF m
      <3> QED BY <3>1, <3>2
    <2> DEFINE y == Tail(x)
               z == Tail(y)
    <2>5. /\ y \in Seq(Byte) /\ Len(y) = m + 1 /\ \A i \in 1..(m + 1) : y[i] = x[i + 1]
      <3>1. x # <<>>
        BY <2>1, <2>4
      <3>2. /\ y \in Seq(Byte) /\ Len(y) = Len(x) - 1 /\ \A i \in 1..(Len(x) - 1) : y[i] = x[i + 1]
        BY <2>4, <3>1, HeadTailProperties
      <3>3. Len(x) - 1 = m + 1
        BY <2>1, <2>4
      <3> HIDE DEF y
      <3> QED BY <3>2, <3>3
    <2> HIDE DEF y
    <2>6. /\ z \in Seq(Byte) /\ Len(z) = m /\ \A i \in 1..m : z[i] = y[i + 1]
      <3>1. y # <<>>
        BY <2>1, <2>5
      <3>2. /\ z \in Seq(Byte) /\ Len(z) = Len(y) - 1 /\ \A i \in 1..(Len(y) - 1) : z[i] = y[i + 1]
        BY <2>5, <3>1, HeadTailProperties
      <3>3. Len(y) - 1 = m
        BY <2>1, <2>5
      <3> HIDE DEF z
      <3> QED BY <3>2, <3>3
    <2> HIDE DEF z
    <2>7. ASSUME NEW i \in 1..m PROVE z[i] = p[i]
      <3>1. i + 1 \in 1..(m + 1) /\ i + 2 \in 1..(m + 2) /\ ~(i + 2 <= 2) /\ i + 2 - 2 = i
            /\ i + 1 + 1 = i + 2
        BY <2>1
      <3>2. z[i] = y[i + 1] /\ y[i + 1] = x[i + 1 + 1] /\ x[i + 2] = p[i + 2 - 2]
        BY <2>4, <2>5, <2>6, <3>1
      <3> QED BY <3>1, <3>2
    <2>8. z = p
      <3>1. Len(z) = Len(p) /\ \A i \in 1..Len(z) : z[i] = p[i]
        BY <2>6, <2>7 DEF m
      <3> QED BY <2>1, <2>6, <3>1, SeqEqual
    <2> QED BY <2>1, <2>4, <2>8 DEF y, z, m
  <1>8. Len(x) <= getUseSize(ring) /\ Len(x) = header + 2
    BY <1>2, <1>3, <1>4, <1>7, Sizes DEF IsWhole
  <1>9. /\ peek(ring, header + 2) = x /\ InUse(ring') \o wire = rest
        /\ getUseSize(ring') = getUseSize(ring) - (Len(p) + 2)
    <2>1. InUse(ring) \o wire = x \o rest
      BY <1>6
    <2>2. peek(ring, Len(x)) = x /\ InUse(dequeue(ring, Len(x))) \o wire = rest
      BY <1>3, <1>6, <1>7, <1>8, <2>1, FrontIs
    <2>3. Len(x) \in Nat
      BY <1>7
    <2>4. getUseSize(dequeue(ring, Len(x))) = getUseSize(ring) - Len(x)
      BY <1>3, <1>8, <2>3, ReadSome
    <2> QED BY <1>2, <1>7, <1>8, <2>2, <2>4
  <1>10. received' = Append(received, p)
    BY <1>2, <1>7, <1>9
  <1>11. /\ Len(received') = k + 1 /\ received'[k + 1] = p
         /\ \A i \in 1..k : received'[i] = received[i]
    BY <1>3, <1>7, <1>10, AppendProperties DEF k
  <1>12. FirstOnes'
    <2>1. k + 1 <= Len(sent)
      BY <1>3, <1>4
    <2>2. ASSUME NEW i \in 1..(k + 1) PROVE received'[i] = sent[i]
      <3>1. CASE i = k + 1
        BY <1>11, <3>1 DEF p
      <3>2. CASE i # k + 1
        <4>1. i \in 1..k
          BY <1>3, <3>2
        <4> QED BY <1>1, <1>11, <4>1 DEF FirstOnes, k
      <3> QED BY <3>1, <3>2
    <2>3. sent' = sent
      BY <1>2
    <2> QED BY <1>11, <2>1, <2>2, <2>3 DEF FirstOnes
  <1>13. RestComes'
    <2>1. Content' = InUse(ring')
      BY DEF Content, InUse
    <2>2. Content' \o wire' = rest
      BY <1>2, <1>9, <2>1
    <2> QED BY <1>2, <1>6, <1>11, <2>2 DEF RestComes
  <1>14. Fits'
    <2>1. Fits' <=> getUseSize(ring') + Len(wire') <= Window
      BY DEF Fits
    <2> QED BY <1>1, <1>2, <1>3, <1>7, <1>9, <2>1, FramingAssumption DEF Fits
  <1>15. Posted' /\ ClosedForCause'
    BY <1>2 DEF Posted, ClosedForCause
  <1> QED BY <1>12, <1>13, <1>14, <1>15 DEF Whole

(* The loop ends at a header that no packet has, or asks for more.         *)
LEMMA EndWhole ==
  ASSUME Whole, TypeOK', Reject \/ recvPost PROVE Whole'
  <1>1. TypeOK /\ Fits /\ Posted /\ FirstOnes /\ RestComes /\ ClosedForCause
    BY DEF Whole
  <1>2. UNCHANGED <<ring, gone, wire, sent, bad, received>>
    BY DEF Reject, recvPost
  <1>3. Fits' /\ FirstOnes' /\ RestComes'
    BY <1>1, <1>2 DEF Fits, FirstOnes, RestComes, Content
  <1>4. CASE Reject
    <2>1. Len(received) = Len(sent) => bad
      BY <1>1, <1>4, NextHeader DEF Reject
    <2>2. Len(received) = Len(sent)
      BY <1>1, <1>4, NextHeader DEF Reject
    <2> QED BY <1>2, <1>3, <1>4, <2>1, <2>2 DEF Reject, Posted, ClosedForCause, Whole
  <1>5. CASE recvPost
    <2>1. pc' = "recv" /\ posted' = getDirectWriteSize(ring) /\ (HasHeader => ~IsBad /\ ~IsWhole)
      BY <1>5 DEF recvPost
    <2>2. Posted'
      BY <1>2, <2>1 DEF Posted, HasHeader, IsBad, IsWhole, header
    <2> QED BY <1>3, <2>1, <2>2 DEF ClosedForCause, Whole
  <1> QED BY <1>4, <1>5

(* Every step keeps every byte in its place.                               *)
LEMMA StepWhole ==
  ASSUME Window < Size, Whole, RecvHasRoom, [Next]_vars PROVE Whole'
  <1>1. TypeOK'
    BY StepType DEF Whole
  <1>2. CASE PeerClose
    <2>1. UNCHANGED <<ring, posted, pc, wire, sent, bad, received>> /\ gone' = TRUE
      BY <1>2 DEF PeerClose
    <2>2. Fits' /\ FirstOnes' /\ RestComes' /\ Posted'
      BY <2>1, SameRing DEF Whole, Fits, FirstOnes, RestComes
    <2>3. ClosedForCause'
      BY <2>1 DEF Whole, ClosedForCause
    <2> QED BY <1>1, <2>2, <2>3 DEF Whole
  <1>3. CASE UNCHANGED vars
    <2>1. UNCHANGED <<ring, posted, pc, gone, wire, sent, bad, received>>
      BY <1>3 DEF vars
    <2>2. Fits' /\ FirstOnes' /\ RestComes' /\ Posted' /\ ClosedForCause'
      BY <2>1, SameRing DEF Whole, Fits, FirstOnes, RestComes, ClosedForCause
    <2> QED BY <1>1, <2>2 DEF Whole
  <1>4. CASE \E p \in Payloads : PeerSend(p)
    BY <1>1, <1>4, SendWhole
  <1>5. CASE \E h \in BadHeaders : PeerSendBad(h)
    BY <1>1, <1>5, SendBadWhole
  <1>6. CASE \E n \in 1..Len(wire) : RecvDone(n)
    BY <1>1, <1>6, RecvWhole
  <1>7. CASE RecvNothing
    BY <1>1, <1>7, NothingWhole
  <1>8. CASE Deliver
    BY <1>1, <1>8, DeliverWhole
  <1>9. CASE Reject \/ recvPost
    BY <1>1, <1>9, EndWhole
  <1> QED BY <1>2, <1>3, <1>4, <1>5, <1>6, <1>7, <1>8, <1>9 DEF Next, Peer, Receive, Worker

(* So it is always kept.                                                   *)
LEMMA AlwaysWhole == ASSUME Window < Size PROVE Spec => []Whole
  <1>1. Whole /\ RecvHasRoom /\ [Next]_vars => Whole'
    BY StepWhole
  <1> QED BY <1>1, InitWhole, HasRoom, PTL DEF Spec

(* What was received is the beginning of what was sent, and the rest of it *)
(* is in the ring and on the wire.                                         *)
LEMMA WholeReassembles == Whole => Reassembles
  <1> SUFFICES ASSUME Whole PROVE Reassembles
    OBVIOUS
  <1> DEFINE f == FlattenSeq(Packets(sent, Len(received)))
             all == Content \o wire
  <1>1. TypeOK /\ FirstOnes /\ RestComes
    BY DEF Whole
  <1>2. /\ sent \in Seq(Payloads) /\ received \in Seq(Seq(Byte)) /\ bad \in BOOLEAN
        /\ Len(received) \in 0..Len(sent) /\ Len(received) \in Nat /\ Len(sent) \in Nat
    BY <1>1, Parts
  <1>3. PICK tail : tail \in Seq(Byte) /\ all = f \o tail /\ Ends(tail, bad)
    BY <1>1 DEF RestComes, Following
  <1>4. f \in Seq(Byte)
    BY <1>2, PacketsType
  <1>5. IsPrefix(received, sent)
    <2>1. Len(received) <= Len(sent) /\ \A i \in 1..Len(received) : received[i] = sent[i]
      BY <1>1 DEF FirstOnes
    <2>2. received = SubSeq(sent, 1, Len(received))
      <3> DEFINE n == Len(received)
                 z == SubSeq(sent, 1, n)
      <3>1. n \in Nat /\ n <= Len(sent)
        BY <1>2, <2>1
      <3>2. \A i \in 1..n : sent[i] \in Seq(Byte)
        <4>1. Payloads \subseteq Seq(Byte)
          BY FramingAssumption
        <4> QED BY <1>2, <3>1, <4>1
      <3> HIDE DEF n
      <3>3. /\ z \in Seq(Seq(Byte)) /\ Len(z) = (IF 1 <= n THEN n - 1 + 1 ELSE 0)
            /\ \A i \in 1..(n - 1 + 1) : z[i] = sent[1 + i - 1]
        BY <3>1, <3>2, SubSeqProperties
      <3> HIDE DEF z
      <3>4. Len(z) = n /\ \A i \in 1..n : z[i] = sent[i]
        <4>1. n - 1 + 1 = n /\ \A i \in 1..n : 1 + i - 1 = i
          BY <3>1
        <4>2. Len(z) = n
          BY <3>1, <3>3
        <4> QED BY <3>3, <4>1, <4>2
      <3>5. received = z
        BY <1>2, <2>1, <3>3, <3>4, SeqEqual DEF n
      <3> QED BY <3>5 DEF z, n
    <2> QED BY <1>2, <2>1, <2>2 DEF IsPrefix
  <1>6. IF bad THEN IsPrefix(f, all) ELSE all = f
    <2>1. CASE bad
      <3> HIDE DEF f, all
      <3>1. f = SubSeq(all, 1, Len(f)) /\ Len(f) <= Len(all)
        <4> DEFINE n == Len(f)
                   z == SubSeq(all, 1, n)
        <4>1. /\ f \in Seq(Byte) /\ tail \in Seq(Byte) /\ all = f \o tail
          BY <1>3, <1>4
        <4>2. /\ all \in Seq(Byte) /\ Len(all) = Len(f) + Len(tail)
              /\ \A i \in 1..(Len(f) + Len(tail)) : all[i] = IF i <= Len(f) THEN f[i] ELSE tail[i - Len(f)]
          BY <4>1, ConcatProperties
        <4>3. n \in Nat /\ n <= Len(all) /\ \A i \in 1..n : all[i] = f[i] /\ all[i] \in Byte
          BY <4>1, <4>2
        <4> HIDE DEF n
        <4>4. /\ z \in Seq(Byte) /\ Len(z) = (IF 1 <= n THEN n - 1 + 1 ELSE 0)
              /\ \A i \in 1..(n - 1 + 1) : z[i] = all[1 + i - 1]
          BY <4>3, SubSeqProperties
        <4> HIDE DEF z
        <4>5. Len(z) = n /\ \A i \in 1..n : z[i] = all[i]
          <5>1. n - 1 + 1 = n /\ \A i \in 1..n : 1 + i - 1 = i
            BY <4>3
          <5>2. Len(z) = n
            BY <4>3, <4>4
          <5> QED BY <4>4, <5>1, <5>2
        <4>6. f = z
          <5>1. Len(f) = Len(z) /\ \A i \in 1..Len(f) : f[i] = z[i]
            BY <4>3, <4>5 DEF n
          <5> QED BY <4>1, <4>4, <5>1, SeqEqual
        <4> QED BY <4>3, <4>6 DEF z, n
      <3> QED BY <2>1, <3>1, <1>4 DEF IsPrefix
    <2>2. CASE ~bad
      <3>1. tail = <<>>
        BY <1>3, <2>2 DEF Ends
      <3>2. f \o <<>> = f
        BY <1>4, ConcatEmptySeq
      <3> QED BY <1>3, <2>2, <3>1, <3>2
    <2> QED BY <2>1, <2>2
  <1> QED BY <1>5, <1>6 DEF Reassembles, Packets

(* However the bytes of the peer are cut and wherever the ring wraps       *)
(* around, no byte is lost, doubled or moved by moveRearPos, peek and      *)
(* dequeue in workerThread, as long as no receive can fill the buffer to   *)
(* the last byte.                                                          *)
THEOREM PacketsReassembled == ASSUME Window < Size PROVE Spec => []Reassembles
  BY AlwaysWhole, WholeReassembles, PTL

(* workerThread ends a session only for a header that no packet has, or    *)
(* when the peer has left and all it sent was given to onRecv.             *)
THEOREM ClosedOnlyForCause == ASSUME Window < Size PROVE Spec => []ClosedForCause
  <1>1. Whole => ClosedForCause
    BY DEF Whole
  <1> QED BY <1>1, AlwaysWhole, PTL

-----------------------------------------------------------------------------
(* The echo *)

(* With one field ...                                                      *)
LEMMA FieldRead ==
  ASSUME Len(Fields) = 1
  PROVE  FieldsLen = Fields[1] /\ Fields[1] \in Nat /\ Fields[1] > 0
  <1>1. Fields[1] \in Nat /\ Fields[1] > 0
    BY EchoAssumption
  <1> DEFINE F == [k \in 0..1 |-> IF k = 0 THEN 0 ELSE 0 + Fields[1]]
             Sum(f) == f = [k \in 0..1 |-> IF k = 0 THEN 0 ELSE f[k - 1] + Fields[k]]
             sum == CHOOSE f : Sum(f)
  <1>2. Sum(F)
    <2>1. F[0] = 0
      OBVIOUS
    <2>2. ASSUME NEW k \in 0..1
          PROVE  (IF k = 0 THEN 0 ELSE 0 + Fields[1]) = (IF k = 0 THEN 0 ELSE F[k - 1] + Fields[k])
      <3>1. k = 0 \/ k = 1
        OBVIOUS
      <3> HIDE DEF F
      <3>2. k = 1 => F[k - 1] = 0 /\ Fields[k] = Fields[1]
        BY <2>1
      <3> QED BY <3>1, <3>2
    <2>3. [k \in 0..1 |-> IF k = 0 THEN 0 ELSE 0 + Fields[1]]
            = [k \in 0..1 |-> IF k = 0 THEN 0 ELSE F[k - 1] + Fields[k]]
      <3> HIDE DEF F
      <3> QED BY <2>2
    <2> QED BY <2>3
  <1>3. Sum(sum)
    <2> HIDE DEF F, Sum
    <2> QED BY <1>2
  <1>4. FieldsLen = sum[1]
    BY DEF FieldsLen
  <1> HIDE DEF sum
  <1>5. sum[1] = Fields[1]
    <2>1. sum[0] = 0
      BY <1>3
    <2>2. sum[1] = sum[0] + Fields[1]
      BY <1>3
    <2> QED BY <1>1, <2>1, <2>2
  <1> QED BY <1>1, <1>4, <1>5

(* ... >> and << are done once.                                            *)
LEMMA HandledOnce ==
  ASSUME Len(Fields) = 1, NEW p
  PROVE  onRecv(p) = Pack!Put(Pack!NewPacket(ReplySize), Pack!Got(PacketOf(p), Fields[1]))
  <1> DEFINE a == [in |-> PacketOf(p), out |-> Pack!NewPacket(ReplySize)]
             G(x, k) == [in  |-> Pack!AfterGet(x.in, Fields[k]),
                         out |-> Pack!Put(x.out, Pack!Got(x.in, Fields[k]))]
             F == [k \in 0..1 |-> IF k = 0 THEN a ELSE G(a, 1)]
             After(f) == f = [k \in 0..1 |-> IF k = 0 THEN a ELSE G(f[k - 1], k)]
             after == CHOOSE f : After(f)
  <1>1. Handled(p) = after[1]
    BY DEF Handled
  <1>2. G(a, 1).out = Pack!Put(Pack!NewPacket(ReplySize), Pack!Got(PacketOf(p), Fields[1]))
    OBVIOUS
  <1> HIDE DEF a, G
  <1>3. After(F)
    <2>1. F[0] = a
      OBVIOUS
    <2>2. ASSUME NEW k \in 0..1
          PROVE  (IF k = 0 THEN a ELSE G(a, 1)) = (IF k = 0 THEN a ELSE G(F[k - 1], k))
      <3>1. k = 0 \/ k = 1
        OBVIOUS
      <3> HIDE DEF F
      <3>2. k = 1 => F[k - 1] = a
        BY <2>1
      <3> QED BY <3>1, <3>2
    <2>3. [k \in 0..1 |-> IF k = 0 THEN a ELSE G(a, 1)]
            = [k \in 0..1 |-> IF k = 0 THEN a ELSE G(F[k - 1], k)]
      <3> HIDE DEF F
      <3> QED BY <2>2
    <2> QED BY <2>3
  <1>4. After(after)
    <2> HIDE DEF F, After
    <2> QED BY <1>3
  <1> HIDE DEF after
  <1>5. after[1] = G(a, 1)
    <2>1. after[0] = a
      BY <1>4
    <2>2. after[1] = G(after[0], 1)
      BY <1>4
    <2> QED BY <2>1, <2>2
  <1> QED BY <1>1, <1>2, <1>5 DEF onRecv

(* The operators on a packet with given fields.                            *)
Pkt(s, c, f) == [size |-> s, cur |-> c, buffer |-> f]

Over(f, s, o, b) == [i \in 0..(s - 1) |-> IF i - o + 1 \in 1..Len(b) THEN b[i - o + 1] ELSE f[i]]

LEMMA PktFields ==
  ASSUME NEW s, NEW c, NEW f
  PROVE  Pkt(s, c, f).size = s /\ Pkt(s, c, f).cur = c /\ Pkt(s, c, f).buffer = f
  BY DEF Pkt

LEMMA OverAt ==
  ASSUME NEW f, NEW s, NEW o, NEW b, NEW i \in 0..(s - 1)
  PROVE  Over(f, s, o, b)[i] = IF i - o + 1 \in 1..Len(b) THEN b[i - o + 1] ELSE f[i]
  <1> DEFINE F(j) == IF j - o + 1 \in 1..Len(b) THEN b[j - o + 1] ELSE f[j]
  <1>1. Over(f, s, o, b) = [j \in 0..(s - 1) |-> F(j)]
    BY DEF Over
  <1>2. Over(f, s, o, b)[i] = F(i)
    <2> HIDE DEF F
    <2> QED BY <1>1
  <1> QED BY <1>2

(* A new one is empty.                                                     *)
LEMMA NewIs ==
  ASSUME NEW s PROVE Pack!NewPacket(s) = Pkt(s, 2, [i \in 0..(s - 1) |-> Unknown])
  BY Sizes DEF Pack!NewPacket, Pkt

(* The cursor is set ...                                                   *)
LEMMA SetIs ==
  ASSUME NEW s, NEW c, NEW f, NEW o
  PROVE  [Pkt(s, c, f) EXCEPT !.cur = o] = Pkt(s, o, f) /\ Pack!setCur(Pkt(s, c, f), o) = Pkt(s, o, f)
  BY DEF Pkt, Pack!setCur

(* ... and bytes are written over others.                                  *)
LEMMA WriteIs ==
  ASSUME NEW s, NEW c, NEW f, NEW o, NEW b
  PROVE  Pack!Write(Pkt(s, c, f), o, b) = Pkt(s, c, Over(f, s, o, b))
  <1> DEFINE p == Pkt(s, c, f)
             g == Over(f, s, o, b)
  <1>1. p.size = s /\ p.buffer = f
    BY PktFields
  <1>2. Pack!Write(p, o, b) = [p EXCEPT !.buffer = [i \in 0..(p.size - 1) |->
                                IF i - o + 1 \in 1..Len(b) THEN b[i - o + 1] ELSE p.buffer[i]]]
    BY DEF Pack!Write
  <1>3. Pack!Write(p, o, b) = [p EXCEPT !.buffer = g]
    <2> HIDE DEF p
    <2> QED BY <1>1, <1>2 DEF Over
  <1> HIDE DEF g
  <1>4. [p EXCEPT !.buffer = g] = Pkt(s, c, g)
    BY DEF Pkt
  <1> QED BY <1>3, <1>4 DEF g

(* Bytes that are inside the buffer are read as they are.                  *)
LEMMA ReadInside ==
  ASSUME NEW s \in Nat, NEW c, NEW f, NEW o \in Nat, NEW n \in Nat, o + n <= s
  PROVE  Pack!Read(Pkt(s, c, f), o, n) = [i \in 1..n |-> f[o + i - 1]]
  <1> DEFINE p == Pkt(s, c, f)
  <1>1. p.size = s /\ p.buffer = f
    BY PktFields
  <1> HIDE DEF p
  <1>2. ASSUME NEW i \in 1..n PROVE Pack!ByteAt(p, o + i - 1) = f[o + i - 1]
    <2>1. o + i - 1 \in 0..(s - 1)
      OBVIOUS
    <2> QED BY <1>1, <2>1 DEF Pack!ByteAt
  <1>3. Pack!Read(p, o, n) = [i \in 1..n |-> Pack!ByteAt(p, o + i - 1)]
    BY DEF Pack!Read
  <1> QED BY <1>2, <1>3 DEF p

(* The reply is the packet, byte for byte.                                 *)
LEMMA EchoOne ==
  ASSUME Len(Fields) = 1, Fields[1] + 2 <= ReplySize, NEW p \in Seq(Byte), Len(p) = Fields[1]
  PROVE  sendPacket(onRecv(p)) = Packet(p)
  <1> DEFINE n == Fields[1]
             h == Bytes(n)
             x == Packet(p)
             new == [i \in 0..(n + 2 - 1) |-> Unknown]
             f == Over(new, n + 2, 0, x)
             in == Pkt(n + 2, n + 2, f)
             empty == [i \in 0..(ReplySize - 1) |-> Unknown]
             g == Over(empty, ReplySize, 2, p)
             g2 == Over(g, ReplySize, 0, h)
  <1>1. n \in Nat /\ n > 0 /\ ReplySize \in Nat /\ n + 2 <= ReplySize
    BY FieldRead, EchoAssumption
  <1>2. h \in Seq(Byte) /\ Len(h) = 2
    <2>1. h = <<(n % (Base * Base)) % Base, (n % (Base * Base)) \div Base>>
      BY DEF Bytes
    <2>2. Len(h) = 2
      BY <2>1
    <2> QED BY <1>1, <2>2, BytesType
  <1>3. x = h \o p
    BY DEF Packet
  <1> HIDE DEF n, h, x
  <1>4. /\ x \in Seq(Byte) /\ Len(x) = n + 2
        /\ \A i \in 1..(n + 2) : x[i] = IF i <= 2 THEN h[i] ELSE p[i - 2]
    <2>1. /\ x \in Seq(Byte) /\ Len(x) = Len(h) + Len(p)
          /\ \A i \in 1..(Len(h) + Len(p)) : x[i] = IF i <= Len(h) THEN h[i] ELSE p[i - Len(h)]
      BY <1>2, <1>3, ConcatProperties
    <2>2. Len(h) = 2 /\ Len(h) + Len(p) = n + 2
      BY <1>1, <1>2 DEF n
    <2> QED BY <2>1, <2>2
  <1>5. PacketOf(p) = in
    <2>1. Pack!NewPacket(n + 2) = Pkt(n + 2, 2, new)
      <3> DEFINE m == n + 2
      <3> HIDE DEF m
      <3>2. Pack!NewPacket(m) = Pkt(m, 2, [i \in 0..(m - 1) |-> Unknown])
        BY NewIs
      <3> QED BY <1>1, <3>2 DEF m
    <2> HIDE DEF new
    <2>2. Pack!Write(Pkt(n + 2, 2, new), 0, x) = Pkt(n + 2, 2, f)
      BY WriteIs
    <2> HIDE DEF f
    <2>3. Pack!setCur(Pkt(n + 2, 2, f), n + 2) = Pkt(n + 2, n + 2, f)
      BY SetIs
    <2>4. PacketOf(p) = Pack!setCur(Pack!Write(Pack!NewPacket(n + 2), 0, x), n + 2)
      BY <1>4 DEF PacketOf, x
    <2> QED BY <2>1, <2>2, <2>3, <2>4
  <1>6. ASSUME NEW i \in 0..(n + 1) PROVE f[i] = x[i + 1]
    <2>1. i - 0 + 1 = i + 1 /\ i + 1 \in 1..Len(x) /\ i \in 0..(n + 2 - 1)
      BY <1>1, <1>4
    <2> HIDE DEF new
    <2>2. f[i] = IF i - 0 + 1 \in 1..Len(x) THEN x[i - 0 + 1] ELSE new[i]
      <3> DEFINE m == n + 2
      <3>1. i \in 0..(m - 1)
        BY <1>1, <2>1
      <3> HIDE DEF m
      <3>2. Over(new, m, 0, x)[i] = IF i - 0 + 1 \in 1..Len(x) THEN x[i - 0 + 1] ELSE new[i]
        BY <3>1, OverAt
      <3> QED BY <3>2 DEF m
    <2> HIDE DEF f
    <2> QED BY <2>1, <2>2
  <1> HIDE DEF f
  <1>7. Pack!Got(in, n) = p
    <2>1. in.cur = n + 2
      BY PktFields
    <2>2. Pack!Got(in, n) = Pack!Read(in, 2, n)
      <3> HIDE DEF in
      <3> QED BY <1>1, <2>1, Sizes DEF Pack!Got
    <2>3. Pack!Read(in, 2, n) = [i \in 1..n |-> f[2 + i - 1]]
      <3> DEFINE m == n + 2
      <3>1. m \in Nat /\ 2 + n <= m /\ n \in Nat /\ 2 \in Nat
        BY <1>1
      <3> HIDE DEF m
      <3>2. Pack!Read(Pkt(m, m, f), 2, n) = [i \in 1..n |-> f[2 + i - 1]]
        BY <3>1, ReadInside
      <3> QED BY <3>2 DEF m
    <2>4. ASSUME NEW i \in 1..n PROVE f[2 + i - 1] = p[i]
      <3>1. 2 + i - 1 = i + 1 /\ i + 1 \in 0..(n + 1) /\ i + 1 + 1 = i + 2
            /\ i + 2 \in 1..(n + 2) /\ ~(i + 2 <= 2) /\ i + 2 - 2 = i
        BY <1>1
      <3>2. f[i + 1] = x[i + 2] /\ x[i + 2] = p[i]
        BY <1>4, <1>6, <3>1
      <3> QED BY <3>1, <3>2
    <2>5. p = [i \in 1..n |-> p[i]]
      BY DEF n
    <2> QED BY <2>2, <2>3, <2>4, <2>5
  <1>8. Pack!Put(Pack!NewPacket(ReplySize), p) = Pkt(ReplySize, n + 2, g)
    <2> DEFINE q == Pkt(ReplySize, 2, empty)
               w == Pkt(ReplySize, 2, g)
    <2>1. Pack!NewPacket(ReplySize) = q
      BY NewIs
    <2> HIDE DEF empty
    <2>2. q.cur = 2 /\ q.size = ReplySize /\ Len(p) = n
      BY PktFields DEF n
    <2>3. Pack!Write(q, 2, p) = w
      BY WriteIs
    <2> HIDE DEF g
    <2>4. w.cur = 2
      BY PktFields
    <2>7. [w EXCEPT !.cur = n + 2] = Pkt(ReplySize, n + 2, g)
      BY DEF Pkt
    <2>5. Pack!Put(q, p) = [w EXCEPT !.cur = @ + Len(p)]
      <3> HIDE DEF q, w
      <3> QED BY <1>1, <2>2, <2>3 DEF Pack!Put
    <2>6. [w EXCEPT !.cur = @ + Len(p)] = [w EXCEPT !.cur = n + 2]
      <3>1. w.cur + Len(p) = n + 2
        BY <1>1, <2>2, <2>4
      <3> HIDE DEF w
      <3> QED BY <3>1
    <2> QED BY <2>1, <2>5, <2>6, <2>7
  <1>9. onRecv(p) = Pkt(ReplySize, n + 2, g)
    BY <1>5, <1>7, <1>8, HandledOnce DEF n
  <1>10. ASSUME NEW i \in 0..(n + 1) PROVE g2[i] = x[i + 1]
    <2>1. i \in 0..(ReplySize - 1) /\ i + 1 \in 1..(n + 2) /\ i - 0 + 1 = i + 1
          /\ i - 2 + 1 = i + 1 - 2
      BY <1>1
    <2> HIDE DEF empty
    <2>2. g2[i] = IF i + 1 \in 1..2 THEN h[i + 1] ELSE g[i]
      <3> HIDE DEF g
      <3> QED BY <1>2, <2>1 DEF Over
    <2>3. g[i] = IF i + 1 - 2 \in 1..n THEN p[i + 1 - 2] ELSE empty[i]
      <3>1. Len(p) = n
        BY DEF n
      <3> QED BY <2>1, <3>1 DEF Over
    <2> HIDE DEF g, g2
    <2>4. CASE i + 1 <= 2
      <3>1. i + 1 \in 1..2
        BY <2>1, <2>4
      <3> QED BY <1>4, <2>1, <2>2, <2>4, <3>1
    <2>5. CASE ~(i + 1 <= 2)
      <3>1. i + 1 \notin 1..2 /\ i + 1 - 2 \in 1..n
        BY <1>1, <2>1, <2>5
      <3> QED BY <1>4, <2>1, <2>2, <2>3, <2>5, <3>1
    <2> QED BY <2>4, <2>5
  <1> HIDE DEF g
  <1>11. sendPacket(Pkt(ReplySize, n + 2, g)) = Pack!Read(Pkt(ReplySize, n + 2, g2), 0, n + 2)
    <2> DEFINE r == Pkt(ReplySize, n + 2, g)
    <2>1. r.cur = n + 2
      BY PktFields
    <2>2. Pack!getUseSize(r) = n
      <3> HIDE DEF r
      <3> QED BY <1>1, <2>1, Sizes DEF Pack!getUseSize
    <2>3. Pack!setHeader(r, h) = Pkt(ReplySize, n + 2, g2)
      BY WriteIs DEF Pack!setHeader
    <2> HIDE DEF r, g2
    <2>4. sendPacket(r) = Pack!Read(Pack!setHeader(r, h), 0, n + 2)
      BY <2>1, <2>2 DEF sendPacket, h
    <2> QED BY <2>3, <2>4 DEF r
  <1> HIDE DEF g2
  <1>12. Pack!Read(Pkt(ReplySize, n + 2, g2), 0, n + 2) = [i \in 1..(n + 2) |-> g2[0 + i - 1]]
    <2> DEFINE m == n + 2
    <2>1. 0 \in Nat /\ m \in Nat /\ 0 + m <= ReplySize
      BY <1>1
    <2> HIDE DEF m
    <2>2. Pack!Read(Pkt(ReplySize, m, g2), 0, m) = [i \in 1..m |-> g2[0 + i - 1]]
      BY <1>1, <2>1, ReadInside
    <2> QED BY <2>2 DEF m
  <1>13. ASSUME NEW i \in 1..(n + 2) PROVE g2[0 + i - 1] = x[i]
    <2>1. 0 + i - 1 \in 0..(n + 1) /\ 0 + i - 1 + 1 = i
      BY <1>1
    <2>2. g2[0 + i - 1] = x[0 + i - 1 + 1]
      BY <1>10, <2>1
    <2> QED BY <2>1, <2>2
  <1>14. x = [i \in 1..(n + 2) |-> x[i]]
    BY <1>4
  <1> QED BY <1>9, <1>11, <1>12, <1>13, <1>14 DEF x

(* The reply to a packet that holds the field onRecv reads is that packet, *)
(* byte for byte, header and cursor included, whatever the field holds, if *)
(* the reply's buffer has room for it.                                     *)
THEOREM Echoed ==
  ASSUME Len(Fields) = 1, Fields[1] + HEADER_SIZE <= ReplySize
  PROVE  Spec => []EchoesBack
  <1>1. TypeOK => EchoesBack
    <2> SUFFICES ASSUME TypeOK, NEW i \in DOMAIN received, Len(received[i]) = FieldsLen
                 PROVE  sendPacket(onRecv(received[i])) = Packet(received[i])
      BY DEF EchoesBack
    <2>1. received[i] \in Seq(Byte)
      BY DEF TypeOK
    <2> QED BY <2>1, FieldRead, EchoOne, Sizes
  <1> QED BY <1>1, Types, PTL
=============================================================================
