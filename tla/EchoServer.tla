----------------------------- MODULE EchoServer -----------------------------
(***************************************************************************)
(* TestServer::onRecv of EchoServer.cpp on top of the framing: every       *)
(* packet that workerThread cuts out is read with >> field by field, and   *)
(* the fields are written with << to a packet that sendPacket sends back.  *)
(* The echo server reads one field, a double; Fields says which fields a   *)
(* handler of this kind reads.                                             *)
(***************************************************************************)
EXTENDS Framing

CONSTANTS Fields,      \* the sizes of the fields, in the order they are read
          ReplySize,   \* the size of the reply's buffer, 10 in onRecv
          Unknown      \* a byte that nobody wrote

ASSUME EchoAssumption == /\ Fields \in Seq(Nat \ {0})
                         /\ ReplySize \in Nat
                         /\ Unknown \notin Byte

Pack == INSTANCE Packet

FieldsLen == LET sum[k \in 0..Len(Fields)] == IF k = 0 THEN 0 ELSE sum[k - 1] + Fields[k]
             IN  sum[Len(Fields)]

(* workerThread fills a packet of exactly the size that the header says.   *)
PacketOf(payload) ==
  LET bytes == Packet(payload)
      p     == Pack!NewPacket(Len(bytes))
  IN  Pack!setCur(Pack!Write(p, 0, bytes), Len(bytes))

(* The packet and the reply when the first k fields have been handled *)
Handled(payload) ==
  LET after[k \in 0..Len(Fields)] ==
        IF k = 0 THEN [in |-> PacketOf(payload), out |-> Pack!NewPacket(ReplySize)]
        ELSE [in  |-> Pack!AfterGet(after[k - 1].in, Fields[k]),
              out |-> Pack!Put(after[k - 1].out, Pack!Got(after[k - 1].in, Fields[k]))]
  IN  after[Len(Fields)]

onRecv(payload) == Handled(payload).out

(* Mutant: the header counts itself. *)
sendWhole(pack) ==
  Pack!Read(Pack!setHeader(pack, Bytes(pack.cur)), 0, pack.cur)

(* sendPacket sets the header; sendPost sends the bytes up to the cursor.  *)
sendPacket(pack) ==
  Pack!Read(Pack!setHeader(pack, Bytes(Pack!getUseSize(pack))), 0, pack.cur)

-----------------------------------------------------------------------------

(* What the tests of EchoServer.cpp and the bot client expect: the reply   *)
(* to a packet that holds the fields is that packet, byte for byte.        *)
EchoesBack ==
  \A i \in DOMAIN received :
    Len(received[i]) = FieldsLen => sendPacket(onRecv(received[i])) = Packet(received[i])
=============================================================================
