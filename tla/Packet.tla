------------------------------- MODULE Packet -------------------------------
(***************************************************************************)
(* CPacket: a buffer that begins with the header, and a cursor m_curSize   *)
(* that is where the next << writes.  The operators << and >> of the code  *)
(* are the same for every type but for its size, here the number of bytes. *)
(* A byte that nobody has written, or that lies behind the end of the      *)
(* buffer, is Unknown.                                                     *)
(***************************************************************************)
EXTENDS Integers, Sequences

CONSTANTS HEADER_SIZE, Unknown

(* CPacket(size) *)
NewPacket(size) == [size |-> size, cur |-> HEADER_SIZE,
                    buffer |-> [i \in 0..(size - 1) |-> Unknown]]

ByteAt(p, i) == IF i \in 0..(p.size - 1) THEN p.buffer[i] ELSE Unknown

(* n bytes of the buffer from an offset *)
Read(p, offset, n) == [i \in 1..n |-> ByteAt(p, offset + i - 1)]

(* memcpy_s of bytes to an offset *)
Write(p, offset, bytes) ==
  [p EXCEPT !.buffer = [i \in 0..(p.size - 1) |->
                          LET j == i - offset + 1
                          IN  IF j \in 1..Len(bytes) THEN bytes[j] ELSE @[i]]]

setCur(p, size) == [p EXCEPT !.cur = size]

getUseSize(p) == p.cur - HEADER_SIZE

setHeader(p, bytes) == Write(p, 0, bytes)

(* packet << value *)
Put(p, bytes) == IF p.cur + Len(bytes) > p.size THEN p
                 ELSE [Write(p, p.cur, bytes) EXCEPT !.cur = @ + Len(bytes)]

(* packet >> value: what the value becomes ... *)
Got(p, n) == IF p.cur < n THEN [i \in 1..n |-> Unknown] ELSE Read(p, HEADER_SIZE, n)

(* ... and the packet: the bytes from offset n are moved up to the front.  *)
AfterGet(p, n) == IF p.cur < n THEN p
                  ELSE [Write(p, HEADER_SIZE, Read(p, n, p.cur - HEADER_SIZE))
                          EXCEPT !.cur = @ - n]
=============================================================================
