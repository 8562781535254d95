----------------------------- MODULE RingBuffer -----------------------------
(***************************************************************************)
(* CRingBuff: a ring of bytes as a record of its fields, and its methods   *)
(* as operators on it.  The bytes from front up to rear, around the end of *)
(* the buffer, are in use; front = rear means empty, so that one byte is   *)
(* to stay unused.                                                         *)
(***************************************************************************)
EXTENDS Integers, Sequences

(* init: the buffer is what malloc returns, here any byte `fill`. *)
NewRing(size, fill) == [size |-> size, front |-> 0, rear |-> 0,
                        buffer |-> [i \in 0..(size - 1) |-> fill]]

isEmpty(r) == r.front = r.rear

isFull(r) == r.front = r.rear + 1 \/ (r.front = 0 /\ r.rear = r.size - 1)

getUseSize(r) == CASE isEmpty(r) -> 0
                   [] isFull(r)  -> r.size - 1
                   [] OTHER      -> IF r.front < r.rear THEN r.rear - r.front
                                    ELSE r.size - (r.front - r.rear)

(* What can be read, or written, without going around the end. *)
getDirectReadSize(r) == CASE isEmpty(r)       -> 0
                          [] r.front < r.rear -> r.rear - r.front
                          [] OTHER            -> r.size - r.front

getDirectWriteSize(r) ==
  IF isFull(r) THEN 0
  ELSE CASE isEmpty(r) -> r.size - r.rear
         [] r.front < r.rear /\ r.front = 0 -> r.size - ((r.rear + 1) % r.size)
         [] r.front < r.rear /\ r.front # 0 -> r.size - r.rear
         [] OTHER -> (r.front - 1) - r.rear

moveFrontPos(r, n) == [r EXCEPT !.front = (r.front + n) % r.size]

moveRearPos(r, n) == [r EXCEPT !.rear = (r.rear + n) % r.size]

(* n bytes starting at position `from`, around the end of the buffer *)
BytesAt(r, from, n) == [i \in 1..n |-> r.buffer[(from + i - 1) % r.size]]

(* The buffer with bytes copied to where getUseWriteBuffer points. *)
CopyIn(r, bytes) ==
  [r EXCEPT !.buffer = [p \in 0..(r.size - 1) |->
      LET i == p - r.rear + 1
      IN  IF i \in 1..Len(bytes) THEN bytes[i] ELSE r.buffer[p]]]

(* How many bytes peek returns when asked for n.  The second part is       *)
(* limited by all that is in use, not by what is left of it: a caller that *)
(* asks for more than is in use gets bytes nobody wrote.                   *)
PeekSize(r, n) ==
  LET direct == getDirectReadSize(r)
      rest   == n - direct
  IN  CASE n = 0 \/ isEmpty(r) -> 0
        [] direct >= n         -> n
        [] OTHER -> direct + (IF getUseSize(r) >= rest THEN rest ELSE getUseSize(r))

peek(r, n) == BytesAt(r, r.front, PeekSize(r, n))

(* Mutant: a read that reaches the end of the buffer stops there. *)
dequeueDirect(r, n) ==
  moveFrontPos(r, IF n <= getDirectReadSize(r) THEN n ELSE getDirectReadSize(r))

dequeue(r, n) == moveFrontPos(r, PeekSize(r, n))
=============================================================================
