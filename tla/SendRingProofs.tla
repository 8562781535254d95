--------------------------- MODULE SendRingProofs ---------------------------
(***************************************************************************)
(* Theorems about SendRing, for any ring of whole pointers, any number of  *)
(* workers and of packets: no pointer is torn, lost, sent twice or freed   *)
(* before it was sent (SentInOrder), and no packet is refused but by a     *)
(* full ring (RefusedOnlyWhenFull).                                        *)
(*                                                                         *)
(* The invariant is about what the loads of a thread may have shown it.    *)
(* The sender sees front run ahead of what it read before, so that its     *)
(* loads show less and less in use and never less than there is; the one   *)
(* thread that holds the ring sees rear run ahead, so that its loads show  *)
(* more and more and never more than there is.  A size computed from       *)
(* several loads may be none the ring ever had, and yet it errs to the     *)
(* safe side, because all positions are multiples of the size of a         *)
(* pointer.                                                                *)
(***************************************************************************)
EXTENDS SendRing, SequenceTheorems, WellFoundedInduction, NaturalsInduction, TLAPS

-----------------------------------------------------------------------------
(* Induction *)

(* A set of numbers has a least one ...                                    *)
LEMMA Least ==
  ASSUME NEW A, A \subseteq Nat, A # {}
  PROVE  \E m \in A : \A n \in A : m <= n
  <1> DEFINE R == {p \in Nat \X Nat : p[1] < p[2]}
  <1>1. IsWellFoundedOn(R, Nat)
    BY NatLessThanWellFounded DEF OpToRel
  <1>2. \A m, n \in Nat : <<n, m>> \notin R => m <= n
    BY SMT
  <1> HIDE DEF R
  <1>3. PICK m \in A : \A n \in A : <<n, m>> \notin R
    BY <1>1, WFMin
  <1> QED BY <1>2, <1>3

(* ... so that what holds of 0, and of n + 1 where it holds of n, holds of *)
(* them all.                                                               *)
LEMMA Induct ==
  ASSUME NEW A, 0 \in A, \A n \in Nat : n \in A => n + 1 \in A
  PROVE  Nat \subseteq A
  <1> SUFFICES ASSUME Nat \ A # {} PROVE FALSE
    OBVIOUS
  <1>1. PICK m \in Nat \ A : \A n \in Nat \ A : m <= n
    BY Least
  <1>2. m # 0 /\ m - 1 \in Nat
    BY <1>1, SMT
  <1>3. m - 1 \in A
    BY <1>1, <1>2, SMT
  <1>4. m - 1 + 1 \in A
    BY <1>2, <1>3
  <1>5. m - 1 + 1 = m
    BY <1>1, SMT
  <1> QED BY <1>1, <1>4, <1>5

-----------------------------------------------------------------------------
(* One sequence out of many *)

(* f puts the first n sequences of s together, one after the other.        *)
JoinsTo(n, f, s) == \A i \in 1..n : f[i] = IF i = 1 THEN s[i] ELSE f[i - 1] \o s[i]

Joins(f, s) == f = [i \in 1..Len(s) |-> IF i = 1 THEN s[i] ELSE f[i - 1] \o s[i]]

(* One more of them. *)
LEMMA JoinMore ==
  ASSUME NEW X, NEW s \in Seq(Seq(X)), NEW n \in Nat, n + 1 <= Len(s),
         NEW f \in [1..n -> Seq(X)], JoinsTo(n, f, s)
  PROVE  \E g \in [1..(n + 1) -> Seq(X)] : JoinsTo(n + 1, g, s)
  <1> DEFINE last == IF n = 0 THEN s[n + 1] ELSE f[n] \o s[n + 1]
             g == [i \in 1..(n + 1) |-> IF i = n + 1 THEN last ELSE f[i]]
  <1>1. s[n + 1] \in Seq(X)
    OBVIOUS
  <1>2. n # 0 => f[n] \in Seq(X)
    OBVIOUS
  <1>3. last \in Seq(X)
    <2>1. n # 0 => f[n] \o s[n + 1] \in Seq(X)
      BY <1>1, <1>2
    <2> QED BY <1>1, <2>1
  <1>4. ASSUME NEW i \in 1..(n + 1)
        PROVE  g[i] \in Seq(X) /\ g[i] = IF i = 1 THEN s[i] ELSE g[i - 1] \o s[i]
    <2>1. CASE i = n + 1
      <3>1. g[i] = last /\ (i # 1 => g[i - 1] = f[n] /\ n # 0) /\ (i = 1 => n = 0)
        <4> HIDE DEF last
        <4> QED BY <2>1
      <3> HIDE DEF g
      <3> QED BY <1>3, <2>1, <3>1
    <2>2. CASE i # n + 1
      <3>1. i \in 1..n /\ g[i] = f[i] /\ (i # 1 => g[i - 1] = f[i - 1])
        BY <2>2
      <3> HIDE DEF g
      <3> QED BY <3>1 DEF JoinsTo
    <2> QED BY <2>1, <2>2
  <1>5. g \in [1..(n + 1) -> Seq(X)]
    <2> HIDE DEF last
    <2> QED BY <1>4
  <1> HIDE DEF g
  <1> QED BY <1>4, <1>5 DEF JoinsTo

(* There is a function that puts them all together ...                     *)
LEMMA JoinExists ==
  ASSUME NEW X, NEW s \in Seq(Seq(X))
  PROVE  \E f \in [1..Len(s) -> Seq(X)] : Joins(f, s)
  <1> DEFINE A == {n \in Nat : n <= Len(s) => \E f \in [1..n -> Seq(X)] : JoinsTo(n, f, s)}
  <1>1. 0 \in A
    <2>1. \E f \in [1..0 -> Seq(X)] : JoinsTo(0, f, s)
      <3> DEFINE f == [i \in 1..0 |-> <<>>]
      <3>1. f \in [1..0 -> Seq(X)] /\ JoinsTo(0, f, s)
        BY SMT DEF JoinsTo
      <3> HIDE DEF f
      <3> QED BY <3>1
    <2> QED BY <2>1
  <1>2. ASSUME NEW n \in Nat, n \in A PROVE n + 1 \in A
    <2>1. ASSUME n + 1 <= Len(s) PROVE \E f \in [1..(n + 1) -> Seq(X)] : JoinsTo(n + 1, f, s)
      <3>1. Len(s) \in Nat
        OBVIOUS
      <3>2. n <= Len(s)
        BY <2>1, <3>1
      <3>3. PICK f \in [1..n -> Seq(X)] : JoinsTo(n, f, s)
        BY <1>2, <3>2
      <3> QED BY <2>1, <3>3, JoinMore
    <2> QED BY <2>1
  <1> HIDE DEF A
  <1>3. Len(s) \in A
    BY <1>1, <1>2, Induct
  <1>4. PICK f \in [1..Len(s) -> Seq(X)] : JoinsTo(Len(s), f, s)
    BY <1>3 DEF A
  <1>5. f = [i \in 1..Len(s) |-> IF i = 1 THEN s[i] ELSE f[i - 1] \o s[i]]
    BY <1>4 DEF JoinsTo
  <1> QED BY <1>5 DEF Joins

(* t begins with s. *)
Begins(s, t) == Len(s) <= Len(t) /\ \A i \in 1..Len(s) : s[i] = t[i]

(* ... and one only, whose values on a first part need no more than that.  *)
LEMMA JoinUnique ==
  ASSUME NEW s, NEW t, NEW f, NEW g, Joins(f, s), Joins(g, t),
         Len(s) \in Nat, Len(t) \in Nat, Begins(s, t)
  PROVE  \A i \in 1..Len(s) : f[i] = g[i]
  <1> DEFINE n == Len(s)
             A == {k \in Nat : k \in 1..n => f[k] = g[k]}
  <1>1. 0 \in A
    OBVIOUS
  <1>2. ASSUME NEW k \in Nat, k \in A PROVE k + 1 \in A
    <2> SUFFICES ASSUME k + 1 \in 1..n PROVE f[k + 1] = g[k + 1]
      OBVIOUS
    <2>1. k + 1 \in 1..Len(s) /\ k + 1 \in 1..Len(t) /\ s[k + 1] = t[k + 1] /\ k + 1 - 1 = k
      BY DEF Begins
    <2>2. /\ f[k + 1] = IF k + 1 = 1 THEN s[k + 1] ELSE f[k] \o s[k + 1]
          /\ g[k + 1] = IF k + 1 = 1 THEN t[k + 1] ELSE g[k] \o t[k + 1]
      <3> DEFINE F(i) == IF i = 1 THEN s[i] ELSE f[i - 1] \o s[i]
                 G(i) == IF i = 1 THEN t[i] ELSE g[i - 1] \o t[i]
      <3>1. f = [i \in 1..Len(s) |-> F(i)] /\ g = [i \in 1..Len(t) |-> G(i)]
        BY DEF Joins
      <3>2. f[k + 1] = F(k + 1) /\ g[k + 1] = G(k + 1)
        <4> HIDE DEF F, G
        <4> QED BY <2>1, <3>1
      <3> QED BY <2>1, <3>2
    <2> QED BY <1>2, <2>1, <2>2
  <1> HIDE DEF A
  <1>3. Nat \subseteq A
    BY <1>1, <1>2, Induct
  <1> QED BY <1>3 DEF A

(* FlattenSeq is the last value of that function. *)
LEMMA FlatJoin ==
  ASSUME NEW X, NEW s \in Seq(Seq(X)), NEW f, Joins(f, s), s # <<>>
  PROVE  FlattenSeq(s) = f[Len(s)] /\ FlattenSeq(s) \in Seq(X)
  <1> DEFINE g == CHOOSE g : g = [i \in 1..Len(s) |-> IF i = 1 THEN s[i] ELSE g[i - 1] \o s[i]]
  <1>0. Len(s) \in Nat \ {0}
    OBVIOUS
  <1>1. PICK h \in [1..Len(s) -> Seq(X)] : Joins(h, s)
    BY JoinExists
  <1>2. Joins(g, s)
    BY <1>1 DEF Joins
  <1>3. FlattenSeq(s) = g[Len(s)]
    BY <1>0 DEF FlattenSeq
  <1> HIDE DEF g
  <1>4. g[Len(s)] = f[Len(s)] /\ g[Len(s)] = h[Len(s)]
    <2>1. Begins(s, s) /\ Len(s) \in 1..Len(s)
      BY <1>0 DEF Begins
    <2> QED BY <1>0, <1>1, <1>2, <2>1, JoinUnique
  <1>5. h[Len(s)] \in Seq(X)
    <2>1. Len(s) \in 1..Len(s)
      BY <1>0
    <2> QED BY <1>1, <2>1
  <1> QED BY <1>3, <1>4, <1>5

-----------------------------------------------------------------------------
(* The values of such a function. *)
LEMMA JoinAt ==
  ASSUME NEW f, NEW s, Joins(f, s), NEW i \in 1..Len(s)
  PROVE  f[i] = IF i = 1 THEN s[i] ELSE f[i - 1] \o s[i]
  <1> DEFINE F(j) == IF j = 1 THEN s[j] ELSE f[j - 1] \o s[j]
  <1>1. f = [j \in 1..Len(s) |-> F(j)]
    BY DEF Joins
  <1>2. f[i] = F(i)
    <2> HIDE DEF F
    <2> QED BY <1>1
  <1> QED BY <1>2

(* The next of them. *)
LEMMA JoinNext ==
  ASSUME NEW f, NEW s, Joins(f, s), NEW n \in Nat, n + 1 \in 1..Len(s)
  PROVE  f[n + 1] = IF n = 0 THEN s[n + 1] ELSE f[n] \o s[n + 1]
  <1> DEFINE i == n + 1
  <1>1. i - 1 = n /\ (i = 1 <=> n = 0) /\ i \in 1..Len(s)
    OBVIOUS
  <1> HIDE DEF i
  <1>2. f[i] = IF i = 1 THEN s[i] ELSE f[i - 1] \o s[i]
    BY <1>1, JoinAt
  <1>3. f[i] = IF n = 0 THEN s[i] ELSE f[n] \o s[i]
    BY <1>1, <1>2
  <1> QED BY <1>3 DEF i

(* What is put together is a sequence. *)
LEMMA FlatType ==
  ASSUME NEW X, NEW s \in Seq(Seq(X))
  PROVE  FlattenSeq(s) \in Seq(X) /\ (s = <<>> => FlattenSeq(s) = <<>>)
  <1>1. CASE s = <<>>
    BY <1>1 DEF FlattenSeq
  <1>2. CASE s # <<>>
    BY <1>2, JoinExists, FlatJoin
  <1> QED BY <1>1, <1>2

(* One sequence more at the end. *)
LEMMA FlatAppend ==
  ASSUME NEW X, NEW s \in Seq(Seq(X)), NEW x \in Seq(X)
  PROVE  FlattenSeq(Append(s, x)) = FlattenSeq(s) \o x
  <1> DEFINE t == Append(s, x)
  <1>1. /\ t \in Seq(Seq(X)) /\ t # <<>> /\ Len(s) \in Nat /\ Len(t) = Len(s) + 1
        /\ t[Len(s) + 1] = x /\ \A i \in 1..Len(s) : t[i] = s[i]
    BY AppendProperties
  <1> HIDE DEF t
  <1>2. PICK g : g \in [1..Len(t) -> Seq(X)] /\ Joins(g, t)
    BY <1>1, JoinExists
  <1>3. FlattenSeq(t) = g[Len(t)]
    BY <1>1, <1>2, FlatJoin
  <1>4. Len(t) \in 1..Len(t) /\ (Len(t) = 1 <=> Len(s) = 0) /\ Len(t) - 1 = Len(s)
    BY <1>1
  <1>5. g[Len(t)] = IF Len(s) = 0 THEN x ELSE g[Len(s)] \o x
    <2>1. Len(s) + 1 \in 1..Len(t)
      BY <1>1
    <2>2. g[Len(s) + 1] = IF Len(s) = 0 THEN t[Len(s) + 1] ELSE g[Len(s)] \o t[Len(s) + 1]
      BY <1>1, <1>2, <2>1, JoinNext
    <2> QED BY <1>1, <2>2
  <1>6. CASE s = <<>>
    <2>1. FlattenSeq(s) = <<>> /\ Len(s) = 0
      BY <1>6, FlatType
    <2>2. <<>> \o x = x
      BY ConcatEmptySeq
    <2> QED BY <1>3, <1>5, <2>1, <2>2 DEF t
  <1>7. CASE s # <<>>
    <2>1. Len(s) # 0 /\ Len(s) \in 1..Len(s)
      BY <1>1, <1>7, EmptySeq
    <2>2. PICK f : f \in [1..Len(s) -> Seq(X)] /\ Joins(f, s)
      BY JoinExists
    <2>3. FlattenSeq(s) = f[Len(s)]
      BY <1>7, <2>2, FlatJoin
    <2>4. f[Len(s)] = g[Len(s)]
      <3>1. Begins(s, t) /\ Len(t) \in Nat
        BY <1>1 DEF Begins
      <3>2. Joins(f, s) /\ Joins(g, t) /\ Len(s) \in Nat /\ Len(t) \in Nat /\ Begins(s, t)
        BY <1>1, <1>2, <2>2, <3>1
      <3>3. \A i \in 1..Len(s) : f[i] = g[i]
        BY <3>2, JoinUnique
      <3> QED BY <2>1, <3>3
    <2> QED BY <1>3, <1>5, <2>1, <2>3, <2>4 DEF t
  <1> QED BY <1>6, <1>7

-----------------------------------------------------------------------------
(* Around the end of the ring *)

(* The remainder of a division is less than the divisor.                   *)
LEMMA Remainder == ASSUME NEW a \in Int, NEW b \in Nat, b > 0 PROVE a % b \in 0..(b - 1)
  BY SMT

(* A whole turn leads to the same place. *)
LEMMA Turn ==
  ASSUME NEW n \in Nat, n > 0, NEW a \in Int
  PROVE  (a + n) % n = a % n
  <1> DEFINE q == a \div n
             r == a % n
             p == (a + n) \div n
             s == (a + n) % n
  <1>1. q \in Int /\ r \in Int /\ 0 <= r /\ r < n /\ a = n * q + r
    BY SMT
  <1>2. a + n \in Int
    OBVIOUS
  <1>3. p \in Int /\ s \in Int /\ 0 <= s /\ s < n /\ a + n = n * p + s
    BY <1>2, SMT
  <1> HIDE DEF q, r, p, s
  <1> DEFINE d == p - q - 1
  <1>4. d \in Int /\ n * d = n * p - n * q - n
    BY <1>1, <1>3
  <1>5. n * d = r - s
    <2>1. n * p \in Int /\ n * q \in Int
      BY <1>1, <1>3
    <2> QED BY <1>1, <1>3, <1>4, <2>1
  <1> HIDE DEF d
  <1>6. d >= 1 => n * d >= n
    BY <1>4, SMT
  <1>7. d <= -1 => n * d <= -n
    BY <1>4, SMT
  <1>8. d = 0
    <2>1. n * d \in Int
      BY <1>4
    <2> QED BY <1>1, <1>3, <1>4, <1>5, <1>6, <1>7, <2>1
  <1>9. r = s
    <2>1. n * d = 0
      BY <1>8
    <2> QED BY <1>1, <1>3, <1>5, <2>1
  <1> QED BY <1>9 DEF r, s

(* A position beyond the end, by less than a whole turn.                   *)
LEMMA WrapOnce ==
  ASSUME NEW n \in Nat, n > 0, NEW a \in Int, 0 <= a, a < 2 * n
  PROVE  a % n = IF a < n THEN a ELSE a - n
  <1>1. CASE a < n
    BY <1>1, SMT
  <1>2. CASE a >= n
    <2> DEFINE q == a \div n
               r == a % n
    <2>1. q \in Int /\ r \in Int /\ 0 <= r /\ r < n /\ a = n * q + r
      BY SMT
    <2> HIDE DEF q, r
    <2>2. q <= 0 => n * q <= 0
      BY <2>1, SMT
    <2>3. q >= 2 => n * q >= n * 2
      BY <2>1, SMT
    <2>4. q = 1 => n * q = n
      OBVIOUS
    <2>5. ~(q <= 0) /\ ~(q >= 2)
      <3>1. n * q \in Int
        BY <2>1
      <3> QED BY <1>2, <2>1, <2>2, <2>3, <3>1
    <2>6. q = 1
      BY <2>1, <2>5
    <2>7. r = a - n
      BY <2>1, <2>4, <2>6
    <2>8. a % n = a - n
      BY <2>7 DEF r
    <2> HIDE DEF r
    <2> QED BY <1>2, <2>8
  <1> QED BY <1>1, <1>2

(* What is in use of a ring, full or not.                                  *)
LEMMA InUseIs ==
  ASSUME NEW n \in Nat, n > 1, NEW r, r.size = n,
         NEW f \in 0..(n - 1), NEW e \in 0..(n - 1), r.front = f, r.rear = e
  PROVE  getUseSize(r) = IF f <= e THEN e - f ELSE n + e - f
  BY DEF getUseSize, isEmpty, isFull

(* A ring of n bytes from B *)
RingOf(n, B, r) == n \in Nat /\ n > 0 /\ r.size = n /\ r.buffer \in [0..(n - 1) -> B]

(* Bytes taken from it are as many as asked for, and from B.               *)
LEMMA BytesFrom ==
  ASSUME NEW n, NEW B, NEW r, RingOf(n, B, r), NEW from \in Int, NEW m \in Nat
  PROVE  /\ BytesAt(r, from, m) \in Seq(B) /\ Len(BytesAt(r, from, m)) = m
         /\ \A i \in 1..m : BytesAt(r, from, m)[i] = r.buffer[(from + i - 1) % n]
  <1>1. BytesAt(r, from, m) = [i \in 1..m |-> r.buffer[(from + i - 1) % n]]
    BY DEF BytesAt, RingOf
  <1>2. ASSUME NEW i \in 1..m PROVE r.buffer[(from + i - 1) % n] \in B
    <2>1. (from + i - 1) % n \in 0..(n - 1)
      BY Remainder DEF RingOf
    <2> QED BY <2>1 DEF RingOf
  <1>3. BytesAt(r, from, m) \in [1..m -> B]
    BY <1>1, <1>2
  <1>4. \A i \in 1..m : BytesAt(r, from, m)[i] = r.buffer[(from + i - 1) % n]
    BY <1>1
  <1>5. BytesAt(r, from, m) \in Seq(B) /\ Len(BytesAt(r, from, m)) = m
    BY <1>3
  <1> QED BY <1>4, <1>5

(* Bytes from a place on are those up to another and those from there on.  *)
Apart(r, from, m, k) == BytesAt(r, from, m + k) = BytesAt(r, from, m) \o BytesAt(r, from + m, k)

(* A read of m + k bytes is the read of m followed by the read of k further *)
(* on, wherever in the ring it starts.                                      *)
LEMMA BytesApart ==
  ASSUME NEW n, NEW B, NEW r, RingOf(n, B, r), NEW from \in Int, NEW m \in Nat, NEW k \in Nat
  PROVE  Apart(r, from, m, k)
  <1> DEFINE a == BytesAt(r, from, m)
             b == BytesAt(r, from + m, k)
             c == BytesAt(r, from, m + k)
  <1>1. a \in Seq(B) /\ Len(a) = m /\ \A i \in 1..m : a[i] = r.buffer[(from + i - 1) % n]
    BY BytesFrom
  <1>2. b \in Seq(B) /\ Len(b) = k /\ \A i \in 1..k : b[i] = r.buffer[((from + m) + i - 1) % n]
    <2>1. from + m \in Int
      OBVIOUS
    <2> QED BY <2>1, BytesFrom
  <1>3. c \in Seq(B) /\ Len(c) = m + k /\ \A i \in 1..(m + k) : c[i] = r.buffer[(from + i - 1) % n]
    <2>1. m + k \in Nat
      OBVIOUS
    <2> QED BY <2>1, BytesFrom
  <1> HIDE DEF a, b, c
  <1>4. a \o b \in Seq(B) /\ Len(a \o b) = m + k
    <2>1. a \in Seq(B) /\ b \in Seq(B) /\ Len(a) = m /\ Len(b) = k
      BY <1>1, <1>2
    <2> QED BY <2>1
  <1>5. ASSUME NEW i \in 1..(m + k) PROVE c[i] = (a \o b)[i]
    <2>1. CASE i <= m
      <3>1. i \in 1..m
        BY <2>1
      <3>2. (a \o b)[i] = a[i]
        BY <1>1, <1>2, <3>1, ConcatProperties
      <3> QED BY <1>1, <1>3, <3>1, <3>2
    <2>2. CASE i > m
      <3> DEFINE j == i - m
      <3>1. j \in 1..k /\ i = m + j /\ (from + m) + j - 1 = from + i - 1 /\ ~(i <= m)
        BY <2>2
      <3>2. (a \o b)[i] = b[j]
        BY <1>1, <1>2, <3>1, ConcatProperties
      <3> HIDE DEF j
      <3> QED BY <1>2, <1>3, <3>1, <3>2
    <2>3. i <= m \/ i > m
      OBVIOUS
    <2> QED BY <2>1, <2>2, <2>3
  <1>6. c = a \o b
    BY <1>3, <1>4, <1>5, SeqEqual
  <1> QED BY <1>6 DEF a, b, c, Apart

(* A place beyond the end, by less than a whole turn, is the one a turn    *)
(* before.                                                                 *)
LEMMA BytesAround ==
  ASSUME NEW n, NEW B, NEW r, RingOf(n, B, r), NEW from \in Nat, from < 2 * n, NEW m \in Nat, m <= n
  PROVE  BytesAt(r, from % n, m) = BytesAt(r, from, m)
  <1>0. n \in Nat /\ n > 0
    BY DEF RingOf
  <1>1. from % n = IF from < n THEN from ELSE from - n
    BY <1>0, WrapOnce
  <1>2. CASE from < n
    BY <1>1, <1>2
  <1>3. CASE from >= n
    <2> DEFINE at == from - n
    <2>1. from % n = at /\ at \in Nat /\ at < n /\ from = at + n
      BY <1>0, <1>1, <1>3
    <2> HIDE DEF at
    <2>2. ASSUME NEW i \in 1..m PROVE (at + i - 1) % n = (from + i - 1) % n
      <3> DEFINE u == at + i - 1
      <3>1. u \in Nat /\ from + i - 1 = u + n
        BY <1>0, <2>1
      <3>2. u < 2 * n
        BY <1>0, <2>1
      <3> HIDE DEF u
      <3>3. (u + n) % n = u % n
        BY <1>0, <3>1, Turn
      <3> QED BY <3>1, <3>3 DEF u
    <2>3. BytesAt(r, at, m) = BytesAt(r, from, m)
      <3>1. at \in Int /\ \A i \in 1..m : r.buffer[(at + i - 1) % n] = r.buffer[(from + i - 1) % n]
        BY <2>1, <2>2
      <3> QED BY <3>1 DEF BytesAt, RingOf
    <2> QED BY <2>1, <2>3
  <1> QED BY <1>0, <1>2, <1>3

-----------------------------------------------------------------------------
(* The threads of SendRing *)

(* What a byte of the ring is, and where a pointer may begin. *)
Byte  == Nat \X Nat
Cells == {p \in 0..(Size - 1) : p % PointerSize = 0}

(* Between the exchange that sets m_isSendPending and WSASend; at a        *)
(* completion; and in sendPacket while it looks for room.                  *)
Posting == {"count", "verify", "peek"}
Freeing == {"dequeue", "front", "clear"}
Filling == {"room", "enqueue"}

CellRing == [size : {Size}, front : Cells, rear : Cells, buffer : [0..(Size - 1) -> Byte]]

(* What each variable holds: the positions are those of whole pointers. *)
TypeInv ==
  /\ ring \in CellRing
  /\ pending \in BOOLEAN /\ count \in Int /\ left \in Int /\ next \in Nat
  /\ pc \in [Threads -> {"idle", "post", "again", "rear", "pending"} \cup Posting \cup Freeing \cup Filling]
  /\ pc["sender"] \notin Freeing \cup {"again"}
  /\ \A w \in Workers : pc[w] \notin Filling \cup {"rear", "pending"}
  /\ loads \in [Threads -> Seq(Cells \X Cells)]
  /\ flight = <<>> \/ (Len(flight) = 1 /\ flight[1] \in Seq(Byte))
  /\ accepted \in Seq(Nat) /\ sent \in Seq(Byte) /\ freed \in Seq(Byte)

(* The threads that may read the ring and move front: one at a time, and   *)
(* none while packets are given to WSASend.                                *)
Holds(t) == pc[t] \in Posting \cup Freeing

Exclusive == /\ \A t, u \in Threads : Holds(t) /\ Holds(u) => t = u
             /\ \A t \in Threads : Holds(t) => pending /\ flight = <<>>
             /\ flight # <<>> => pending

(* What is in use, now and as a load showed it. *)
InUse == getUseSize(ring)
Used(p) == IF p[1] <= p[2] THEN p[2] - p[1] ELSE Size + p[2] - p[1]

(* The loads of the sender show its own rear, and less and less in use,    *)
(* never less than there is.  From its test of the size on they show room  *)
(* for two pointers: one more than it writes, so that front never meets    *)
(* rear.                                                                   *)
SeenBySender ==
  pc["sender"] \in Filling =>
    \A i \in 1..Len(loads["sender"]) :
      /\ loads["sender"][i][2] = ring.rear
      /\ Used(loads["sender"][i]) >= InUse
      /\ pc["sender"] = "enqueue" => Used(loads["sender"][i]) + 2 * PointerSize <= Size
      /\ \A j \in i..Len(loads["sender"]) : Used(loads["sender"][i]) >= Used(loads["sender"][j])

(* What a thread that holds the ring still has to read of it. *)
Due(t) == CASE pc[t] = "peek" -> PointerSize * count
            [] pc[t] = "dequeue" -> PointerSize * left
            [] OTHER -> 0

(* Its loads show its own front, and more and more in use, never more than *)
(* there is and never less than is due.                                    *)
SeenByHolder(t) ==
  pc[t] \in Posting \cup {"dequeue"} =>
    \A i \in 1..Len(loads[t]) :
      /\ loads[t][i][1] = ring.front
      /\ Used(loads[t][i]) <= InUse
      /\ Due(t) <= Used(loads[t][i])
      /\ \A j \in i..Len(loads[t]) : Used(loads[t][i]) <= Used(loads[t][j])

(* The room the sender has found stays, and before it stores rear the      *)
(* packet lies there.                                                      *)
RoomKept ==
  /\ pc["sender"] \in {"enqueue", "rear"} => InUse + 2 * PointerSize <= Size
  /\ pc["sender"] = "rear" =>
       /\ EnqueueSize(View("sender")) = PointerSize
       /\ \A j \in 1..PointerSize : ring.buffer[ring.rear + j - 1] = <<next, j>>

(* A packet has been copied out and front not moved yet; packets sent are  *)
(* still to be freed.                                                      *)
AtFront == \E w \in Workers : pc[w] = "front"
Emptying == \E w \in Workers : pc[w] \in {"dequeue", "front"}
Taken == IF AtFront THEN PointerSize ELSE 0
ToFree == IF Emptying THEN PointerSize * left ELSE 0

(* What v showed was enough to read a pointer. *)
ReadWhole(v) == /\ PeekedSize(v, PointerSize) = PointerSize
                /\ Len(v) = 7 \/ (Len(v) = 3 /\ DirectReadSize(SubSeq(v, 2, 3)) >= PointerSize)

(* The packets counted, given to WSASend and still to be freed are in the  *)
(* ring.                                                                   *)
Counted ==
  /\ \A t \in Threads : pc[t] \in {"verify", "peek"} => PointerSize * count <= InUse
  /\ flight # <<>> => /\ count >= 0 /\ PointerSize * count <= InUse
                      /\ flight[1] = BytesAt(ring, ring.front, PointerSize * count)
  /\ Emptying => left > 0 /\ PointerSize * left <= InUse
  /\ \A w \in Workers : pc[w] = "front" => ReadWhole(View(w))

(* What was freed and what is in the ring is what was accepted, and what   *)
(* was sent is the beginning of it: as much as is still to be freed.       *)
Kept ==
  /\ freed \o BytesAt(ring, ring.front + Taken, InUse - Taken) = BytesOf(accepted)
  /\ sent = freed \o BytesAt(ring, ring.front + Taken, ToFree - Taken)

RingInv == /\ TypeInv /\ Exclusive
           /\ SeenBySender /\ (\A t \in Threads : SeenByHolder(t))
           /\ RoomKept /\ Counted /\ Kept

-----------------------------------------------------------------------------
(* Whole pointers *)

(* The sizes of the ring, of a pointer and of a batch. *)
LEMMA Sizes ==
  /\ Size \in Nat /\ PointerSize \in Nat /\ PointerSize > 1 /\ Size > PointerSize
  /\ Size % PointerSize = 0 /\ MaxBatch \in Nat /\ MaxBatch > 0 /\ MaxPackets \in Nat
  /\ "sender" \notin Workers
  BY SendRingAssumption

(* Multiples of the size of a pointer. *)
Whole(p) == p \in Int /\ \E k \in Int : p = PointerSize * k

(* The positions of pointers in the ring are the whole ones. *)
LEMMA CellIs ==
  /\ \A p : p \in Cells <=> p \in 0..(Size - 1) /\ Whole(p)
  /\ Whole(Size)
  <1>1. ASSUME NEW p \in Int, p % PointerSize = 0 PROVE Whole(p)
    <2> DEFINE k == p \div PointerSize
    <2>1. k \in Int /\ p = PointerSize * k + (p % PointerSize)
      BY Sizes, SMT
    <2> HIDE DEF k
    <2>2. PointerSize * k \in Int
      BY <2>1, Sizes
    <2> QED BY <1>1, <2>1, <2>2 DEF Whole
  <1>2. ASSUME NEW p \in Int, Whole(p) PROVE p % PointerSize = 0
    <2>1. PICK k \in Int : p = PointerSize * k
      BY <1>2 DEF Whole
    <2> DEFINE r == p % PointerSize
               q == p \div PointerSize
               d == k - q
    <2>2. q \in Int /\ r \in Int /\ 0 <= r /\ r < PointerSize /\ p = PointerSize * q + r
      BY Sizes, SMT
    <2> HIDE DEF r, q
    <2>3. d \in Int /\ PointerSize * d = PointerSize * k - PointerSize * q
      BY <2>2, Sizes
    <2>4. PointerSize * d = r
      <3>1. PointerSize * q \in Int
        BY <2>2, Sizes
      <3> QED BY <2>1, <2>2, <2>3, <3>1
    <2> HIDE DEF d
    <2>5. (d >= 1 => PointerSize * d >= PointerSize) /\ (d <= -1 => PointerSize * d <= -PointerSize)
      BY <2>3, Sizes, SMT
    <2>6. d = 0
      BY <2>2, <2>3, <2>4, <2>5, Sizes
    <2>7. PointerSize * d = 0
      BY <2>6, Sizes
    <2> QED BY <2>4, <2>7 DEF r
  <1>3. Whole(Size)
    BY <1>1, Sizes
  <1> QED BY <1>1, <1>2, <1>3, Sizes DEF Cells

(* They are a pointer apart. *)
LEMMA WholeSteps ==
  ASSUME NEW a, NEW b, Whole(a), Whole(b)
  PROVE  /\ a \in Int /\ b \in Int
         /\ Whole(a + b) /\ Whole(a - b)
         /\ a < b => a + PointerSize <= b
  <1>1. PICK k \in Int : a = PointerSize * k
    BY DEF Whole
  <1>2. PICK m \in Int : b = PointerSize * m
    BY DEF Whole
  <1>3. /\ PointerSize * (k + m) = a + b /\ k + m \in Int
        /\ PointerSize * (k - m) = a - b /\ k - m \in Int
    BY <1>1, <1>2, Sizes
  <1>4. Whole(a + b) /\ Whole(a - b)
    <2>1. a + b \in Int /\ a - b \in Int
      BY DEF Whole
    <2> QED BY <1>3, <2>1 DEF Whole
  <1>5. a < b => a + PointerSize <= b
    <2> DEFINE d == m - k
    <2>1. d \in Int /\ PointerSize * d = b - a
      BY <1>1, <1>2, Sizes
    <2> HIDE DEF d
    <2>2. d <= 0 => PointerSize * d <= 0
      BY <2>1, Sizes, SMT
    <2>3. d >= 1 => PointerSize * d >= PointerSize
      BY <2>1, Sizes, SMT
    <2> QED BY <2>1, <2>2, <2>3, Sizes DEF Whole
  <1> QED BY <1>4, <1>5 DEF Whole

(* So many pointers, and one less. *)
LEMMA WholeTimes ==
  /\ Whole(0) /\ Whole(PointerSize)
  /\ \A k \in Int : /\ Whole(PointerSize * k) /\ PointerSize * (k - 1) = PointerSize * k - PointerSize
                    /\ k > 0 => PointerSize * k >= PointerSize
                    /\ k <= 0 => PointerSize * k <= 0
                    /\ k = 0 => PointerSize * k = 0
  <1>1. Whole(0)
    <2>1. 0 = PointerSize * 0
      BY Sizes
    <2> QED BY <2>1 DEF Whole
  <1>2. Whole(PointerSize)
    <2>1. PointerSize = PointerSize * 1
      BY Sizes
    <2> QED BY <2>1, Sizes DEF Whole
  <1>3. ASSUME NEW k \in Int
        PROVE  /\ Whole(PointerSize * k) /\ PointerSize * (k - 1) = PointerSize * k - PointerSize
               /\ k > 0 => PointerSize * k >= PointerSize
               /\ k <= 0 => PointerSize * k <= 0
               /\ k = 0 => PointerSize * k = 0
    <2>1. PointerSize * k \in Int
      BY Sizes
    <2>2. Whole(PointerSize * k)
      BY <2>1 DEF Whole
    <2>3. PointerSize * (k - 1) = PointerSize * k - PointerSize
      BY Sizes
    <2>4. k > 0 => PointerSize * k >= PointerSize
      BY Sizes, SMT
    <2>5. k <= 0 => PointerSize * k <= 0
      BY Sizes, SMT
    <2>6. k = 0 => PointerSize * k = 0
      BY Sizes
    <2> QED BY <2>2, <2>3, <2>4, <2>5, <2>6
  <1> QED BY <1>1, <1>2, <1>3

(* Of n bytes, whole pointers take no more than n. *)
LEMMA WholeIn ==
  ASSUME NEW n \in Int
  PROVE  /\ n \div PointerSize \in Int
         /\ PointerSize * (n \div PointerSize) <= n
         /\ PointerSize * MaxBatch <= PointerSize * (n \div PointerSize) \/ n \div PointerSize < MaxBatch
  <1> DEFINE q == n \div PointerSize
  <1>1. q \in Int /\ n = PointerSize * q + (n % PointerSize) /\ n % PointerSize \in Int /\ 0 <= n % PointerSize
    BY Sizes, SMT
  <1> HIDE DEF q
  <1>2. PointerSize * q \in Int /\ PointerSize * MaxBatch \in Int
    BY <1>1, Sizes
  <1>3. PointerSize * q <= n
    BY <1>1, <1>2
  <1>4. q >= MaxBatch => PointerSize * MaxBatch <= PointerSize * q
    <2> DEFINE d == q - MaxBatch
    <2>1. d \in Int /\ PointerSize * d = PointerSize * q - PointerSize * MaxBatch
      BY <1>1, Sizes
    <2> HIDE DEF d
    <2>2. d >= 0 => PointerSize * d >= 0
      BY <2>1, Sizes, SMT
    <2>3. q >= MaxBatch => d >= 0
      BY <1>1, Sizes DEF d
    <2> QED BY <1>2, <2>1, <2>2, <2>3
  <1>5. q >= MaxBatch \/ q < MaxBatch
    BY <1>1, Sizes
  <1> QED BY <1>1, <1>3, <1>4, <1>5 DEF q

-----------------------------------------------------------------------------
(* A ring as a load showed it *)

(* What a load showed is a ring with the fields it read. *)
LEMMA ViewIs ==
  ASSUME TypeInv, NEW t \in Threads
  PROVE  /\ loads[t] \in Seq(Cells \X Cells) /\ View(t) \in Seq(CellRing)
         /\ Len(View(t)) = Len(loads[t]) /\ Len(loads[t]) \in Nat
         /\ \A i \in 1..Len(loads[t]) :
              /\ loads[t][i] \in Cells \X Cells
              /\ View(t)[i].front = loads[t][i][1] /\ View(t)[i].rear = loads[t][i][2]
              /\ View(t)[i].size = Size
  <1>1. loads[t] \in Seq(Cells \X Cells)
    BY DEF TypeInv
  <1>2. ring.size = Size
    BY DEF TypeInv, CellRing
  <1>3. Len(loads[t]) \in Nat /\ \A i \in 1..Len(loads[t]) : loads[t][i] \in Cells \X Cells
    BY <1>1
  <1>4. \A i \in 1..Len(loads[t]) :
          /\ View(t)[i].front = loads[t][i][1] /\ View(t)[i].rear = loads[t][i][2]
          /\ View(t)[i].size = Size
    BY <1>2 DEF View, TypeInv, CellRing
  <1>5. View(t) \in Seq(CellRing) /\ Len(View(t)) = Len(loads[t])
    <2>1. ASSUME NEW i \in 1..Len(loads[t])
          PROVE  [ring EXCEPT !.front = loads[t][i][1], !.rear = loads[t][i][2]] \in CellRing
      <3>1. loads[t][i][1] \in Cells /\ loads[t][i][2] \in Cells
        BY <1>3
      <3> QED BY <3>1 DEF TypeInv, CellRing
    <2>2. View(t) \in [1..Len(loads[t]) -> CellRing]
      BY <2>1 DEF View
    <2> QED BY <1>3, <2>2
  <1> QED BY <1>1, <1>3, <1>4, <1>5

(* Whole pointers never fill it but for one byte, and what is in use of it *)
(* is whole pointers.                                                      *)
LEMMA CellsFree ==
  ASSUME NEW p \in Cells \X Cells
  PROVE  /\ p[1] \in Int /\ p[2] \in Int /\ 0 <= p[1] /\ 0 <= p[2]
         /\ p[1] + PointerSize <= Size /\ p[2] + PointerSize <= Size
         /\ Used(p) \in Int /\ 0 <= Used(p) /\ Used(p) + PointerSize <= Size
         /\ Whole(p[1]) /\ Whole(p[2]) /\ Whole(Used(p))
         /\ \A v : v.front = p[1] /\ v.rear = p[2] /\ v.size = Size =>
              ~isFull(v) /\ (isEmpty(v) <=> Used(p) = 0)
  <1>1. /\ p[1] \in Int /\ p[2] \in Int /\ 0 <= p[1] /\ 0 <= p[2] /\ p[1] < Size /\ p[2] < Size
        /\ Whole(p[1]) /\ Whole(p[2]) /\ Whole(Size)
    BY CellIs, Sizes
  <1>2. p[1] + PointerSize <= Size /\ p[2] + PointerSize <= Size
    BY <1>1, WholeSteps
  <1>3. Whole(p[2] - p[1]) /\ Whole(Size + p[2]) /\ Whole((Size + p[2]) - p[1])
    BY <1>1, WholeSteps
  <1>4. Whole(Used(p)) /\ Used(p) \in Int /\ 0 <= Used(p) /\ Used(p) < Size /\ (Used(p) = 0 <=> p[1] = p[2])
    <2>1. CASE p[1] <= p[2]
      <3>1. Used(p) = p[2] - p[1]
        BY <2>1 DEF Used
      <3> QED BY <1>1, <1>3, <2>1, <3>1, Sizes
    <2>2. CASE ~(p[1] <= p[2])
      <3>1. Size + p[2] - p[1] = (Size + p[2]) - p[1]
        BY <1>1, Sizes
      <3>2. Used(p) = (Size + p[2]) - p[1]
        BY <2>2, <3>1 DEF Used
      <3> QED BY <1>1, <1>3, <2>2, <3>2, Sizes
    <2> QED BY <2>1, <2>2
  <1>5. Used(p) + PointerSize <= Size
    BY <1>1, <1>4, WholeSteps
  <1>6. ASSUME NEW v, v.front = p[1], v.rear = p[2], v.size = Size
        PROVE  ~isFull(v) /\ (isEmpty(v) <=> Used(p) = 0)
    <2>1. p[1] # p[2] + 1
      <3>1. p[2] < p[1] => p[2] + PointerSize <= p[1]
        BY <1>1, WholeSteps
      <3> QED BY <1>1, <3>1, Sizes
    <2>2. ~(p[1] = 0 /\ p[2] = Size - 1)
      BY <1>1, <1>2, Sizes
    <2> QED BY <1>4, <1>6, <2>1, <2>2 DEF isFull, isEmpty
  <1> QED BY <1>1, <1>2, <1>4, <1>5, <1>6

-----------------------------------------------------------------------------
(* What the methods of the ring compute from several loads *)

UsedIn(v) == Used(<<v.front, v.rear>>)

(* The same of a ring: there is always room for one pointer, and it is     *)
(* never full but for a byte.                                              *)
LEMMA ViewFree ==
  ASSUME NEW v \in CellRing
  PROVE  /\ v.front \in Int /\ v.rear \in Int /\ 0 <= v.front /\ 0 <= v.rear
         /\ v.front + PointerSize <= Size /\ v.rear + PointerSize <= Size
         /\ UsedIn(v) \in Int /\ 0 <= UsedIn(v) /\ UsedIn(v) + PointerSize <= Size
         /\ Whole(v.front) /\ Whole(v.rear) /\ Whole(UsedIn(v))
         /\ UsedIn(v) = IF v.front <= v.rear THEN v.rear - v.front ELSE Size + v.rear - v.front
         /\ ~isFull(v) /\ (isEmpty(v) <=> UsedIn(v) = 0) /\ v.size = Size
  <1> DEFINE p == <<v.front, v.rear>>
  <1>1. p \in Cells \X Cells /\ p[1] = v.front /\ p[2] = v.rear /\ v.size = Size /\ UsedIn(v) = Used(p)
    BY DEF CellRing, UsedIn
  <1>2. UsedIn(v) = IF v.front <= v.rear THEN v.rear - v.front ELSE Size + v.rear - v.front
    BY DEF UsedIn, Used
  <1> HIDE DEF p
  <1> QED BY <1>1, <1>2, CellsFree

(* Its positions lie inside the buffer. *)
LEMMA ViewEnds ==
  ASSUME NEW v \in CellRing
  PROVE  /\ v.front \in 0..(Size - 1) /\ v.rear \in 0..(Size - 1) /\ UsedIn(v) \in 0..(Size - 1)
         /\ UsedIn(v) = IF v.front <= v.rear THEN v.rear - v.front ELSE Size + v.rear - v.front
  BY ViewFree, Sizes

(* The thread that sends sees rear run ahead: its size is never too large, *)
(* and right where rear has gone around the end before.                    *)
LEMMA HolderUse ==
  ASSUME NEW v, v[1] \in CellRing, v[2] \in CellRing, v[3] \in CellRing, v[4] \in CellRing,
         v[4].front = v[3].front, UsedIn(v[1]) <= UsedIn(v[3]), UsedIn(v[3]) <= UsedIn(v[4])
  PROVE  /\ UseSize(v) \in Int /\ UseSize(v) <= UsedIn(v[4])
         /\ ~isEmpty(v[1]) /\ v[3].rear < v[3].front => UseSize(v) = UsedIn(v[4])
  <1>1. CASE isEmpty(v[1])
    <2>1. UseSize(v) = 0
      BY <1>1 DEF UseSize
    <2> QED BY <1>1, <2>1, ViewFree
  <1>2. CASE ~isEmpty(v[1])
    <2> DEFINE f == v[3].front
               a == v[3].rear
               b == v[4].rear
    <2>1. UseSize(v) = IF f < a THEN b - f ELSE Size - (f - b)
      BY <1>2, ViewFree DEF UseSize
    <2>2. /\ f \in Int /\ a \in Int /\ b \in Int /\ 0 <= f /\ 0 <= a /\ 0 <= b /\ f < Size /\ a < Size /\ b < Size
          /\ UsedIn(v[1]) \in Int /\ 0 < UsedIn(v[1])
          /\ UsedIn(v[3]) = (IF f <= a THEN a - f ELSE Size + a - f)
          /\ UsedIn(v[4]) = (IF f <= b THEN b - f ELSE Size + b - f)
      BY <1>2, ViewFree, Sizes
    <2> HIDE DEF f, a, b
    <2>3. UseSize(v) \in Int /\ UseSize(v) <= UsedIn(v[4]) /\ (a < f => UseSize(v) = UsedIn(v[4]))
      <3>1. CASE f < a
        BY <2>1, <2>2, <3>1, Sizes
      <3>2. CASE ~(f < a)
        BY <2>1, <2>2, <3>2, Sizes
      <3> QED BY <3>1, <3>2
    <2> QED BY <2>3 DEF f, a
  <1> QED BY <1>1, <1>2

(* The sender sees front run ahead: its size is right, or as large as the  *)
(* buffer, and then front has gone around the end and left room.           *)
LEMMA SenderUse ==
  ASSUME NEW v, v[1] \in CellRing, v[2] \in CellRing, v[3] \in CellRing, v[4] \in CellRing,
         v[4].rear = v[3].rear, UsedIn(v[4]) <= UsedIn(v[3]), ~isEmpty(v[1])
  PROVE  \/ UseSize(v) = UsedIn(v[4])
         \/ UseSize(v) \in Int /\ UseSize(v) >= Size /\ UsedIn(v[4]) + 2 * PointerSize <= Size
  <1> DEFINE r == v[3].rear
             a == v[3].front
             b == v[4].front
             s == UsedIn(v[3])
             u == UsedIn(v[4])
  <1>1. UseSize(v) = IF a < r THEN r - b ELSE Size - (b - r)
    BY ViewFree DEF UseSize
  <1>2. /\ r \in Int /\ a \in Int /\ b \in Int /\ 0 <= r /\ 0 <= a /\ 0 <= b /\ r < Size /\ a < Size /\ b < Size
        /\ s \in Int /\ u \in Int /\ u <= s /\ s + PointerSize <= Size
        /\ s = (IF a <= r THEN r - a ELSE Size + r - a)
        /\ u = (IF b <= r THEN r - b ELSE Size + r - b)
    BY ViewFree, Sizes
  <1>3. u < s => u + PointerSize <= s
    BY ViewFree, WholeSteps
  <1>4. 2 * PointerSize <= Size
    BY CellIs, WholeSteps, WholeTimes, Sizes
  <1> HIDE DEF r, a, b, s, u
  <1>5. UseSize(v) = u \/ (UseSize(v) \in Int /\ UseSize(v) >= Size /\ u + 2 * PointerSize <= Size)
    <2>1. CASE a < r
      BY <1>1, <1>2, <2>1, Sizes
    <2>2. CASE ~(a < r) /\ b > r
      BY <1>1, <1>2, <2>2, Sizes
    <2>3. CASE ~(a < r) /\ b = r
      BY <1>1, <1>2, <1>4, <2>3, Sizes
    <2>4. CASE ~(a < r) /\ b < r
      BY <1>1, <1>2, <1>3, <2>4, Sizes
    <2> QED BY <1>2, <2>1, <2>2, <2>3, <2>4
  <1> QED BY <1>5 DEF u

(* With room for a pointer, enqueue finds it before the end of the buffer. *)
LEMMA DirectRoom ==
  ASSUME NEW v, v[1] \in CellRing, v[2] \in CellRing, v[3] \in CellRing, v[4] \in CellRing,
         v[4].rear = v[3].rear, UsedIn(v[4]) <= UsedIn(v[3]), UsedIn(v[3]) + 2 * PointerSize <= Size
  PROVE  DirectWriteSize(v) \in Int /\ DirectWriteSize(v) >= PointerSize
  <1> DEFINE r == v[3].rear
             f == v[3].front
             s == UsedIn(v[3])
             m == (r + 1) % Size
  <1>1. /\ r \in Int /\ f \in Int /\ 0 <= r /\ 0 <= f /\ r + PointerSize <= Size /\ f < Size
        /\ s = (IF f <= r THEN r - f ELSE Size + r - f) /\ s + 2 * PointerSize <= Size
        /\ UsedIn(v[4]) \in Int /\ 0 <= UsedIn(v[4]) /\ UsedIn(v[4]) <= s
    BY ViewFree, Sizes
  <1>2. ~isFull(v[1]) /\ (isEmpty(v[4]) <=> UsedIn(v[4]) = 0)
    BY ViewFree
  <1>3. m = r + 1
    BY <1>1, WrapOnce, Sizes
  <1> HIDE DEF m
  <1>4. DirectWriteSize(v) = IF isEmpty(v[2]) THEN Size - r
                             ELSE IF f < r THEN IF f = 0 THEN Size - m ELSE Size - r
                             ELSE IF (f - 1) - r >= 0 THEN (f - 1) - r
                             ELSE IF isEmpty(v[4]) THEN Size - r ELSE 0
    BY <1>2 DEF DirectWriteSize, m
  <1> HIDE DEF r, f, s
  <1>5. CASE isEmpty(v[2])
    BY <1>1, <1>4, <1>5, Sizes
  <1>6. CASE ~isEmpty(v[2]) /\ f < r
    BY <1>1, <1>3, <1>4, <1>6, Sizes
  <1>7. CASE ~isEmpty(v[2]) /\ f > r
    BY <1>1, <1>4, <1>7, Sizes
  <1>8. CASE ~isEmpty(v[2]) /\ f = r
    BY <1>1, <1>2, <1>4, <1>8, Sizes
  <1> QED BY <1>1, <1>5, <1>6, <1>7, <1>8

(* Where a pointer has room, it is written whole. *)
LEMMA WriteIs ==
  ASSUME NEW v \in Seq(CellRing), Len(v) >= 5, v[5].rear = v[4].rear, UsedIn(v[5]) <= UsedIn(v[4]),
         UsedIn(v[4]) + 2 * PointerSize <= Size
  PROVE  DirectWriteSize(SubSeq(v, 2, 5)) >= PointerSize /\ EnqueueSize(v) = PointerSize
  <1> DEFINE w == SubSeq(v, 2, 5)
  <1>1. w[1] = v[2] /\ w[2] = v[3] /\ w[3] = v[4] /\ w[4] = v[5]
    BY SubSeqProperties
  <1>2. /\ v[1] \in CellRing /\ v[2] \in CellRing /\ v[3] \in CellRing
        /\ v[4] \in CellRing /\ v[5] \in CellRing
    OBVIOUS
  <1> HIDE DEF w
  <1>3. DirectWriteSize(w) \in Int /\ DirectWriteSize(w) >= PointerSize
    BY <1>1, <1>2, DirectRoom
  <1>4. ~isFull(v[1])
    BY <1>2, ViewFree
  <1> QED BY <1>3, <1>4 DEF EnqueueSize, w

(* What v shows one holder of the ring, from one load to a later one. *)
Rising(v) == \A i, j \in 1..Len(v) : v[i].front = v[j].front /\ (i <= j => UsedIn(v[i]) <= UsedIn(v[j]))

(* The bytes that are due are read, around the end of the buffer too. *)
LEMMA ReadIs ==
  ASSUME NEW v \in Seq(CellRing), Len(v) = 3 \/ Len(v) = 7, Rising(v), NEW n \in Nat,
         \A i \in 1..Len(v) : n <= UsedIn(v[i]),
         Len(v) = 3 => DirectReadSize(SubSeq(v, 2, 3)) >= n
  PROVE  PeekedSize(v, n) = n
  <1>1. CASE n = 0
    BY <1>1 DEF PeekedSize
  <1>2. CASE n > 0
    <2> DEFINE w == SubSeq(v, 2, 3)
               x == SubSeq(v, 4, 7)
               direct == DirectReadSize(w)
               use == UseSize(x)
               f == v[3].front
               r == v[3].rear
    <2>1. w[1] = v[2] /\ w[2] = v[3]
      BY SubSeqProperties
    <2>2. v[1] \in CellRing /\ v[2] \in CellRing /\ v[3] \in CellRing
      OBVIOUS
    <2>3. ~isEmpty(v[1]) /\ ~isEmpty(v[2]) /\ n <= UsedIn(v[3])
      <3>1. n <= UsedIn(v[1]) /\ n <= UsedIn(v[2]) /\ n <= UsedIn(v[3])
        OBVIOUS
      <3> QED BY <1>2, <2>2, <3>1, ViewFree
    <2>4. direct = IF r - f > 0 THEN r - f ELSE Size - f
      <3>1. v[2].front = f
        BY DEF Rising
      <3>2. w[2].size = Size /\ w[1].size = Size
        BY <2>1, <2>2, ViewFree
      <3> QED BY <2>1, <2>3, <3>1, <3>2 DEF DirectReadSize
    <2>5. /\ r \in 0..(Size - 1) /\ f \in 0..(Size - 1)
          /\ UsedIn(v[3]) = IF f <= r THEN r - f ELSE Size + r - f
      BY <2>2, ViewEnds
    <2>6. PeekedSize(v, n) = IF direct >= n THEN n
                             ELSE direct + (IF use >= n - direct THEN n - direct ELSE use)
      BY <1>2, <2>3 DEF PeekedSize
    <2> HIDE DEF r, f, direct, use
    <2>7. CASE direct >= n
      BY <2>6, <2>7
    <2>8. CASE ~(direct >= n)
      <3>1. Len(v) = 7
        BY <2>8 DEF direct
      <3>2. r < f /\ direct = Size - f
        BY <1>2, <2>3, <2>4, <2>5, <2>8, Sizes
      <3>3. x[1] = v[4] /\ x[2] = v[5] /\ x[3] = v[6] /\ x[4] = v[7]
        BY <3>1, SubSeqProperties
      <3>4. v[4] \in CellRing /\ v[5] \in CellRing /\ v[6] \in CellRing /\ v[7] \in CellRing
        BY <3>1
      <3>5. /\ v[6].front = f /\ v[7].front = f /\ n <= UsedIn(v[4]) /\ n <= UsedIn(v[7])
            /\ UsedIn(v[3]) <= UsedIn(v[6]) /\ UsedIn(v[4]) <= UsedIn(v[6]) /\ UsedIn(v[6]) <= UsedIn(v[7])
        BY <3>1 DEF Rising, f
      <3>6. ~isEmpty(x[1])
        BY <1>2, <3>3, <3>4, <3>5, ViewFree
      <3>7. x[3].rear < x[3].front
        <4>1. /\ v[6].rear \in 0..(Size - 1)
              /\ UsedIn(v[6]) = IF f <= v[6].rear THEN v[6].rear - f ELSE Size + v[6].rear - f
          BY <3>4, <3>5, ViewEnds
        <4>2. v[6].rear < f
          BY <2>5, <3>2, <3>5, <4>1, Sizes
        <4> HIDE DEF x
        <4> QED BY <3>3, <3>5, <4>2
      <3>8. use = UsedIn(v[7])
        <4> HIDE DEF x
        <4>1. UseSize(x) = UsedIn(x[4])
          BY <3>3, <3>4, <3>5, <3>6, <3>7, HolderUse
        <4> QED BY <3>3, <4>1 DEF use
      <3>9. UsedIn(v[7]) \in Int /\ direct \in Int
        BY <2>5, <3>2, <3>4, ViewEnds, Sizes
      <3>10. use >= n - direct
        BY <2>5, <3>2, <3>5, <3>8, <3>9, Sizes
      <3> QED BY <2>6, <2>8, <3>9, <3>10
    <2> QED BY <2>7, <2>8
  <1> QED BY <1>1, <1>2

-----------------------------------------------------------------------------
(* The bytes of the packets accepted *)

(* The bytes of a pointer. *)
LEMMA PointerIs ==
  ASSUME NEW n \in Nat
  PROVE  Pointer(n) \in Seq(Byte) /\ Len(Pointer(n)) = PointerSize /\ \A j \in 1..PointerSize : Pointer(n)[j] = <<n, j>>
  <1>1. Pointer(n) \in [1..PointerSize -> Byte]
    BY Sizes DEF Pointer, Byte
  <1>2. \A j \in 1..PointerSize : Pointer(n)[j] = <<n, j>>
    BY DEF Pointer
  <1> QED BY <1>1, <1>2, Sizes

(* One packet more is a pointer more. *)
LEMMA BytesMore ==
  ASSUME NEW s \in Seq(Nat), NEW n \in Nat
  PROVE  BytesOf(s) \in Seq(Byte) /\ BytesOf(Append(s, n)) = BytesOf(s) \o Pointer(n)
  <1> DEFINE P(q) == [i \in 1..Len(q) |-> Pointer(q[i])]
             t == Append(s, n)
  <1>1. t \in Seq(Nat) /\ Len(t) = Len(s) + 1 /\ t[Len(s) + 1] = n /\ \A i \in 1..Len(s) : t[i] = s[i]
    OBVIOUS
  <1> HIDE DEF t
  <1>2. P(s) \in Seq(Seq(Byte)) /\ Len(P(s)) = Len(s) /\ \A i \in 1..Len(s) : P(s)[i] = Pointer(s[i])
    <2>1. \A i \in 1..Len(s) : Pointer(s[i]) \in Seq(Byte)
      BY PointerIs
    <2>2. P(s) \in [1..Len(s) -> Seq(Byte)] /\ Len(s) \in Nat
      BY <2>1
    <2> QED BY <2>2
  <1>3. P(t) \in Seq(Seq(Byte)) /\ Len(P(t)) = Len(t) /\ \A i \in 1..Len(t) : P(t)[i] = Pointer(t[i])
    <2>1. \A i \in 1..Len(t) : Pointer(t[i]) \in Seq(Byte)
      BY <1>1, PointerIs
    <2>2. P(t) \in [1..Len(t) -> Seq(Byte)] /\ Len(t) \in Nat
      BY <1>1, <2>1
    <2> QED BY <2>2
  <1>4. BytesOf(s) = FlattenSeq(P(s)) /\ BytesOf(t) = FlattenSeq(P(t))
    BY DEF BytesOf
  <1> HIDE DEF P
  <1>5. P(t) = Append(P(s), Pointer(n))
    <2> DEFINE q == Append(P(s), Pointer(n))
    <2>1. q \in Seq(Seq(Byte)) /\ Len(q) = Len(s) + 1 /\ q[Len(s) + 1] = Pointer(n) /\ \A i \in 1..Len(s) : q[i] = Pointer(s[i])
      BY <1>2, PointerIs
    <2> HIDE DEF q
    <2>2. ASSUME NEW i \in 1..Len(t) PROVE P(t)[i] = q[i]
      <3>1. i \in 1..Len(s) \/ i = Len(s) + 1
        BY <1>1
      <3> QED BY <1>1, <1>3, <2>1, <3>1
    <2>3. P(t) = q
      BY <1>1, <1>3, <2>1, <2>2, SeqEqual
    <2> QED BY <2>3 DEF q
  <1>6. FlattenSeq(P(s)) \in Seq(Byte)
    BY <1>2, FlatType
  <1>7. FlattenSeq(Append(P(s), Pointer(n))) = FlattenSeq(P(s)) \o Pointer(n)
    BY <1>2, PointerIs, FlatAppend
  <1> QED BY <1>4, <1>5, <1>6, <1>7 DEF t

(* No packets are no bytes. *)
LEMMA BytesOfNone == BytesOf(<<>>) = <<>>
  <1>1. [i \in 1..Len(<<>>) |-> Pointer(<<>>[i])] = <<>>
    OBVIOUS
  <1>2. <<>> \in Seq(Seq(Byte))
    OBVIOUS
  <1> QED BY <1>1, <1>2, FlatType DEF BytesOf

-----------------------------------------------------------------------------
(* The ring, and what a step of a thread leaves alone *)

(* What the ring is at any moment. *)
LEMMA RingIs ==
  ASSUME TypeInv
  PROVE  /\ ring \in CellRing /\ RingOf(Size, Byte, ring) /\ ring.size = Size
         /\ ring.front \in 0..(Size - 1) /\ ring.rear \in 0..(Size - 1)
         /\ InUse = UsedIn(ring) /\ InUse \in 0..(Size - 1) /\ Whole(InUse) /\ InUse + PointerSize <= Size
         /\ InUse = IF ring.front <= ring.rear THEN ring.rear - ring.front ELSE Size + ring.rear - ring.front
  <1>1. ring \in CellRing
    BY DEF TypeInv
  <1>2. ring.size = Size /\ ring.front \in 0..(Size - 1) /\ ring.rear \in 0..(Size - 1)
    BY <1>1, ViewEnds DEF CellRing
  <1>3. RingOf(Size, Byte, ring)
    BY <1>1, Sizes DEF CellRing, RingOf
  <1>4. InUse = IF ring.front <= ring.rear THEN ring.rear - ring.front ELSE Size + ring.rear - ring.front
    BY <1>2, InUseIs, Sizes DEF InUse
  <1> QED BY <1>1, <1>2, <1>3, <1>4, ViewFree, ViewEnds

(* Where the threads are after a step of t, and what they have read. *)
LEMMA GotoIs ==
  ASSUME TypeInv, NEW t \in Threads, NEW l, Goto(t, l)
  PROVE  /\ \A u \in Threads : /\ pc'[u] = IF u = t THEN l ELSE pc[u]
                               /\ loads'[u] = IF u = t THEN <<>> ELSE loads[u]
         /\ loads' \in [Threads -> Seq(Cells \X Cells)]
         /\ Len(loads'[t]) = 0
  <1>1. /\ pc' = [pc EXCEPT ![t] = l] /\ loads' = [loads EXCEPT ![t] = <<>>]
        /\ DOMAIN pc = Threads /\ loads \in [Threads -> Seq(Cells \X Cells)]
    BY DEF Goto, TypeInv
  <1>2. <<>> \in Seq(Cells \X Cells)
    OBVIOUS
  <1> QED BY <1>1, <1>2

(* A step that moves nothing in the ring and out of it. *)
Still(t, l) ==
  /\ Goto(t, l) /\ UNCHANGED <<ring, left, accepted, sent, freed>>
  /\ next' = next \/ t = "sender"
  /\ count' = count \/ Holds(t)
  /\ pc[t] \notin {"dequeue", "front"} /\ l \notin {"dequeue", "front", "rear"}

(* Given to WSASend: the first of the pointers in the ring. *)
Given == /\ count' = count
         /\ flight' = flight \/ (/\ count >= 0 /\ PointerSize * count <= InUse
                                 /\ flight' = <<BytesAt(ring, ring.front, PointerSize * count)>>)

(* Such a step keeps the invariant. *)
LEMMA StillStep ==
  ASSUME RingInv, TypeInv', Exclusive', NEW t \in Threads, NEW l, Still(t, l),
         flight' # <<>> => Given,
         l = "enqueue" => InUse + 2 * PointerSize <= Size,
         l \in {"verify", "peek"} => PointerSize * count' <= InUse
  PROVE  RingInv'
  <1>0. /\ TypeInv /\ Exclusive /\ SeenBySender /\ RoomKept /\ Counted /\ Kept
        /\ \A u \in Threads : SeenByHolder(u)
    BY DEF RingInv
  <1>1. /\ \A u \in Threads : /\ pc'[u] = IF u = t THEN l ELSE pc[u]
                              /\ loads'[u] = IF u = t THEN <<>> ELSE loads[u]
        /\ Len(loads'[t]) = 0
    BY <1>0, GotoIs DEF Still
  <1>2. /\ ring' = ring /\ left' = left /\ accepted' = accepted /\ sent' = sent /\ freed' = freed
        /\ InUse' = InUse
    BY DEF Still, InUse
  <1>3. "sender" \in Threads /\ Workers \subseteq Threads
    BY DEF Threads
  <1>4. ASSUME NEW u \in Threads, u # t PROVE View(u)' = View(u)
    <2>1. loads'[u] = loads[u]
      BY <1>1, <1>4
    <2> QED BY <1>2, <2>1 DEF View
  <1>5. SeenBySender'
    <2> SUFFICES ASSUME pc'["sender"] \in Filling, NEW i \in 1..Len(loads'["sender"])
                 PROVE  /\ loads'["sender"][i][2] = ring'.rear
                        /\ Used(loads'["sender"][i]) >= InUse'
                        /\ pc'["sender"] = "enqueue" => Used(loads'["sender"][i]) + 2 * PointerSize <= Size
                        /\ \A j \in i..Len(loads'["sender"]) : Used(loads'["sender"][i]) >= Used(loads'["sender"][j])
      BY DEF SeenBySender, Used
    <2>1. t # "sender"
      BY <1>1
    <2> QED BY <1>0, <1>1, <1>2, <1>3, <2>1 DEF SeenBySender
  <1>6. ASSUME NEW u \in Threads PROVE SeenByHolder(u)'
    <2> SUFFICES ASSUME pc'[u] \in Posting \cup {"dequeue"}, NEW i \in 1..Len(loads'[u])
                 PROVE  /\ loads'[u][i][1] = ring'.front
                        /\ Used(loads'[u][i]) <= InUse'
                        /\ Due(u)' <= Used(loads'[u][i])
                        /\ \A j \in i..Len(loads'[u]) : Used(loads'[u][i]) <= Used(loads'[u][j])
      BY DEF SeenByHolder, Used
    <2>1. u # t
      BY <1>1
    <2>2. pc'[u] = pc[u] /\ loads'[u] = loads[u]
      BY <1>1, <2>1
    <2>3. Holds(u)
      BY <2>2 DEF Holds, Posting, Freeing
    <2>4. count' = count
      BY <1>0, <2>1, <2>3 DEF Exclusive, Still
    <2>5. Due(u)' = Due(u)
      BY <1>2, <2>2, <2>4 DEF Due
    <2> QED BY <1>0, <1>2, <2>2, <2>5 DEF SeenByHolder
  <1>7. RoomKept'
    <2>1. CASE t = "sender"
      BY <1>1, <1>2, <1>3, <2>1 DEF RoomKept, Still
    <2>2. CASE t # "sender"
      <3>1. pc'["sender"] = pc["sender"] /\ next' = next /\ View("sender")' = View("sender")
        BY <1>1, <1>3, <1>4, <2>2 DEF Still
      <3>2. EnqueueSize(View("sender"))' = EnqueueSize(View("sender"))
        BY <3>1 DEF EnqueueSize, DirectWriteSize, isFull, isEmpty
      <3> QED BY <1>0, <1>2, <3>1, <3>2 DEF RoomKept
    <2> QED BY <2>1, <2>2
  <1>8. AtFront' = AtFront /\ Emptying' = Emptying
    BY <1>1, <1>3 DEF AtFront, Emptying, Still
  <1>9. Counted'
    <2>1. ASSUME NEW u \in Threads, pc'[u] \in {"verify", "peek"} PROVE PointerSize * count' <= InUse'
      <3>1. CASE u = t
        BY <1>1, <1>2, <2>1, <3>1
      <3>2. CASE u # t
        <4>1. pc[u] \in {"verify", "peek"}
          BY <1>1, <2>1, <3>2
        <4>2. Holds(u)
          BY <4>1 DEF Holds, Posting
        <4>3. count' = count
          BY <1>0, <3>2, <4>2 DEF Exclusive, Still
        <4> QED BY <1>0, <1>2, <4>1, <4>3 DEF Counted
      <3> QED BY <3>1, <3>2
    <2>2. flight' # <<>> => /\ count' >= 0 /\ PointerSize * count' <= InUse'
                            /\ flight'[1] = BytesAt(ring', ring'.front, PointerSize * count')
      <3> SUFFICES ASSUME flight' # <<>>
                   PROVE  /\ count' >= 0 /\ PointerSize * count' <= InUse'
                          /\ flight'[1] = BytesAt(ring', ring'.front, PointerSize * count')
        OBVIOUS
      <3>1. Given
        OBVIOUS
      <3>2. CASE flight' = flight
        BY <1>0, <1>2, <3>1, <3>2 DEF Counted, Given
      <3>3. CASE flight' # flight
        BY <1>2, <3>1, <3>3 DEF Given
      <3> QED BY <3>2, <3>3
    <2>3. Emptying' => left' > 0 /\ PointerSize * left' <= InUse'
      BY <1>0, <1>2, <1>8 DEF Counted
    <2>4. ASSUME NEW w \in Workers, pc'[w] = "front" PROVE ReadWhole(View(w)')
      <3>1. w # t /\ pc[w] = "front" /\ View(w)' = View(w)
        BY <1>1, <1>3, <1>4, <2>4 DEF Still
      <3> QED BY <1>0, <3>1 DEF Counted
    <2>5. BytesAt(ring', ring'.front, PointerSize * count') = BytesAt(ring, ring.front, PointerSize * count)'
      BY DEF BytesAt
    <2>6. ASSUME NEW w \in Workers PROVE ReadWhole(View(w)') = ReadWhole(View(w))'
      BY DEF ReadWhole, PeekedSize, DirectReadSize, UseSize, isEmpty, isFull
    <2> QED BY <2>1, <2>2, <2>3, <2>4, <2>5, <2>6 DEF Counted
  <1>10. Kept'
    <2>1. Taken' = Taken /\ ToFree' = ToFree
      BY <1>2, <1>8 DEF Taken, ToFree
    <2> QED BY <1>0, <1>2, <2>1 DEF Kept, BytesAt, BytesOf
  <1> QED BY <1>5, <1>6, <1>7, <1>9, <1>10 DEF RingInv

-----------------------------------------------------------------------------
(* What the threads compute from their loads *)

(* What a load showed to be in use. *)
LEMMA UsedInView ==
  ASSUME TypeInv, NEW t \in Threads, NEW i \in 1..Len(loads[t])
  PROVE  /\ View(t)[i] \in CellRing /\ UsedIn(View(t)[i]) = Used(loads[t][i])
         /\ View(t)[i].front = loads[t][i][1] /\ View(t)[i].rear = loads[t][i][2]
  <1>1. View(t)[i] \in CellRing
    BY ViewIs
  <1>2. View(t)[i].front = loads[t][i][1] /\ View(t)[i].rear = loads[t][i][2]
    BY ViewIs
  <1>3. UsedIn(View(t)[i]) = Used(loads[t][i])
    BY <1>2 DEF UsedIn, Used
  <1> QED BY <1>1, <1>2, <1>3

(* The thread that holds the ring saw the same front and more and more of  *)
(* what is in use, never more than there is, never less than it has to     *)
(* read.                                                                   *)
LEMMA HolderView ==
  ASSUME TypeInv, NEW t \in Threads, SeenByHolder(t), pc[t] \in Posting \cup {"dequeue"}
  PROVE  /\ View(t) \in Seq(CellRing) /\ Rising(View(t)) /\ Len(View(t)) = Len(loads[t])
         /\ \A i \in 1..Len(View(t)) : UsedIn(View(t)[i]) <= InUse /\ Due(t) <= UsedIn(View(t)[i])
  <1>1. View(t) \in Seq(CellRing) /\ Len(View(t)) = Len(loads[t]) /\ Len(loads[t]) \in Nat
    BY ViewIs
  <1>2. \A i \in 1..Len(loads[t]) :
          /\ View(t)[i].front = ring.front /\ UsedIn(View(t)[i]) = Used(loads[t][i])
          /\ UsedIn(View(t)[i]) <= InUse /\ Due(t) <= UsedIn(View(t)[i])
    BY UsedInView DEF SeenByHolder
  <1>3. ASSUME NEW i \in 1..Len(loads[t]), NEW j \in 1..Len(loads[t]), i <= j
        PROVE  UsedIn(View(t)[i]) <= UsedIn(View(t)[j])
    <2>1. j \in i..Len(loads[t])
      BY <1>1, <1>3
    <2>2. Used(loads[t][i]) <= Used(loads[t][j])
      BY <2>1 DEF SeenByHolder
    <2> QED BY <1>2, <2>2
  <1>4. Rising(View(t))
    BY <1>1, <1>2, <1>3 DEF Rising
  <1> QED BY <1>1, <1>2, <1>4

(* sendPost never counts more than is in the ring, though it may count     *)
(* less than nothing.                                                      *)
LEMMA CountIs ==
  ASSUME TypeInv, NEW t \in Threads, SeenByHolder(t), pc[t] = "count", Loaded(t)
  PROVE  UseSize(View(t)) \in Int /\ UseSize(View(t)) <= InUse
  <1> DEFINE v == View(t)
  <1>1. /\ v \in Seq(CellRing) /\ Rising(v)
        /\ \A i \in 1..Len(v) : UsedIn(v[i]) <= InUse
    BY HolderView DEF Posting
  <1>2. InUse \in Int /\ 0 <= InUse
    BY RingIs, Sizes
  <1>3. IF Len(v) # 1 THEN Len(v) = 4 ELSE isEmpty(v[1])
    BY DEF Loaded
  <1> HIDE DEF v
  <1>4. CASE Len(v) = 1
    <2>1. UseSize(v) = 0
      BY <1>3, <1>4 DEF UseSize
    <2> QED BY <1>2, <2>1 DEF v
  <1>5. CASE Len(v) # 1
    <2>1. Len(v) = 4
      BY <1>3, <1>5
    <2>2. v[1] \in CellRing /\ v[2] \in CellRing /\ v[3] \in CellRing /\ v[4] \in CellRing
      BY <1>1, <2>1
    <2>3. /\ v[4].front = v[3].front /\ UsedIn(v[1]) <= UsedIn(v[3]) /\ UsedIn(v[3]) <= UsedIn(v[4])
          /\ UsedIn(v[4]) <= InUse
      BY <1>1, <2>1 DEF Rising
    <2>4. UseSize(v) \in Int /\ UseSize(v) <= UsedIn(v[4])
      BY <2>2, <2>3, HolderUse
    <2>5. UsedIn(v[4]) \in Int
      BY <2>2, ViewFree
    <2> QED BY <1>2, <2>3, <2>4, <2>5 DEF v
  <1> QED BY <1>4, <1>5

(* What is peeked is all that was asked for. *)
LEMMA PeekIs ==
  ASSUME TypeInv, NEW t \in Threads, SeenByHolder(t), pc[t] \in {"peek", "dequeue"}, Loaded(t),
         Wanted(t) \in Nat, Wanted(t) <= Due(t), Due(t) \in Int
  PROVE  PeekedSize(View(t), Wanted(t)) = Wanted(t)
  <1> DEFINE v == View(t)
             n == Wanted(t)
  <1>1. /\ v \in Seq(CellRing) /\ Rising(v)
        /\ \A i \in 1..Len(v) : Due(t) <= UsedIn(v[i])
    BY HolderView DEF Posting
  <1>2. IF Len(v) # 3 THEN Len(v) = 7 ELSE DirectReadSize(SubSeq(v, 2, 3)) >= n
    BY DEF Loaded
  <1> HIDE DEF v, n
  <1>3. ASSUME NEW i \in 1..Len(v) PROVE n <= UsedIn(v[i])
    <2>1. UsedIn(v[i]) \in Int /\ Due(t) <= UsedIn(v[i])
      BY <1>1, ViewFree
    <2> QED BY <2>1 DEF n
  <1>4. n \in Nat /\ (Len(v) = 3 \/ Len(v) = 7)
    BY <1>2 DEF n
  <1>5. Len(v) = 3 => DirectReadSize(SubSeq(v, 2, 3)) >= n
    BY <1>2
  <1>6. PeekedSize(v, n) = n
    BY <1>1, <1>3, <1>4, <1>5, ReadIs
  <1> QED BY <1>6 DEF v, n

(* A load of the sender shows no more room than there is, and less and     *)
(* less is in use.                                                         *)
LEMMA SenderView ==
  ASSUME TypeInv, SeenBySender, pc["sender"] \in Filling
  PROVE  /\ View("sender") \in Seq(CellRing) /\ Len(View("sender")) = Len(loads["sender"])
         /\ \A i \in 1..Len(View("sender")) :
              /\ View("sender")[i].rear = ring.rear /\ UsedIn(View("sender")[i]) >= InUse
              /\ pc["sender"] = "enqueue" => UsedIn(View("sender")[i]) + 2 * PointerSize <= Size
         /\ \A i, j \in 1..Len(View("sender")) : i <= j => UsedIn(View("sender")[i]) >= UsedIn(View("sender")[j])
  <1>0. "sender" \in Threads
    BY DEF Threads
  <1>1. View("sender") \in Seq(CellRing) /\ Len(View("sender")) = Len(loads["sender"]) /\ Len(loads["sender"]) \in Nat
    BY <1>0, ViewIs
  <1>2. \A i \in 1..Len(loads["sender"]) :
          /\ View("sender")[i].rear = ring.rear /\ UsedIn(View("sender")[i]) = Used(loads["sender"][i])
          /\ UsedIn(View("sender")[i]) >= InUse
          /\ pc["sender"] = "enqueue" => UsedIn(View("sender")[i]) + 2 * PointerSize <= Size
    BY <1>0, UsedInView DEF SeenBySender
  <1>3. ASSUME NEW i \in 1..Len(loads["sender"]), NEW j \in 1..Len(loads["sender"]), i <= j
        PROVE  UsedIn(View("sender")[i]) >= UsedIn(View("sender")[j])
    <2>1. j \in i..Len(loads["sender"])
      BY <1>1, <1>3
    <2>2. Used(loads["sender"][i]) >= Used(loads["sender"][j])
      BY <2>1 DEF SeenBySender
    <2> QED BY <1>2, <2>2
  <1> QED BY <1>1, <1>2, <1>3

(* The free size is found right or too large to be one, and then there is  *)
(* room.                                                                   *)
LEMMA RoomIs ==
  ASSUME TypeInv, SeenBySender, pc["sender"] = "room", Loaded("sender")
  PROVE  /\ HasRoom => InUse + 2 * PointerSize <= Size
         /\ ~HasRoom => \E i \in DOMAIN View("sender") :
                           getUseSize(View("sender")[i]) + PointerSize > Size - 1
  <1> DEFINE v == View("sender")
  <1>1. /\ v \in Seq(CellRing)
        /\ \A i \in 1..Len(v) : v[i].rear = ring.rear /\ UsedIn(v[i]) >= InUse
        /\ \A i, j \in 1..Len(v) : i <= j => UsedIn(v[i]) >= UsedIn(v[j])
    BY SenderView DEF Filling
  <1>2. /\ InUse \in Int /\ 0 <= InUse /\ Whole(InUse) /\ Whole(InUse + PointerSize) /\ Whole(Size)
        /\ Whole((InUse + PointerSize) + PointerSize)
    BY RingIs, CellIs, WholeSteps, WholeTimes, Sizes
  <1>3. IF Len(v) # 1 THEN Len(v) = 4 ELSE isEmpty(v[1])
    BY DEF Loaded
  <1>4. HasRoom <=> ~LessAsSize((Size - 1) - UseSize(v), PointerSize)
    BY DEF HasRoom, Fits
  <1>5. 2 * PointerSize <= Size
    BY CellIs, WholeSteps, WholeTimes, Sizes
  <1> HIDE DEF v
  <1>6. 1 \in 1..Len(v) /\ v[1] \in CellRing
    BY <1>1, <1>3
  <1>7. CASE isEmpty(v[1])
    <2>1. UsedIn(v[1]) = 0 /\ UsedIn(v[1]) >= InUse
      BY <1>1, <1>6, <1>7, ViewFree
    <2>2. InUse = 0
      BY <1>2, <2>1
    <2>3. UseSize(v) = 0
      BY <1>7 DEF UseSize
    <2>4. HasRoom
      <3>1. ~((Size - 1) - 0 < 0) /\ ~(PointerSize < 0) /\ ~((Size - 1) - 0 < PointerSize)
        BY Sizes
      <3> QED BY <1>4, <2>3, <3>1 DEF LessAsSize
    <2> QED BY <1>5, <2>2, <2>4, Sizes
  <1>8. CASE ~isEmpty(v[1])
    <2>1. Len(v) = 4
      BY <1>3, <1>8
    <2>2. v[1] \in CellRing /\ v[2] \in CellRing /\ v[3] \in CellRing /\ v[4] \in CellRing
      <3>1. v \in Seq(CellRing)
        BY <1>1
      <3> QED BY <2>1, <3>1
    <2>3. v[4].rear = v[3].rear /\ UsedIn(v[4]) <= UsedIn(v[3]) /\ UsedIn(v[4]) >= InUse
      <3>1. 3 \in 1..Len(v) /\ 4 \in 1..Len(v) /\ 3 <= 4
        BY <2>1
      <3>2. UsedIn(v[3]) >= UsedIn(v[4]) /\ UsedIn(v[4]) >= InUse /\ v[4].rear = v[3].rear
        BY <1>1, <3>1
      <3> QED BY <2>2, <3>2, ViewFree
    <2>4. \/ UseSize(v) = UsedIn(v[4])
          \/ UseSize(v) \in Int /\ UseSize(v) >= Size /\ UsedIn(v[4]) + 2 * PointerSize <= Size
      BY <1>8, <2>2, <2>3, SenderUse
    <2>5. UsedIn(v[4]) \in Int /\ 0 <= UsedIn(v[4]) /\ UsedIn(v[4]) + PointerSize <= Size
      BY <2>2, ViewFree
    <2>6. CASE UseSize(v) # UsedIn(v[4])
      <3>1. UseSize(v) \in Int /\ (Size - 1) - UseSize(v) < 0 /\ ~(PointerSize < 0)
        BY <2>4, <2>6, Sizes
      <3>2. HasRoom
        BY <1>4, <3>1 DEF LessAsSize
      <3> QED BY <1>2, <2>3, <2>4, <2>5, <2>6, <3>2, Sizes
    <2>7. CASE UseSize(v) = UsedIn(v[4])
      <3>1. ~((Size - 1) - UseSize(v) < 0) /\ ~(PointerSize < 0)
        BY <2>5, <2>7, Sizes
      <3>2. HasRoom <=> ~((Size - 1) - UsedIn(v[4]) < PointerSize)
        BY <1>4, <2>7, <3>1 DEF LessAsSize
      <3>3. CASE HasRoom
        <4>1. InUse + PointerSize < Size
          BY <1>2, <2>3, <2>5, <3>2, <3>3, Sizes
        <4>2. (InUse + PointerSize) + PointerSize <= Size
          BY <1>2, <4>1, WholeSteps
        <4> QED BY <1>2, <3>3, <4>2, Sizes
      <3>4. CASE ~HasRoom
        <4>1. UsedIn(v[4]) + PointerSize > Size - 1
          BY <2>5, <3>2, <3>4, Sizes
        <4>2. getUseSize(v[4]) = UsedIn(v[4])
          BY <2>2, InUseIs, ViewEnds, ViewFree, Sizes
        <4>3. 4 \in DOMAIN v
          BY <1>1, <2>1
        <4> QED BY <3>4, <4>1, <4>2, <4>3 DEF v
      <3> QED BY <3>3, <3>4
    <2> QED BY <2>6, <2>7
  <1> QED BY <1>7, <1>8

(* A pointer is written whole, whatever front does meanwhile. *)
LEMMA EnqueueIs ==
  ASSUME TypeInv, SeenBySender, pc["sender"] = "enqueue", Loaded("sender")
  PROVE  EnqueueSize(View("sender")) = PointerSize
  <1> DEFINE v == View("sender")
  <1>1. /\ v \in Seq(CellRing)
        /\ \A i \in 1..Len(v) : v[i].rear = ring.rear /\ UsedIn(v[i]) + 2 * PointerSize <= Size
        /\ \A i, j \in 1..Len(v) : i <= j => UsedIn(v[i]) >= UsedIn(v[j])
    BY SenderView DEF Filling
  <1>2. IF Len(v) # 5 THEN Len(v) = 7 ELSE DirectWriteSize(SubSeq(v, 2, 5)) >= PointerSize
    BY DEF Loaded
  <1> HIDE DEF v
  <1>3. Len(v) >= 5 /\ 4 \in 1..Len(v) /\ 5 \in 1..Len(v)
    <2> DEFINE m == Len(v)
    <2>1. m = 5 \/ m = 7
      BY <1>2
    <2> HIDE DEF m
    <2>2. m >= 5 /\ 4 \in 1..m /\ 5 \in 1..m
      BY <2>1
    <2> QED BY <2>2 DEF m
  <1>4. v[4] \in CellRing /\ v[5] \in CellRing
    BY <1>1, <1>3
  <1>5. v[5].rear = v[4].rear /\ UsedIn(v[4]) + 2 * PointerSize <= Size /\ UsedIn(v[4]) >= UsedIn(v[5])
    BY <1>1, <1>3
  <1>6. UsedIn(v[5]) <= UsedIn(v[4])
    BY <1>4, <1>5, ViewFree
  <1> QED BY <1>1, <1>3, <1>5, <1>6, WriteIs DEF v

-----------------------------------------------------------------------------
(* The steps that leave the ring alone *)

Labels == {"idle", "post", "again", "rear", "pending"} \cup Posting \cup Freeing \cup Filling

(* Types after a step of t. *)
LEMMA GotoType ==
  ASSUME TypeInv, NEW t \in Threads, NEW l \in Labels, Goto(t, l),
         t = "sender" => l \notin Freeing \cup {"again"},
         t \in Workers => l \notin Filling \cup {"rear", "pending"},
         ring' \in CellRing, pending' \in BOOLEAN, count' \in Int, left' \in Int, next' \in Nat,
         flight' = <<>> \/ (Len(flight') = 1 /\ flight'[1] \in Seq(Byte)),
         accepted' \in Seq(Nat), sent' \in Seq(Byte), freed' \in Seq(Byte)
  PROVE  TypeInv'
  <1>1. pc' = [pc EXCEPT ![t] = l] /\ pc \in [Threads -> Labels]
    BY DEF Goto, TypeInv, Labels
  <1>2. pc' \in [Threads -> Labels]
    BY <1>1
  <1>3. \A u \in Threads : pc'[u] = IF u = t THEN l ELSE pc[u]
    BY GotoIs
  <1>4. loads' \in [Threads -> Seq(Cells \X Cells)]
    BY GotoIs
  <1>5. pc'["sender"] \notin Freeing \cup {"again"} /\ \A w \in Workers : pc'[w] \notin Filling \cup {"rear", "pending"}
    BY <1>3 DEF TypeInv, Threads
  <1>6. /\ Posting' = Posting /\ Freeing' = Freeing /\ Filling' = Filling /\ CellRing' = CellRing
        /\ Cells' = Cells /\ Byte' = Byte /\ Threads' = Threads
    BY DEF Posting, Freeing, Filling, CellRing, Cells, Byte, Threads
  <1> QED BY <1>2, <1>4, <1>5, <1>6 DEF TypeInv, Labels

(* The ring has one reader after a step of t. *)
LEMMA GotoHolds ==
  ASSUME TypeInv, Exclusive, NEW t \in Threads, NEW l, Goto(t, l),
         l \in Posting \cup Freeing => pending' /\ flight' = <<>> /\ \A u \in Threads \ {t} : ~Holds(u),
         \A u \in Threads \ {t} : Holds(u) => pending' /\ flight' = <<>>,
         flight' # <<>> => pending'
  PROVE  Exclusive'
  <1>1. \A u \in Threads : pc'[u] = IF u = t THEN l ELSE pc[u]
    BY GotoIs
  <1>2. \A u \in Threads : Holds(u)' <=> (IF u = t THEN l \in Posting \cup Freeing ELSE Holds(u))
    BY <1>1 DEF Holds
  <1> QED BY <1>2 DEF Exclusive

(* While t holds the ring nobody else does, and nothing is in flight. *)
LEMMA Unholding ==
  ASSUME Exclusive, NEW t \in Threads, Holds(t)
  PROVE  pending /\ flight = <<>> /\ \A u \in Threads \ {t} : ~Holds(u)
  BY DEF Exclusive

(* The sender's steps. *)
LEMMA SenderStill ==
  ASSUME RingInv, SendPacket \/ NoRoom \/ Enqueue \/ TestPending
  PROVE  RingInv'
  <1>0. "sender" \in Threads /\ "sender" \notin Workers
    BY Sizes DEF Threads
  <1>1. TypeInv /\ Exclusive /\ SeenBySender
    BY DEF RingInv
  <1>2. PICK l : /\ Goto("sender", l) /\ l \in {"idle", "room", "enqueue", "post"}
                 /\ pc["sender"] \in {"idle", "room", "pending"}
                 /\ l = "enqueue" => pc["sender"] = "room" /\ Loaded("sender") /\ HasRoom
                 /\ next' = next \/ next' = next + 1
    BY DEF SendPacket, NoRoom, Enqueue, TestPending, At
  <1>3. UNCHANGED <<ring, pending, count, flight, left, accepted, sent, freed>>
    BY DEF SendPacket, NoRoom, Enqueue, TestPending, history
  <1>4. TypeInv'
    <2>1. l \in Labels \ (Posting \cup Freeing \cup {"again"})
      BY <1>2 DEF Labels, Posting, Freeing, Filling
    <2>2. next' \in Nat
      BY <1>1, <1>2 DEF TypeInv
    <2> QED BY <1>0, <1>1, <1>2, <1>3, <2>1, <2>2, GotoType DEF TypeInv
  <1>5. Exclusive'
    <2>1. l \notin Posting \cup Freeing
      BY <1>2 DEF Posting, Freeing
    <2> QED BY <1>0, <1>1, <1>2, <1>3, <2>1, GotoHolds DEF Exclusive
  <1>6. Still("sender", l)
    BY <1>2, <1>3 DEF Still
  <1>7. flight' # <<>> => Given
    BY <1>3 DEF Given
  <1>8. l = "enqueue" => InUse + 2 * PointerSize <= Size
    BY <1>1, <1>2, RoomIs
  <1> QED BY <1>0, <1>2, <1>4, <1>5, <1>6, <1>7, <1>8, StillStep

(* sendPost *)
LEMMA PostStill ==
  ASSUME RingInv, NEW t \in Threads, Exchange(t) \/ Count(t) \/ Verify(t) \/ Post(t)
  PROVE  RingInv'
  <1>1. TypeInv /\ Exclusive /\ SeenByHolder(t) /\ Counted
    BY DEF RingInv
  <1>2. InUse \in Int /\ RingOf(Size, Byte, ring) /\ ring.front \in Int
    BY <1>1, RingIs, Sizes
  <1>3. ASSUME NEW l \in {"idle", "count", "verify", "peek"}, Goto(t, l)
        PROVE  l \in Labels /\ l \notin Freeing \cup Filling \cup {"again", "rear", "pending"} /\ l # "dequeue" /\ l # "front"
    BY <1>3 DEF Labels, Posting, Freeing, Filling
  <1>4. CASE Exchange(t)
    <2> DEFINE l == IF pending THEN "idle" ELSE "count"
    <2>1. /\ l \in {"idle", "count"} /\ Goto(t, l) /\ pending' = TRUE /\ pc[t] = "post" /\ (l = "count" => ~pending)
          /\ UNCHANGED <<ring, count, flight, left, next, accepted, sent, freed>>
      BY <1>4 DEF Exchange, At, history
    <2> HIDE DEF l
    <2>2. TypeInv'
      BY <1>1, <1>3, <2>1, GotoType DEF TypeInv
    <2>3. Exclusive'
      <3>1. l \in Posting \cup Freeing => flight' = <<>> /\ \A u \in Threads \ {t} : ~Holds(u)
        BY <1>1, <2>1 DEF Exclusive, Posting, Freeing
      <3> QED BY <1>1, <2>1, <3>1, GotoHolds DEF Exclusive
    <2>4. Still(t, l)
      BY <2>1 DEF Still
    <2>5. flight' # <<>> => Given
      BY <2>1 DEF Given
    <2> QED BY <2>1, <2>2, <2>3, <2>4, <2>5, StillStep
  <1>5. CASE Count(t)
    <2> DEFINE n == UseSize(View(t)) \div PointerSize
    <2>1. /\ Goto(t, "verify") /\ pc[t] = "count" /\ Loaded(t)
          /\ count' = IF n > MaxBatch THEN MaxBatch ELSE n
          /\ UNCHANGED <<ring, pending, flight, left, next, accepted, sent, freed>>
      BY <1>5 DEF Count, At, history
    <2>2. Holds(t)
      BY <2>1 DEF Holds, Posting
    <2>3. UseSize(View(t)) \in Int /\ UseSize(View(t)) <= InUse
      BY <1>1, <2>1, CountIs
    <2>4. n \in Int /\ PointerSize * n <= UseSize(View(t)) /\ (PointerSize * MaxBatch <= PointerSize * n \/ n < MaxBatch)
      BY <2>3, WholeIn
    <2> HIDE DEF n
    <2>5. count' \in Int /\ PointerSize * count' <= InUse
      <3>1. PointerSize * n \in Int /\ PointerSize * MaxBatch \in Int
        BY <2>4, Sizes
      <3>2. CASE n > MaxBatch
        BY <1>2, <2>1, <2>3, <2>4, <3>1, <3>2, Sizes
      <3>3. CASE ~(n > MaxBatch)
        BY <1>2, <2>1, <2>3, <2>4, <3>1, <3>3
      <3> QED BY <3>2, <3>3
    <2>6. TypeInv'
      BY <1>1, <1>3, <2>1, <2>5, GotoType DEF TypeInv
    <2>7. Exclusive'
      BY <1>1, <2>1, <2>2, Unholding, GotoHolds
    <2>8. Still(t, "verify")
      BY <2>1, <2>2 DEF Still
    <2>9. flight' = <<>>
      BY <1>1, <2>1, <2>2, Unholding
    <2> QED BY <2>5, <2>6, <2>7, <2>8, <2>9, StillStep
  <1>6. CASE Verify(t)
    <2>1. /\ Goto(t, "peek") /\ pc[t] = "verify"
          /\ UNCHANGED <<ring, pending, count, flight, left, next, accepted, sent, freed>>
      BY <1>6 DEF Verify, At, history
    <2>2. Holds(t)
      BY <2>1 DEF Holds, Posting
    <2>3. TypeInv'
      BY <1>1, <1>3, <2>1, GotoType DEF TypeInv
    <2>4. Exclusive'
      BY <1>1, <2>1, <2>2, Unholding, GotoHolds
    <2>5. Still(t, "peek")
      BY <2>1 DEF Still
    <2>6. flight' # <<>> => Given
      BY <2>1 DEF Given
    <2>7. PointerSize * count' <= InUse
      BY <1>1, <2>1 DEF Counted
    <2> QED BY <2>3, <2>4, <2>5, <2>6, <2>7, StillStep
  <1>7. CASE Post(t)
    <2> DEFINE b == BytesAt(ring, ring.front, PeekedSize(View(t), PointerSize * count))
    <2>1. /\ Goto(t, "idle") /\ pc[t] = "peek" /\ Loaded(t) /\ count >= 0 /\ flight' = <<b>>
          /\ UNCHANGED <<ring, pending, count, left, next, accepted, sent, freed>>
      BY <1>7 DEF Post, At, history
    <2> HIDE DEF b
    <2>2. Holds(t)
      BY <2>1 DEF Holds, Posting
    <2>3. PointerSize * count \in Nat
      BY <1>1, <2>1, WholeTimes, Sizes, SMT DEF TypeInv
    <2>4. PeekedSize(View(t), PointerSize * count) = PointerSize * count
      <3>1. Wanted(t) = PointerSize * count /\ Due(t) = PointerSize * count
        BY <2>1 DEF Wanted, Due
      <3>2. PeekedSize(View(t), Wanted(t)) = Wanted(t)
        BY <1>1, <2>1, <2>3, <3>1, PeekIs
      <3> QED BY <3>1, <3>2
    <2>5. b = BytesAt(ring, ring.front, PointerSize * count) /\ b \in Seq(Byte)
      BY <1>2, <2>3, <2>4, BytesFrom DEF b
    <2>6. TypeInv'
      <3>1. Len(flight') = 1 /\ flight'[1] \in Seq(Byte)
        BY <2>1, <2>5
      <3> QED BY <1>1, <1>3, <2>1, <3>1, GotoType DEF TypeInv
    <2>7. Exclusive'
      <3>1. "idle" \notin Posting \cup Freeing
        BY DEF Posting, Freeing
      <3> QED BY <1>1, <2>1, <2>2, <3>1, Unholding, GotoHolds
    <2>8. Still(t, "idle")
      BY <2>1 DEF Still
    <2>9. Given
      <3>1. PointerSize * count <= InUse
        BY <1>1, <2>1 DEF Counted
      <3> QED BY <2>1, <2>5, <3>1 DEF Given
    <2> QED BY <2>6, <2>7, <2>8, <2>9, StillStep
  <1> QED BY <1>4, <1>5, <1>6, <1>7

(* The end of a completion. *)
LEMMA WorkerStill ==
  ASSUME RingInv, NEW w \in Workers, Clear(w) \/ Again(w)
  PROVE  RingInv'
  <1>0. w \in Threads /\ w # "sender"
    BY Sizes DEF Threads
  <1>1. TypeInv /\ Exclusive
    BY DEF RingInv
  <1>2. PICK l : /\ Goto(w, l) /\ l \in {"again", "post", "idle"} /\ pc[w] \in {"clear", "again"}
                 /\ pending' = pending \/ (pending' = FALSE /\ pc[w] = "clear")
    BY DEF Clear, Again, At
  <1>3. UNCHANGED <<ring, count, flight, left, next, accepted, sent, freed>>
    BY DEF Clear, Again, history
  <1>4. TypeInv'
    <2>1. l \in Labels /\ l \notin Filling \cup {"rear", "pending"}
      BY <1>2 DEF Labels, Filling
    <2>2. pending' \in BOOLEAN
      BY <1>1, <1>2 DEF TypeInv
    <2> QED BY <1>0, <1>1, <1>2, <1>3, <2>1, <2>2, GotoType DEF TypeInv
  <1>5. Exclusive'
    <2>1. l \notin Posting \cup Freeing
      BY <1>2 DEF Posting, Freeing
    <2>2. CASE pending' = pending
      BY <1>0, <1>1, <1>2, <1>3, <2>1, <2>2, GotoHolds DEF Exclusive
    <2>3. CASE pc[w] = "clear"
      <3>1. Holds(w)
        BY <2>3 DEF Holds, Freeing
      <3> QED BY <1>0, <1>1, <1>2, <1>3, <2>1, <3>1, Unholding, GotoHolds
    <2> QED BY <1>2, <2>2, <2>3
  <1>6. Still(w, l)
    BY <1>2, <1>3 DEF Still
  <1>7. flight' # <<>> => Given
    BY <1>3 DEF Given
  <1> QED BY <1>0, <1>2, <1>4, <1>5, <1>6, <1>7, StillStep

-----------------------------------------------------------------------------
(* A load, and the steps of a completion *)

(* A load: what is read now is what the invariant says of a load. *)
LEMMA LoadStep ==
  ASSUME RingInv, NEW t \in Threads, Load(t)
  PROVE  RingInv'
  <1>0. /\ TypeInv /\ Exclusive /\ SeenBySender /\ RoomKept /\ Counted /\ Kept
        /\ \A u \in Threads : SeenByHolder(u)
    BY DEF RingInv
  <1> DEFINE p == <<ring.front, ring.rear>>
             n == Len(loads[t])
  <1>1. /\ UNCHANGED <<ring, pending, count, flight, pc, left, next, accepted, sent, freed>>
        /\ loads' = [loads EXCEPT ![t] = Append(@, p)] /\ ~Loaded(t)
    BY DEF Load, history
  <1>2. p \in Cells \X Cells /\ Used(p) = InUse /\ InUse \in Int
    <2>1. ring \in CellRing /\ InUse = UsedIn(ring) /\ InUse \in 0..(Size - 1)
      BY <1>0, RingIs
    <2> QED BY <2>1, Sizes DEF CellRing, UsedIn
  <1>3. loads \in [Threads -> Seq(Cells \X Cells)] /\ n \in Nat
    BY <1>0 DEF TypeInv
  <1>4. /\ loads' \in [Threads -> Seq(Cells \X Cells)]
        /\ \A u \in Threads \ {t} : loads'[u] = loads[u]
        /\ loads'[t] = Append(loads[t], p)
    BY <1>1, <1>2, <1>3
  <1>5. Len(loads'[t]) = n + 1 /\ loads'[t][n + 1] = p /\ \A i \in 1..n : loads'[t][i] = loads[t][i]
    BY <1>2, <1>3, <1>4, AppendProperties
  <1> HIDE DEF p, n
  <1>6. \A i \in 1..(n + 1) : i \in 1..n \/ i = n + 1
    BY <1>3
  <1>7. \A i \in 1..n : Used(loads[t][i]) \in Int
    BY <1>3, CellsFree DEF n
  <1>8. pc[t] \notin {"rear", "front"}
    BY <1>1 DEF Loaded
  <1>9. ring' = ring /\ pc' = pc /\ InUse' = InUse /\ count' = count /\ left' = left
    BY <1>1 DEF InUse
  <1>10. TypeInv'
    BY <1>0, <1>1, <1>4 DEF TypeInv, Threads
  <1>11. Exclusive'
    BY <1>0, <1>1 DEF Exclusive, Holds
  <1>12. SeenBySender'
    <2> SUFFICES ASSUME pc["sender"] \in Filling, NEW i \in 1..Len(loads'["sender"])
                 PROVE  /\ loads'["sender"][i][2] = ring.rear
                        /\ Used(loads'["sender"][i]) >= InUse
                        /\ pc["sender"] = "enqueue" => Used(loads'["sender"][i]) + 2 * PointerSize <= Size
                        /\ \A j \in i..Len(loads'["sender"]) : Used(loads'["sender"][i]) >= Used(loads'["sender"][j])
      BY <1>9 DEF SeenBySender, Used
    <2>1. CASE t # "sender"
      BY <1>0, <1>4, <2>1 DEF SeenBySender, Threads
    <2>2. CASE t = "sender"
      <3>1. i \in 1..n \/ i = n + 1
        BY <1>5, <1>6, <2>2
      <3>2. CASE i = n + 1
        <4>1. loads'["sender"][i] = p
          BY <1>5, <2>2, <3>2
        <4>2. p[2] = ring.rear
          BY DEF p
        <4>3. pc["sender"] = "enqueue" => InUse + 2 * PointerSize <= Size
          BY <1>0 DEF RoomKept
        <4>4. \A j \in i..Len(loads'["sender"]) : j = i
          BY <1>3, <1>5, <2>2, <3>2
        <4> QED BY <1>2, <4>1, <4>2, <4>3, <4>4
      <3>3. CASE i \in 1..n
        <4>1. loads'["sender"][i] = loads[t][i] /\ i \in 1..Len(loads["sender"])
          BY <1>5, <2>2, <3>3 DEF n
        <4>2. /\ loads["sender"][i][2] = ring.rear /\ Used(loads["sender"][i]) >= InUse
              /\ pc["sender"] = "enqueue" => Used(loads["sender"][i]) + 2 * PointerSize <= Size
              /\ \A j \in i..Len(loads["sender"]) : Used(loads["sender"][i]) >= Used(loads["sender"][j])
          BY <1>0, <4>1 DEF SeenBySender
        <4>3. ASSUME NEW j \in i..(n + 1) PROVE Used(loads'["sender"][i]) >= Used(loads'["sender"][j])
          <5>1. CASE j = n + 1
            BY <1>2, <1>5, <2>2, <4>1, <4>2, <5>1
          <5>2. CASE j # n + 1
            <6>1. j \in i..n /\ j \in 1..n
              BY <1>3, <3>3, <5>2
            <6> QED BY <1>5, <2>2, <4>1, <4>2, <6>1 DEF n
          <5> QED BY <5>1, <5>2
        <4> QED BY <1>5, <2>2, <4>1, <4>2, <4>3
      <3> QED BY <3>1, <3>2, <3>3
    <2> QED BY <2>1, <2>2
  <1>13. ASSUME NEW u \in Threads PROVE SeenByHolder(u)'
    <2>0. Due(u)' = Due(u)
      BY <1>9 DEF Due
    <2> SUFFICES ASSUME pc[u] \in Posting \cup {"dequeue"}, NEW i \in 1..Len(loads'[u])
                 PROVE  /\ loads'[u][i][1] = ring.front
                        /\ Used(loads'[u][i]) <= InUse
                        /\ Due(u) <= Used(loads'[u][i])
                        /\ \A j \in i..Len(loads'[u]) : Used(loads'[u][i]) <= Used(loads'[u][j])
      BY <1>9, <2>0 DEF SeenByHolder, Used
    <2>1. CASE t # u
      BY <1>0, <1>4, <2>1 DEF SeenByHolder
    <2>2. CASE t = u
      <3>1. i \in 1..n \/ i = n + 1
        BY <1>5, <1>6, <2>2
      <3>2. CASE i = n + 1
        <4>1. loads'[u][i] = p
          BY <1>5, <2>2, <3>2
        <4>2. p[1] = ring.front
          BY DEF p
        <4>3. Due(u) <= InUse
          <5>1. CASE pc[u] = "peek"
            BY <1>0, <5>1 DEF Counted, Due
          <5>2. CASE pc[u] = "dequeue"
            <6>1. u \in Workers
              BY <1>0, <5>2 DEF TypeInv, Threads, Freeing
            <6>2. Emptying
              BY <5>2, <6>1 DEF Emptying
            <6> QED BY <1>0, <5>2, <6>2 DEF Counted, Due
          <5>3. CASE pc[u] \notin {"peek", "dequeue"}
            <6>1. Due(u) = 0 /\ 0 <= InUse
              BY <1>0, <5>3, RingIs, Sizes DEF Due
            <6> QED BY <6>1
          <5> QED BY <5>1, <5>2, <5>3
        <4>4. \A j \in i..Len(loads'[u]) : j = i
          BY <1>3, <1>5, <2>2, <3>2
        <4> QED BY <1>2, <4>1, <4>2, <4>3, <4>4
      <3>3. CASE i \in 1..n
        <4>1. loads'[u][i] = loads[u][i] /\ i \in 1..Len(loads[u])
          BY <1>5, <2>2, <3>3 DEF n
        <4>2. /\ loads[u][i][1] = ring.front /\ Used(loads[u][i]) <= InUse /\ Due(u) <= Used(loads[u][i])
              /\ \A j \in i..Len(loads[u]) : Used(loads[u][i]) <= Used(loads[u][j])
          BY <1>0, <4>1 DEF SeenByHolder
        <4>3. ASSUME NEW j \in i..(n + 1) PROVE Used(loads'[u][i]) <= Used(loads'[u][j])
          <5>1. CASE j = n + 1
            BY <1>2, <1>5, <2>2, <4>1, <4>2, <5>1
          <5>2. CASE j # n + 1
            <6>1. j \in i..n /\ j \in 1..n
              BY <1>3, <3>3, <5>2
            <6> QED BY <1>5, <2>2, <4>1, <4>2, <6>1 DEF n
          <5> QED BY <5>1, <5>2
        <4> QED BY <1>5, <2>2, <4>1, <4>2, <4>3
      <3> QED BY <3>1, <3>2, <3>3
    <2> QED BY <2>1, <2>2
  <1>14. ASSUME NEW u \in Threads, u # t PROVE View(u)' = View(u)
    <2>1. loads'[u] = loads[u]
      BY <1>4, <1>14
    <2> QED BY <1>9, <2>1 DEF View
  <1>15. RoomKept'
    <2>1. CASE pc["sender"] = "rear"
      <3>1. View("sender")' = View("sender")
        BY <1>8, <1>14, <2>1 DEF Threads
      <3>2. EnqueueSize(View("sender"))' = EnqueueSize(View("sender"))
        BY <3>1 DEF EnqueueSize, DirectWriteSize, isFull, isEmpty
      <3> QED BY <1>0, <1>1, <1>9, <3>2 DEF RoomKept
    <2>2. CASE pc["sender"] # "rear"
      BY <1>0, <1>9, <2>2 DEF RoomKept
    <2> QED BY <2>1, <2>2
  <1>16. AtFront' = AtFront /\ Emptying' = Emptying /\ Taken' = Taken /\ ToFree' = ToFree
    BY <1>9 DEF AtFront, Emptying, Taken, ToFree
  <1>17. Counted'
    <2>1. ASSUME NEW w \in Workers, pc[w] = "front" PROVE ReadWhole(View(w))'
      <3>1. View(w)' = View(w)
        BY <1>8, <1>14, <2>1 DEF Threads
      <3>2. ReadWhole(View(w)') = ReadWhole(View(w))'
        BY DEF ReadWhole, PeekedSize, DirectReadSize, UseSize, isEmpty, isFull
      <3> QED BY <1>0, <2>1, <3>1, <3>2 DEF Counted
    <2>2. BytesAt(ring, ring.front, PointerSize * count)' = BytesAt(ring, ring.front, PointerSize * count)
      BY <1>9 DEF BytesAt
    <2> QED BY <1>0, <1>1, <1>9, <1>16, <2>1, <2>2 DEF Counted
  <1>18. Kept'
    BY <1>0, <1>1, <1>9, <1>16 DEF Kept, BytesAt, BytesOf
  <1> QED BY <1>10, <1>11, <1>12, <1>13, <1>15, <1>17, <1>18 DEF RingInv

(* A step that changes nothing of what the invariant is about. *)
LEMMA OverStep ==
  ASSUME RingInv, UNCHANGED <<ring, pending, count, flight, pc, loads, left, next, accepted, sent, freed>>
  PROVE  RingInv'
  <1>1. TypeInv' = TypeInv /\ Exclusive' = Exclusive /\ SeenBySender' = SeenBySender
    BY DEF TypeInv, Exclusive, Holds, SeenBySender, InUse, Threads, Used
  <1>2. \A t \in Threads : View(t)' = View(t) /\ SeenByHolder(t)' = SeenByHolder(t)
    BY DEF View, SeenByHolder, InUse, Due, Used
  <1>3. AtFront' = AtFront /\ Emptying' = Emptying /\ Taken' = Taken /\ ToFree' = ToFree /\ InUse' = InUse
    BY DEF AtFront, Emptying, Taken, ToFree, InUse
  <1>4. EnqueueSize(View("sender"))' = EnqueueSize(View("sender"))
    BY <1>2 DEF EnqueueSize, DirectWriteSize, isFull, isEmpty, Threads
  <1>5. ASSUME NEW w \in Workers PROVE ReadWhole(View(w))' = ReadWhole(View(w))
    <2>1. View(w)' = View(w)
      BY <1>2 DEF Threads
    <2>2. ReadWhole(View(w)') = ReadWhole(View(w))'
      BY DEF ReadWhole, PeekedSize, DirectReadSize, UseSize, isEmpty, isFull
    <2> QED BY <2>1, <2>2
  <1>6. RoomKept' = RoomKept
    BY <1>3, <1>4 DEF RoomKept
  <1>7. Counted' = Counted
    BY <1>3, <1>5 DEF Counted, BytesAt
  <1>8. Kept' = Kept
    BY <1>3 DEF Kept, BytesAt, BytesOf
  <1> QED BY <1>1, <1>2, <1>6, <1>7, <1>8 DEF RingInv

(* What is in use of a ring of whole pointers. *)
LEMMA UseOf ==
  ASSUME NEW r \in CellRing
  PROVE  getUseSize(r) = UsedIn(r) /\ getUseSize(r) \in 0..(Size - 1)
  <1>1. /\ r.front \in 0..(Size - 1) /\ r.rear \in 0..(Size - 1) /\ UsedIn(r) \in 0..(Size - 1)
        /\ UsedIn(r) = (IF r.front <= r.rear THEN r.rear - r.front ELSE Size + r.rear - r.front)
    BY ViewEnds
  <1>2. r.size = Size
    BY DEF CellRing
  <1>3. getUseSize(r) = IF r.front <= r.rear THEN r.rear - r.front ELSE Size + r.rear - r.front
    BY <1>1, <1>2, InUseIs, Sizes
  <1> QED BY <1>1, <1>3

-----------------------------------------------------------------------------
(* What a thread saw does not change when it is another ring that has the  *)
(* same size and buffer.                                                   *)
LEMMA ViewSame ==
  ASSUME TypeInv, NEW t \in Threads, loads'[t] = loads[t],
         ring' \in CellRing, ring'.buffer = ring.buffer
  PROVE  View(t)' = View(t)
  <1>1. ring \in CellRing
    BY DEF TypeInv
  <1>2. ASSUME NEW a, NEW b
        PROVE  [ring' EXCEPT !.front = a, !.rear = b] = [ring EXCEPT !.front = a, !.rear = b]
    <2>1. /\ ring = [size |-> ring.size, front |-> ring.front, rear |-> ring.rear, buffer |-> ring.buffer]
          /\ ring' = [size |-> ring'.size, front |-> ring'.front, rear |-> ring'.rear, buffer |-> ring'.buffer]
      BY <1>1 DEF CellRing
    <2>2. ring'.size = ring.size
      BY <1>1 DEF CellRing
    <2> QED BY <2>1, <2>2
  <1> QED BY <1>2 DEF View

(* A step of the one thread that may read from the ring leaves alone what  *)
(* the sender knows, and the other threads.                                *)
LEMMA WorkerStep ==
  ASSUME RingInv, TypeInv', Exclusive', NEW w \in Workers,
         \A u \in Threads \ {w} : pc'[u] = pc[u] /\ loads'[u] = loads[u] /\ ~Holds(u),
         ring'.rear = ring.rear, ring'.buffer = ring.buffer, next' = next,
         InUse' <= InUse
  PROVE  /\ SeenBySender' /\ RoomKept'
         /\ \A u \in Threads \ {w} : SeenByHolder(u)' /\ View(u)' = View(u) /\ pc'[u] \notin Posting \cup Freeing
  <1>0. /\ TypeInv /\ Exclusive /\ SeenBySender /\ RoomKept
        /\ "sender" \in Threads \ {w}
    BY Sizes DEF RingInv, Threads
  <1>1. pc'["sender"] = pc["sender"] /\ loads'["sender"] = loads["sender"]
    BY <1>0
  <1>2. InUse \in Int /\ InUse' \in Int
    <2>1. getUseSize(ring) \in 0..(Size - 1)
      BY <1>0, RingIs DEF InUse
    <2>2. InUse' \in 0..(Size - 1)
      <3>1. ring' \in CellRing /\ InUse' = getUseSize(ring')
        BY DEF TypeInv, InUse
      <3> QED BY <3>1, UseOf
    <2> QED BY <2>1, <2>2, Sizes DEF InUse
  <1>3. SeenBySender'
    <2> SUFFICES ASSUME pc["sender"] \in Filling, NEW i \in 1..Len(loads["sender"])
                 PROVE  /\ loads["sender"][i][2] = ring.rear
                        /\ Used(loads["sender"][i]) >= InUse'
                        /\ pc["sender"] = "enqueue" => Used(loads["sender"][i]) + 2 * PointerSize <= Size
                        /\ \A j \in i..Len(loads["sender"]) : Used(loads["sender"][i]) >= Used(loads["sender"][j])
      BY <1>1 DEF SeenBySender, Used
    <2>1. Used(loads["sender"][i]) \in Int
      <3>1. loads["sender"][i] \in Cells \X Cells
        BY <1>0, ViewIs
      <3> QED BY <3>1, CellsFree
    <2> QED BY <1>0, <1>2, <2>1 DEF SeenBySender
  <1>4. ASSUME NEW u \in Threads \ {w}
        PROVE  SeenByHolder(u)' /\ View(u)' = View(u) /\ pc'[u] \notin Posting \cup Freeing
    <2>1. pc'[u] \notin Posting \cup Freeing
      BY <1>4 DEF Holds
    <2>2. SeenByHolder(u)'
      BY <2>1 DEF SeenByHolder, Freeing, Posting
    <2>3. View(u)' = View(u)
      <3>1. ring' \in CellRing
        BY DEF TypeInv
      <3> QED BY <1>0, <3>1, ViewSame
    <2> QED BY <2>1, <2>2, <2>3
  <1>5. RoomKept'
    <2>1. EnqueueSize(View("sender"))' = EnqueueSize(View("sender")')
      BY DEF EnqueueSize, DirectWriteSize, isFull, isEmpty
    <2>2. View("sender")' = View("sender")
      BY <1>0, <1>4
    <2>3. pc'["sender"] \in {"enqueue", "rear"} => InUse' + 2 * PointerSize <= Size
      BY <1>0, <1>1, <1>2, Sizes DEF RoomKept
    <2> QED BY <1>0, <1>1, <2>1, <2>2, <2>3 DEF RoomKept
  <1> QED BY <1>3, <1>4, <1>5

(* What was sent completes: its packets are now to be freed. *)
LEMMA CompleteStep ==
  ASSUME RingInv, NEW w \in Workers, Complete(w)
  PROVE  RingInv'
  <1>0. /\ TypeInv /\ Exclusive /\ Counted /\ Kept
        /\ w \in Threads /\ w # "sender" /\ Workers \subseteq Threads
    BY Sizes DEF RingInv, Threads
  <1> DEFINE l == IF count > 0 THEN "dequeue" ELSE "clear"
  <1>1. /\ pc[w] = "idle" /\ flight # <<>> /\ Goto(w, l) /\ sent' = sent \o flight[1]
        /\ flight' = <<>> /\ left' = count
        /\ UNCHANGED <<ring, pending, count, next, accepted, freed>>
    BY DEF Complete, At
  <1>2. count \in Int /\ count >= 0 /\ PointerSize * count <= InUse
        /\ flight[1] = BytesAt(ring, ring.front, PointerSize * count) /\ flight[1] \in Seq(Byte)
    BY <1>0, <1>1 DEF Counted, TypeInv
  <1>3. \A u \in Threads : ~Holds(u)
    BY <1>0, <1>1 DEF Exclusive
  <1>4. l \in {"dequeue", "clear"} /\ (l = "dequeue" <=> count > 0)
    OBVIOUS
  <1> HIDE DEF l
  <1>5. /\ \A u \in Threads : /\ pc'[u] = IF u = w THEN l ELSE pc[u]
                              /\ loads'[u] = IF u = w THEN <<>> ELSE loads[u]
        /\ Len(loads'[w]) = 0
    BY <1>0, <1>1, GotoIs
  <1>6. TypeInv'
    <2>1. l \in Labels /\ l \notin Filling \cup {"rear", "pending"}
      BY <1>4 DEF Labels, Filling, Freeing
    <2>2. sent' \in Seq(Byte)
      BY <1>0, <1>1, <1>2 DEF TypeInv
    <2> QED BY <1>0, <1>1, <1>2, <2>1, <2>2, GotoType DEF TypeInv
  <1>7. Exclusive'
    <2>1. pending
      BY <1>0, <1>1 DEF Exclusive
    <2> QED BY <1>0, <1>1, <1>3, <2>1, GotoHolds
  <1>8. InUse' = InUse /\ InUse \in Int /\ InUse' <= InUse
    <2>1. InUse' = InUse
      BY <1>1 DEF InUse
    <2> QED BY <1>0, <2>1, RingIs, Sizes
  <1>9. /\ SeenBySender' /\ RoomKept'
        /\ \A u \in Threads \ {w} : SeenByHolder(u)' /\ pc'[u] \notin Posting \cup Freeing
    BY <1>1, <1>3, <1>5, <1>6, <1>7, <1>8, WorkerStep
  <1>10. \A u \in Threads : SeenByHolder(u)'
    <2>1. SeenByHolder(w)'
      BY <1>5 DEF SeenByHolder
    <2> QED BY <1>9, <2>1
  <1>11. pc'[w] = l /\ \A u \in Workers : u # w => pc'[u] \notin {"verify", "peek", "dequeue", "front"}
    BY <1>0, <1>5, <1>9 DEF Posting, Freeing
  <1>12. ~AtFront' /\ (Emptying' <=> count > 0)
    BY <1>4, <1>11 DEF AtFront, Emptying
  <1>13. Counted'
    <2>1. \A u \in Threads : pc'[u] \notin {"verify", "peek"}
      BY <1>4, <1>9, <1>11 DEF Posting
    <2>2. \A u \in Workers : pc'[u] # "front"
      BY <1>12 DEF AtFront
    <2> QED BY <1>1, <1>2, <1>8, <1>12, <2>1, <2>2 DEF Counted
  <1>14. Kept'
    <2>1. ~AtFront /\ ~Emptying
      BY <1>0, <1>3 DEF AtFront, Emptying, Holds, Freeing
    <2>2. Taken = 0 /\ ToFree = 0 /\ Taken' = 0
      BY <1>12, <2>1 DEF Taken, ToFree
    <2>3. ToFree' = PointerSize * count
      <3>1. CASE count > 0
        BY <1>1, <1>12, <3>1 DEF ToFree
      <3>2. CASE ~(count > 0)
        BY <1>2, <1>12, <3>2, WholeTimes DEF ToFree
      <3> QED BY <3>1, <3>2
    <2>4. freed \o BytesAt(ring, ring.front, InUse) = BytesOf(accepted) /\ sent = freed \o BytesAt(ring, ring.front, 0)
      <3>1. ring.front + 0 = ring.front /\ InUse - 0 = InUse /\ 0 - 0 = 0
        BY <1>0, <1>8, RingIs
      <3> QED BY <1>0, <2>2, <3>1 DEF Kept
    <2>5. sent = freed
      <3>1. BytesAt(ring, ring.front, 0) = <<>> /\ freed \in Seq(Byte)
        BY <1>0 DEF BytesAt, TypeInv
      <3> QED BY <2>4, <3>1, ConcatEmptySeq
    <2>6. ring'.front + 0 = ring.front /\ InUse' - 0 = InUse /\ PointerSize * count - 0 = PointerSize * count
      <3>1. PointerSize * count \in Int
        BY <1>2, Sizes
      <3> QED BY <1>0, <1>1, <1>8, <3>1, RingIs
    <2>7. sent' = freed' \o BytesAt(ring', ring'.front + Taken', ToFree' - Taken')
      BY <1>1, <1>2, <2>2, <2>3, <2>5, <2>6
    <2>8. freed' \o BytesAt(ring', ring'.front + Taken', InUse' - Taken') = BytesOf(accepted')
      BY <1>1, <2>2, <2>4, <2>6
    <2> QED BY <2>7, <2>8 DEF Kept, BytesAt, BytesOf
  <1> QED BY <1>6, <1>7, <1>9, <1>10, <1>13, <1>14 DEF RingInv

(* Reading the next of what is in the ring is joining it to what was read. *)
LEMMA TakeOff ==
  ASSUME TypeInv, NEW s \in Seq(Byte), NEW from \in Int, NEW m \in Nat, NEW k \in Int, m <= k
  PROVE  (s \o BytesAt(ring, from, m)) \o BytesAt(ring, from + m, k - m) = s \o BytesAt(ring, from, k)
  <1> DEFINE d == k - m
             a == BytesAt(ring, from, m)
             b == BytesAt(ring, from + m, d)
             c == BytesAt(ring, from, k)
  <1>1. RingOf(Size, Byte, ring)
    BY RingIs
  <1>2. d \in Nat /\ from + m \in Int /\ m + d = k
    OBVIOUS
  <1> HIDE DEF d
  <1>3. a \in Seq(Byte) /\ b \in Seq(Byte)
    BY <1>1, <1>2, BytesFrom
  <1>4. BytesAt(ring, from, m + d) = a \o b
    <2>1. Apart(ring, from, m, d)
      BY <1>1, <1>2, BytesApart
    <2> QED BY <2>1 DEF Apart
  <1>5. c = a \o b
    BY <1>2, <1>4
  <1> HIDE DEF a, b, c
  <1>6. (s \o a) \o b = s \o c
    BY <1>3, <1>5, ConcatAssociative
  <1> QED BY <1>6 DEF a, b, c, d

(* A packet is copied out of the ring. *)
LEMMA DequeueStep ==
  ASSUME RingInv, NEW w \in Workers, Dequeue(w)
  PROVE  RingInv'
  <1>0. /\ TypeInv /\ Exclusive /\ Counted /\ Kept /\ SeenByHolder(w)
        /\ w \in Threads /\ w # "sender" /\ Workers \subseteq Threads
    BY Sizes DEF RingInv, Threads
  <1> DEFINE v == View(w)
             P == PointerSize
  <1>1. /\ pc[w] = "dequeue" /\ Loaded(w)
        /\ freed' = freed \o BytesAt(ring, ring.front, PeekedSize(v, P))
        /\ pc' = [pc EXCEPT ![w] = "front"]
        /\ UNCHANGED <<ring, pending, count, flight, loads, left, next, accepted, sent>>
    BY DEF Dequeue, At
  <1>2. Emptying /\ left \in Int /\ left > 0 /\ PointerSize * left \in Int /\ P <= PointerSize * left /\ PointerSize * left <= InUse
    <2>1. Emptying
      BY <1>1 DEF Emptying
    <2>2. left \in Int /\ left > 0 /\ PointerSize * left <= InUse
      BY <1>0, <2>1 DEF Counted, TypeInv
    <2> QED BY <2>1, <2>2, WholeTimes, Sizes
  <1>3. PeekedSize(v, P) = P
    <2>1. Wanted(w) = P /\ Due(w) = PointerSize * left
      BY <1>1 DEF Wanted, Due
    <2>2. PeekedSize(v, Wanted(w)) = Wanted(w)
      BY <1>0, <1>1, <1>2, <2>1, PeekIs, Sizes
    <2> QED BY <2>1, <2>2
  <1>4. ReadWhole(v)
    <2>1. IF Len(v) # 3 THEN Len(v) = 7 ELSE DirectReadSize(SubSeq(v, 2, 3)) >= P
      BY <1>1 DEF Loaded, Wanted
    <2> HIDE DEF v
    <2> QED BY <1>3, <2>1 DEF ReadWhole
  <1>5. Holds(w) /\ pending /\ flight = <<>> /\ \A u \in Threads \ {w} : ~Holds(u)
    <2>1. Holds(w)
      BY <1>1 DEF Holds, Freeing
    <2> QED BY <1>0, <2>1, Unholding
  <1>6. RingOf(Size, Byte, ring) /\ ring.front \in Int /\ InUse \in Int
    BY <1>0, RingIs, Sizes
  <1>7. InUse' = InUse /\ InUse' <= InUse
    BY <1>1, <1>6 DEF InUse
  <1>8. \A u \in Threads : pc'[u] = IF u = w THEN "front" ELSE pc[u]
    BY <1>0, <1>1 DEF TypeInv
  <1>9. TypeInv'
    <2>1. freed' \in Seq(Byte)
      <3>1. BytesAt(ring, ring.front, P) \in Seq(Byte)
        BY <1>6, BytesFrom, Sizes
      <3> QED BY <1>0, <1>1, <1>3, <3>1 DEF TypeInv
    <2>2. pc' \in [Threads -> Labels]
      BY <1>0, <1>1 DEF TypeInv, Labels, Freeing
    <2>3. pc'["sender"] = pc["sender"] /\ \A u \in Workers : pc'[u] = pc[u] \/ pc'[u] = "front"
      BY <1>0, <1>8 DEF Threads
    <2>4. pc'["sender"] \notin Freeing \cup {"again"} /\ \A u \in Workers : pc'[u] \notin Filling \cup {"rear", "pending"}
      BY <1>0, <2>3 DEF TypeInv, Filling
    <2> QED BY <1>0, <1>1, <2>1, <2>2, <2>4 DEF TypeInv, Labels, Threads
  <1>10. Exclusive'
    <2>1. \A u \in Threads : Holds(u)' <=> Holds(u)
      BY <1>5, <1>8 DEF Holds, Freeing
    <2> QED BY <1>0, <1>1, <2>1 DEF Exclusive
  <1>11. /\ SeenBySender' /\ RoomKept'
         /\ \A u \in Threads \ {w} : SeenByHolder(u)' /\ pc'[u] \notin Posting \cup Freeing
    BY <1>1, <1>5, <1>7, <1>8, <1>9, <1>10, WorkerStep
  <1>12. \A u \in Threads : SeenByHolder(u)'
    <2>1. SeenByHolder(w)'
      BY <1>0, <1>8 DEF SeenByHolder, Posting
    <2> QED BY <1>11, <2>1
  <1>13. pc'[w] = "front" /\ \A u \in Workers : u # w => pc'[u] \notin {"verify", "peek", "dequeue", "front"}
    BY <1>0, <1>8, <1>11 DEF Posting, Freeing
  <1>14. AtFront' /\ Emptying' /\ ~AtFront
    <2>1. \A u \in Workers : pc[u] # "front"
      BY <1>0, <1>1, <1>5 DEF Holds, Freeing
    <2> QED BY <1>13, <2>1 DEF AtFront, Emptying
  <1>15. Counted'
    <2>1. \A u \in Threads : pc'[u] \notin {"verify", "peek"}
      BY <1>8, <1>11 DEF Posting
    <2>2. \A u \in Workers : pc'[u] = "front" => u = w
      BY <1>13
    <2>3. ReadWhole(View(w))'
      <3>1. ReadWhole(View(w)') = ReadWhole(View(w))'
        BY DEF ReadWhole, PeekedSize, DirectReadSize, UseSize, isEmpty, isFull
      <3>2. View(w)' = View(w)
        BY <1>1 DEF View
      <3> QED BY <1>4, <3>1, <3>2
    <2> QED BY <1>1, <1>2, <1>5, <1>7, <2>1, <2>2, <2>3 DEF Counted
  <1>16. Kept'
    <2>1. Taken = 0 /\ ToFree = PointerSize * left /\ Taken' = P /\ ToFree' = PointerSize * left
      BY <1>1, <1>2, <1>14 DEF Taken, ToFree
    <2>2. ring.front + 0 = ring.front /\ InUse - 0 = InUse /\ PointerSize * left - 0 = PointerSize * left
      BY <1>2, <1>6
    <2>3. freed \o BytesAt(ring, ring.front, InUse) = BytesOf(accepted) /\ sent = freed \o BytesAt(ring, ring.front, PointerSize * left)
      BY <1>0, <2>1, <2>2 DEF Kept
    <2>4. freed' = freed \o BytesAt(ring, ring.front, P) /\ freed \in Seq(Byte)
      BY <1>0, <1>1, <1>3 DEF TypeInv
    <2>5. freed' \o BytesAt(ring, ring.front + P, InUse - P) = BytesOf(accepted)
      <3>1. P <= InUse /\ P \in Nat
        BY <1>2, <1>6, Sizes
      <3> QED BY <1>0, <1>6, <2>3, <2>4, <3>1, TakeOff
    <2>6. sent = freed' \o BytesAt(ring, ring.front + P, PointerSize * left - P)
      <3>1. P \in Nat
        BY Sizes
      <3> QED BY <1>0, <1>2, <1>6, <2>3, <2>4, <3>1, TakeOff
    <2> QED BY <1>1, <1>7, <2>1, <2>5, <2>6 DEF Kept, BytesAt, BytesOf
  <1> QED BY <1>9, <1>10, <1>11, <1>12, <1>15, <1>16 DEF RingInv

(* Its place is given free. *)
LEMMA StoreFrontStep ==
  ASSUME RingInv, NEW w \in Workers, StoreFront(w)
  PROVE  RingInv'
  <1>0. /\ TypeInv /\ Exclusive /\ Counted /\ Kept
        /\ w \in Threads /\ w # "sender" /\ Workers \subseteq Threads
    BY Sizes DEF RingInv, Threads
  <1> DEFINE P == PointerSize
             l == IF left = 1 THEN "clear" ELSE "dequeue"
             from == ring.front + P
  <1>1. /\ pc[w] = "front" /\ ring' = moveFrontPos(ring, PeekedSize(View(w), P))
        /\ left' = left - 1 /\ Goto(w, l)
        /\ UNCHANGED <<pending, count, flight, next, accepted, sent, freed>>
    BY DEF StoreFront, At, history
  <1>2. AtFront /\ Emptying /\ PeekedSize(View(w), P) = P
    BY <1>0, <1>1 DEF AtFront, Emptying, Counted, ReadWhole
  <1>3. /\ ring \in CellRing /\ RingOf(Size, Byte, ring) /\ ring.size = Size
        /\ ring.front \in 0..(Size - 1) /\ ring.rear \in 0..(Size - 1) /\ InUse \in 0..(Size - 1) /\ InUse \in Int
        /\ InUse = IF ring.front <= ring.rear THEN ring.rear - ring.front ELSE Size + ring.rear - ring.front
    BY <1>0, RingIs, Sizes
  <1>4. /\ left \in Int /\ left > 0 /\ PointerSize * left \in Int /\ P <= PointerSize * left /\ PointerSize * left <= InUse
        /\ PointerSize * (left - 1) = PointerSize * left - P
    BY <1>0, <1>2, WholeTimes, Sizes DEF Counted, TypeInv
  <1>5. l \in {"dequeue", "clear"} /\ (l = "dequeue" <=> left - 1 > 0)
    BY <1>4
  <1>6. Holds(w) /\ pending /\ flight = <<>> /\ \A u \in Threads \ {w} : ~Holds(u)
    <2>1. Holds(w)
      BY <1>1 DEF Holds, Freeing
    <2> QED BY <1>0, <2>1, Unholding
  <1> HIDE DEF l
  <1>7. /\ from \in Nat /\ from < 2 * Size
        /\ from % Size = (IF from < Size THEN from ELSE from - Size)
        /\ from % Size \in 0..(Size - 1) /\ Whole(from % Size)
    <2>1. from \in Nat /\ from < 2 * Size /\ 0 <= from
      BY <1>3, Sizes
    <2>2. Whole(from) /\ Whole(from - Size)
      <3>1. Whole(ring.front) /\ Whole(P) /\ Whole(Size)
        BY <1>3, ViewFree, WholeTimes, CellIs
      <3>2. Whole(from)
        BY <3>1, WholeSteps
      <3> QED BY <3>1, <3>2, WholeSteps
    <2>3. from % Size = (IF from < Size THEN from ELSE from - Size)
      BY <2>1, WrapOnce, Sizes
    <2> HIDE DEF from
    <2> QED BY <2>1, <2>2, <2>3, Sizes
  <1>8. /\ ring' = [ring EXCEPT !.front = from % Size]
        /\ ring'.front = from % Size /\ ring'.rear = ring.rear /\ ring'.buffer = ring.buffer /\ ring'.size = Size
    <2>1. ring' = [ring EXCEPT !.front = from % Size]
      BY <1>1, <1>2, <1>3 DEF moveFrontPos
    <2> QED BY <1>3, <2>1 DEF CellRing
  <1>9. ring' \in CellRing
    <2>1. from % Size \in Cells
      BY <1>7, CellIs
    <2> QED BY <1>3, <1>8, <2>1 DEF CellRing
  <1>10. InUse' = InUse - P /\ InUse' \in Int /\ InUse' <= InUse
    <2> DEFINE g == from % Size
    <2>1. g \in Int /\ g = (IF ring.front + P < Size THEN ring.front + P ELSE ring.front + P - Size)
      BY <1>3, <1>7, Sizes
    <2>2. InUse' = getUseSize(ring') /\ ring'.front = g
      BY <1>8 DEF InUse
    <2>3. InUse' = IF g <= ring.rear THEN ring.rear - g ELSE Size + ring.rear - g
      <3>1. InUse' = UsedIn(ring')
        BY <1>9, <2>2, UseOf
      <3>2. UsedIn(ring') = IF ring'.front <= ring'.rear THEN ring'.rear - ring'.front ELSE Size + ring'.rear - ring'.front
        BY <1>9, ViewEnds
      <3> QED BY <1>8, <2>2, <3>1, <3>2
    <2> HIDE DEF g
    <2> QED BY <1>3, <1>4, <2>1, <2>3, Sizes
  <1>11. \A u \in Threads : /\ pc'[u] = IF u = w THEN l ELSE pc[u]
                            /\ loads'[u] = IF u = w THEN <<>> ELSE loads[u]
    BY <1>0, <1>1, GotoIs
  <1>12. TypeInv'
    <2>1. l \in Labels /\ l \notin Filling \cup {"rear", "pending"}
      BY <1>5 DEF Labels, Filling, Freeing
    <2>2. left' \in Int
      BY <1>1, <1>4
    <2> QED BY <1>0, <1>1, <1>9, <2>1, <2>2, GotoType DEF TypeInv
  <1>13. Exclusive'
    BY <1>0, <1>1, <1>6, GotoHolds
  <1>14. /\ SeenBySender' /\ RoomKept'
         /\ \A u \in Threads \ {w} : SeenByHolder(u)' /\ pc'[u] \notin Posting \cup Freeing
    BY <1>1, <1>6, <1>8, <1>10, <1>11, <1>12, <1>13, WorkerStep
  <1>15. \A u \in Threads : SeenByHolder(u)'
    <2>1. Len(loads'[w]) = 0
      BY <1>0, <1>11
    <2>2. SeenByHolder(w)'
      BY <2>1 DEF SeenByHolder
    <2> QED BY <1>14, <2>2
  <1>16. pc'[w] = l /\ \A u \in Workers : u # w => pc'[u] \notin {"verify", "peek", "dequeue", "front"}
    BY <1>0, <1>11, <1>14 DEF Posting, Freeing
  <1>17. ~AtFront' /\ (Emptying' <=> left - 1 > 0)
    BY <1>5, <1>16 DEF AtFront, Emptying
  <1>18. Counted'
    <2>1. \A u \in Threads : pc'[u] \notin {"verify", "peek"}
      BY <1>5, <1>11, <1>14 DEF Posting
    <2>2. \A u \in Workers : pc'[u] # "front"
      BY <1>17 DEF AtFront
    <2>3. PointerSize * left' <= InUse'
      BY <1>1, <1>3, <1>4, <1>10, Sizes
    <2> QED BY <1>1, <1>6, <1>17, <2>1, <2>2, <2>3 DEF Counted
  <1>19. Kept'
    <2>1. Taken = P /\ ToFree = PointerSize * left /\ Taken' = 0
      BY <1>2, <1>17 DEF Taken, ToFree
    <2>2. ToFree' = PointerSize * left - P
      <3>1. CASE left - 1 > 0
        BY <1>1, <1>4, <1>17, <3>1 DEF ToFree
      <3>2. CASE ~(left - 1 > 0)
        <4>1. PointerSize * left - P = 0
          BY <1>4, <3>2, WholeTimes
        <4> QED BY <1>17, <3>2, <4>1 DEF ToFree
      <3> QED BY <3>1, <3>2
    <2>3. /\ freed \o BytesAt(ring, from, InUse - P) = BytesOf(accepted)
          /\ sent = freed \o BytesAt(ring, from, PointerSize * left - P)
      BY <1>0, <2>1 DEF Kept
    <2>4. ASSUME NEW m \in Nat, m <= Size PROVE BytesAt(ring', from % Size, m) = BytesAt(ring, from, m)
      <3>1. BytesAt(ring', from % Size, m) = BytesAt(ring, from % Size, m)
        BY <1>3, <1>8 DEF BytesAt
      <3>2. BytesAt(ring, from % Size, m) = BytesAt(ring, from, m)
        BY <1>3, <1>7, <2>4, BytesAround
      <3> QED BY <3>1, <3>2
    <2>5. /\ InUse - P \in Nat /\ InUse - P <= Size
          /\ PointerSize * left - P \in Nat /\ PointerSize * left - P <= Size
      BY <1>3, <1>4, Sizes
    <2>6. (from % Size) + 0 = from % Size /\ InUse' - 0 = InUse - P /\ (PointerSize * left - P) - 0 = PointerSize * left - P
      BY <1>3, <1>4, <1>7, <1>10, Sizes
    <2>7. freed' \o BytesAt(ring', ring'.front + Taken', InUse' - Taken') = BytesOf(accepted')
      BY <1>1, <1>8, <2>1, <2>3, <2>4, <2>5, <2>6
    <2>8. sent' = freed' \o BytesAt(ring', ring'.front + Taken', ToFree' - Taken')
      BY <1>1, <1>8, <2>1, <2>2, <2>3, <2>4, <2>5, <2>6
    <2> QED BY <2>7, <2>8 DEF Kept, BytesAt, BytesOf
  <1> QED BY <1>12, <1>13, <1>14, <1>15, <1>18, <1>19 DEF RingInv

-----------------------------------------------------------------------------
(* The sender puts a packet in *)

SeeRing(r, s) == [i \in 1..Len(s) |-> [r EXCEPT !.front = s[i][1], !.rear = s[i][2]]]

(* The rings that s showed, made of the bytes of r. *)
LEMMA SeeRingIs ==
  ASSUME NEW r \in CellRing, NEW s \in Seq(Cells \X Cells)
  PROVE  /\ SeeRing(r, s) \in Seq(CellRing) /\ Len(SeeRing(r, s)) = Len(s)
         /\ \A i \in 1..Len(s) : SeeRing(r, s)[i].front = s[i][1] /\ SeeRing(r, s)[i].rear = s[i][2]
  <1>1. Len(s) \in Nat /\ \A i \in 1..Len(s) : s[i][1] \in Cells /\ s[i][2] \in Cells
    OBVIOUS
  <1>2. \A i \in 1..Len(s) : SeeRing(r, s)[i].front = s[i][1] /\ SeeRing(r, s)[i].rear = s[i][2]
    BY DEF SeeRing, CellRing
  <1>3. ASSUME NEW i \in 1..Len(s) PROVE [r EXCEPT !.front = s[i][1], !.rear = s[i][2]] \in CellRing
    BY <1>1 DEF CellRing
  <1>4. SeeRing(r, s) \in [1..Len(s) -> CellRing]
    BY <1>3 DEF SeeRing
  <1>5. SeeRing(r, s) \in Seq(CellRing) /\ Len(SeeRing(r, s)) = Len(s)
    BY <1>1, <1>4
  <1> QED BY <1>2, <1>5

(* What was enough to read a pointer does not depend on the bytes. *)
LEMMA ReadSame ==
  ASSUME NEW u \in Seq(CellRing), NEW v \in Seq(CellRing), Len(u) = Len(v), ReadWhole(u),
         \A i \in 1..Len(u) : u[i].front = v[i].front /\ u[i].rear = v[i].rear
  PROVE  ReadWhole(v)
  <1> DEFINE a == SubSeq(u, 2, 3)
             b == SubSeq(v, 2, 3)
             x == SubSeq(u, 4, 7)
             y == SubSeq(v, 4, 7)
             P == PointerSize
  <1>1. Len(u) = 7 \/ (Len(u) = 3 /\ DirectReadSize(a) >= P)
    BY DEF ReadWhole
  <1>2. PeekedSize(u, P) = P
    BY DEF ReadWhole
  <1>3. /\ u[1].front = v[1].front /\ u[1].rear = v[1].rear
        /\ u[2].front = v[2].front /\ u[2].rear = v[2].rear
        /\ u[3].front = v[3].front /\ u[3].rear = v[3].rear
    BY <1>1
  <1>4. a[1] = u[2] /\ a[2] = u[3] /\ b[1] = v[2] /\ b[2] = v[3]
    BY <1>1, SubSeqProperties
  <1>5. DirectReadSize(a) = DirectReadSize(b)
    <2> HIDE DEF a, b
    <2> QED BY <1>3, <1>4 DEF DirectReadSize, isEmpty
  <1>6. isEmpty(u[1]) <=> isEmpty(v[1])
    BY <1>3 DEF isEmpty
  <1>7. Len(u) = 7 => UseSize(x) = UseSize(y)
    <2> SUFFICES ASSUME Len(u) = 7 PROVE UseSize(x) = UseSize(y)
      OBVIOUS
    <2>1. /\ u[4].front = v[4].front /\ u[4].rear = v[4].rear /\ u[5].front = v[5].front /\ u[5].rear = v[5].rear
          /\ u[6].front = v[6].front /\ u[6].rear = v[6].rear /\ u[7].front = v[7].front /\ u[7].rear = v[7].rear
      OBVIOUS
    <2>2. u[5].size = v[5].size
      <3>1. u[5] \in CellRing
        <4>1. 5 \in 1..Len(u)
          OBVIOUS
        <4> QED BY <4>1, ElementOfSeq
      <3>2. v[5] \in CellRing
        <4>1. 5 \in 1..Len(v)
          OBVIOUS
        <4> QED BY <4>1, ElementOfSeq
      <3> QED BY <3>1, <3>2 DEF CellRing
    <2>3. /\ x[1] = u[4] /\ x[2] = u[5] /\ x[3] = u[6] /\ x[4] = u[7]
          /\ y[1] = v[4] /\ y[2] = v[5] /\ y[3] = v[6] /\ y[4] = v[7]
      BY SubSeqProperties
    <2> HIDE DEF x, y
    <2> QED BY <2>1, <2>2, <2>3 DEF UseSize, isEmpty, isFull
  <1>8. PeekedSize(u, P) = IF P = 0 \/ isEmpty(u[1]) THEN 0
                           ELSE IF DirectReadSize(a) >= P THEN P
                           ELSE DirectReadSize(a) + (IF UseSize(x) >= P - DirectReadSize(a) THEN P - DirectReadSize(a) ELSE UseSize(x))
    BY DEF PeekedSize
  <1>9. PeekedSize(v, P) = IF P = 0 \/ isEmpty(v[1]) THEN 0
                           ELSE IF DirectReadSize(b) >= P THEN P
                           ELSE DirectReadSize(b) + (IF UseSize(y) >= P - DirectReadSize(b) THEN P - DirectReadSize(b) ELSE UseSize(y))
    BY DEF PeekedSize
  <1> HIDE DEF a, b, x, y, P
  <1>10. PeekedSize(v, P) = P
    BY <1>1, <1>2, <1>5, <1>6, <1>7, <1>8, <1>9
  <1> QED BY <1>1, <1>5, <1>10 DEF ReadWhole, P, a, b

(* The place after the last byte in use is rear, and the bytes in use are  *)
(* further from it than what is free.                                      *)
LEMMA Distance ==
  ASSUME TypeInv
  PROVE  /\ (ring.front + InUse) % Size = ring.rear
         /\ \A i \in Nat : i < InUse =>
              /\ (ring.front + i) % Size \in 0..(Size - 1)
              /\ (((ring.front + i) % Size) - ring.rear) % Size = Size + i - InUse
  <1> DEFINE f == ring.front
             e == ring.rear
             n == InUse
  <1>1. /\ f \in 0..(Size - 1) /\ e \in 0..(Size - 1) /\ n \in 0..(Size - 1)
        /\ n = IF f <= e THEN e - f ELSE Size + e - f
    BY RingIs
  <1> HIDE DEF f, e, n
  <1>2. ASSUME NEW i \in Nat, i <= n
        PROVE  (f + i) % Size = IF f + i < Size THEN f + i ELSE f + i - Size
    <2> DEFINE s == f + i
    <2>1. s \in Int /\ 0 <= s /\ s < 2 * Size /\ Size > 0
      BY <1>1, <1>2, Sizes
    <2> HIDE DEF s
    <2>2. s % Size = IF s < Size THEN s ELSE s - Size
      BY <2>1, WrapOnce, Sizes
    <2> QED BY <1>1, <2>1, <2>2, Sizes DEF s
  <1>3. (f + n) % Size = e
    <2>1. (f + n) % Size = IF f + n < Size THEN f + n ELSE f + n - Size
      BY <1>1, <1>2, Sizes
    <2> QED BY <1>1, <2>1, Sizes
  <1>4. ASSUME NEW i \in Nat, i < n
        PROVE  (f + i) % Size \in 0..(Size - 1) /\ (((f + i) % Size) - e) % Size = Size + i - n
    <2> DEFINE p == (f + i) % Size
               d == p - e
    <2>1. p = IF f + i < Size THEN f + i ELSE f + i - Size
      BY <1>1, <1>2, <1>4, Sizes
    <2> HIDE DEF p
    <2>2. p \in 0..(Size - 1) /\ d \in Int /\ (d = i - n \/ d = Size + i - n)
      BY <1>1, <1>4, <2>1, Sizes
    <2> HIDE DEF d
    <2>3. Size + i - n \in Int /\ 0 <= Size + i - n /\ Size + i - n < Size
      BY <1>1, <1>4, Sizes
    <2>4. d % Size = Size + i - n
      <3>1. CASE d = Size + i - n
        BY <2>2, <2>3, <3>1, WrapOnce, Sizes
      <3>2. CASE d = i - n
        <4>1. (d + Size) % Size = d % Size
          <5>1. Size \in Nat /\ Size > 0 /\ d \in Int
            BY <2>2, Sizes
          <5> QED BY <5>1, Turn
        <4>2. d + Size = Size + i - n
          BY <1>1, <3>2, Sizes
        <4> DEFINE s == d + Size
        <4>3. s \in Int /\ 0 <= s /\ s < Size /\ s < 2 * Size
          BY <2>3, <4>2, Sizes
        <4> HIDE DEF s
        <4>4. s % Size = s
          BY <4>3, WrapOnce, Sizes
        <4> QED BY <4>1, <4>2, <4>4 DEF s
      <3> QED BY <2>2, <3>1, <3>2
    <2> QED BY <2>2, <2>4 DEF p, d
  <1> QED BY <1>3, <1>4 DEF f, e, n

(* The bytes of a packet are written to the free part of the buffer. *)
LEMMA WriteBytes ==
  ASSUME TypeInv, SeenBySender, RoomKept, Write
  PROVE  /\ EnqueueSize(View("sender")) = PointerSize /\ InUse + 2 * PointerSize <= Size
         /\ ring' \in CellRing /\ ring'.front = ring.front /\ ring'.rear = ring.rear
         /\ \A i \in Nat : i < InUse =>
              ring'.buffer[(ring.front + i) % Size] = ring.buffer[(ring.front + i) % Size]
         /\ \A j \in 1..PointerSize : ring'.buffer[ring.rear + j - 1] = <<next, j>>
  <1> DEFINE n == EnqueueSize(View("sender"))
             at(p) == ((p - ring.rear) % Size) + 1
             B == [p \in 0..(Size - 1) |-> IF at(p) <= n THEN Pointer(next)[at(p)] ELSE ring.buffer[p]]
  <1>1. /\ pc["sender"] = "enqueue" /\ Loaded("sender")
        /\ ring' = [ring EXCEPT !.buffer = B]
    BY DEF Write, At
  <1>2. n = PointerSize
    BY <1>1, EnqueueIs
  <1>3. InUse + 2 * PointerSize <= Size
    BY <1>1 DEF RoomKept
  <1>4. ring \in CellRing /\ next \in Nat
    BY DEF TypeInv
  <1>5. /\ ring.rear \in 0..(Size - 1) /\ ring.front \in 0..(Size - 1) /\ ring.buffer \in [0..(Size - 1) -> Byte]
        /\ InUse \in 0..(Size - 1) /\ ring.rear + PointerSize <= Size
    BY <1>4, RingIs, ViewFree DEF CellRing
  <1>6. ASSUME NEW p \in 0..(Size - 1) PROVE at(p) \in 1..Size
    <2> DEFINE d == p - ring.rear
    <2>1. d \in Int /\ Size \in Nat /\ Size > 0
      BY <1>5, Sizes
    <2> HIDE DEF d
    <2>2. d % Size \in 0..(Size - 1)
      BY <2>1, Remainder
    <2>3. (d % Size) + 1 \in 1..Size
      BY <2>1, <2>2
    <2> QED BY <2>3 DEF d
  <1> HIDE DEF n, at
  <1>7. B \in [0..(Size - 1) -> Byte]
    <2>1. ASSUME NEW p \in 0..(Size - 1), at(p) <= n PROVE Pointer(next)[at(p)] \in Byte
      <3>1. at(p) \in 1..PointerSize
        BY <1>2, <1>6, <2>1, Sizes
      <3>2. Pointer(next)[at(p)] = <<next, at(p)>>
        BY <1>4, <3>1, PointerIs
      <3> QED BY <1>4, <3>1, <3>2 DEF Byte
    <2> QED BY <1>5, <2>1
  <1> HIDE DEF B
  <1>8. ring'.buffer = B /\ ring'.front = ring.front /\ ring'.rear = ring.rear /\ ring' \in CellRing
    BY <1>1, <1>4, <1>7 DEF CellRing
  <1>9. ASSUME NEW i \in Nat, i < InUse
        PROVE  ring'.buffer[(ring.front + i) % Size] = ring.buffer[(ring.front + i) % Size]
    <2> DEFINE p == (ring.front + i) % Size
    <2>1. p \in 0..(Size - 1) /\ (p - ring.rear) % Size = Size + i - InUse
      BY <1>9, Distance
    <2> HIDE DEF p
    <2>2. ~(at(p) <= n)
      <3>1. at(p) = Size + i - InUse + 1
        BY <2>1 DEF at
      <3> QED BY <1>2, <1>3, <1>5, <3>1, Sizes
    <2>3. B[p] = ring.buffer[p]
      BY <2>1, <2>2 DEF B
    <2> QED BY <1>8, <2>3 DEF p
  <1>10. ASSUME NEW j \in 1..PointerSize PROVE ring'.buffer[ring.rear + j - 1] = <<next, j>>
    <2> DEFINE p == ring.rear + j - 1
               d == p - ring.rear
    <2>1. p \in 0..(Size - 1)
      BY <1>5, Sizes
    <2>2. d \in Int /\ d = j - 1 /\ 0 <= d /\ d < Size /\ d < 2 * Size /\ Size > 0
      BY <1>5, Sizes
    <2> HIDE DEF d
    <2>3. d % Size = d
      BY <2>2, WrapOnce, Sizes
    <2>4. at(p) = j
      <3>1. at(p) = (d % Size) + 1
        BY DEF at, d
      <3> QED BY <2>2, <2>3, <3>1
    <2> HIDE DEF p
    <2>5. B[p] = Pointer(next)[j]
      <3>1. at(p) <= n
        BY <1>2, <2>4
      <3> QED BY <2>1, <2>4, <3>1 DEF B
    <2>6. Pointer(next)[j] = <<next, j>>
      BY <1>4, PointerIs
    <2>7. ring'.buffer[p] = <<next, j>>
      BY <1>8, <2>5, <2>6
    <2> QED BY <2>7 DEF p
  <1> QED BY <1>2, <1>3, <1>8, <1>9, <1>10 DEF n

(* Bytes in use are what they were. *)
LEMMA BytesKept ==
  ASSUME TypeInv, ring' \in CellRing, ring'.front = ring.front,
         \A i \in Nat : i < InUse => ring'.buffer[(ring.front + i) % Size] = ring.buffer[(ring.front + i) % Size],
         NEW a \in Nat, NEW m \in Int, a + m <= InUse
  PROVE  BytesAt(ring', ring.front + a, m) = BytesAt(ring, ring.front + a, m)
  <1>1. ring.front \in Int /\ ring.size = Size /\ ring'.size = Size /\ InUse \in Int
    BY RingIs, Sizes DEF CellRing
  <1>2. ASSUME NEW i \in 1..m
        PROVE  ring'.buffer[(ring.front + a + i - 1) % Size] = ring.buffer[(ring.front + a + i - 1) % Size]
    <2> DEFINE d == a + i - 1
    <2>1. d \in Nat /\ d < InUse /\ ring.front + a + i - 1 = ring.front + d
      BY <1>1
    <2> HIDE DEF d
    <2> QED BY <2>1
  <1> QED BY <1>1, <1>2 DEF BytesAt

(* The bytes of the packet are written: the ring that the other threads    *)
(* read is the same.                                                       *)
LEMMA WriteStep ==
  ASSUME RingInv, Write
  PROVE  RingInv'
  <1>0. /\ TypeInv /\ Exclusive /\ SeenBySender /\ RoomKept /\ Counted /\ Kept
        /\ \A t \in Threads : SeenByHolder(t)
        /\ "sender" \in Threads /\ "sender" \notin Workers /\ Workers \subseteq Threads
    BY Sizes DEF RingInv, Threads
  <1>1. /\ pc["sender"] = "enqueue" /\ Loaded("sender")
        /\ pc' = [pc EXCEPT !["sender"] = "rear"]
        /\ UNCHANGED <<pending, count, flight, loads, left, next, accepted, sent, freed>>
    BY DEF Write, At, history
  <1>2. /\ EnqueueSize(View("sender")) = PointerSize /\ InUse + 2 * PointerSize <= Size
        /\ ring' \in CellRing /\ ring'.front = ring.front /\ ring'.rear = ring.rear
        /\ \A i \in Nat : i < InUse =>
             ring'.buffer[(ring.front + i) % Size] = ring.buffer[(ring.front + i) % Size]
        /\ \A j \in 1..PointerSize : ring'.buffer[ring.rear + j - 1] = <<next, j>>
    BY <1>0, WriteBytes
  <1>3. /\ ring.front \in Int /\ InUse \in Int /\ 0 <= InUse
        /\ loads \in [Threads -> Seq(Cells \X Cells)]
    BY <1>0, RingIs, Sizes DEF TypeInv
  <1>4. InUse' = InUse
    <2>1. InUse' = UsedIn(ring')
      BY <1>2, UseOf DEF InUse
    <2>2. InUse = UsedIn(ring)
      BY <1>0, RingIs
    <2> QED BY <1>2, <2>1, <2>2 DEF UsedIn
  <1>5. \A u \in Threads : pc'[u] = IF u = "sender" THEN "rear" ELSE pc[u]
    BY <1>0, <1>1 DEF TypeInv
  <1>6. TypeInv'
    <2>1. pc' \in [Threads -> Labels]
      BY <1>0, <1>1 DEF TypeInv, Labels
    <2>2. pc'["sender"] \notin Freeing \cup {"again"} /\ \A u \in Workers : pc'[u] = pc[u]
      BY <1>0, <1>5 DEF Freeing
    <2> QED BY <1>0, <1>1, <1>2, <2>1, <2>2 DEF TypeInv, Labels, Threads
  <1>7. \A u \in Threads : Holds(u)' <=> Holds(u)
    BY <1>1, <1>5 DEF Holds, Posting, Freeing
  <1>8. Exclusive'
    BY <1>0, <1>1, <1>7 DEF Exclusive
  <1>9. SeenBySender'
    BY <1>0, <1>5 DEF SeenBySender, Filling
  <1>10. ASSUME NEW u \in Threads PROVE SeenByHolder(u)'
    <2>1. CASE u = "sender"
      BY <1>5, <2>1 DEF SeenByHolder, Posting
    <2>2. CASE u # "sender"
      <3>1. pc'[u] = pc[u] /\ loads' = loads /\ Due(u)' = Due(u)
        BY <1>1, <1>5, <2>2 DEF Due
      <3> QED BY <1>0, <1>2, <1>4, <3>1 DEF SeenByHolder, Used
    <2> QED BY <2>1, <2>2
  <1>11. ASSUME NEW u \in Threads
         PROVE  /\ View(u) \in Seq(CellRing) /\ View(u)' \in Seq(CellRing) /\ Len(View(u)') = Len(View(u))
                /\ \A i \in 1..Len(View(u)) : View(u)[i].front = View(u)'[i].front /\ View(u)[i].rear = View(u)'[i].rear
    <2>1. View(u) = SeeRing(ring, loads[u]) /\ View(u)' = SeeRing(ring', loads[u])
      BY <1>1 DEF View, SeeRing
    <2>2. loads[u] \in Seq(Cells \X Cells) /\ ring \in CellRing
      BY <1>0 DEF TypeInv
    <2> HIDE DEF View
    <2>3. /\ SeeRing(ring, loads[u]) \in Seq(CellRing) /\ Len(SeeRing(ring, loads[u])) = Len(loads[u])
          /\ \A i \in 1..Len(loads[u]) : /\ SeeRing(ring, loads[u])[i].front = loads[u][i][1]
                                         /\ SeeRing(ring, loads[u])[i].rear = loads[u][i][2]
      BY <2>2, SeeRingIs
    <2>4. /\ SeeRing(ring', loads[u]) \in Seq(CellRing) /\ Len(SeeRing(ring', loads[u])) = Len(loads[u])
          /\ \A i \in 1..Len(loads[u]) : /\ SeeRing(ring', loads[u])[i].front = loads[u][i][1]
                                         /\ SeeRing(ring', loads[u])[i].rear = loads[u][i][2]
      BY <1>2, <2>2, SeeRingIs
    <2> QED BY <2>1, <2>3, <2>4
  <1>12. RoomKept'
    <2> DEFINE v == View("sender")
               w == View("sender")'
    <2>1. /\ v \in Seq(CellRing) /\ w \in Seq(CellRing) /\ Len(w) = Len(v)
          /\ \A i \in 1..Len(v) : v[i].front = w[i].front /\ v[i].rear = w[i].rear
      BY <1>0, <1>11
    <2>2. /\ \A i \in 1..Len(v) : v[i].rear = ring.rear /\ UsedIn(v[i]) + 2 * PointerSize <= Size
          /\ \A i, j \in 1..Len(v) : i <= j => UsedIn(v[i]) >= UsedIn(v[j])
      BY <1>0, <1>1, SenderView DEF Filling
    <2>3. IF Len(v) # 5 THEN Len(v) = 7 ELSE DirectWriteSize(SubSeq(v, 2, 5)) >= PointerSize
      BY <1>1 DEF Loaded
    <2>4. EnqueueSize(View("sender"))' = EnqueueSize(w)
      BY DEF EnqueueSize, DirectWriteSize, isFull, isEmpty
    <2> HIDE DEF v, w
    <2>5. Len(v) >= 5 /\ 4 \in 1..Len(v) /\ 5 \in 1..Len(v)
      <3> DEFINE m == Len(v)
      <3>1. m = 5 \/ m = 7
        BY <2>3
      <3> HIDE DEF m
      <3>2. m >= 5 /\ 4 \in 1..m /\ 5 \in 1..m
        BY <3>1
      <3> QED BY <3>2 DEF m
    <2>6. w[4] \in CellRing /\ w[5] \in CellRing
      BY <2>1, <2>5
    <2>7. UsedIn(w[4]) = UsedIn(v[4]) /\ UsedIn(w[5]) = UsedIn(v[5]) /\ w[5].rear = w[4].rear
      BY <2>1, <2>2, <2>5 DEF UsedIn
    <2>8. UsedIn(w[5]) <= UsedIn(w[4]) /\ UsedIn(w[4]) + 2 * PointerSize <= Size
      <3>1. UsedIn(v[4]) >= UsedIn(v[5]) /\ UsedIn(v[4]) + 2 * PointerSize <= Size
        BY <2>2, <2>5
      <3> QED BY <2>6, <2>7, <3>1, ViewFree
    <2>9. EnqueueSize(w) = PointerSize
      BY <2>1, <2>5, <2>7, <2>8, WriteIs
    <2> QED BY <1>1, <1>2, <1>4, <2>4, <2>9 DEF RoomKept
  <1>13. AtFront' = AtFront /\ Emptying' = Emptying /\ Taken' = Taken /\ ToFree' = ToFree
    <2>1. \A u \in Workers : pc'[u] = pc[u]
      BY <1>0, <1>5
    <2> QED BY <1>1, <2>1 DEF AtFront, Emptying, Taken, ToFree
  <1>14. ASSUME NEW a \in Nat, NEW m \in Int, a + m <= InUse
         PROVE  BytesAt(ring', ring.front + a, m) = BytesAt(ring, ring.front + a, m)
    BY <1>0, <1>2, <1>14, BytesKept
  <1>15. Counted'
    <2>1. \A t \in Threads : pc'[t] \in {"verify", "peek"} => PointerSize * count' <= InUse'
      BY <1>0, <1>1, <1>4, <1>5 DEF Counted
    <2>2. flight' # <<>> => /\ count' >= 0 /\ PointerSize * count' <= InUse'
                            /\ flight'[1] = BytesAt(ring', ring'.front, PointerSize * count')
      <3> SUFFICES ASSUME flight # <<>>
                   PROVE  count >= 0 /\ PointerSize * count <= InUse /\ flight[1] = BytesAt(ring', ring.front, PointerSize * count)
        BY <1>1, <1>2, <1>4
      <3>1. count >= 0 /\ PointerSize * count <= InUse /\ flight[1] = BytesAt(ring, ring.front, PointerSize * count)
        BY <1>0 DEF Counted
      <3>2. PointerSize * count \in Int
        BY <1>0, Sizes DEF TypeInv
      <3> DEFINE m == PointerSize * count
      <3> HIDE DEF m
      <3>3. m \in Int /\ 0 + m <= InUse /\ ring.front + 0 = ring.front
        BY <1>3, <3>1, <3>2 DEF m
      <3>4. BytesAt(ring', ring.front + 0, m) = BytesAt(ring, ring.front + 0, m)
        BY <1>14, <3>3
      <3> QED BY <3>1, <3>3, <3>4 DEF m
    <2>3. Emptying' => left' > 0 /\ PointerSize * left' <= InUse'
      BY <1>0, <1>1, <1>4, <1>13 DEF Counted
    <2>4. ASSUME NEW w \in Workers, pc'[w] = "front" PROVE ReadWhole(View(w)')
      <3>1. pc[w] = "front" /\ w \in Threads
        BY <1>0, <1>5, <2>4
      <3>2. ReadWhole(View(w))
        BY <1>0, <3>1 DEF Counted
      <3> DEFINE u == View(w)
                 v == View(w)'
      <3>3. /\ u \in Seq(CellRing) /\ v \in Seq(CellRing) /\ Len(u) = Len(v)
            /\ \A i \in 1..Len(u) : u[i].front = v[i].front /\ u[i].rear = v[i].rear
        BY <1>11, <3>1
      <3>4. ReadWhole(u)
        BY <3>2
      <3> HIDE DEF u, v
      <3>5. ReadWhole(v)
        BY <3>3, <3>4, ReadSame
      <3> QED BY <3>5 DEF v
    <2>5. BytesAt(ring', ring'.front, PointerSize * count') = BytesAt(ring, ring.front, PointerSize * count)'
      BY DEF BytesAt
    <2>6. ASSUME NEW w \in Workers PROVE ReadWhole(View(w)') = ReadWhole(View(w))'
      BY DEF ReadWhole, PeekedSize, DirectReadSize, UseSize, isEmpty, isFull
    <2> QED BY <2>1, <2>2, <2>3, <2>4, <2>5, <2>6 DEF Counted
  <1>16. Kept'
    <2>1. Taken \in Nat /\ ToFree \in Int /\ ToFree <= InUse
      <3>1. Emptying => PointerSize * left \in Int /\ PointerSize * left <= InUse
        BY <1>0, Sizes DEF Counted, TypeInv
      <3> QED BY <1>3, <3>1, Sizes DEF Taken, ToFree
    <2> DEFINE k == Taken
               a == InUse - k
               b == ToFree - k
    <2>2. k \in Nat /\ a \in Int /\ b \in Int /\ k + a <= InUse /\ k + b <= InUse
      BY <1>3, <2>1
    <2>3. /\ freed \o BytesAt(ring, ring.front + k, a) = BytesOf(accepted)
          /\ sent = freed \o BytesAt(ring, ring.front + k, b)
      BY <1>0 DEF Kept
    <2> HIDE DEF k, a, b
    <2>4. /\ BytesAt(ring', ring.front + k, a) = BytesAt(ring, ring.front + k, a)
          /\ BytesAt(ring', ring.front + k, b) = BytesAt(ring, ring.front + k, b)
      BY <1>14, <2>2
    <2>5. /\ freed' \o BytesAt(ring', ring'.front + k, a) = BytesOf(accepted')
          /\ sent' = freed' \o BytesAt(ring', ring'.front + k, b)
      BY <1>1, <1>2, <2>3, <2>4
    <2> QED BY <1>4, <1>13, <2>5 DEF Kept, BytesAt, BytesOf, k, a, b
  <1> QED BY <1>6, <1>8, <1>9, <1>10, <1>12, <1>15, <1>16 DEF RingInv

(* What is free of the ring behind rear is the packet written, and moving  *)
(* rear takes it in.                                                       *)
LEMMA StoreRearStep ==
  ASSUME RingInv, StoreRear
  PROVE  RingInv'
  <1>0. /\ TypeInv /\ Exclusive /\ RoomKept /\ Counted /\ Kept
        /\ \A t \in Threads : SeenByHolder(t)
        /\ "sender" \in Threads /\ "sender" \notin Workers /\ Workers \subseteq Threads
    BY Sizes DEF RingInv, Threads
  <1> DEFINE P == PointerSize
             to == ring.rear + P
  <1>1. /\ pc["sender"] = "rear" /\ ring' = moveRearPos(ring, EnqueueSize(View("sender")))
        /\ accepted' = Append(accepted, next) /\ next' = next + 1 /\ Goto("sender", "pending")
        /\ UNCHANGED <<pending, count, flight, left, sent, freed>>
    BY DEF StoreRear, At
  <1>2. /\ EnqueueSize(View("sender")) = P /\ InUse + 2 * PointerSize <= Size
        /\ \A j \in 1..PointerSize : ring.buffer[ring.rear + j - 1] = <<next, j>>
    BY <1>0, <1>1 DEF RoomKept
  <1>3. /\ ring \in CellRing /\ RingOf(Size, Byte, ring) /\ ring.size = Size
        /\ ring.front \in 0..(Size - 1) /\ ring.rear \in 0..(Size - 1) /\ InUse \in 0..(Size - 1) /\ InUse \in Int
        /\ InUse = IF ring.front <= ring.rear THEN ring.rear - ring.front ELSE Size + ring.rear - ring.front
        /\ Whole(ring.rear) /\ ring.rear + P <= Size
    BY <1>0, RingIs, ViewFree, Sizes
  <1>4. next \in Nat /\ accepted \in Seq(Nat) /\ freed \in Seq(Byte) /\ P \in Nat
    BY <1>0, Sizes DEF TypeInv
  <1>5. /\ to \in Int /\ to % Size = (IF to < Size THEN to ELSE to - Size)
        /\ to % Size \in 0..(Size - 1) /\ Whole(to % Size)
    <2>1. to \in Int /\ 0 <= to /\ to < 2 * Size
      BY <1>3, Sizes
    <2>2. Whole(to) /\ Whole(to - Size)
      <3>1. Whole(P) /\ Whole(Size)
        BY WholeTimes, CellIs
      <3>2. Whole(to)
        BY <1>3, <3>1, WholeSteps
      <3> QED BY <3>1, <3>2, WholeSteps
    <2> HIDE DEF to
    <2>3. to % Size = (IF to < Size THEN to ELSE to - Size)
      BY <2>1, WrapOnce, Sizes
    <2> QED BY <2>1, <2>2, <2>3, Sizes
  <1>6. /\ ring' = [ring EXCEPT !.rear = to % Size]
        /\ ring'.rear = to % Size /\ ring'.front = ring.front /\ ring'.buffer = ring.buffer /\ ring'.size = Size
    <2>1. ring' = [ring EXCEPT !.rear = to % Size]
      BY <1>1, <1>2, <1>3 DEF moveRearPos
    <2> QED BY <1>3, <2>1 DEF CellRing
  <1>7. ring' \in CellRing
    <2>1. to % Size \in Cells
      BY <1>5, CellIs
    <2> QED BY <1>3, <1>6, <2>1 DEF CellRing
  <1>8. InUse' = InUse + P /\ InUse' \in Int /\ InUse <= InUse'
    <2> DEFINE g == to % Size
    <2>1. g \in Int /\ g = (IF ring.rear + P < Size THEN ring.rear + P ELSE ring.rear + P - Size)
      BY <1>3, <1>5, Sizes
    <2>2. InUse' = getUseSize(ring') /\ ring'.rear = g
      BY <1>6 DEF InUse
    <2>3. InUse' = IF ring.front <= g THEN g - ring.front ELSE Size + g - ring.front
      <3>1. InUse' = UsedIn(ring')
        BY <1>7, <2>2, UseOf
      <3>2. UsedIn(ring') = IF ring'.front <= ring'.rear THEN ring'.rear - ring'.front ELSE Size + ring'.rear - ring'.front
        BY <1>7, ViewEnds
      <3> QED BY <1>6, <2>2, <3>1, <3>2
    <2> HIDE DEF g
    <2> QED BY <1>2, <1>3, <2>1, <2>3, Sizes
  <1>9. \A u \in Threads : /\ pc'[u] = IF u = "sender" THEN "pending" ELSE pc[u]
                           /\ loads'[u] = IF u = "sender" THEN <<>> ELSE loads[u]
    BY <1>0, <1>1, GotoIs
  <1>10. TypeInv'
    <2>1. "pending" \in Labels /\ "pending" \notin Freeing \cup {"again"}
      BY DEF Labels, Freeing
    <2>2. accepted' \in Seq(Nat) /\ next' \in Nat
      BY <1>1, <1>4
    <2> QED BY <1>0, <1>1, <1>7, <2>1, <2>2, GotoType DEF TypeInv
  <1>11. Exclusive'
    <2>1. "pending" \notin Posting \cup Freeing
      BY DEF Posting, Freeing
    <2> QED BY <1>0, <1>1, <2>1, GotoHolds DEF Exclusive
  <1>12. SeenBySender' /\ RoomKept'
    BY <1>0, <1>9 DEF SeenBySender, RoomKept, Filling
  <1>13. ASSUME NEW u \in Threads PROVE SeenByHolder(u)'
    <2>1. CASE u = "sender"
      BY <1>9, <2>1 DEF SeenByHolder, Posting
    <2>2. CASE u # "sender"
      <3>1. pc'[u] = pc[u] /\ loads'[u] = loads[u] /\ Due(u)' = Due(u)
        BY <1>1, <1>9, <2>2 DEF Due
      <3>2. \A i \in 1..Len(loads[u]) : Used(loads[u][i]) \in Int
        <4>1. \A i \in 1..Len(loads[u]) : loads[u][i] \in Cells \X Cells
          BY <1>0, ViewIs
        <4> QED BY <4>1, CellsFree
      <3> SUFFICES ASSUME pc[u] \in Posting \cup {"dequeue"}, NEW i \in 1..Len(loads[u])
                   PROVE  /\ loads[u][i][1] = ring.front
                          /\ Used(loads[u][i]) <= InUse'
                          /\ Due(u) <= Used(loads[u][i])
                          /\ \A j \in i..Len(loads[u]) : Used(loads[u][i]) <= Used(loads[u][j])
        BY <1>6, <3>1 DEF SeenByHolder, Used
      <3>3. /\ loads[u][i][1] = ring.front /\ Used(loads[u][i]) <= InUse /\ Due(u) <= Used(loads[u][i])
            /\ \A j \in i..Len(loads[u]) : Used(loads[u][i]) <= Used(loads[u][j])
        BY <1>0 DEF SeenByHolder
      <3> QED BY <1>3, <1>8, <3>2, <3>3
    <2> QED BY <2>1, <2>2
  <1>14. AtFront' = AtFront /\ Emptying' = Emptying /\ Taken' = Taken /\ ToFree' = ToFree
    <2>1. \A u \in Workers : pc'[u] = pc[u]
      BY <1>0, <1>9
    <2> QED BY <1>1, <2>1 DEF AtFront, Emptying, Taken, ToFree
  <1>15. ASSUME NEW f \in Int, NEW m \in Int PROVE BytesAt(ring', f, m) = BytesAt(ring, f, m)
    BY <1>3, <1>6 DEF BytesAt
  <1>16. Counted'
    <2>1. PointerSize * count \in Int /\ PointerSize * left \in Int
      BY <1>0, Sizes DEF TypeInv
    <2>2. \A t \in Threads : pc'[t] \in {"verify", "peek"} => PointerSize * count' <= InUse'
      BY <1>0, <1>1, <1>3, <1>8, <1>9, <2>1 DEF Counted
    <2>3. flight' # <<>> => /\ count' >= 0 /\ PointerSize * count' <= InUse'
                            /\ flight'[1] = BytesAt(ring', ring'.front, PointerSize * count')
      BY <1>0, <1>1, <1>3, <1>6, <1>8, <1>15, <2>1 DEF Counted
    <2>4. Emptying' => left' > 0 /\ PointerSize * left' <= InUse'
      BY <1>0, <1>1, <1>3, <1>8, <1>14, <2>1 DEF Counted
    <2>5. ASSUME NEW w \in Workers, pc'[w] = "front" PROVE ReadWhole(View(w)')
      <3>1. pc[w] = "front" /\ w \in Threads /\ loads'[w] = loads[w]
        BY <1>0, <1>9, <2>5
      <3>2. View(w)' = View(w)
        BY <1>0, <1>6, <1>7, <3>1, ViewSame
      <3> QED BY <1>0, <3>1, <3>2 DEF Counted
    <2>6. BytesAt(ring', ring'.front, PointerSize * count') = BytesAt(ring, ring.front, PointerSize * count)'
      BY DEF BytesAt
    <2>7. ASSUME NEW w \in Workers PROVE ReadWhole(View(w)') = ReadWhole(View(w))'
      BY DEF ReadWhole, PeekedSize, DirectReadSize, UseSize, isEmpty, isFull
    <2> QED BY <2>2, <2>3, <2>4, <2>5, <2>6, <2>7 DEF Counted
  <1>17. BytesAt(ring, ring.front + InUse, P) = Pointer(next)
    <2>1. (ring.front + InUse) % Size = ring.rear
      BY <1>0, Distance
    <2> DEFINE b == BytesAt(ring, ring.front + InUse, P)
    <2>2. ring.front + InUse \in Nat /\ ring.front + InUse < 2 * Size /\ P <= Size
      BY <1>3, <1>4, Sizes
    <2>3. b = BytesAt(ring, ring.rear, P)
      BY <1>3, <1>4, <2>1, <2>2, BytesAround
    <2>4. ASSUME NEW j \in 1..P PROVE ring.buffer[(ring.rear + j - 1) % Size] = <<next, j>>
      <3> DEFINE s == ring.rear + j - 1
      <3>1. s \in Int /\ 0 <= s /\ s < Size /\ s < 2 * Size /\ Size > 0
        BY <1>3, <1>4, Sizes
      <3>2. ring.buffer[s] = <<next, j>>
        BY <1>2
      <3> HIDE DEF s
      <3>3. s % Size = s
        BY <3>1, WrapOnce, Sizes
      <3> QED BY <3>2, <3>3 DEF s
    <2>5. BytesAt(ring, ring.rear, P) = [j \in 1..P |-> <<next, j>>]
      BY <1>3, <2>4 DEF BytesAt
    <2> QED BY <2>3, <2>5 DEF Pointer
  <1>18. Kept'
    <2>1. Taken \in Nat /\ Taken <= InUse /\ ToFree \in Int
      <3>1. Emptying => left \in Int /\ left > 0 /\ PointerSize * left \in Int /\ PointerSize * left <= InUse
        BY <1>0, Sizes DEF Counted, TypeInv
      <3>2. AtFront => Emptying
        BY DEF AtFront, Emptying
      <3>3. Emptying => PointerSize <= PointerSize * left
        BY <3>1, WholeTimes
      <3> QED BY <1>3, <1>4, <3>1, <3>2, <3>3, Sizes DEF Taken, ToFree
    <2> DEFINE k == Taken
               from == ring.front + k
               a == InUse - k
               b == ToFree - k
               x == BytesAt(ring, from, a)
               y == Pointer(next)
    <2>2. k \in Nat /\ from \in Int /\ a \in Nat /\ b \in Int /\ InUse' - k = a + P /\ from + a = ring.front + InUse
      <3>1. ring.front \in Int /\ InUse \in Int /\ P \in Int
        BY <1>3, <1>4, Sizes
      <3>2. k \in Nat /\ k <= InUse /\ ToFree \in Int
        BY <2>1
      <3> HIDE DEF k, P
      <3>3. InUse' - k = a + P
        <4>1. InUse' = InUse + P
          BY <1>8 DEF P
        <4> QED BY <3>1, <3>2, <4>1
      <3> QED BY <3>1, <3>2, <3>3 DEF P
    <2>3. freed \o x = BytesOf(accepted) /\ sent = freed \o BytesAt(ring, from, b)
      BY <1>0 DEF Kept
    <2> HIDE DEF k, a, b, from
    <2>4. BytesAt(ring, from, a + P) = x \o y
      <3>1. Apart(ring, from, a, P)
        BY <1>3, <1>4, <2>2, BytesApart
      <3> QED BY <1>17, <2>2, <3>1 DEF Apart
    <2>5. x \in Seq(Byte) /\ y \in Seq(Byte)
      BY <1>3, <1>4, <2>2, BytesFrom, PointerIs
    <2>6. BytesOf(accepted') = BytesOf(accepted) \o y
      BY <1>1, <1>4, BytesMore
    <2>7. BytesAt(ring', from, a + P) = x \o y /\ BytesAt(ring', from, b) = BytesAt(ring, from, b)
      <3>1. a + P \in Int
        BY <1>4, <2>2
      <3> QED BY <1>15, <2>2, <2>4, <3>1
    <2> HIDE DEF x, y
    <2>8. freed \o (x \o y) = (freed \o x) \o y
      BY <1>4, <2>5, ConcatAssociative
    <2>9. freed' \o BytesAt(ring', from, a + P) = BytesOf(accepted')
      BY <1>1, <2>3, <2>6, <2>7, <2>8
    <2>10. sent' = freed' \o BytesAt(ring', from, b)
      BY <1>1, <2>3, <2>7
    <2>11. from = ring'.front + Taken' /\ a + P = InUse' - Taken' /\ b = ToFree' - Taken'
      BY <1>6, <1>14, <2>2 DEF from, b, k
    <2>12. /\ freed' \o BytesAt(ring', ring'.front + Taken', InUse' - Taken') = BytesOf(accepted')
           /\ sent' = freed' \o BytesAt(ring', ring'.front + Taken', ToFree' - Taken')
      BY <2>9, <2>10, <2>11
    <2> QED BY <2>12 DEF Kept, BytesAt, BytesOf
  <1> QED BY <1>10, <1>11, <1>12, <1>13, <1>16, <1>18 DEF RingInv

-----------------------------------------------------------------------------
(* All steps *)

(* The invariant holds at first ... *)
LEMMA InitRing ==
  ASSUME Init
  PROVE  RingInv
  <1>1. PICK n \in 0..(Size - 1) : /\ n % PointerSize = 0
                                   /\ ring = [NewRing(Size, <<0, 0>>) EXCEPT !.front = n, !.rear = n]
    BY DEF Init
  <1>2. /\ pending = FALSE /\ count = 0 /\ flight = <<>>
        /\ pc = [t \in Threads |-> "idle"] /\ loads = [t \in Threads |-> <<>>]
        /\ left = 0 /\ next = 1
        /\ accepted = <<>> /\ sent = <<>> /\ freed = <<>>
    BY DEF Init
  <1>3. ring \in CellRing /\ ring.front = n /\ ring.rear = n
    <2>1. n \in Cells
      BY <1>1 DEF Cells
    <2>2. [i \in 0..(Size - 1) |-> <<0, 0>>] \in [0..(Size - 1) -> Byte]
      BY DEF Byte
    <2> QED BY <1>1, <2>1, <2>2 DEF NewRing, CellRing
  <1>4. /\ \A t \in Threads : pc[t] = "idle"
        /\ "sender" \in Threads /\ Workers \subseteq Threads
    BY <1>2 DEF Threads
  <1>5. TypeInv
    <2>1. <<>> \in Seq(Cells \X Cells) /\ <<>> \in Seq(Nat) /\ <<>> \in Seq(Byte)
      OBVIOUS
    <2>2. loads \in [Threads -> Seq(Cells \X Cells)]
      BY <1>2, <2>1
    <2>3. pc \in [Threads -> Labels]
      BY <1>2 DEF Labels
    <2>4. pc["sender"] \notin Freeing \cup {"again"} /\ \A w \in Workers : pc[w] \notin Filling \cup {"rear", "pending"}
      BY <1>4 DEF Freeing, Filling
    <2>5. pending \in BOOLEAN /\ flight = <<>>
      BY <1>2
    <2>6. count \in Int /\ left \in Int /\ next \in Nat
      BY <1>2
    <2>7. accepted \in Seq(Nat) /\ sent \in Seq(Byte) /\ freed \in Seq(Byte)
      BY <1>2, <2>1
    <2> QED BY <1>3, <2>2, <2>3, <2>4, <2>5, <2>6, <2>7 DEF TypeInv, Labels
  <1>6. \A t \in Threads : ~Holds(t)
    BY <1>4 DEF Holds, Posting, Freeing
  <1>7. Exclusive
    BY <1>2, <1>6 DEF Exclusive
  <1>8. SeenBySender /\ RoomKept /\ \A t \in Threads : SeenByHolder(t)
    BY <1>4 DEF SeenBySender, RoomKept, SeenByHolder, Filling, Posting
  <1>9. ~AtFront /\ ~Emptying
    BY <1>4 DEF AtFront, Emptying
  <1>10. Counted
    BY <1>2, <1>4, <1>9 DEF Counted
  <1>11. Kept
    <2>1. InUse = 0 /\ Taken = 0 /\ ToFree = 0
      <3>1. InUse = UsedIn(ring)
        BY <1>3, UseOf DEF InUse
      <3>2. n \in Int
        BY Sizes
      <3>3. UsedIn(ring) = 0
        BY <1>3, <3>2 DEF UsedIn, Used
      <3> QED BY <1>9, <3>1, <3>3 DEF Taken, ToFree
    <2>2. BytesAt(ring, ring.front + 0, 0 - 0) = <<>>
      BY DEF BytesAt
    <2>3. BytesOf(accepted) = <<>>
      BY <1>2, BytesOfNone
    <2>4. <<>> \o <<>> = <<>>
      OBVIOUS
    <2> QED BY <1>2, <2>1, <2>2, <2>3, <2>4 DEF Kept
  <1> QED BY <1>5, <1>7, <1>8, <1>10, <1>11 DEF RingInv

(* ... and after every step, *)
LEMMA RingStep ==
  ASSUME RingInv, [Next]_vars
  PROVE  RingInv'
  <1>0. "sender" \in Threads /\ Workers \subseteq Threads
    BY DEF Threads
  <1>1. ASSUME NEW t \in Threads, sendPost(t) PROVE RingInv'
    <2>1. CASE Exchange(t) \/ Count(t) \/ Verify(t) \/ Post(t)
      BY <2>1, PostStill
    <2>2. CASE Crash(t)
      <3>1. UNCHANGED <<ring, pending, count, flight, pc, loads, left, next, accepted, sent, freed>>
        BY <2>2 DEF Crash, history
      <3> QED BY <3>1, OverStep
    <2> QED BY <1>1, <2>1, <2>2 DEF sendPost
  <1>2. CASE Sender
    <2>1. CASE Load("sender")
      BY <1>0, <2>1, LoadStep
    <2>2. CASE SendPacket \/ NoRoom \/ Enqueue \/ TestPending
      BY <2>2, SenderStill
    <2>3. CASE Write
      BY <2>3, WriteStep
    <2>4. CASE StoreRear
      BY <2>4, StoreRearStep
    <2>5. CASE sendPost("sender")
      BY <1>0, <1>1, <2>5
    <2> QED BY <1>2, <2>1, <2>2, <2>3, <2>4, <2>5 DEF Sender
  <1>3. ASSUME NEW w \in Workers, Worker(w) PROVE RingInv'
    <2>1. CASE Load(w)
      BY <1>0, <2>1, LoadStep
    <2>2. CASE Complete(w)
      BY <2>2, CompleteStep
    <2>3. CASE CompleteNone(w)
      <3>1. UNCHANGED <<ring, pending, count, flight, pc, loads, left, next, accepted, sent, freed>>
        BY <2>3 DEF CompleteNone, history
      <3> QED BY <3>1, OverStep
    <2>4. CASE Dequeue(w)
      BY <2>4, DequeueStep
    <2>5. CASE StoreFront(w)
      BY <2>5, StoreFrontStep
    <2>6. CASE Clear(w) \/ Again(w)
      BY <2>6, WorkerStill
    <2>7. CASE sendPost(w)
      BY <1>0, <1>1, <2>7
    <2> QED BY <1>3, <2>1, <2>2, <2>3, <2>4, <2>5, <2>6, <2>7 DEF Worker
  <1>4. CASE Rest \/ UNCHANGED vars
    <2>1. UNCHANGED <<ring, pending, count, flight, pc, loads, left, next, accepted, sent, freed>>
      BY <1>4 DEF Rest, vars
    <2> QED BY <2>1, OverStep
  <1> QED BY <1>2, <1>3, <1>4 DEF Next

(* so that it always holds. *)
LEMMA RingHolds == Spec => []RingInv
  <1>1. Init => RingInv
    BY InitRing
  <1>2. RingInv /\ [Next]_vars => RingInv'
    BY RingStep
  <1> QED BY <1>1, <1>2, PTL DEF Spec

-----------------------------------------------------------------------------
(* A sequence is a prefix of itself and anything after it. *)
LEMMA Beginning ==
  ASSUME NEW s \in Seq(Byte), NEW t \in Seq(Byte)
  PROVE  IsPrefix(s, s \o t)
  <1> DEFINE a == s \o t
             n == Len(s)
             z == SubSeq(a, 1, n)
             y == SubSeq(s, 1, n)
  <1>1. /\ a \in Seq(Byte) /\ Len(a) = Len(s) + Len(t) /\ n \in Nat /\ Len(t) \in Nat
        /\ \A i \in 1..n : a[i] = s[i]
    BY ConcatProperties
  <1> HIDE DEF a
  <1>2. n <= Len(a)
    BY <1>1
  <1>3. z \in Seq(Byte) /\ Len(z) = n /\ \A i \in 1..n : z[i] = a[i]
    BY <1>1, <1>2, SubSeqProperties
  <1>4. y \in Seq(Byte) /\ Len(y) = n /\ \A i \in 1..n : y[i] = s[i]
    BY <1>1, SubSeqProperties
  <1> HIDE DEF z, y, n
  <1>5. y = z
    BY <1>1, <1>3, <1>4, SeqEqual
  <1> QED BY <1>2, <1>5 DEF IsPrefix, z, y, n, a

(* What the invariant keeps is what SentInOrder says. *)
LEMMA KeptInOrder == ASSUME RingInv PROVE SentInOrder
  <1> DEFINE k == Taken
             from == ring.front + k
             a == InUse - k
             b == ToFree - k
             c == InUse - ToFree
             x == BytesAt(ring, from, a)
             y == BytesAt(ring, from, b)
             z == BytesAt(ring, from + b, c)
  <1>0. TypeInv /\ Counted /\ Kept
    BY DEF RingInv
  <1>1. /\ RingOf(Size, Byte, ring) /\ ring.front \in Int /\ InUse \in Int /\ 0 <= InUse /\ PointerSize \in Nat
        /\ freed \in Seq(Byte)
    BY <1>0, RingIs, Sizes DEF TypeInv
  <1>2. Taken \in Nat /\ ToFree \in Nat /\ Taken <= ToFree /\ ToFree <= InUse
    <2>1. Emptying => left \in Int /\ left > 0 /\ PointerSize * left \in Int /\ PointerSize * left <= InUse
      BY <1>0, Sizes DEF Counted, TypeInv
    <2>2. AtFront => Emptying
      BY DEF AtFront, Emptying
    <2>3. Emptying => PointerSize <= PointerSize * left
      BY <2>1, WholeTimes
    <2> QED BY <1>1, <2>1, <2>2, <2>3, Sizes DEF Taken, ToFree
  <1>3. k \in Nat /\ from \in Int /\ a \in Nat /\ b \in Nat /\ c \in Nat /\ b + c = a
    BY <1>1, <1>2
  <1>4. freed \o x = BytesOf(accepted) /\ sent = freed \o y
    BY <1>0 DEF Kept
  <1>5. freed \o BytesAt(ring, ring.front, getUseSize(ring)) = BytesOf(accepted) \/ \E w \in Workers : pc[w] = "front"
    <2>1. CASE AtFront
      BY <2>1 DEF AtFront
    <2>2. CASE ~AtFront
      <3>1. ring.front + 0 = ring.front /\ InUse - 0 = InUse /\ Taken = 0
        BY <1>1, <2>2 DEF Taken
      <3> QED BY <1>0, <3>1 DEF Kept, InUse
    <2> QED BY <2>1, <2>2
  <1> HIDE DEF k, from, a, b, c
  <1>6. x = y \o z /\ x \in Seq(Byte) /\ y \in Seq(Byte) /\ z \in Seq(Byte)
    <2>1. Apart(ring, from, b, c)
      BY <1>1, <1>3, BytesApart
    <2>2. from + b \in Int
      BY <1>3
    <2> QED BY <1>1, <1>3, <2>1, <2>2, BytesFrom DEF Apart
  <1> HIDE DEF x, y, z
  <1>7. BytesOf(accepted) = sent \o z
    <2>1. freed \o (y \o z) = (freed \o y) \o z
      BY <1>1, <1>6, ConcatAssociative
    <2> QED BY <1>4, <1>6, <2>1
  <1>8. sent \in Seq(Byte)
    BY <1>0 DEF TypeInv
  <1>9. IsPrefix(sent, BytesOf(accepted))
    BY <1>6, <1>7, <1>8, Beginning
  <1>10. IsPrefix(freed, sent)
    BY <1>1, <1>4, <1>6, Beginning
  <1> QED BY <1>5, <1>9, <1>10 DEF SentInOrder

(* SentInOrder, for every size of the ring and of a pointer, any number of *)
(* workers and of packets: whatever the threads read of each other's       *)
(* index, between two writes of it, no pointer in the ring of a session is *)
(* lost, torn, sent twice or freed before it was sent (sendPacket,         *)
(* sendPost and the completion of a send in workerThread).                 *)
THEOREM AllSentInOrder == Spec => []SentInOrder
  <1>1. RingInv => SentInOrder
    BY KeptInOrder
  <1> QED BY <1>1, RingHolds, PTL

(* RefusedOnlyWhenFull: sendPacket turns a packet down only if the ring    *)
(* was full at a load it made, although the size it computes may be one    *)
(* the ring never had.                                                     *)
THEOREM NoneRefused == Spec => RefusedOnlyWhenFull
  <1>1. RingInv /\ [Next]_vars => [NoRoom => \E i \in DOMAIN View("sender") :
                    getUseSize(View("sender")[i]) + PointerSize > Size - 1]_vars
    <2> SUFFICES ASSUME RingInv, NoRoom
                 PROVE  \E i \in DOMAIN View("sender") : getUseSize(View("sender")[i]) + PointerSize > Size - 1
      OBVIOUS
    <2>1. TypeInv /\ SeenBySender /\ pc["sender"] = "room" /\ Loaded("sender") /\ ~HasRoom
      BY DEF RingInv, NoRoom, At
    <2> QED BY <2>1, RoomIs
  <1> QED BY <1>1, RingHolds, PTL DEF Spec, RefusedOnlyWhenFull

=============================================================================
