---------------------------- MODULE SessionProofs ----------------------------
(***************************************************************************)
(* Theorems about SessionLifecycle, for any numbers of threads, slots,     *)
(* connections and packets, in four parts:                                 *)
(*   - types: what each variable holds, and that a pointer a thread, the   *)
(*     map or a completion has leads to a slot that has served a           *)
(*     connection;                                                         *)
(*   - the closing protocol.  It goes wrong only through a pointer that    *)
(*     outlives its session: the invariants are proved of every behaviour  *)
(*     that reuses no slot while another thread still points to it         *)
(*     (ReusedUnheld);                                                     *)
(*   - servers that never reuse one so: with one worker, whose application *)
(*     calls the library from its callbacks only, for any number of slots  *)
(*     and connections; and with any threads, as long as one connection    *)
(*     has been accepted.  Of these the invariants hold without a          *)
(*     condition on the behaviour.  With two workers find_old_id shows a   *)
(*     slot reused under a thread;                                         *)
(*   - that SessionLifecycle implements SessionService in every behaviour  *)
(*     that reuses no slot while another thread still points to it; and    *)
(*     so, with no condition on the behaviour, do the servers above.       *)
(*     Inserting into the map opens a session, the first mark dooms it,    *)
(*     closesocket closes it; every other step posts or completes an       *)
(*     operation, or is not seen.                                          *)
(***************************************************************************)
EXTENDS SessionLifecycle, FiniteSetTheorems, SequenceTheorems, TLAPS

-----------------------------------------------------------------------------
(* Where threads are and what they hold *)

HandlerLabels == {"recvLoop", "dequeue", "clear", "more", "dec"}
AcceptLabels  == {"init", "insert", "join"}
FindLabels    == {"sp_find", "rm_find"}
RecvPostLabels == {"join", "rp_check", "rp_inc", "rp_recheck", "rp_undo", "rp_call"}
SessLabels    == Labels \ ({"idle"} \cup FindLabels \cup HandlerLabels)

(* The slot has served a connection. *)
Begun(s) == slot[s].sessionId # NoId

(* What thread t at label l has in its frame f. *)
CtlOf(t, l, f) ==
  /\ l = "idle" => f = NoFrame
  /\ f.client # NoSlot => t \in Workers /\ (l \in HandlerLabels \/ f.ret # "idle")
  /\ l \in HandlerLabels \/ f.ret # "idle" => f.client # NoSlot
  /\ l \in SessLabels => f.sess # NoSlot
  /\ l \in FindLabels \cup {"sp_enqueue"} => f.id # NoId
  /\ l \in {"sp_find", "sp_enqueue"} => f.pkts # <<>>
  /\ l \in AcceptLabels => t = Acceptor
  /\ l \in RecvPostLabels => f.ret # "recvLoop"
  /\ l = "init" => nextSessionId < MaxSessions

(* Pointers lead to sessions that have begun. *)
PtrOf(t, l, f) ==
  /\ f.sess # NoSlot => Begun(f.sess) \/ (t = Acceptor /\ l = "init")
  /\ f.client # NoSlot => Begun(f.client)

ThreadInv == /\ pc \in [Threads -> Labels]
             /\ frame \in [Threads -> Frame]
             /\ \A t \in Threads : CtlOf(t, pc[t], frame[t]) /\ PtrOf(t, pc[t], frame[t])

SharedTypes ==
  /\ slot \in [Slots -> Session]
  /\ sessionMap \in [Ids -> Slots \cup {NoSlot}]
  /\ freeList \in Seq(Slots)
  /\ nextSessionId \in 0..MaxSessions
  /\ io \subseteq [kind : {"recv", "send"}, slot : Slots, id : Ids, pkts : Seq(Packet)]
  /\ closed \subseteq Ids /\ peerGone \subseteq Ids /\ cause \subseteq Ids
  /\ freed \subseteq Packet
  /\ packets \in 0..MaxPackets /\ calls \in 0..MaxCalls
  /\ left \in [Ids -> Nat]
  /\ accepted \in [Ids -> Seq(Packet)] /\ wire \in [Ids -> Seq(Packet)]

SharedPtrs ==
  /\ \A id \in Ids : sessionMap[id] # NoSlot => Begun(sessionMap[id])
  /\ \A r \in io : Begun(r.slot)
  /\ \A s \in Slots : Begun(s) => slot[s].sessionId < nextSessionId

TypeInv == ThreadInv /\ SharedTypes /\ SharedPtrs

-----------------------------------------------------------------------------
(* Frames *)

(* A frame and its fields. *)
Rets == {"idle", "recvLoop", "dec"}

Holds(f, c, s, i, m, n, p, r) ==
  /\ f \in Frame
  /\ f.client = c /\ f.sess = s /\ f.id = i /\ f.mark = m /\ f.todo = n /\ f.pkts = p /\ f.ret = r

(* Setting the field client of a frame. *)
LEMMA SetClient ==
  \A f, c, s, i, m, n, p, r : \A d \in Slots \cup {NoSlot} :
    Holds(f, c, s, i, m, n, p, r) => Holds([f EXCEPT !.client = d], d, s, i, m, n, p, r)
  BY SMT DEF Holds, Frame, Rets

(* Setting the field sess of a frame. *)
LEMMA SetSess ==
  \A f, c, s, i, m, n, p, r : \A d \in Slots \cup {NoSlot} :
    Holds(f, c, s, i, m, n, p, r) => Holds([f EXCEPT !.sess = d], c, d, i, m, n, p, r)
  BY SMT DEF Holds, Frame, Rets

(* Setting the field id of a frame. *)
LEMMA SetId ==
  \A f, c, s, i, m, n, p, r : \A d \in Ids \cup {NoId} :
    Holds(f, c, s, i, m, n, p, r) => Holds([f EXCEPT !.id = d], c, s, d, m, n, p, r)
  BY SMT DEF Holds, Frame, Rets

(* Setting the field mark of a frame. *)
LEMMA SetMark ==
  \A f, c, s, i, m, n, p, r : \A d \in BOOLEAN :
    Holds(f, c, s, i, m, n, p, r) => Holds([f EXCEPT !.mark = d], c, s, i, d, n, p, r)
  BY SMT DEF Holds, Frame, Rets

(* Setting the field todo of a frame. *)
LEMMA SetTodo ==
  \A f, c, s, i, m, n, p, r : \A d \in 0..MaxPerRecv :
    Holds(f, c, s, i, m, n, p, r) => Holds([f EXCEPT !.todo = d], c, s, i, m, d, p, r)
  BY SMT DEF Holds, Frame, Rets

(* Setting the field pkts of a frame. *)
LEMMA SetPkts ==
  \A f, c, s, i, m, n, p, r : \A d \in Seq(Packet) :
    Holds(f, c, s, i, m, n, p, r) => Holds([f EXCEPT !.pkts = d], c, s, i, m, n, d, r)
  BY SMT DEF Holds, Frame, Rets

(* Setting the field ret of a frame. *)
LEMMA SetRet ==
  \A f, c, s, i, m, n, p, r : \A d \in Rets :
    Holds(f, c, s, i, m, n, p, r) => Holds([f EXCEPT !.ret = d], c, s, i, m, n, p, d)
  BY SMT DEF Holds, Frame, Rets

(* Several fields: the frame of a call of removeSession. *)
LEMMA CallFrame ==
  ASSUME NEW f \in Frame, NEW i \in Ids \cup {NoId}, NEW m \in BOOLEAN, NEW r \in Rets
  PROVE  Holds([f EXCEPT !.id = i, !.mark = m, !.ret = r], f.client, f.sess, i, m, f.todo, f.pkts, r)
  <1> DEFINE f1 == [f EXCEPT !.id = i]
             f2 == [f1 EXCEPT !.mark = m]
  <1>0. Holds(f, f.client, f.sess, f.id, f.mark, f.todo, f.pkts, f.ret)
    BY DEF Holds
  <1>1. Holds(f1, f.client, f.sess, i, f.mark, f.todo, f.pkts, f.ret)
    BY <1>0, SetId
  <1>2. Holds(f2, f.client, f.sess, i, m, f.todo, f.pkts, f.ret)
    <2> HIDE DEF f1
    <2> QED BY <1>1, SetMark
  <1>3. Holds([f2 EXCEPT !.ret = r], f.client, f.sess, i, m, f.todo, f.pkts, r)
    <2> HIDE DEF f2
    <2> QED BY <1>2, SetRet
  <1>4. [f2 EXCEPT !.ret = r] = [f EXCEPT !.id = i, !.mark = m, !.ret = r]
    OBVIOUS
  <1> QED BY <1>3, <1>4

(* Several fields: the frame of a worker that dequeued an empty completion. *)
LEMMA ZeroFrame ==
  ASSUME NEW f \in Frame, NEW c \in Slots \cup {NoSlot}, NEW m \in BOOLEAN
  PROVE  Holds([f EXCEPT !.client = c, !.mark = m], c, f.sess, f.id, m, f.todo, f.pkts, f.ret)
  <1> DEFINE f1 == [f EXCEPT !.client = c]
  <1>0. Holds(f, f.client, f.sess, f.id, f.mark, f.todo, f.pkts, f.ret)
    BY DEF Holds
  <1>1. Holds(f1, c, f.sess, f.id, f.mark, f.todo, f.pkts, f.ret)
    BY <1>0, SetClient
  <1>2. Holds([f1 EXCEPT !.mark = m], c, f.sess, f.id, m, f.todo, f.pkts, f.ret)
    <2> HIDE DEF f1
    <2> QED BY <1>1, SetMark
  <1>3. [f1 EXCEPT !.mark = m] = [f EXCEPT !.client = c, !.mark = m]
    OBVIOUS
  <1> QED BY <1>2, <1>3

(* Several fields: the frame of a worker that dequeued a receive. *)
LEMMA RecvFrame ==
  ASSUME NEW f \in Frame, NEW c \in Slots \cup {NoSlot}, NEW n \in 0..MaxPerRecv
  PROVE  Holds([f EXCEPT !.client = c, !.todo = n], c, f.sess, f.id, f.mark, n, f.pkts, f.ret)
  <1> DEFINE f1 == [f EXCEPT !.client = c]
  <1>0. Holds(f, f.client, f.sess, f.id, f.mark, f.todo, f.pkts, f.ret)
    BY DEF Holds
  <1>1. Holds(f1, c, f.sess, f.id, f.mark, f.todo, f.pkts, f.ret)
    BY <1>0, SetClient
  <1>2. Holds([f1 EXCEPT !.todo = n], c, f.sess, f.id, f.mark, n, f.pkts, f.ret)
    <2> HIDE DEF f1
    <2> QED BY <1>1, SetTodo
  <1>3. [f1 EXCEPT !.todo = n] = [f EXCEPT !.client = c, !.todo = n]
    OBVIOUS
  <1> QED BY <1>2, <1>3

(* Several fields: the frame of an answer of onRecv. *)
LEMMA AnswerFrame ==
  ASSUME NEW f \in Frame, NEW i \in Ids \cup {NoId}, NEW p \in Seq(Packet), NEW n \in 0..MaxPerRecv, NEW r \in Rets
  PROVE  Holds([f EXCEPT !.id = i, !.pkts = p, !.todo = n, !.ret = r], f.client, f.sess, i, f.mark, n, p, r)
  <1> DEFINE f1 == [f EXCEPT !.id = i]
             f2 == [f1 EXCEPT !.pkts = p]
             f3 == [f2 EXCEPT !.todo = n]
  <1>0. Holds(f, f.client, f.sess, f.id, f.mark, f.todo, f.pkts, f.ret)
    BY DEF Holds
  <1>1. Holds(f1, f.client, f.sess, i, f.mark, f.todo, f.pkts, f.ret)
    BY <1>0, SetId
  <1>2. Holds(f2, f.client, f.sess, i, f.mark, f.todo, p, f.ret)
    <2> HIDE DEF f1
    <2> QED BY <1>1, SetPkts
  <1>3. Holds(f3, f.client, f.sess, i, f.mark, n, p, f.ret)
    <2> HIDE DEF f2
    <2> QED BY <1>2, SetTodo
  <1>4. Holds([f3 EXCEPT !.ret = r], f.client, f.sess, i, f.mark, n, p, r)
    <2> HIDE DEF f3
    <2> QED BY <1>3, SetRet
  <1>5. [f3 EXCEPT !.ret = r] = [f EXCEPT !.id = i, !.pkts = p, !.todo = n, !.ret = r]
    OBVIOUS
  <1> QED BY <1>4, <1>5

(* Several fields: the frame of the next recvPost. *)
LEMMA PostFrame ==
  ASSUME NEW f \in Frame, NEW s \in Slots \cup {NoSlot}, NEW n \in 0..MaxPerRecv, NEW r \in Rets
  PROVE  Holds([f EXCEPT !.sess = s, !.todo = n, !.ret = r], f.client, s, f.id, f.mark, n, f.pkts, r)
  <1> DEFINE f1 == [f EXCEPT !.sess = s]
             f2 == [f1 EXCEPT !.todo = n]
  <1>0. Holds(f, f.client, f.sess, f.id, f.mark, f.todo, f.pkts, f.ret)
    BY DEF Holds
  <1>1. Holds(f1, f.client, s, f.id, f.mark, f.todo, f.pkts, f.ret)
    BY <1>0, SetSess
  <1>2. Holds(f2, f.client, s, f.id, f.mark, n, f.pkts, f.ret)
    <2> HIDE DEF f1
    <2> QED BY <1>1, SetTodo
  <1>3. Holds([f2 EXCEPT !.ret = r], f.client, s, f.id, f.mark, n, f.pkts, r)
    <2> HIDE DEF f2
    <2> QED BY <1>2, SetRet
  <1>4. [f2 EXCEPT !.ret = r] = [f EXCEPT !.sess = s, !.todo = n, !.ret = r]
    OBVIOUS
  <1> QED BY <1>3, <1>4

(* Several fields: the frame of the next sendPost. *)
LEMMA MoreFrame ==
  ASSUME NEW f \in Frame, NEW s \in Slots \cup {NoSlot}, NEW r \in Rets
  PROVE  Holds([f EXCEPT !.sess = s, !.ret = r], f.client, s, f.id, f.mark, f.todo, f.pkts, r)
  <1> DEFINE f1 == [f EXCEPT !.sess = s]
  <1>0. Holds(f, f.client, f.sess, f.id, f.mark, f.todo, f.pkts, f.ret)
    BY DEF Holds
  <1>1. Holds(f1, f.client, s, f.id, f.mark, f.todo, f.pkts, f.ret)
    BY <1>0, SetSess
  <1>2. Holds([f1 EXCEPT !.ret = r], f.client, s, f.id, f.mark, f.todo, f.pkts, r)
    <2> HIDE DEF f1
    <2> QED BY <1>1, SetRet
  <1>3. [f1 EXCEPT !.ret = r] = [f EXCEPT !.sess = s, !.ret = r]
    OBVIOUS
  <1> QED BY <1>2, <1>3

(* Several fields: the frame of the removeSession that polls. *)
LEMMA DecrementFrame ==
  ASSUME NEW f \in Frame, NEW c \in Slots \cup {NoSlot}, NEW s \in Slots \cup {NoSlot}, NEW r \in Rets
  PROVE  Holds([f EXCEPT !.client = c, !.sess = s, !.ret = r], c, s, f.id, f.mark, f.todo, f.pkts, r)
  <1> DEFINE f1 == [f EXCEPT !.client = c]
             f2 == [f1 EXCEPT !.sess = s]
  <1>0. Holds(f, f.client, f.sess, f.id, f.mark, f.todo, f.pkts, f.ret)
    BY DEF Holds
  <1>1. Holds(f1, c, f.sess, f.id, f.mark, f.todo, f.pkts, f.ret)
    BY <1>0, SetClient
  <1>2. Holds(f2, c, s, f.id, f.mark, f.todo, f.pkts, f.ret)
    <2> HIDE DEF f1
    <2> QED BY <1>1, SetSess
  <1>3. Holds([f2 EXCEPT !.ret = r], c, s, f.id, f.mark, f.todo, f.pkts, r)
    <2> HIDE DEF f2
    <2> QED BY <1>2, SetRet
  <1>4. [f2 EXCEPT !.ret = r] = [f EXCEPT !.client = c, !.sess = s, !.ret = r]
    OBVIOUS
  <1> QED BY <1>3, <1>4

(* Several fields: the frame of sendPacket. *)
LEMMA SendFrame ==
  ASSUME NEW f \in Frame, NEW i \in Ids \cup {NoId}, NEW p \in Seq(Packet)
  PROVE  Holds([f EXCEPT !.id = i, !.pkts = p], f.client, f.sess, i, f.mark, f.todo, p, f.ret)
  <1> DEFINE f1 == [f EXCEPT !.id = i]
  <1>0. Holds(f, f.client, f.sess, f.id, f.mark, f.todo, f.pkts, f.ret)
    BY DEF Holds
  <1>1. Holds(f1, f.client, f.sess, i, f.mark, f.todo, f.pkts, f.ret)
    BY <1>0, SetId
  <1>2. Holds([f1 EXCEPT !.pkts = p], f.client, f.sess, i, f.mark, f.todo, p, f.ret)
    <2> HIDE DEF f1
    <2> QED BY <1>1, SetPkts
  <1>3. [f1 EXCEPT !.pkts = p] = [f EXCEPT !.id = i, !.pkts = p]
    OBVIOUS
  <1> QED BY <1>2, <1>3

-----------------------------------------------------------------------------
(* Type correctness *)

(* Thread t goes to label l with frame f. *)
Moves(t, l, f) == /\ pc' = [pc EXCEPT ![t] = l]
                  /\ frame' = [frame EXCEPT ![t] = f]

(* The frame a thread has after Return. *)
Back(t) == IF frame[t].ret = "idle" THEN NoFrame
           ELSE [NoFrame EXCEPT !.client = frame[t].client, !.todo = frame[t].todo]

(* Labels inside recvPost, sendPost and removeSession. *)
Inner == SessLabels \ (AcceptLabels \cup {"sp_enqueue"})

(* The numbers that stand for no slot and no id are none. *)
LEMMA NoneApart == /\ NoSlot \notin Slots /\ NoId \notin Ids
                   /\ \A s \in Slots : s \in Int
                   /\ \A id \in Ids : id \in Nat
  BY SessionAssumption, SMT DEF NoSlot, Slots, NoId, Ids

(* The frame of a thread that is in no call. *)
LEMMA NoFrameTyped == NoFrame \in Frame
  BY SessionAssumption, SMT DEF NoFrame, Frame, Slots, NoSlot, Ids, NoId

(* What the frame of a thread holds. *)
LEMMA FrameTyped ==
  ASSUME ThreadInv, NEW t \in Threads
  PROVE  /\ frame[t] \in Frame /\ pc[t] \in Labels
         /\ frame[t].sess \in Slots \cup {NoSlot} /\ frame[t].client \in Slots \cup {NoSlot}
         /\ frame[t].id \in Ids \cup {NoId}
         /\ frame[t].ret \in {"idle", "recvLoop", "dec"} /\ frame[t].todo \in 0..MaxPerRecv
         /\ frame[t].mark \in BOOLEAN /\ frame[t].pkts \in Seq(Packet)
         /\ CtlOf(t, pc[t], frame[t]) /\ PtrOf(t, pc[t], frame[t])
  BY SMT DEF ThreadInv, Frame

(* A frame holds its own fields. *)
LEMMA FrameHolds ==
  ASSUME ThreadInv, NEW t \in Threads
  PROVE  Holds(frame[t], frame[t].client, frame[t].sess, frame[t].id, frame[t].mark,
               frame[t].todo, frame[t].pkts, frame[t].ret)
  BY FrameTyped DEF Holds

(* Return leaves a thread idle with nothing, or in the handler it came     *)
(* from with the completion it owes.                                       *)
LEMMA ReturnOk ==
  ASSUME ThreadInv, NEW t \in Threads
  PROVE  /\ frame[t].ret \in Labels /\ Back(t) \in Frame
         /\ CtlOf(t, frame[t].ret, Back(t)) /\ PtrOf(t, frame[t].ret, Back(t))
  <1>1. frame[t].ret \in Labels
    BY FrameTyped, SMT DEF Labels
  <1>2. Back(t) \in Frame
    <2>1. /\ NoFrame \in Frame
          /\ frame[t].client \in Slots \cup {NoSlot} /\ frame[t].todo \in 0..MaxPerRecv
      BY FrameTyped, NoFrameTyped
    <2>2. [NoFrame EXCEPT !.client = frame[t].client, !.todo = frame[t].todo] \in Frame
      BY <2>1, RecvFrame DEF Holds
    <2> QED BY <2>1, <2>2 DEF Back
  <1>3. CASE frame[t].ret = "idle"
    BY <1>1, <1>2, <1>3, SMT DEF Back, CtlOf, PtrOf, NoFrame, HandlerLabels, SessLabels, FindLabels, AcceptLabels, RecvPostLabels, NoSlot
  <1>4. CASE frame[t].ret # "idle"
    BY <1>1, <1>2, <1>4, FrameTyped, SMT DEF Back, CtlOf, PtrOf, NoFrame, HandlerLabels, SessLabels, FindLabels, AcceptLabels, RecvPostLabels, NoSlot
  <1> QED BY <1>1, <1>2, <1>3, <1>4

(* A step from one label inside a call to another keeps the frame. *)
LEMMA StepOk ==
  ASSUME ThreadInv, NEW t \in Threads, pc[t] \in SessLabels \ {"init"}, NEW l \in Inner,
         l \in RecvPostLabels => pc[t] \in RecvPostLabels
  PROVE  l \in Labels /\ CtlOf(t, l, frame[t]) /\ PtrOf(t, l, frame[t])
  BY FrameTyped, SMT DEF Inner, CtlOf, PtrOf, HandlerLabels, SessLabels, FindLabels, AcceptLabels, RecvPostLabels

(* A thread moves, and the slots keep their ids: the others keep what they *)
(* have.                                                                   *)
LEMMA MoveKeeps ==
  ASSUME ThreadInv, NEW t \in Threads, NEW l \in Labels, NEW f \in Frame, Moves(t, l, f),
         CtlOf(t, l, f), PtrOf(t, l, f), nextSessionId' = nextSessionId,
         \A s \in Slots : slot'[s].sessionId = slot[s].sessionId
  PROVE  ThreadInv'
  <1>1. pc' \in [Threads -> Labels] /\ frame' \in [Threads -> Frame]
    BY SMT DEF ThreadInv, Moves
  <1>2. ASSUME NEW u \in Threads PROVE CtlOf(u, pc[u], frame[u])' /\ PtrOf(u, pc[u], frame[u])'
    <2>1. \E m \in Labels, g \in Frame : /\ pc'[u] = m /\ frame'[u] = g
                                         /\ CtlOf(u, m, g) /\ PtrOf(u, m, g)
      BY FrameTyped, SMT DEF ThreadInv, Moves
    <2>2. PICK m \in Labels, g \in Frame : /\ pc'[u] = m /\ frame'[u] = g
                                           /\ CtlOf(u, m, g) /\ PtrOf(u, m, g)
      BY <2>1
    <2>3. g.sess \in Slots \cup {NoSlot} /\ g.client \in Slots \cup {NoSlot}
      BY SMT DEF Frame
    <2> QED BY <2>2, <2>3, SMT DEF CtlOf, PtrOf, Begun
  <1> QED BY <1>1, <1>2 DEF ThreadInv

(* Steps that only read. *)
LEMMA ReadsTypes ==
  ASSUME TypeInv, NEW t \in Threads, NEW l0, Reads(t, l0), NEW l \in Labels, NEW f \in Frame,
         Moves(t, l, f), CtlOf(t, l, f), PtrOf(t, l, f)
  PROVE  TypeInv'
  <1>1. UNCHANGED <<slot, tables, kernel, freed, history>>
    BY DEF Reads
  <1>2. ThreadInv'
    BY <1>1, MoveKeeps DEF TypeInv, tables
  <1>3. SharedTypes'
    BY <1>1 DEF TypeInv, SharedTypes, tables, kernel, history
  <1>4. SharedPtrs'
    BY <1>1 DEF TypeInv, SharedPtrs, Begun, tables, kernel, history
  <1> QED BY <1>2, <1>3, <1>4 DEF TypeInv

(* A slot is written, and keeps its id. *)
LEMMA SlotKeeps ==
  ASSUME TypeInv, NEW s \in Slots, NEW rec \in Session, rec.sessionId = slot[s].sessionId,
         slot' = [slot EXCEPT ![s] = rec], UNCHANGED <<tables, io>>
  PROVE  /\ slot' \in [Slots -> Session]
         /\ \A q \in Slots : slot'[q].sessionId = slot[q].sessionId
         /\ SharedPtrs'
  <1>1. /\ slot' \in [Slots -> Session]
        /\ \A q \in Slots : slot'[q].sessionId = slot[q].sessionId
    BY SMT DEF TypeInv, SharedTypes
  <1>2. SharedPtrs'
    <2>1. \A id \in Ids : sessionMap[id] \in Slots \cup {NoSlot}
      BY SMT DEF TypeInv, SharedTypes
    <2>2. \A r \in io : r.slot \in Slots
      BY SMT DEF TypeInv, SharedTypes
    <2> QED BY <1>1, <2>1, <2>2, SMT DEF TypeInv, SharedPtrs, Begun, tables
  <1> QED BY <1>1, <1>2

(* Steps that write one slot. *)
LEMMA WritesTypes ==
  ASSUME TypeInv, NEW t \in Threads, NEW l0, NEW s \in Slots, NEW rec \in Session,
         rec.sessionId = slot[s].sessionId,
         Writes(t, l0, s, rec), NEW l \in Labels, NEW f \in Frame,
         Moves(t, l, f), CtlOf(t, l, f), PtrOf(t, l, f)
  PROVE  TypeInv'
  <1>1. UNCHANGED <<tables, kernel, freed, history>> /\ slot' = [slot EXCEPT ![s] = rec]
    BY DEF Writes
  <1>2. /\ slot' \in [Slots -> Session]
        /\ \A q \in Slots : slot'[q].sessionId = slot[q].sessionId
        /\ SharedPtrs'
    BY <1>1, SlotKeeps DEF kernel
  <1>3. ThreadInv'
    BY <1>1, <1>2, MoveKeeps DEF TypeInv, tables
  <1>4. SharedTypes'
    BY <1>1, <1>2 DEF TypeInv, SharedTypes, tables, kernel, history
  <1> QED BY <1>2, <1>3, <1>4 DEF TypeInv

(* A label of a call, and a completion in hand, come with a slot.          *)
LEMMA AtSess ==
  ASSUME ThreadInv, NEW t \in Threads, pc[t] \in SessLabels
  PROVE  Sess(t) \in Slots /\ (pc[t] # "init" => Begun(Sess(t)))
  BY FrameTyped, NoneApart, SMT DEF CtlOf, PtrOf, Sess

(* A completion in hand is of a slot that has begun, and with a worker. *)
LEMMA AtClient ==
  ASSUME ThreadInv, NEW t \in Threads, frame[t].client # NoSlot
  PROVE  frame[t].client \in Slots /\ Begun(frame[t].client) /\ t \in Workers
  BY FrameTyped, NoneApart, SMT DEF CtlOf, PtrOf

(* The handler of a completion has one in hand. *)
LEMMA AtHandler ==
  ASSUME ThreadInv, NEW t \in Threads, pc[t] \in HandlerLabels
  PROVE  frame[t].client \in Slots /\ Begun(frame[t].client) /\ t \in Workers
  <1>1. frame[t].client # NoSlot
    BY FrameTyped, SMT DEF CtlOf
  <1> QED BY <1>1, AtClient

(* What a session holds, and what the small updates of it keep.            *)
LEMMA SlotTyped ==
  ASSUME TypeInv, NEW s \in Slots
  PROVE  /\ slot[s] \in Session /\ slot[s].sessionId \in Ids \cup {NoId}
         /\ slot[s].ioCount \in Int /\ slot[s].isSendPending \in BOOLEAN
         /\ slot[s].isClosing \in BOOLEAN /\ slot[s].isTornDown \in BOOLEAN
         /\ slot[s].sendRing \in Seq(Packet) /\ slot[s].sendPacketCount \in 0..MaxBatch
         /\ Begun(s) => slot[s].sessionId \in Ids
  BY SMT DEF TypeInv, SharedTypes, Session, Begun

(* The updates of one field of a session keep its type and its id. *)
LEMMA UpdatesTyped ==
  ASSUME NEW rec \in Session
  PROVE  /\ \A n \in Int : AddIo(rec, n) \in Session /\ AddIo(rec, n).sessionId = rec.sessionId
         /\ \A b \in BOOLEAN : SetPending(rec, b) \in Session /\ SetPending(rec, b).sessionId = rec.sessionId
         /\ \A b \in BOOLEAN : /\ [rec EXCEPT !.isClosing = b] \in Session
                               /\ [rec EXCEPT !.isClosing = b].sessionId = rec.sessionId
         /\ \A b \in BOOLEAN : /\ [rec EXCEPT !.isTornDown = b] \in Session
                               /\ [rec EXCEPT !.isTornDown = b].sessionId = rec.sessionId
         /\ \A n \in 0..MaxBatch : /\ [rec EXCEPT !.sendPacketCount = n] \in Session
                                   /\ [rec EXCEPT !.sendPacketCount = n].sessionId = rec.sessionId
         /\ \A q \in Seq(Packet) : /\ [rec EXCEPT !.sendRing = q] \in Session
                                   /\ [rec EXCEPT !.sendRing = q].sessionId = rec.sessionId
  BY SMT DEF AddIo, SetPending, Session

(* The two ways a thread goes on, as moves.                                *)
LEMMA StepMoves ==
  ASSUME ThreadInv, NEW t \in Threads, NEW l, Step(t, l)
  PROVE  Moves(t, l, frame[t])
  <1>1. frame' = [frame EXCEPT ![t] = frame[t]]
    BY SMT DEF Step, ThreadInv
  <1> QED BY <1>1 DEF Step, Goto, Moves

(* A return is a move too. *)
LEMMA ReturnMoves ==
  ASSUME ThreadInv, NEW t \in Threads, Return(t)
  PROVE  Moves(t, frame[t].ret, Back(t))
  BY DEF Return, Goto, Moves, Back

(* Labels of sendPacket, sendPost and removeSession.                      *)
LEMMA InnerLabels ==
  /\ \A l \in {"sp_pending", "so_xchg", "so_check", "so_reset", "so_count", "so_peek", "so_gather",
               "so_recheck", "so_undo", "so_call", "so_failed", "readId", "rm_mark", "rm_closing",
               "rm_count", "rm_cas", "rm_drain", "rm_erase", "rm_push"} :
       l \in Inner /\ l \in SessLabels \ {"init"} /\ l \notin RecvPostLabels
  /\ "rm_find" \in Labels
  BY DEF Inner, SessLabels, Labels, FindLabels, HandlerLabels, AcceptLabels, RecvPostLabels

(* A read, and a write of one field, inside a call.                        *)
LEMMA ReadsOn ==
  ASSUME TypeInv, NEW t \in Threads, NEW l0 \in SessLabels \ {"init"}, Reads(t, l0),
         NEW l \in Inner, l \in RecvPostLabels => l0 \in RecvPostLabels, Step(t, l) \/ Return(t)
  PROVE  TypeInv'
  <1>0. ThreadInv /\ pc[t] = l0
    BY DEF TypeInv, Reads
  <1>1. CASE Step(t, l)
    BY <1>0, <1>1, StepMoves, StepOk, FrameTyped, ReadsTypes
  <1>2. CASE Return(t)
    BY <1>0, <1>2, ReturnMoves, ReturnOk, ReadsTypes
  <1> QED BY <1>1, <1>2

(* A write of one field of the session, wherever the thread goes. *)
LEMMA WritesOn ==
  ASSUME TypeInv, NEW t \in Threads, NEW l0 \in SessLabels \ {"init"}, NEW rec \in Session,
         rec.sessionId = S(t).sessionId, Writes(t, l0, Sess(t), rec),
         NEW l \in Inner, l \in RecvPostLabels => l0 \in RecvPostLabels, Step(t, l) \/ Return(t)
  PROVE  TypeInv'
  <1>0. ThreadInv /\ pc[t] = l0
    BY DEF TypeInv, Writes
  <1>1. Sess(t) \in Slots
    BY <1>0, AtSess
  <1>2. CASE Step(t, l)
    BY <1>0, <1>1, <1>2, StepMoves, StepOk, FrameTyped, WritesTypes DEF S
  <1>3. CASE Return(t)
    BY <1>0, <1>1, <1>3, ReturnMoves, ReturnOk, WritesTypes DEF S
  <1> QED BY <1>2, <1>3

(* The posted operation, and the call that fails.                          *)
LEMMA PostTypes ==
  ASSUME TypeInv, NEW t \in Threads, pc[t] \in Inner, NEW kind \in {"recv", "send"}, Post(t, kind)
  PROVE  TypeInv'
  <1> DEFINE rec == [kind |-> kind, slot |-> Sess(t), id |-> S(t).sessionId, pkts |-> frame[t].pkts]
  <1>1. /\ Return(t) /\ io' = io \cup {rec}
        /\ UNCHANGED <<slot, tables, closed, peerGone, freed, history>>
    BY DEF Post
  <1>2. Sess(t) \in Slots /\ Begun(Sess(t))
    BY AtSess, SMT DEF TypeInv, Inner, AcceptLabels
  <1>3. rec \in [kind : {"recv", "send"}, slot : Slots, id : Ids, pkts : Seq(Packet)]
    BY <1>2, SlotTyped, FrameTyped DEF TypeInv, S
  <1>4. rec.slot = Sess(t)
    OBVIOUS
  <1> HIDE DEF rec
  <1>5. ThreadInv'
    BY <1>1, ReturnMoves, ReturnOk, MoveKeeps DEF TypeInv, tables
  <1>6. SharedTypes'
    BY <1>1, <1>3 DEF TypeInv, SharedTypes, tables, history
  <1>7. SharedPtrs'
    BY <1>1, <1>2, <1>4, SMT DEF TypeInv, SharedPtrs, Begun, tables
  <1> QED BY <1>5, <1>6, <1>7 DEF TypeInv

(* A failed call keeps the types. *)
LEMMA PostFailsTypes ==
  ASSUME TypeInv, NEW t \in Threads, pc[t] \in Inner, NEW l \in Inner \ RecvPostLabels, PostFails(t, l)
  PROVE  TypeInv'
  <1> DEFINE f == [frame[t] EXCEPT !.mark = TRUE]
  <1>1. Sess(t) \in Slots /\ Begun(Sess(t)) /\ S(t).sessionId \in Ids
    BY AtSess, SlotTyped, SMT DEF TypeInv, Inner, AcceptLabels, S
  <1>2. AddIo(S(t), -1) \in Session /\ AddIo(S(t), -1).sessionId = slot[Sess(t)].sessionId
    BY <1>1, SlotTyped, UpdatesTyped, -1 \in Int DEF S
  <1>3. slot' = [slot EXCEPT ![Sess(t)] = AddIo(S(t), -1)]
    BY <1>1, SMT DEF PostFails, S, TypeInv, SharedTypes
  <1>4. /\ cause' = cause \cup {S(t).sessionId}
        /\ UNCHANGED <<tables, kernel, freed, packets, calls, left, accepted, wire>>
    BY DEF PostFails
  <1>5. /\ slot' \in [Slots -> Session]
        /\ \A q \in Slots : slot'[q].sessionId = slot[q].sessionId
        /\ SharedPtrs'
    BY <1>1, <1>2, <1>3, <1>4, SlotKeeps DEF kernel
  <1>6. Holds(f, frame[t].client, frame[t].sess, frame[t].id, TRUE, frame[t].todo, frame[t].pkts, frame[t].ret)
    BY FrameHolds, SetMark DEF TypeInv
  <1>7. Moves(t, l, f)
    BY SMT DEF PostFails, Goto, Moves, TypeInv, ThreadInv
  <1> HIDE DEF f
  <1>8. l \in Labels /\ CtlOf(t, l, f) /\ PtrOf(t, l, f)
    BY <1>6, FrameTyped, SMT DEF Holds, TypeInv, Inner, CtlOf, PtrOf, HandlerLabels, SessLabels, FindLabels, AcceptLabels, RecvPostLabels
  <1>9. ThreadInv'
    BY <1>4, <1>5, <1>6, <1>7, <1>8, MoveKeeps DEF TypeInv, tables, Holds
  <1>10. SharedTypes'
    BY <1>1, <1>4, <1>5 DEF TypeInv, SharedTypes, tables, kernel
  <1> QED BY <1>5, <1>9, <1>10 DEF TypeInv

(* recvPost *)
LEMMA RecvPostTypes ==
  ASSUME TypeInv, NEW t \in Threads, RecvPost(t)
  PROVE  TypeInv'
  <1> USE DEF Inner, SessLabels, Labels, FindLabels, AcceptLabels, RecvPostLabels, HandlerLabels
  <1>1. CASE RecvPostCheck(t)
    BY <1>1, ReadsOn DEF RecvPostCheck, GoOrReturn, Step
  <1>2. CASE RecvPostInc(t)
    <2>1. Sess(t) \in Slots /\ S(t) \in Session
      BY <1>2, AtSess, SlotTyped DEF RecvPostInc, Writes, TypeInv, S
    <2> QED BY <1>2, <2>1, UpdatesTyped, 1 \in Int, WritesOn DEF RecvPostInc
  <1>3. CASE RecvPostRecheck(t)
    BY <1>3, ReadsOn DEF RecvPostRecheck
  <1>4. CASE RecvPostUndo(t)
    <2>1. Sess(t) \in Slots /\ S(t) \in Session
      BY <1>4, AtSess, SlotTyped DEF RecvPostUndo, Writes, TypeInv, S
    <2> QED BY <1>4, <2>1, UpdatesTyped, -1 \in Int, WritesOn DEF RecvPostUndo
  <1>5. CASE RecvPostCall(t)
    BY <1>5, PostTypes, PostFailsTypes DEF RecvPostCall
  <1> QED BY <1>1, <1>2, <1>3, <1>4, <1>5 DEF RecvPost

(* sendPost *)
LEMMA SendPostTypes ==
  ASSUME TypeInv, NEW t \in Threads, SendPost(t)
  PROVE  TypeInv'
  <1>b. \A l \in {"so_xchg", "so_check", "so_reset", "so_count", "so_peek", "so_gather",
                  "so_recheck", "so_undo", "so_call", "so_failed", "readId"} :
          l \in Inner /\ l \in SessLabels \ {"init"} /\ l \notin RecvPostLabels
    BY InnerLabels
  <1>0. ASSUME pc[t] \in SessLabels \ {"init"} PROVE Sess(t) \in Slots /\ S(t) \in Session
    BY <1>0, AtSess, SlotTyped DEF TypeInv, S
  <1>1. CASE SendPostExchange(t)
    <2>1. S(t) \in Session
      BY <1>0, <1>b, <1>1 DEF SendPostExchange, Writes
    <2>2. SetPending(S(t), TRUE) \in Session /\ SetPending(S(t), TRUE).sessionId = S(t).sessionId
      BY <2>1, UpdatesTyped
    <2>4. Writes(t, "so_xchg", Sess(t), SetPending(S(t), TRUE)) /\ (Step(t, "so_check") \/ Return(t))
      BY <1>1 DEF SendPostExchange, GoOrReturn, Step
    <2> QED BY <1>b, <2>2, <2>4, WritesOn
  <1>2. CASE SendPostCheck(t)
    BY <1>b, <1>2, ReadsOn DEF SendPostCheck
  <1>3. CASE SendPostReset(t)
    <2>1. S(t) \in Session
      BY <1>0, <1>b, <1>3 DEF SendPostReset, Writes
    <2>2. SetPending(S(t), FALSE) \in Session /\ SetPending(S(t), FALSE).sessionId = S(t).sessionId
      BY <2>1, UpdatesTyped
    <2>4. Writes(t, "so_reset", Sess(t), SetPending(S(t), FALSE)) /\ Return(t)
      BY <1>3 DEF SendPostReset
    <2> QED BY <1>b, <2>2, <2>4, WritesOn
  <1>4. CASE SendPostCount(t)
    <2>1. S(t) \in Session /\ S(t).sendRing \in Seq(Packet) /\ Sess(t) \in Slots
      BY <1>0, <1>b, <1>4, SlotTyped DEF SendPostCount, Writes, S
    <2>2. Min2(Len(S(t).sendRing), MaxBatch) \in 0..MaxBatch
      BY <2>1, SessionAssumption, SMT DEF Min2
    <2> QED BY <1>b, <1>4, <2>1, <2>2, UpdatesTyped, WritesOn DEF SendPostCount
  <1>5. CASE SendPostPeek(t)
    <2> DEFINE p == SubSeq(S(t).sendRing, 1, Min2(S(t).sendPacketCount, Len(S(t).sendRing)))
               f == [frame[t] EXCEPT !.pkts = p]
    <2>1. pc[t] = "so_peek" /\ Reads(t, "so_peek")
      BY <1>5 DEF SendPostPeek, Reads
    <2>2. p \in Seq(Packet)
      <3> DEFINE n == Min2(S(t).sendPacketCount, Len(S(t).sendRing))
      <3>1. S(t).sendRing \in Seq(Packet) /\ S(t).sendPacketCount \in Nat
        BY <1>0, <1>b, <2>1, SlotTyped, SessionAssumption, SMT DEF S
      <3>2. n \in Nat /\ n <= Len(S(t).sendRing)
        BY <3>1, SMT DEF Min2
      <3>3. \A i \in 1..n : S(t).sendRing[i] \in Packet
        BY <3>1, <3>2, SMT
      <3> HIDE DEF n
      <3>4. SubSeq(S(t).sendRing, 1, n) \in Seq(Packet)
        BY <3>1, <3>2, <3>3, SubSeqProperties
      <3> QED BY <3>4 DEF n
    <2> HIDE DEF p
    <2>3. Holds(f, frame[t].client, frame[t].sess, frame[t].id, frame[t].mark, frame[t].todo, p, frame[t].ret)
      BY <2>2, FrameHolds, SetPkts DEF TypeInv
    <2>4. Moves(t, "so_gather", f)
      BY <1>5, SMT DEF SendPostPeek, Goto, Moves, TypeInv, ThreadInv, p
    <2> HIDE DEF f
    <2>5. CtlOf(t, "so_gather", f) /\ PtrOf(t, "so_gather", f)
      BY <2>1, <2>3, FrameTyped, SMT DEF Holds, TypeInv, CtlOf, PtrOf, SessLabels, Labels, FindLabels, AcceptLabels, RecvPostLabels, HandlerLabels
    <2> QED BY <2>1, <2>3, <2>4, <2>5, ReadsTypes DEF Holds, Labels
  <1>6. CASE SendPostGather(t)
    <2>1. S(t) \in Session
      BY <1>0, <1>b, <1>6 DEF SendPostGather, Writes
    <2> QED BY <1>b, <1>6, <2>1, UpdatesTyped, 1 \in Int, WritesOn DEF SendPostGather
  <1>7. CASE SendPostRecheck(t)
    BY <1>b, <1>7, ReadsOn DEF SendPostRecheck
  <1>8. CASE SendPostUndo(t)
    <2>1. S(t) \in Session
      BY <1>0, <1>b, <1>8 DEF SendPostUndo, Writes
    <2> QED BY <1>b, <1>8, <2>1, UpdatesTyped, -1 \in Int, WritesOn DEF SendPostUndo
  <1>9. CASE SendPostCall(t)
    BY <1>b, <1>9, PostTypes, PostFailsTypes DEF SendPostCall
  <1>10. CASE SendPostFailed(t)
    <2>1. S(t) \in Session
      BY <1>0, <1>b, <1>10 DEF SendPostFailed, Writes
    <2> QED BY <1>b, <1>10, <2>1, UpdatesTyped, WritesOn DEF SendPostFailed
  <1> QED BY <1>1, <1>2, <1>3, <1>4, <1>5, <1>6, <1>7, <1>8, <1>9, <1>10 DEF SendPost

(* sendPacket *)
LEMMA SendPacketTypes ==
  ASSUME TypeInv, NEW t \in Threads, SendPacket(t)
  PROVE  TypeInv'
  <1>1. CASE SendPacketFind(t)
    <2> DEFINE s == sessionMap[frame[t].id]
               f == [frame[t] EXCEPT !.sess = s]
    <2>1. pc[t] = "sp_find" /\ Reads(t, "sp_find")
      BY <1>1 DEF SendPacketFind, Reads
    <2>2. CASE s = NoSlot
      BY <1>1, <2>1, <2>2, ReturnMoves, ReturnOk, ReadsTypes DEF SendPacketFind, TypeInv
    <2>3. CASE s # NoSlot
      <3>1. frame[t].id \in Ids /\ frame[t].pkts # <<>> /\ CtlOf(t, pc[t], frame[t]) /\ PtrOf(t, pc[t], frame[t])
        BY <2>1, FrameTyped DEF CtlOf, TypeInv, FindLabels
      <3>2. s \in Slots /\ Begun(s)
        BY <2>3, <3>1 DEF TypeInv, SharedTypes, SharedPtrs
      <3>3. Moves(t, "sp_enqueue", f)
        BY <1>1, <2>3, SMT DEF SendPacketFind, Goto, Moves, TypeInv, ThreadInv
      <3> HIDE DEF s
      <3>4. Holds(f, frame[t].client, s, frame[t].id, frame[t].mark, frame[t].todo, frame[t].pkts, frame[t].ret)
        BY <3>2, FrameHolds, SetSess DEF TypeInv
      <3> HIDE DEF f
      <3>5. CtlOf(t, "sp_enqueue", f) /\ PtrOf(t, "sp_enqueue", f) /\ "sp_enqueue" \in Labels
        BY <2>1, <3>1, <3>2, <3>4, NoneApart, SMT DEF Holds, CtlOf, PtrOf, Labels, SessLabels, FindLabels, HandlerLabels, AcceptLabels, RecvPostLabels
      <3> QED BY <2>1, <3>3, <3>4, <3>5, ReadsTypes DEF Holds
    <2> QED BY <2>2, <2>3
  <1>2. CASE SendPacketEnqueue(t)
    <2> DEFINE room == Len(S(t).sendRing) < RingCap
               p    == frame[t].pkts[1]
    <2>1. pc[t] = "sp_enqueue" /\ pc[t] \in SessLabels \ {"init"} /\ "sp_pending" \in Inner \ RecvPostLabels
      BY <1>2, InnerLabels DEF SendPacketEnqueue, SessLabels, Labels, FindLabels, HandlerLabels
    <2>2. Sess(t) \in Slots /\ Begun(Sess(t)) /\ S(t) \in Session /\ S(t).sendRing \in Seq(Packet)
      BY <2>1, AtSess, SlotTyped DEF TypeInv, S
    <2>3. frame[t].id \in Ids /\ p \in Packet
      <3>1. frame[t].pkts # <<>> /\ frame[t].pkts \in Seq(Packet) /\ frame[t].id \in Ids
        BY <2>1, FrameTyped DEF CtlOf, TypeInv
      <3> QED BY <3>1, SMT
    <2>4. /\ slot' = IF room THEN [slot EXCEPT ![Sess(t)].sendRing = Append(@, p)] ELSE slot
          /\ accepted' = IF room THEN [accepted EXCEPT ![frame[t].id] = Append(@, p)] ELSE accepted
          /\ freed' = IF room THEN freed ELSE freed \cup {p}
          /\ GoOrReturn(t, room, "sp_pending")
          /\ UNCHANGED <<tables, kernel, packets, calls, left, cause, wire>>
      BY <1>2 DEF SendPacketEnqueue
    <2> HIDE DEF p, room
    <2>5. /\ slot' \in [Slots -> Session]
          /\ \A q \in Slots : slot'[q].sessionId = slot[q].sessionId
          /\ SharedPtrs'
      <3>1. CASE room
        <4> DEFINE rec == [S(t) EXCEPT !.sendRing = Append(S(t).sendRing, p)]
        <4>1. Append(S(t).sendRing, p) \in Seq(Packet)
          BY <2>2, <2>3, SMT
        <4>2. rec \in Session /\ rec.sessionId = slot[Sess(t)].sessionId
          BY <4>1, <2>2, UpdatesTyped DEF S
        <4>3. slot' = [slot EXCEPT ![Sess(t)] = rec]
          BY <3>1, <2>4, SMT DEF S, TypeInv, SharedTypes
        <4> HIDE DEF rec
        <4> QED BY <4>2, <4>3, <2>2, <2>4, SlotKeeps DEF kernel
      <3>2. CASE ~room
        BY <3>2, <2>4, SMT DEF TypeInv, SharedTypes, SharedPtrs, Begun, tables, kernel
      <3> QED BY <3>1, <3>2
    <2>6. SharedTypes'
      <3>1. accepted' \in [Ids -> Seq(Packet)]
        <4>1. \A q \in Seq(Packet) : Append(q, p) \in Seq(Packet)
          BY <2>3, SMT
        <4> QED BY <4>1, <2>3, <2>4, SMT DEF TypeInv, SharedTypes
      <3>2. freed' \subseteq Packet
        BY <2>3, <2>4, SMT DEF TypeInv, SharedTypes
      <3> QED BY <3>1, <3>2, <2>4, <2>5 DEF TypeInv, SharedTypes, tables, kernel
    <2>7. ThreadInv'
      <3>1. CASE Return(t)
        BY <3>1, <2>4, <2>5, ReturnMoves, ReturnOk, MoveKeeps DEF TypeInv, tables
      <3>2. CASE Step(t, "sp_pending")
        BY <3>2, <2>1, <2>4, <2>5, StepMoves, StepOk, FrameTyped, MoveKeeps DEF TypeInv, tables
      <3> QED BY <3>1, <3>2, <2>4 DEF GoOrReturn, Step
    <2> QED BY <2>5, <2>6, <2>7 DEF TypeInv
  <1>3. CASE SendPacketPending(t)
    <2>1. "so_xchg" \in Inner \ RecvPostLabels /\ "sp_pending" \in SessLabels \ {"init"}
      BY InnerLabels
    <2> QED BY <1>3, <2>1, ReadsOn DEF SendPacketPending, GoOrReturn, Step
  <1> QED BY <1>1, <1>2, <1>3 DEF SendPacket

(* removeSession is called with the id of a session: the thread is in a    *)
(* handler, idle, or reads the argument from the slot.                     *)
LEMMA CallRemoveOk ==
  ASSUME ThreadInv, NEW t \in Threads, NEW id \in Ids, NEW mark \in BOOLEAN, NEW ret \in Rets,
         CallRemove(t, id, mark, ret),
         ret # "idle" <=> frame[t].client # NoSlot,
         pc[t] # "init"
  PROVE  \E f \in Frame : /\ Moves(t, "rm_find", f)
                          /\ Holds(f, frame[t].client, frame[t].sess, id, mark,
                                   frame[t].todo, frame[t].pkts, ret)
                          /\ CtlOf(t, "rm_find", f) /\ PtrOf(t, "rm_find", f)
  <1> DEFINE f == [frame[t] EXCEPT !.id = id, !.mark = mark, !.ret = ret]
  <1>1. Moves(t, "rm_find", f)
    <2>1. frame' = [frame EXCEPT ![t].id = id, ![t].mark = mark, ![t].ret = ret]
      BY DEF CallRemove
    <2>2. frame \in [Threads -> Frame]
      BY DEF ThreadInv
    <2>3. frame' = [frame EXCEPT ![t] = f]
      BY <2>1, <2>2
    <2> QED BY <2>3 DEF CallRemove, Goto, Moves
  <1>2. Holds(f, frame[t].client, frame[t].sess, id, mark, frame[t].todo, frame[t].pkts, ret)
    BY FrameTyped, CallFrame
  <1> HIDE DEF f
  <1>3. CtlOf(t, "rm_find", f) /\ PtrOf(t, "rm_find", f)
    BY <1>2, FrameTyped, NoneApart, SMT DEF Holds, CtlOf, PtrOf, SessLabels, FindLabels, HandlerLabels, AcceptLabels, RecvPostLabels
  <1> QED BY <1>1, <1>2, <1>3 DEF Holds

(* removeSession *)
LEMMA RemoveSessionTypes ==
  ASSUME TypeInv, NEW t \in Threads, RemoveSession(t)
  PROVE  TypeInv'
  <1>0. /\ \A l \in {"rm_mark", "rm_closing", "rm_count", "rm_cas", "rm_drain", "rm_erase", "rm_push", "readId"} :
             l \in Inner /\ l \in SessLabels \ {"init"} /\ l \notin RecvPostLabels
        /\ "rm_find" \in Labels
    BY InnerLabels
  <1>a. ASSUME pc[t] \in SessLabels \ {"init"}
        PROVE  /\ Sess(t) \in Slots /\ Begun(Sess(t)) /\ S(t) \in Session /\ S(t).sessionId \in Ids
               /\ S(t).sendRing \in Seq(Packet)
    BY <1>a, AtSess, SlotTyped DEF TypeInv, S
  <1>1. CASE ReadId(t)
    <2>1. pc[t] = "readId" /\ Reads(t, "readId") /\ CallRemove(t, S(t).sessionId, frame[t].mark, frame[t].ret)
      BY <1>1 DEF ReadId, Reads
    <2>2. /\ S(t).sessionId \in Ids /\ frame[t].mark \in BOOLEAN /\ frame[t].ret \in Rets
          /\ frame[t].ret # "idle" <=> frame[t].client # NoSlot
      BY <1>0, <1>a, <2>1, FrameTyped DEF CtlOf, HandlerLabels, TypeInv, Rets
    <2>3. PICK f \in Frame : Moves(t, "rm_find", f) /\ CtlOf(t, "rm_find", f) /\ PtrOf(t, "rm_find", f)
      BY <2>1, <2>2, CallRemoveOk DEF TypeInv
    <2> QED BY <1>0, <2>1, <2>3, ReadsTypes
  <1>2. CASE RemoveFind(t)
    <2> DEFINE s == sessionMap[frame[t].id]
               f == [frame[t] EXCEPT !.sess = s]
               l == IF frame[t].mark THEN "rm_mark" ELSE "rm_closing"
    <2>1. pc[t] = "rm_find" /\ Reads(t, "rm_find")
      BY <1>2 DEF RemoveFind, Reads
    <2>2. CASE s = NoSlot
      BY <1>2, <2>1, <2>2, ReturnMoves, ReturnOk, ReadsTypes DEF RemoveFind, TypeInv
    <2>3. CASE s # NoSlot
      <3>1. frame[t].id \in Ids /\ CtlOf(t, pc[t], frame[t]) /\ PtrOf(t, pc[t], frame[t])
        BY <2>1, FrameTyped DEF CtlOf, TypeInv, FindLabels
      <3>2. s \in Slots /\ Begun(s)
        BY <2>3, <3>1 DEF TypeInv, SharedTypes, SharedPtrs
      <3>3. Moves(t, l, f)
        BY <1>2, <2>3, SMT DEF RemoveFind, Goto, Moves, TypeInv, ThreadInv
      <3> HIDE DEF s
      <3>4. Holds(f, frame[t].client, s, frame[t].id, frame[t].mark, frame[t].todo, frame[t].pkts, frame[t].ret)
        BY <3>2, FrameHolds, SetSess DEF TypeInv
      <3>5. l \in {"rm_mark", "rm_closing"} /\ l \in Labels
        BY DEF Labels
      <3> HIDE DEF f, l
      <3>6. CtlOf(t, l, f) /\ PtrOf(t, l, f)
        BY <2>1, <3>1, <3>2, <3>4, <3>5, NoneApart, SMT DEF Holds, CtlOf, PtrOf, SessLabels, FindLabels, HandlerLabels, AcceptLabels, RecvPostLabels
      <3> QED BY <2>1, <3>3, <3>4, <3>5, <3>6, ReadsTypes DEF Holds
    <2> QED BY <2>2, <2>3
  <1>3. CASE RemoveMark(t)
    <2>1. S(t) \in Session
      BY <1>0, <1>a, <1>3 DEF RemoveMark, Writes
    <2>2. [S(t) EXCEPT !.isClosing = TRUE] \in Session /\ [S(t) EXCEPT !.isClosing = TRUE].sessionId = S(t).sessionId
      BY <2>1, UpdatesTyped
    <2> QED BY <1>0, <1>3, <2>2, WritesOn DEF RemoveMark
  <1>4. CASE RemoveClosing(t)
    BY <1>0, <1>4, ReadsOn DEF RemoveClosing, GoOrReturn, Step
  <1>5. CASE RemoveCount(t)
    BY <1>0, <1>5, ReadsOn DEF RemoveCount, GoOrReturn, Step
  <1>6. CASE RemoveCas(t)
    <2>1. S(t) \in Session
      BY <1>0, <1>a, <1>6 DEF RemoveCas, Writes
    <2>2. [S(t) EXCEPT !.isTornDown = TRUE] \in Session /\ [S(t) EXCEPT !.isTornDown = TRUE].sessionId = S(t).sessionId
      BY <2>1, UpdatesTyped
    <2> QED BY <1>0, <1>6, <2>2, WritesOn DEF RemoveCas, GoOrReturn, Step
  <1>7. CASE RemoveDrain(t)
    <2>1. /\ pc[t] = "rm_drain" /\ S(t).sendRing # <<>>
          /\ freed' = freed \cup {Head(S(t).sendRing)}
          /\ slot' = [slot EXCEPT ![Sess(t)].sendRing = Tail(@)]
          /\ UNCHANGED <<tables, kernel, pc, frame, history>>
      BY <1>7 DEF RemoveDrain
    <2>2. /\ Sess(t) \in Slots /\ S(t) \in Session /\ S(t).sendRing \in Seq(Packet)
      BY <1>0, <1>a, <2>1
    <2>3. Head(S(t).sendRing) \in Packet /\ Tail(S(t).sendRing) \in Seq(Packet)
      BY <2>1, <2>2, SMT
    <2> DEFINE rec == [S(t) EXCEPT !.sendRing = Tail(S(t).sendRing)]
    <2>4. rec \in Session /\ rec.sessionId = slot[Sess(t)].sessionId
      BY <2>2, <2>3, UpdatesTyped DEF S
    <2>5. slot' = [slot EXCEPT ![Sess(t)] = rec]
      BY <2>1, SMT DEF S, TypeInv, SharedTypes
    <2> HIDE DEF rec
    <2>6. /\ slot' \in [Slots -> Session]
          /\ \A q \in Slots : slot'[q].sessionId = slot[q].sessionId
          /\ SharedPtrs'
      BY <2>1, <2>2, <2>4, <2>5, SlotKeeps DEF kernel
    <2>7. ThreadInv'
      <3>1. Moves(t, pc[t], frame[t])
        BY <2>1, SMT DEF Moves, TypeInv, ThreadInv
      <3> QED BY <3>1, <2>1, <2>6, FrameTyped, MoveKeeps DEF TypeInv, tables
    <2>8. SharedTypes'
      BY <2>1, <2>3, <2>6 DEF TypeInv, SharedTypes, tables, kernel, history
    <2> QED BY <2>6, <2>7, <2>8 DEF TypeInv
  <1>8. CASE RemoveClose(t)
    <2>1. /\ pc[t] = "rm_drain"
          /\ closed' = closed \cup {S(t).sessionId}
          /\ left' = [left EXCEPT ![S(t).sessionId] = @ + 1]
          /\ Step(t, "rm_erase")
          /\ UNCHANGED <<slot, tables, io, peerGone, freed, packets, calls, cause, accepted, wire>>
      BY <1>8 DEF RemoveClose
    <2>2. S(t).sessionId \in Ids
      BY <1>0, <1>a, <2>1
    <2>3. ThreadInv'
      BY <1>0, <2>1, StepMoves, StepOk, FrameTyped, MoveKeeps DEF TypeInv, tables
    <2>4. SharedTypes'
      <3>1. left' \in [Ids -> Nat]
        BY <2>1, <2>2, SMT DEF TypeInv, SharedTypes
      <3> QED BY <2>1, <2>2, <3>1 DEF TypeInv, SharedTypes, tables
    <2>5. SharedPtrs'
      BY <2>1 DEF TypeInv, SharedPtrs, Begun, tables
    <2> QED BY <2>3, <2>4, <2>5 DEF TypeInv
  <1>9. CASE RemoveErase(t)
    <2>1. /\ pc[t] = "rm_erase"
          /\ sessionMap' = [sessionMap EXCEPT ![S(t).sessionId] = NoSlot]
          /\ Step(t, "rm_push")
          /\ UNCHANGED <<slot, freeList, nextSessionId, kernel, freed, history>>
      BY <1>9 DEF RemoveErase
    <2>2. ThreadInv'
      BY <1>0, <2>1, StepMoves, StepOk, FrameTyped, MoveKeeps DEF TypeInv
    <2>3. SharedTypes'
      <3>1. sessionMap \in [Ids -> Slots \cup {NoSlot}]
        BY DEF TypeInv, SharedTypes
      <3>2. sessionMap' \in [Ids -> Slots \cup {NoSlot}]
        BY <2>1, <3>1
      <3> QED BY <2>1, <3>2 DEF TypeInv, SharedTypes, kernel, history
    <2>4. SharedPtrs'
      BY <2>1, SMT DEF TypeInv, SharedTypes, SharedPtrs, Begun, kernel
    <2> QED BY <2>2, <2>3, <2>4 DEF TypeInv
  <1>10. CASE RemovePush(t)
    <2>1. /\ pc[t] = "rm_push"
          /\ freeList' = Append(freeList, Sess(t))
          /\ Return(t)
          /\ UNCHANGED <<slot, sessionMap, nextSessionId, kernel, freed, history>>
      BY <1>10 DEF RemovePush
    <2>2. ThreadInv'
      BY <2>1, ReturnMoves, ReturnOk, MoveKeeps DEF TypeInv
    <2>3. SharedTypes'
      <3>1. Sess(t) \in Slots /\ freeList \in Seq(Slots)
        BY <1>0, <1>a, <2>1 DEF TypeInv, SharedTypes
      <3>2. freeList' \in Seq(Slots)
        BY <2>1, <3>1, SMT
      <3> QED BY <2>1, <3>2 DEF TypeInv, SharedTypes, kernel, history
    <2>4. SharedPtrs'
      BY <2>1 DEF TypeInv, SharedPtrs, Begun, kernel
    <2> QED BY <2>2, <2>3, <2>4 DEF TypeInv
  <1> QED BY <1>1, <1>2, <1>3, <1>4, <1>5, <1>6, <1>7, <1>8, <1>9, <1>10 DEF RemoveSession

(* A worker dequeues a completion. *)
LEMMA DequeueTypes ==
  ASSUME TypeInv, NEW w \in Workers, NEW r \in io, NEW l \in HandlerLabels, NEW f \in Frame,
         Dequeue(w, r, l), frame' = [frame EXCEPT ![w] = f],
         f.client = r.slot, f.sess = NoSlot,
         cause' \subseteq Ids, wire' \in [Ids -> Seq(Packet)]
  PROVE  TypeInv'
  <1>1. /\ io' = io \ {r} /\ pc[w] = "idle" /\ Moves(w, l, f)
        /\ UNCHANGED <<slot, tables, closed, peerGone, freed, packets, calls, left, accepted>>
    BY DEF Dequeue, Goto, Moves
  <1>2. w \in Threads /\ l \in Labels
    BY DEF Threads, HandlerLabels, Labels
  <1>3. r.slot \in Slots /\ Begun(r.slot)
    BY DEF TypeInv, SharedTypes, SharedPtrs
  <1>4. CtlOf(w, l, f) /\ PtrOf(w, l, f)
    BY <1>3, NoneApart, SMT DEF CtlOf, PtrOf, HandlerLabels, SessLabels, FindLabels, AcceptLabels, RecvPostLabels
  <1>5. ThreadInv'
    BY <1>1, <1>2, <1>4, MoveKeeps DEF TypeInv, tables
  <1>6. SharedTypes'
    BY <1>1 DEF TypeInv, SharedTypes, tables
  <1>7. SharedPtrs'
    BY <1>1 DEF TypeInv, SharedPtrs, Begun, tables
  <1> QED BY <1>5, <1>6, <1>7 DEF TypeInv

(* A thread that waits has nothing in its frame.                           *)
LEMMA IdleFrame ==
  ASSUME ThreadInv, NEW t \in Threads, pc[t] = "idle"
  PROVE  frame[t] = NoFrame
  BY FrameTyped DEF CtlOf

(* A worker that dequeues a completion keeps the types. *)
LEMMA GetTypes ==
  ASSUME TypeInv, NEW w \in Workers, NEW r \in io, Get(w, r)
  PROVE  TypeInv'
  <1>1. w \in Threads /\ pc[w] = "idle"
    BY DEF Threads, Get, GetZero, GetRecv, GetSend, Dequeue
  <1>2. frame[w] = NoFrame /\ frame[w] \in Frame /\ frame \in [Threads -> Frame]
    BY <1>1, IdleFrame, NoFrameTyped DEF TypeInv, ThreadInv
  <1>3. r.slot \in Slots \cup {NoSlot} /\ r.id \in Ids /\ r.pkts \in Seq(Packet)
    BY DEF TypeInv, SharedTypes
  <1>4. NoFrame.sess = NoSlot
    BY DEF NoFrame
  <1>5. CASE GetZero(w, r)
    <2> DEFINE f == [frame[w] EXCEPT !.client = r.slot, !.mark = TRUE]
    <2>1. /\ Dequeue(w, r, "dec") /\ UNCHANGED wire
          /\ cause' = IF MayFail(r.id) THEN cause \cup {r.id} ELSE cause
          /\ frame' = [frame EXCEPT ![w].client = r.slot, ![w].mark = TRUE]
      BY <1>5 DEF GetZero
    <2>2. frame' = [frame EXCEPT ![w] = f]
      BY <1>1, <1>2, <2>1
    <2>3. Holds(f, r.slot, frame[w].sess, frame[w].id, TRUE, frame[w].todo, frame[w].pkts, frame[w].ret)
      BY <1>2, <1>3, ZeroFrame
    <2> HIDE DEF f
    <2>5. f \in Frame /\ f.client = r.slot /\ f.sess = NoSlot
      BY <2>3, <1>2, <1>4 DEF Holds
    <2>4. cause' \subseteq Ids /\ wire' \in [Ids -> Seq(Packet)]
      BY <1>3, <2>1 DEF TypeInv, SharedTypes
    <2> QED BY <2>1, <2>2, <2>5, <2>4, DequeueTypes DEF HandlerLabels
  <1>6. CASE GetRecv(w, r)
    <2> DEFINE f == [frame[w] EXCEPT !.client = r.slot, !.todo = MaxPerRecv]
    <2>1. /\ Dequeue(w, r, "recvLoop") /\ UNCHANGED <<cause, wire>>
          /\ frame' = [frame EXCEPT ![w].client = r.slot, ![w].todo = MaxPerRecv]
      BY <1>6 DEF GetRecv
    <2>2. frame' = [frame EXCEPT ![w] = f]
      BY <1>1, <1>2, <2>1
    <2>3. MaxPerRecv \in 0..MaxPerRecv
      BY SessionAssumption, SMT
    <2>4. Holds(f, r.slot, frame[w].sess, frame[w].id, frame[w].mark, MaxPerRecv, frame[w].pkts, frame[w].ret)
      BY <1>2, <1>3, <2>3, RecvFrame
    <2> HIDE DEF f
    <2>6. f \in Frame /\ f.client = r.slot /\ f.sess = NoSlot
      BY <2>4, <1>2, <1>4 DEF Holds
    <2>5. cause' \subseteq Ids /\ wire' \in [Ids -> Seq(Packet)]
      BY <2>1 DEF TypeInv, SharedTypes
    <2> QED BY <2>1, <2>2, <2>5, <2>6, DequeueTypes DEF HandlerLabels
  <1>7. CASE GetSend(w, r)
    <2> DEFINE f == [frame[w] EXCEPT !.client = r.slot]
    <2>1. /\ Dequeue(w, r, "dequeue") /\ UNCHANGED cause
          /\ frame' = [frame EXCEPT ![w].client = r.slot]
          /\ wire' = [wire EXCEPT ![r.id] = @ \o r.pkts]
      BY <1>7 DEF GetSend
    <2>2. frame' = [frame EXCEPT ![w] = f]
      BY <1>1, <1>2, <2>1
    <2>3. Holds(f, r.slot, frame[w].sess, frame[w].id, frame[w].mark, frame[w].todo, frame[w].pkts, frame[w].ret)
      BY <1>1, <1>3, FrameHolds, SetClient DEF TypeInv
    <2> HIDE DEF f
    <2>6. f \in Frame /\ f.client = r.slot /\ f.sess = NoSlot
      BY <2>3, <1>2, <1>4 DEF Holds
    <2>4. cause' \subseteq Ids
      BY <2>1 DEF TypeInv, SharedTypes
    <2>5. wire' \in [Ids -> Seq(Packet)]
      <3>1. \A q \in Seq(Packet) : q \o r.pkts \in Seq(Packet)
        BY <1>3, SMT
      <3> QED BY <3>1, <1>3, <2>1, SMT DEF TypeInv, SharedTypes
    <2> QED BY <2>1, <2>2, <2>4, <2>5, <2>6, DequeueTypes DEF HandlerLabels
  <1> QED BY <1>5, <1>6, <1>7 DEF Get

(* The packets of a batch, and those behind it.                            *)
LEMMA RingSplit ==
  ASSUME NEW ring \in Seq(Packet), NEW k \in Nat
  PROVE  LET n == Min2(k, Len(ring)) IN
         /\ SubSeq(ring, 1, n) \in Seq(Packet) /\ SubSeq(ring, n + 1, Len(ring)) \in Seq(Packet)
         /\ \A i \in 1..Len(SubSeq(ring, 1, n)) : SubSeq(ring, 1, n)[i] \in Packet
  <1> DEFINE n == Min2(k, Len(ring))
             m == n + 1
  <1>1. n \in Int /\ n <= Len(ring) /\ m \in Int /\ m >= 1 /\ Len(ring) \in Int
    BY SMT DEF Min2
  <1>2. (\A i \in 1..n : ring[i] \in Packet) /\ (\A i \in m..Len(ring) : ring[i] \in Packet)
    BY <1>1, SMT
  <1> HIDE DEF n, m
  <1>3. SubSeq(ring, 1, n) \in Seq(Packet)
    BY <1>1, <1>2, SubSeqProperties
  <1>4. SubSeq(ring, m, Len(ring)) \in Seq(Packet)
    BY <1>1, <1>2, SubSeqProperties
  <1>5. \A i \in 1..Len(SubSeq(ring, 1, n)) : SubSeq(ring, 1, n)[i] \in Packet
    BY <1>3, SMT
  <1> QED BY <1>3, <1>4, <1>5 DEF n, m

(* The handler of a completion. *)
LEMMA HandleTypes ==
  ASSUME TypeInv, NEW w \in Workers, Handle(w)
  PROVE  TypeInv'
  <1> DEFINE s == frame[w].client
  <1>0. /\ w \in Threads /\ pc[w] \in HandlerLabels
        /\ \A l \in HandlerLabels : l \in Labels
        /\ ThreadInv
    BY DEF Threads, Handle, RecvDone, SendDequeue, SendClear, SendMore, Decrement, Reads, Writes, HandlerLabels, Labels, TypeInv
  <1>1. s \in Slots /\ Begun(s) /\ slot[s] \in Session
    BY <1>0, AtHandler, SlotTyped
  <1>2. s # NoSlot
    BY <1>1, NoneApart
  <1>3. CtlOf(w, pc[w], frame[w]) /\ PtrOf(w, pc[w], frame[w]) /\ frame[w] \in Frame
    BY <1>0, FrameTyped
  <1> HIDE DEF s
  <1>4. ASSUME NEW l \in HandlerLabels PROVE CtlOf(w, l, frame[w]) /\ PtrOf(w, l, frame[w])
    BY <1>0, <1>3, SMT DEF CtlOf, PtrOf, HandlerLabels, SessLabels, FindLabels, AcceptLabels, RecvPostLabels
  <1>5. CASE RecvDone(w)
    <2> DEFINE f == [frame[w] EXCEPT !.sess = s, !.todo = 0, !.ret = "dec"]
    <2>1. Reads(w, "recvLoop") /\ frame' = [frame EXCEPT ![w].sess = s, ![w].todo = 0, ![w].ret = "dec"]
          /\ Goto(w, "rp_check")
      BY <1>5 DEF RecvDone, s
    <2>2. frame' = [frame EXCEPT ![w] = f]
      BY <1>0, <2>1 DEF ThreadInv
    <2>3. 0 \in 0..MaxPerRecv /\ "dec" \in Rets /\ "rp_check" \in Labels
      BY SessionAssumption, SMT DEF Rets, Labels
    <2>4. Holds(f, frame[w].client, s, frame[w].id, frame[w].mark, 0, frame[w].pkts, "dec")
      BY <1>1, <1>3, <2>3, PostFrame
    <2> HIDE DEF f
    <2>5. CtlOf(w, "rp_check", f) /\ PtrOf(w, "rp_check", f)
      BY <1>1, <1>2, <1>3, <2>4, SMT DEF Holds, CtlOf, PtrOf, HandlerLabels, SessLabels, FindLabels, AcceptLabels, RecvPostLabels, s
    <2> QED BY <1>0, <2>1, <2>2, <2>3, <2>4, <2>5, ReadsTypes DEF Holds, Goto, Moves
  <1>6. CASE SendDequeue(w)
    <2> DEFINE ring == slot[s].sendRing
               n == Min2(slot[s].sendPacketCount, Len(ring))
               sent == SubSeq(ring, 1, n)
               rest == SubSeq(ring, n + 1, Len(ring))
    <2>1. /\ freed' = freed \cup ToSet(sent)
          /\ slot' = [slot EXCEPT ![s].sendRing = rest]
          /\ Step(w, "clear") /\ UNCHANGED <<tables, kernel, history>>
      BY <1>6 DEF SendDequeue, s
    <2>2. /\ sent \in Seq(Packet) /\ rest \in Seq(Packet)
          /\ \A i \in 1..Len(sent) : sent[i] \in Packet
      <3>1. ring \in Seq(Packet) /\ slot[s].sendPacketCount \in Nat
        BY <1>1, SlotTyped, SessionAssumption, SMT
      <3> QED BY <3>1, RingSplit
    <2>3. ToSet(sent) \subseteq Packet
      BY <2>2 DEF ToSet
    <2> HIDE DEF ring, n, sent, rest
    <2> DEFINE rec == [slot[s] EXCEPT !.sendRing = rest]
    <2>4. rec \in Session /\ rec.sessionId = slot[s].sessionId
      BY <1>1, <2>2, UpdatesTyped
    <2>5. slot' = [slot EXCEPT ![s] = rec]
      BY <2>1, SMT DEF TypeInv, SharedTypes
    <2> HIDE DEF rec
    <2>6. /\ slot' \in [Slots -> Session]
          /\ \A q \in Slots : slot'[q].sessionId = slot[q].sessionId
          /\ SharedPtrs'
      BY <1>1, <2>1, <2>4, <2>5, SlotKeeps DEF kernel
    <2>7. ThreadInv'
      BY <1>0, <1>3, <1>4, <2>1, <2>6, StepMoves, MoveKeeps DEF tables, HandlerLabels
    <2>8. SharedTypes'
      BY <2>1, <2>3, <2>6 DEF TypeInv, SharedTypes, tables, kernel, history
    <2> QED BY <2>6, <2>7, <2>8 DEF TypeInv
  <1>7. CASE SendClear(w)
    <2>1. Writes(w, "clear", s, SetPending(slot[s], FALSE)) /\ Step(w, "more")
      BY <1>7 DEF SendClear, s
    <2>2. SetPending(slot[s], FALSE) \in Session /\ SetPending(slot[s], FALSE).sessionId = slot[s].sessionId
      BY <1>1, UpdatesTyped
    <2> QED BY <1>0, <1>1, <1>3, <1>4, <2>1, <2>2, StepMoves, WritesTypes DEF HandlerLabels
  <1>8. CASE SendMore(w)
    <2>1. CASE Step(w, "dec")
      BY <1>0, <1>3, <1>4, <1>8, <2>1, StepMoves, ReadsTypes DEF SendMore, HandlerLabels
    <2>2. CASE frame' = [frame EXCEPT ![w].sess = s, ![w].ret = "dec"] /\ Goto(w, "so_xchg")
      <3> DEFINE f == [frame[w] EXCEPT !.sess = s, !.ret = "dec"]
      <3>1. frame' = [frame EXCEPT ![w] = f]
        BY <1>0, <2>2 DEF ThreadInv
      <3>2. "dec" \in Rets /\ "so_xchg" \in Labels /\ Reads(w, "more")
        BY <1>8 DEF Rets, Labels, SendMore
      <3>3. Holds(f, frame[w].client, s, frame[w].id, frame[w].mark, frame[w].todo, frame[w].pkts, "dec")
        BY <1>1, <1>3, <3>2, MoreFrame
      <3> HIDE DEF f
      <3>4. CtlOf(w, "so_xchg", f) /\ PtrOf(w, "so_xchg", f)
        BY <1>1, <1>2, <1>3, <3>3, SMT DEF Holds, CtlOf, PtrOf, HandlerLabels, SessLabels, FindLabels, AcceptLabels, RecvPostLabels, s
      <3> QED BY <1>0, <2>2, <3>1, <3>2, <3>3, <3>4, ReadsTypes DEF Holds, Goto, Moves
    <2> QED BY <1>8, <2>1, <2>2 DEF SendMore, s
  <1>9. CASE Decrement(w)
    <2> DEFINE f == [frame[w] EXCEPT !.client = NoSlot, !.sess = s, !.ret = "idle"]
    <2>1. /\ Writes(w, "dec", s, AddIo(slot[s], -1)) /\ Goto(w, "readId")
          /\ frame' = [frame EXCEPT ![w].client = NoSlot, ![w].sess = s, ![w].ret = "idle"]
      BY <1>9 DEF Decrement, s
    <2>2. frame' = [frame EXCEPT ![w] = f]
      BY <1>0, <2>1 DEF ThreadInv
    <2>3. "idle" \in Rets /\ "readId" \in Labels
      BY DEF Rets, Labels
    <2>4. Holds(f, NoSlot, s, frame[w].id, frame[w].mark, frame[w].todo, frame[w].pkts, "idle")
      BY <1>1, <1>3, <2>3, DecrementFrame
    <2> HIDE DEF f
    <2>5. CtlOf(w, "readId", f) /\ PtrOf(w, "readId", f)
      BY <1>1, <1>2, <1>3, <2>4, SMT DEF Holds, CtlOf, PtrOf, HandlerLabels, SessLabels, FindLabels, AcceptLabels, RecvPostLabels
    <2>6. AddIo(slot[s], -1) \in Session /\ AddIo(slot[s], -1).sessionId = slot[s].sessionId
      BY <1>1, UpdatesTyped, -1 \in Int
    <2> QED BY <1>0, <1>1, <2>1, <2>2, <2>3, <2>4, <2>5, <2>6, WritesTypes DEF Holds, Goto, Moves
  <1> QED BY <1>5, <1>6, <1>7, <1>8, <1>9 DEF Handle

(* onRecv answers, or gives a reason to close. *)
LEMMA OnRecvTypes ==
  ASSUME TypeInv, NEW w \in Workers, OnRecvSend(w) \/ OnRecvClose(w)
  PROVE  TypeInv'
  <1> DEFINE id == slot[frame[w].client].sessionId
  <1>0. /\ w \in Threads /\ pc[w] = "recvLoop" /\ pc[w] \in HandlerLabels
        /\ ThreadInv
    BY DEF Threads, OnRecvSend, OnRecvClose, HandlerLabels, TypeInv
  <1>1. frame[w].client \in Slots /\ frame[w].client # NoSlot /\ id \in Ids
    BY <1>0, AtHandler, SlotTyped, NoneApart
  <1>2. CtlOf(w, pc[w], frame[w]) /\ PtrOf(w, pc[w], frame[w]) /\ frame[w] \in Frame
    BY <1>0, FrameTyped
  <1> HIDE DEF id
  <1>3. CASE OnRecvSend(w)
    <2> DEFINE p == <<id, packets>>
               n == frame[w].todo - 1
               f == [frame[w] EXCEPT !.id = id, !.pkts = <<p>>, !.todo = n, !.ret = "recvLoop"]
    <2>1. /\ frame[w].todo > 0 /\ packets < MaxPackets /\ packets' = packets + 1
          /\ frame' = [frame EXCEPT ![w].id = id, ![w].pkts = <<<<id, packets>>>>,
                                    ![w].todo = @ - 1, ![w].ret = "recvLoop"]
          /\ Goto(w, "sp_find")
          /\ UNCHANGED <<slot, tables, kernel, freed, calls, left, cause, accepted, wire>>
      BY <1>3 DEF OnRecvSend, id
    <2>2. frame' = [frame EXCEPT ![w] = f]
      BY <1>0, <2>1 DEF ThreadInv
    <2>3. packets \in Nat /\ packets' \in 0..MaxPackets
      BY <2>1, SessionAssumption, SMT DEF TypeInv, SharedTypes
    <2>4. p \in Packet /\ n \in 0..MaxPerRecv /\ "recvLoop" \in Rets
      <3>1. p \in Packet
        BY <1>1, <2>3 DEF Packet
      <3>2. frame[w].todo \in 0..MaxPerRecv /\ MaxPerRecv \in Nat
        BY <1>2, SessionAssumption DEF Frame
      <3>3. n \in 0..MaxPerRecv
        BY <2>1, <3>2, SMT
      <3> HIDE DEF p, n
      <3> QED BY <3>1, <3>3 DEF Rets
    <2> HIDE DEF p, n
    <2>5. <<p>> \in Seq(Packet) /\ <<p>> # <<>> /\ "sp_find" \in Labels
      BY <2>4, SMT DEF Labels
    <2>6. Holds(f, frame[w].client, frame[w].sess, id, frame[w].mark, n, <<p>>, "recvLoop")
      BY <1>1, <1>2, <2>4, <2>5, AnswerFrame
    <2> HIDE DEF f
    <2>7. CtlOf(w, "sp_find", f) /\ PtrOf(w, "sp_find", f)
      BY <1>0, <1>1, <1>2, <2>5, <2>6, NoneApart, SMT DEF Holds, CtlOf, PtrOf, HandlerLabels, SessLabels, FindLabels, AcceptLabels, RecvPostLabels
    <2>8. ThreadInv'
      BY <1>0, <2>1, <2>2, <2>5, <2>6, <2>7, MoveKeeps DEF Holds, Goto, Moves, tables
    <2>9. SharedTypes' /\ SharedPtrs'
      BY <2>1, <2>3 DEF TypeInv, SharedTypes, SharedPtrs, Begun, tables, kernel
    <2> QED BY <2>8, <2>9 DEF TypeInv
  <1>4. CASE OnRecvClose(w)
    <2>1. Condemn(id) /\ (CallRemove(w, id, TRUE, "recvLoop") \/ CallRemove(w, id, TRUE, "dec"))
      BY <1>4 DEF OnRecvClose, id
    <2>2. \A ret \in {"recvLoop", "dec"} : ret \in Rets /\ (ret # "idle" <=> frame[w].client # NoSlot)
      BY <1>1 DEF Rets
    <2>3. PICK f \in Frame : Moves(w, "rm_find", f) /\ CtlOf(w, "rm_find", f) /\ PtrOf(w, "rm_find", f)
      <3>1. pc[w] # "init" /\ TRUE \in BOOLEAN
        BY <1>0
      <3>2. CASE CallRemove(w, id, TRUE, "recvLoop")
        BY <1>0, <1>1, <2>2, <3>1, <3>2, CallRemoveOk
      <3>3. CASE CallRemove(w, id, TRUE, "dec")
        BY <1>0, <1>1, <2>2, <3>1, <3>3, CallRemoveOk
      <3> QED BY <2>1, <3>2, <3>3
    <2>4. /\ calls < MaxCalls /\ calls' = calls + 1 /\ cause' = cause \cup {id}
          /\ UNCHANGED <<slot, tables, kernel, freed, packets, left, accepted, wire>>
      BY <2>1 DEF Condemn
    <2>5. ThreadInv'
      BY <1>0, <2>3, <2>4, MoveKeeps DEF tables, Labels
    <2>6. calls' \in 0..MaxCalls
      BY <2>4, SessionAssumption, SMT DEF TypeInv, SharedTypes
    <2>7. SharedTypes' /\ SharedPtrs'
      BY <1>1, <2>4, <2>6 DEF TypeInv, SharedTypes, SharedPtrs, Begun, tables, kernel
    <2> QED BY <2>5, <2>7 DEF TypeInv
  <1> QED BY <1>3, <1>4

(* The application sends and disconnects. *)
LEMMA AppTypes ==
  ASSUME TypeInv, NEW a \in Apps, NEW id \in Joined, AppSend(a, id) \/ AppDisconnect(a, id)
  PROVE  TypeInv'
  <1>0. /\ a \in Threads /\ pc[a] = "idle" /\ id \in Ids
        /\ ThreadInv
    BY DEF Threads, AppSend, AppDisconnect, Joined, TypeInv
  <1>1. CtlOf(a, pc[a], frame[a]) /\ PtrOf(a, pc[a], frame[a]) /\ frame[a] \in Frame /\ frame[a].client = NoSlot
        /\ frame[a].ret = "idle"
    BY <1>0, FrameTyped, IdleFrame DEF NoFrame
  <1>3. CASE AppSend(a, id)
    <2> DEFINE p == <<id, packets>>
               f == [frame[a] EXCEPT !.id = id, !.pkts = <<p>>]
    <2>1. /\ packets < MaxPackets /\ packets' = packets + 1
          /\ frame' = [frame EXCEPT ![a].id = id, ![a].pkts = <<<<id, packets>>>>]
          /\ Goto(a, "sp_find")
          /\ UNCHANGED <<slot, tables, kernel, freed, calls, left, cause, accepted, wire>>
      BY <1>3 DEF AppSend
    <2>2. frame' = [frame EXCEPT ![a] = f]
      BY <1>0, <2>1 DEF ThreadInv
    <2>3. packets \in Nat /\ packets' \in 0..MaxPackets
      BY <2>1, SessionAssumption, SMT DEF TypeInv, SharedTypes
    <2>4. p \in Packet
      BY <1>0, <2>3 DEF Packet
    <2> HIDE DEF p
    <2>5. <<p>> \in Seq(Packet) /\ <<p>> # <<>> /\ "sp_find" \in Labels
      BY <2>4, SMT DEF Labels
    <2>6. Holds(f, frame[a].client, frame[a].sess, id, frame[a].mark, frame[a].todo, <<p>>, frame[a].ret)
      BY <1>0, <1>1, <2>4, <2>5, SendFrame
    <2> HIDE DEF f
    <2>7. CtlOf(a, "sp_find", f) /\ PtrOf(a, "sp_find", f)
      BY <1>0, <1>1, <2>5, <2>6, NoneApart, SMT DEF Holds, CtlOf, PtrOf, HandlerLabels, SessLabels, FindLabels, AcceptLabels, RecvPostLabels
    <2>8. ThreadInv'
      BY <1>0, <2>1, <2>2, <2>5, <2>6, <2>7, MoveKeeps DEF Holds, Goto, Moves, tables
    <2>9. SharedTypes' /\ SharedPtrs'
      BY <2>1, <2>3 DEF TypeInv, SharedTypes, SharedPtrs, Begun, tables, kernel
    <2> QED BY <2>8, <2>9 DEF TypeInv
  <1>4. CASE AppDisconnect(a, id)
    <2>1. Condemn(id) /\ CallRemove(a, id, TRUE, "idle")
      BY <1>4 DEF AppDisconnect
    <2>2. "idle" \in Rets /\ TRUE \in BOOLEAN /\ ("idle" # "idle" <=> frame[a].client # NoSlot)
      BY <1>1 DEF Rets
    <2>3. PICK f \in Frame : Moves(a, "rm_find", f) /\ CtlOf(a, "rm_find", f) /\ PtrOf(a, "rm_find", f)
      BY <1>0, <2>1, <2>2, CallRemoveOk
    <2>4. /\ calls < MaxCalls /\ calls' = calls + 1 /\ cause' = cause \cup {id}
          /\ UNCHANGED <<slot, tables, kernel, freed, packets, left, accepted, wire>>
      BY <2>1 DEF Condemn
    <2>5. ThreadInv'
      BY <1>0, <2>3, <2>4, MoveKeeps DEF tables, Labels
    <2>6. calls' \in 0..MaxCalls
      BY <2>4, SessionAssumption, SMT DEF TypeInv, SharedTypes
    <2>7. SharedTypes' /\ SharedPtrs'
      BY <1>0, <2>4, <2>6 DEF TypeInv, SharedTypes, SharedPtrs, Begun, tables, kernel
    <2> QED BY <2>5, <2>7 DEF TypeInv
  <1> QED BY <1>3, <1>4

(* A peer goes. *)
LEMMA PeerTypes ==
  ASSUME TypeInv, NEW id \in Ids, PeerClose(id)
  PROVE  TypeInv'
  <1>1. /\ peerGone' = peerGone \cup {id}
        /\ UNCHANGED <<slot, tables, io, closed, pc, frame, freed, history>>
    BY DEF PeerClose
  <1> QED BY <1>1 DEF TypeInv, ThreadInv, CtlOf, PtrOf, SharedTypes, SharedPtrs, Begun, tables, history

(* The top of the free list is taken. *)
LEMMA PopTyped ==
  ASSUME freeList \in Seq(Slots), freeList # <<>>, freeList' = SubSeq(freeList, 1, Len(freeList) - 1)
  PROVE  /\ freeList' \in Seq(Slots) /\ Len(freeList) \in Nat \ {0} /\ Len(freeList') = Len(freeList) - 1
         /\ \A i \in 1..(Len(freeList) - 1) : freeList'[i] = freeList[i]
         /\ freeList[Len(freeList)] \in Slots
  <1> DEFINE n == Len(freeList) - 1
  <1>1. n \in Nat /\ n \in Int /\ n <= Len(freeList) /\ freeList[Len(freeList)] \in Slots /\ Len(freeList) \in Nat \ {0}
    BY SMT
  <1>2. \A i \in 1..n : freeList[i] \in Slots
    BY <1>1, SMT
  <1> HIDE DEF n
  <1>3. /\ SubSeq(freeList, 1, n) \in Seq(Slots)
        /\ Len(SubSeq(freeList, 1, n)) = n
        /\ \A i \in 1..n : SubSeq(freeList, 1, n)[i] = freeList[i]
    BY <1>1, <1>2, SubSeqProperties
  <1> QED BY <1>1, <1>3 DEF n

(* A slot that has served nobody. *)
LEMMA FreshTyped == FreshSlot \in Session /\ FreshSlot.sessionId = NoId
  <1>1. <<>> \in Seq(Packet) /\ 0 \in Int /\ 0 \in 0..MaxBatch
    BY SessionAssumption, SMT
  <1> QED BY <1>1, SMT DEF FreshSlot, Session

(* The slot as AcceptInit leaves it. *)
NewSlot == [FreshSlot EXCEPT !.sessionId = nextSessionId, !.sendPacketCount = S(Acceptor).sendPacketCount]

(* The fields of that slot. *)
LEMMA NewSlotTyped ==
  ASSUME nextSessionId \in Ids, S(Acceptor).sendPacketCount \in 0..MaxBatch
  PROVE  /\ NewSlot \in Session
         /\ NewSlot.sessionId = nextSessionId /\ NewSlot.ioCount = 0
         /\ NewSlot.isSendPending = FALSE /\ NewSlot.isClosing = FALSE /\ NewSlot.isTornDown = FALSE
         /\ NewSlot.sendRing = <<>>
  <1> DEFINE a == [FreshSlot EXCEPT !.sessionId = nextSessionId]
             c == S(Acceptor).sendPacketCount
  <1>1. /\ FreshSlot \in Session /\ FreshSlot.ioCount = 0 /\ FreshSlot.isSendPending = FALSE
        /\ FreshSlot.isClosing = FALSE /\ FreshSlot.isTornDown = FALSE /\ FreshSlot.sendRing = <<>>
    BY FreshTyped DEF FreshSlot
  <1>2. /\ a \in Session /\ a.sessionId = nextSessionId /\ a.ioCount = 0 /\ a.isSendPending = FALSE
        /\ a.isClosing = FALSE /\ a.isTornDown = FALSE /\ a.sendRing = <<>>
    BY <1>1, SMT DEF Session
  <1>3. NewSlot = [a EXCEPT !.sendPacketCount = c]
    BY DEF NewSlot
  <1> HIDE DEF a, c
  <1>4. c \in 0..MaxBatch
    BY DEF c
  <1> QED BY <1>2, <1>3, <1>4, SMT DEF Session

(* The accept thread. *)
LEMMA AcceptTypes ==
  ASSUME TypeInv, Accept
  PROVE  TypeInv'
  <1>0. Acceptor \in Threads /\ ThreadInv
    BY DEF Threads, TypeInv
  <1>1. CASE AcceptPop
    <2> DEFINE s == freeList[Len(freeList)]
               f == [frame[Acceptor] EXCEPT !.sess = s]
    <2>1. /\ pc[Acceptor] = "idle" /\ nextSessionId < MaxSessions /\ freeList # <<>>
          /\ frame' = [frame EXCEPT ![Acceptor].sess = s]
          /\ freeList' = SubSeq(freeList, 1, Len(freeList) - 1)
          /\ Goto(Acceptor, "init")
          /\ UNCHANGED <<slot, sessionMap, nextSessionId, kernel, freed, history>>
      BY <1>1 DEF AcceptPop
    <2>2. freeList' \in Seq(Slots) /\ s \in Slots
      BY <2>1, PopTyped DEF TypeInv, SharedTypes
    <2>3. frame' = [frame EXCEPT ![Acceptor] = f]
      BY <1>0, <2>1 DEF ThreadInv
    <2> HIDE DEF s
    <2>4. Holds(f, frame[Acceptor].client, s, frame[Acceptor].id, frame[Acceptor].mark,
                frame[Acceptor].todo, frame[Acceptor].pkts, frame[Acceptor].ret)
      BY <1>0, <2>2, FrameHolds, SetSess
    <2> HIDE DEF f
    <2>5. frame[Acceptor] = NoFrame /\ "init" \in Labels
      BY <1>0, <2>1, IdleFrame DEF Labels
    <2>6. CtlOf(Acceptor, "init", f) /\ PtrOf(Acceptor, "init", f)
      BY <2>1, <2>2, <2>4, <2>5, NoneApart, SMT DEF Holds, NoFrame, CtlOf, PtrOf, HandlerLabels, SessLabels, FindLabels, AcceptLabels, RecvPostLabels
    <2>7. ThreadInv'
      BY <1>0, <2>1, <2>3, <2>4, <2>5, <2>6, MoveKeeps DEF Holds, Goto, Moves
    <2>8. SharedTypes' /\ SharedPtrs'
      BY <2>1, <2>2 DEF TypeInv, SharedTypes, SharedPtrs, Begun, kernel, history
    <2> QED BY <2>7, <2>8 DEF TypeInv
  <1>2. CASE AcceptInit
    <2>a. pc[Acceptor] = "init" /\ Sess(Acceptor) \in Slots /\ nextSessionId < MaxSessions
      BY <1>0, <1>2, AtSess, FrameTyped DEF AcceptInit, CtlOf, SessLabels, Labels, HandlerLabels, FindLabels
    <2>b. PICK s \in Slots : s = Sess(Acceptor)
      BY <2>a
    <2>1. /\ slot' = [slot EXCEPT ![s] = NewSlot]
          /\ nextSessionId' = nextSessionId + 1
          /\ Step(Acceptor, "insert")
          /\ UNCHANGED <<sessionMap, freeList, kernel, freed, history>>
      BY <1>2, <2>b DEF AcceptInit, NewSlot
    <2>2. s \in Slots /\ nextSessionId < MaxSessions /\ pc[Acceptor] = "init"
      BY <2>a
    <2>3. nextSessionId \in Ids /\ nextSessionId' \in 0..MaxSessions
      BY <2>1, <2>2, SessionAssumption, SMT DEF TypeInv, SharedTypes, Ids
    <2>4. NewSlot \in Session /\ NewSlot.sessionId = nextSessionId /\ nextSessionId # NoId
      BY <2>2, <2>3, <2>b, NewSlotTyped, SlotTyped, NoneApart DEF S
    <2>5. /\ slot' \in [Slots -> Session]
          /\ \A q \in Slots : slot'[q].sessionId = IF q = s THEN nextSessionId ELSE slot[q].sessionId
      BY <2>1, <2>2, <2>4, SMT DEF TypeInv, SharedTypes
    <2>6. \A q \in Slots : (Begun(q) => Begun(q)') /\ Begun(s)'
      BY <2>2, <2>4, <2>5 DEF Begun
    <2>7. ThreadInv'
      <3>1. Moves(Acceptor, "insert", frame[Acceptor])
        BY <1>0, <2>1, StepMoves
      <3>2. /\ pc' \in [Threads -> Labels] /\ frame' = frame
            /\ \A u \in Threads : pc'[u] = IF u = Acceptor THEN "insert" ELSE pc[u]
        BY <1>0, <2>1, SMT DEF ThreadInv, Step, Goto, Labels
      <3>3. ASSUME NEW u \in Threads PROVE CtlOf(u, pc[u], frame[u])' /\ PtrOf(u, pc[u], frame[u])'
        <4>1. CtlOf(u, pc[u], frame[u]) /\ PtrOf(u, pc[u], frame[u])
              /\ frame[u].sess \in Slots \cup {NoSlot} /\ frame[u].client \in Slots \cup {NoSlot}
          BY <1>0, FrameTyped
        <4>2. CASE u = Acceptor
          <5>1. frame[u].sess = s
            BY <2>b, <4>2 DEF Sess
          <5> QED BY <2>1, <2>2, <2>6, <3>2, <4>1, <4>2, <5>1, SMT DEF CtlOf, PtrOf, HandlerLabels, SessLabels, FindLabels, AcceptLabels, RecvPostLabels, Labels
        <4>3. CASE u # Acceptor
          <5>1. pc[u] # "init"
            BY <4>1, <4>3 DEF CtlOf, AcceptLabels
          <5> QED BY <2>6, <3>2, <4>1, <4>3, <5>1, SMT DEF CtlOf, PtrOf
        <4> QED BY <4>2, <4>3
      <3> QED BY <1>0, <3>2, <3>3 DEF ThreadInv
    <2>8. SharedTypes'
      BY <2>1, <2>3, <2>5 DEF TypeInv, SharedTypes, kernel, history
    <2>9. SharedPtrs'
      <3>1. \A id \in Ids : sessionMap[id] \in Slots \cup {NoSlot}
        BY SMT DEF TypeInv, SharedTypes
      <3>2. \A r \in io : r.slot \in Slots
        BY SMT DEF TypeInv, SharedTypes
      <3>3. \A q \in Slots : Begun(q)' => slot'[q].sessionId < nextSessionId'
        <4>1. \A q \in Slots : slot[q].sessionId \in Int /\ (Begun(q) => slot[q].sessionId < nextSessionId)
          BY SlotTyped, NoneApart, SMT DEF TypeInv, SharedPtrs, NoId
        <4>2. nextSessionId \in Int
          BY <2>3, NoneApart
        <4> QED BY <2>1, <2>5, <4>1, <4>2, SMT DEF Begun
      <3> QED BY <2>1, <2>6, <3>1, <3>2, <3>3 DEF TypeInv, SharedPtrs, kernel
    <2> QED BY <2>7, <2>8, <2>9 DEF TypeInv
  <1>3. CASE AcceptInsert
    <2>1. /\ pc[Acceptor] = "insert"
          /\ sessionMap' = [sessionMap EXCEPT ![S(Acceptor).sessionId] = Sess(Acceptor)]
          /\ Step(Acceptor, "join")
          /\ UNCHANGED <<slot, freeList, nextSessionId, kernel, freed, history>>
      BY <1>3 DEF AcceptInsert
    <2>2. Sess(Acceptor) \in Slots /\ Begun(Sess(Acceptor))
      BY <1>0, <2>1, AtSess DEF SessLabels, Labels, HandlerLabels, FindLabels
    <2>3. ThreadInv'
      <3>1. CtlOf(Acceptor, "join", frame[Acceptor]) /\ PtrOf(Acceptor, "join", frame[Acceptor])
        BY <1>0, <2>1, FrameTyped, SessionAssumption, SMT DEF CtlOf, PtrOf, HandlerLabels, SessLabels, FindLabels, AcceptLabels, RecvPostLabels, Labels
      <3> QED BY <1>0, <2>1, <3>1, StepMoves, FrameTyped, MoveKeeps DEF Labels
    <2>4. SharedTypes'
      <3>1. sessionMap \in [Ids -> Slots \cup {NoSlot}]
        BY DEF TypeInv, SharedTypes
      <3>2. sessionMap' \in [Ids -> Slots \cup {NoSlot}]
        BY <2>1, <2>2, <3>1
      <3> QED BY <2>1, <3>2 DEF TypeInv, SharedTypes, kernel, history
    <2>5. SharedPtrs'
      BY <2>1, <2>2, SMT DEF TypeInv, SharedTypes, SharedPtrs, Begun, kernel
    <2> QED BY <2>3, <2>4, <2>5 DEF TypeInv
  <1>4. CASE AcceptJoin
    <2>1. "join" \in SessLabels \ {"init"} /\ "rp_check" \in Inner /\ "join" \in RecvPostLabels
      BY DEF Inner, SessLabels, Labels, FindLabels, HandlerLabels, AcceptLabels, RecvPostLabels
    <2> QED BY <1>0, <1>4, <2>1, ReadsOn DEF AcceptJoin
  <1> QED BY <1>1, <1>2, <1>3, <1>4 DEF Accept

(* The invariant of the types holds in the beginning... *)
LEMMA InitTypes == Init => TypeInv
  <1> SUFFICES ASSUME Init PROVE TypeInv
    OBVIOUS
  <1>1. FreshSlot \in Session /\ FreshSlot.sessionId = NoId
    BY FreshTyped
  <1>2. freeList \in Seq(Slots)
    BY SessionAssumption, SMT DEF Init, Slots
  <1>3. 0 \in 0..MaxSessions /\ 0 \in 0..MaxPackets /\ 0 \in 0..MaxCalls /\ 0 \in Nat /\ <<>> \in Seq(Packet)
    BY SessionAssumption, SMT
  <1>4. SharedTypes
    BY <1>1, <1>2, <1>3 DEF Init, SharedTypes
  <1>5. SharedPtrs
    BY <1>1, SMT DEF Init, SharedPtrs, Begun
  <1>6. ThreadInv
    <2>1. "idle" \in Labels /\ \A t \in Threads : pc[t] = "idle" /\ frame[t] = NoFrame
      BY DEF Init, Labels
    <2>2. \A t \in Threads : CtlOf(t, "idle", NoFrame) /\ PtrOf(t, "idle", NoFrame)
      BY SMT DEF CtlOf, PtrOf, NoFrame, HandlerLabels, SessLabels, FindLabels, AcceptLabels, RecvPostLabels
    <2> QED BY <2>1, <2>2, NoFrameTyped DEF Init, ThreadInv
  <1> QED BY <1>4, <1>5, <1>6 DEF TypeInv

(* ... is kept by every step... *)
LEMMA NextTypes == TypeInv /\ [Next]_vars => TypeInv'
  <1> SUFFICES ASSUME TypeInv, [Next]_vars PROVE TypeInv'
    OBVIOUS
  <1>1. CASE Accept
    BY <1>1, AcceptTypes
  <1>2. ASSUME NEW t \in Threads, RecvPost(t) \/ SendPacket(t) \/ SendPost(t) \/ RemoveSession(t)
        PROVE  TypeInv'
    BY <1>2, RecvPostTypes, SendPacketTypes, SendPostTypes, RemoveSessionTypes
  <1>3. ASSUME NEW w \in Workers, (\E r \in io : Get(w, r)) \/ Handle(w) \/ OnRecvSend(w) \/ OnRecvClose(w)
        PROVE  TypeInv'
    BY <1>3, GetTypes, HandleTypes, OnRecvTypes
  <1>4. ASSUME NEW a \in Apps, NEW id \in Joined, AppSend(a, id) \/ AppDisconnect(a, id)
        PROVE  TypeInv'
    BY <1>4, AppTypes
  <1>5. ASSUME NEW id \in Ids, PeerClose(id) PROVE TypeInv'
    BY <1>5, PeerTypes
  <1>6. CASE UNCHANGED vars
    BY <1>6 DEF vars, tables, kernel, history, TypeInv, ThreadInv, CtlOf, PtrOf, SharedTypes, SharedPtrs, Begun
  <1>7. CASE Quiescent
    BY <1>6, <1>7 DEF Quiescent
  <1> QED BY <1>1, <1>2, <1>3, <1>4, <1>5, <1>6, <1>7 DEF Next

(* ... and so holds for ever. *)
LEMMA TypeInductive == Spec => []TypeInv
  BY InitTypes, NextTypes, PTL DEF Spec

(* Every variable keeps its type, in every behaviour, recycled slots and   *)
(* stale pointers included: the packets sent are those of an id, and the   *)
(* numbers stay within their bounds.                                       *)
THEOREM TypeCorrect == Spec => []TypeOK
  <1>1. TypeInv => TypeOK
    BY DEF TypeInv, ThreadInv, SharedTypes, TypeOK
  <1> QED BY <1>1, TypeInductive, PTL

-----------------------------------------------------------------------------
(* The invariant behind the accounting *)

(* The one thread, or the one record, that owns the receive of a session:  *)
(* it holds the data received, or is about to post the next receive.       *)
RecvTok(t, s) ==
  \/ frame[t].client = s /\ (pc[t] = "recvLoop" \/ frame[t].ret = "recvLoop")
  \/ Sess(t) = s /\ pc[t] \in {"insert", "join", "rp_check", "rp_inc", "rp_recheck", "rp_undo", "rp_call"}

(* The same for the send: between the exchange that sets m_isSendPending   *)
(* and the store that clears it.                                           *)
SendTok(t, s) ==
  \/ frame[t].client = s /\ pc[t] \in {"dequeue", "clear"}
  \/ Sess(t) = s /\ pc[t] \in {"so_check", "so_reset", "so_count", "so_peek", "so_gather",
                              "so_recheck", "so_undo", "so_call", "so_failed"}

OpsOf(s, kind) == {r \in io : r.slot = s /\ r.kind = kind}

Tokens ==
  \A s \in Slots :
    /\ \A t, u \in Threads : RecvTok(t, s) /\ RecvTok(u, s) => t = u
    /\ \A t, u \in Threads : SendTok(t, s) /\ SendTok(u, s) => t = u
    /\ \A t \in Threads : RecvTok(t, s) => OpsOf(s, "recv") = {}
    /\ \A t \in Threads : SendTok(t, s) => OpsOf(s, "send") = {} /\ slot[s].isSendPending
    /\ OpsOf(s, "send") # {} => slot[s].isSendPending

Records ==
  /\ IsFiniteSet(io)
  /\ \A r \in io : r.id = slot[r.slot].sessionId
  /\ \A q, r \in io : q.slot = r.slot /\ q.kind = r.kind => q = r

(* Nobody works on the socket of the session, and nobody will. *)
Dead(s) == /\ slot[s].isClosing
           /\ OpsOn(s) = {}
           /\ \A t \in Threads : /\ frame[t].client # s
                                 /\ pc[t] \in {"rp_call", "so_call"} => Sess(t) # s

AfterFind == {"rm_mark", "rm_closing", "rm_count", "rm_cas", "rm_drain", "rm_erase", "rm_push"}
AfterCount == {"rm_cas", "rm_drain", "rm_erase", "rm_push"}

Teardown ==
  /\ \A t \in Threads :
       /\ pc[t] = "rm_count" => S(t).isClosing
       /\ pc[t] \in AfterCount => Dead(Sess(t))
       /\ TearingDown(t) => S(t).isTornDown
       /\ pc[t] = "rm_drain" => S(t).sessionId \notin closed
       /\ pc[t] \in AfterFind => S(t).sessionId = frame[t].id
  /\ \A t, u \in Threads : TearingDown(t) /\ TearingDown(u) /\ Sess(t) = Sess(u) => t = u
  /\ \A s \in Slots : slot[s].isTornDown => Dead(s)
  /\ \A s \in Slots : slot[s].sessionId \in closed => slot[s].isTornDown
  /\ \A id \in Ids : left[id] = IF id \in closed THEN 1 ELSE 0

IdsOnce ==
  /\ \A s1, s2 \in Slots : Begun(s1) /\ slot[s1].sessionId = slot[s2].sessionId => s1 = s2
  /\ \A id \in closed : id < nextSessionId

(* The places of SlotsArePartitioned, one by one. *)
Listed(s)  == \E i \in 1..Len(freeList) : freeList[i] = s
Mapped(s)  == Begun(s) /\ sessionMap[slot[s].sessionId] = s
OnHand(t, s) == Sess(t) = s /\ pc[t] \in {"init", "insert", "rm_push"}

Places ==
  /\ \A i, j \in 1..Len(freeList) : freeList[i] = freeList[j] => i = j
  /\ \A id \in Ids : sessionMap[id] # NoSlot => slot[sessionMap[id]].sessionId = id
  /\ \A s \in Slots : Listed(s) \/ Mapped(s) \/ \E t \in Threads : OnHand(t, s)
  /\ \A s \in Slots : Listed(s) => ~Mapped(s)
  /\ \A s \in Slots, t \in Threads : OnHand(t, s) => ~Listed(s) /\ ~Mapped(s)
  /\ \A s \in Slots, t, u \in Threads : OnHand(t, s) /\ OnHand(u, s) => t = u
  /\ \A t \in Threads : pc[t] \in {"rm_drain", "rm_erase"} => Mapped(Sess(t))
  /\ \A s \in Slots : Listed(s) /\ Begun(s) => slot[s].isTornDown
  /\ pc[Acceptor] = "init" /\ Begun(Sess(Acceptor)) => S(Acceptor).isTornDown
  /\ pc[Acceptor] = "insert" => /\ OpsOn(Sess(Acceptor)) = {}
                                /\ \A t \in Threads \ {Acceptor} : ~Uses(t, Sess(Acceptor))

SessionInv == TypeInv /\ Tokens /\ Records /\ Teardown /\ IdsOnce /\ Places /\ IoAccounting

-----------------------------------------------------------------------------
(* Counting *)

One(b) == IF b THEN 1 ELSE 0

(* Two sets that differ at most in one element.                            *)
LEMMA CountOne ==
  ASSUME NEW A, NEW B, NEW x, IsFiniteSet(A), A \ {x} = B \ {x}
  PROVE  /\ IsFiniteSet(B) /\ Cardinality(A) \in Nat /\ Cardinality(B) \in Nat
         /\ Cardinality(B) = Cardinality(A) + One(x \in B) - One(x \in A)
  <1> DEFINE C == A \ {x}
  <1>1. /\ IsFiniteSet(C) /\ Cardinality(C) \in Nat /\ Cardinality(A) \in Nat
        /\ Cardinality(C) = IF x \in A THEN Cardinality(A) - 1 ELSE Cardinality(A)
    BY FS_RemoveElement, FS_CardinalityType
  <1>2. x \notin C
    OBVIOUS
  <1>3. B = IF x \in B THEN C \cup {x} ELSE C
    OBVIOUS
  <1> HIDE DEF C
  <1>4. IsFiniteSet(C \cup {x}) /\ Cardinality(C \cup {x}) = Cardinality(C) + 1
    BY <1>1, <1>2, FS_AddElement
  <1>5. CASE x \in B
    <2>1. One(x \in B) = 1 /\ One(x \in A) = (IF x \in A THEN 1 ELSE 0)
      BY <1>5 DEF One
    <2>2. B = C \cup {x}
      BY <1>3, <1>5
    <2> QED BY <1>1, <1>4, <2>1, <2>2, SMT
  <1>6. CASE x \notin B
    <2>1. One(x \in B) = 0 /\ One(x \in A) = (IF x \in A THEN 1 ELSE 0)
      BY <1>6 DEF One
    <2>2. B = C
      BY <1>3, <1>6
    <2> QED BY <1>1, <2>1, <2>2, SMT
  <1> QED BY <1>5, <1>6

(* The threads are finitely many, and so are those that do something. *)
LEMMA ThreadsFinite ==
  /\ IsFiniteSet(Threads)
  /\ \A A \in SUBSET Threads : IsFiniteSet(A) /\ Cardinality(A) \in Nat
  <1>1. IsFiniteSet({Acceptor})
    BY FS_Singleton
  <1>2. IsFiniteSet({Acceptor} \cup Workers)
    BY <1>1, SessionAssumption, FS_Union
  <1>3. IsFiniteSet(Threads)
    BY <1>2, SessionAssumption, FS_Union DEF Threads
  <1> QED BY <1>3, FS_Subset, FS_CardinalityType

(* Operations in flight are finitely many. *)
LEMMA OpsFinite ==
  ASSUME Records, NEW s
  PROVE  IsFiniteSet(OpsOn(s)) /\ Cardinality(OpsOn(s)) \in Nat
  <1>1. OpsOn(s) \in SUBSET io /\ IsFiniteSet(io)
    BY DEF OpsOn, Records
  <1> QED BY <1>1, FS_Subset, FS_CardinalityType

-----------------------------------------------------------------------------
(* What a step of one thread must do to keep each part of the invariant *)

(* Only thread t moves. *)
Others(t) == \A u \in Threads \ {t} : pc'[u] = pc[u] /\ frame'[u] = frame[u]

KeepsTokens(t, s) ==
  /\ RecvTok(t, s)' => RecvTok(t, s)
  /\ SendTok(t, s)' => \/ SendTok(t, s) \/ ~slot[s].isSendPending
  /\ SendTok(t, s)' => slot'[s].isSendPending
  /\ slot[s].isSendPending /\ ~slot'[s].isSendPending => SendTok(t, s)

(* New operations are those of a thread that has the session, alive.       *)
KeepsOps(t) == \A s \in Slots : OpsOn(s)' \subseteq OpsOn(s) \/ (Uses(t, s) /\ ~Dead(s))

KeepsSession(t, s) ==
  /\ slot'[s].sessionId = slot[s].sessionId
  /\ slot[s].isClosing => slot'[s].isClosing
  /\ slot'[s].isClosing => slot[s].isClosing \/ (pc[t] = "rm_mark" /\ Sess(t) = s)
  /\ slot[s].isTornDown => slot'[s].isTornDown
  /\ slot'[s].isTornDown => slot[s].isTornDown \/ Dead(s)
  /\ Handling(t, s)' => Handling(t, s) \/ ~Dead(s)
  /\ frame'[t].sess = s /\ pc'[t] \in {"rp_call", "so_call"} => ~slot[s].isClosing

KeepsTeardown(t) ==
  /\ pc'[t] = "rm_count" => slot'[frame'[t].sess].isClosing
  /\ pc'[t] \in AfterCount => Dead(frame'[t].sess)
  /\ pc'[t] \in {"rm_drain", "rm_erase", "rm_push"} =>
       /\ slot'[frame'[t].sess].isTornDown
       /\ (TearingDown(t) /\ Sess(t) = frame'[t].sess) \/ ~slot[frame'[t].sess].isTornDown
  /\ pc'[t] = "rm_drain" => slot[frame'[t].sess].sessionId \notin closed
  /\ pc'[t] \in AfterFind => slot[frame'[t].sess].sessionId = frame'[t].id

KeepsCount(t, s) ==
  slot'[s].ioCount = slot[s].ioCount + One(Posting(t, s)') - One(Posting(t, s))
                   + One(Handling(t, s)') - One(Handling(t, s))

KeepsPlace(t) ==
  /\ pc[t] \notin {"init", "insert", "rm_push"} /\ pc'[t] \notin {"init", "insert", "rm_push"}
  /\ pc'[t] \in {"rm_drain", "rm_erase"} => Mapped(frame'[t].sess)
  /\ \A s \in Slots : Uses(t, s)' => Uses(t, s) \/ Mapped(s) \/ OpsOn(s) # {}

(* The tokens. *)
LEMMA TokensStep ==
  ASSUME Tokens, NEW t \in Threads, Others(t), io' = io, \A s \in Slots : KeepsTokens(t, s)
  PROVE  Tokens'
  <1>1. ASSUME NEW s \in Slots, NEW u \in Threads \ {t}
        PROVE  (RecvTok(u, s)' <=> RecvTok(u, s)) /\ (SendTok(u, s)' <=> SendTok(u, s))
    BY DEF Others, RecvTok, SendTok, Sess
  <1>2. ASSUME NEW s \in Slots
        PROVE  /\ \A u, v \in Threads : RecvTok(u, s)' /\ RecvTok(v, s)' => u = v
               /\ \A u, v \in Threads : SendTok(u, s)' /\ SendTok(v, s)' => u = v
               /\ \A u \in Threads : RecvTok(u, s)' => OpsOf(s, "recv") = {}
               /\ \A u \in Threads : SendTok(u, s)' => OpsOf(s, "send") = {} /\ slot'[s].isSendPending
               /\ OpsOf(s, "send") # {} => slot'[s].isSendPending
    BY <1>1, SMT DEF Tokens, KeepsTokens
  <1>3. \A s \in Slots : OpsOf(s, "recv")' = OpsOf(s, "recv") /\ OpsOf(s, "send")' = OpsOf(s, "send")
    BY DEF OpsOf
  <1> QED BY <1>2, <1>3, Zenon DEF Tokens

(* A dead session stays dead. *)
LEMMA DeadStays ==
  ASSUME NEW t \in Threads, Others(t), KeepsOps(t), NEW s \in Slots, KeepsSession(t, s), Dead(s)
  PROVE  Dead(s)'
  <1>1. OpsOn(s)' = {}
    BY DEF KeepsOps, Dead
  <1>2. /\ slot'[s].isClosing
        /\ \A u \in Threads : /\ frame'[u].client # s
                              /\ pc'[u] \in {"rp_call", "so_call"} => frame'[u].sess # s
    BY SMT DEF Others, KeepsSession, Dead, Handling, Sess
  <1> QED BY <1>1, <1>2 DEF Dead, Sess

(* The teardown. *)
LEMMA TeardownStep ==
  ASSUME ThreadInv, ThreadInv', Teardown, NEW t \in Threads, Others(t), KeepsOps(t),
         closed' = closed, left' = left, \A s \in Slots : KeepsSession(t, s), KeepsTeardown(t)
  PROVE  Teardown'
  <1>0. ASSUME NEW u \in Threads, pc'[u] \in AfterFind
        PROVE  frame'[u].sess \in Slots
    <2>1. pc'[u] \in SessLabels
      BY <1>0 DEF AfterFind, SessLabels, Labels, FindLabels, HandlerLabels
    <2>2. frame'[u] \in Frame /\ CtlOf(u, pc[u], frame[u])'
      BY DEF ThreadInv
    <2> QED BY <2>1, <2>2 DEF CtlOf, Frame
  <1>1. ASSUME NEW u \in Threads, pc'[u] \in AfterFind
        PROVE  /\ pc'[u] = "rm_count" => slot'[frame'[u].sess].isClosing
               /\ pc'[u] \in AfterCount => Dead(frame'[u].sess)
               /\ pc'[u] \in {"rm_drain", "rm_erase", "rm_push"} => slot'[frame'[u].sess].isTornDown
               /\ pc'[u] = "rm_drain" => slot'[frame'[u].sess].sessionId \notin closed
               /\ slot'[frame'[u].sess].sessionId = frame'[u].id
    <2>1. frame'[u].sess \in Slots
      BY <1>0, <1>1
    <2>2. CASE u = t
      BY <1>1, <2>1, <2>2 DEF KeepsSession, KeepsTeardown
    <2>3. CASE u # t
      <3>1. pc'[u] = pc[u] /\ frame'[u] = frame[u]
        BY <2>3 DEF Others
      <3> QED BY <1>1, <2>1, <3>1 DEF Teardown, KeepsSession, TearingDown, S, Sess
    <2> QED BY <2>2, <2>3
  <1>2. ASSUME NEW u \in Threads
        PROVE  /\ pc'[u] = "rm_count" => S(u)'.isClosing
               /\ pc'[u] \in AfterCount => Dead(Sess(u))'
               /\ TearingDown(u)' => S(u)'.isTornDown
               /\ pc'[u] = "rm_drain" => S(u)'.sessionId \notin closed'
               /\ pc'[u] \in AfterFind => S(u)'.sessionId = frame'[u].id
    <2>1. ASSUME NEW s \in Slots, Dead(s) PROVE Dead(s)'
      BY <2>1, DeadStays
    <2>2. ASSUME NEW s, s = frame'[u].sess, pc'[u] \in AfterCount PROVE Dead(Sess(u))'
      <3>1. s \in Slots /\ Dead(s)
        BY <1>0, <1>1, <2>2 DEF AfterCount, AfterFind
      <3>2. Dead(s)'
        BY <2>1, <3>1
      <3>3. Sess(u)' = s
        BY <2>2 DEF Sess
      <3> QED BY <3>2, <3>3 DEF Dead, OpsOn
    <2>3. pc'[u] \in AfterCount => Dead(Sess(u))'
      BY <2>2
    <2> QED BY <1>1, <2>3 DEF AfterFind, AfterCount, TearingDown, S, Sess
  <1>3. ASSUME NEW u \in Threads, NEW v \in Threads, TearingDown(u)', TearingDown(v)', Sess(u)' = Sess(v)'
        PROVE  u = v
    <2>1. ASSUME NEW a \in Threads \ {t}, TearingDown(a)', TearingDown(t)', Sess(a)' = Sess(t)' PROVE FALSE
      <3>1. pc'[a] = pc[a] /\ frame'[a] = frame[a]
        BY DEF Others
      <3>2. TearingDown(a) /\ Sess(a) = frame'[t].sess /\ S(a).isTornDown
        BY <2>1, <3>1 DEF TearingDown, Sess, Teardown
      <3> QED BY <2>1, <3>2 DEF Teardown, KeepsTeardown, TearingDown, S, Sess
    <2>2. CASE u # t /\ v # t
      BY <1>3, <2>2 DEF Others, TearingDown, Sess, Teardown
    <2> QED BY <1>3, <2>1, <2>2
  <1>4. \A s \in Slots : slot'[s].isTornDown => Dead(s)'
    <2> SUFFICES ASSUME NEW s \in Slots, slot'[s].isTornDown PROVE Dead(s)'
      OBVIOUS
    <2>1. Dead(s)
      BY DEF KeepsSession, Teardown
    <2> QED BY <2>1, DeadStays
  <1>5. \A s \in Slots : slot'[s].sessionId \in closed' => slot'[s].isTornDown
    BY DEF KeepsSession, Teardown
  <1>6. \A id \in Ids : left'[id] = IF id \in closed' THEN 1 ELSE 0
    BY DEF Teardown
  <1> QED BY <1>2, <1>3, <1>4, <1>5, <1>6, Zenon DEF Teardown

(* The count, when operations come and go too. *)
KeepsTally(t, s) ==
  /\ Cardinality(OpsOn(s))' \in Nat
  /\ slot'[s].ioCount = slot[s].ioCount + Cardinality(OpsOn(s))' - Cardinality(OpsOn(s))
                   + One(Posting(t, s)') - One(Posting(t, s)) + One(Handling(t, s)') - One(Handling(t, s))

(* The count stays exact through such a step. *)
LEMMA TallyStep ==
  ASSUME TypeInv, Records, IoAccounting, NEW t \in Threads, Others(t),
         \A s \in Slots : KeepsTally(t, s)
  PROVE  IoAccounting'
  <1> SUFFICES ASSUME NEW s \in Slots
               PROVE  slot'[s].ioCount = Cardinality(OpsOn(s))' + Cardinality({u \in Threads : Posting(u, s)'})
                                       + Cardinality({u \in Threads : Handling(u, s)'})
    BY DEF IoAccounting
  <1> DEFINE A == {u \in Threads : Posting(u, s)}
             B == {u \in Threads : Posting(u, s)'}
             C == {u \in Threads : Handling(u, s)}
             D == {u \in Threads : Handling(u, s)'}
  <1>1. A \ {t} = B \ {t} /\ C \ {t} = D \ {t}
    BY DEF Others, Posting, Handling
  <1>2. IsFiniteSet(A) /\ IsFiniteSet(C)
    BY ThreadsFinite
  <1>3. /\ Cardinality(B) = Cardinality(A) + One(t \in B) - One(t \in A)
        /\ Cardinality(A) \in Nat /\ Cardinality(B) \in Nat
    BY <1>1, <1>2, CountOne
  <1>4. /\ Cardinality(D) = Cardinality(C) + One(t \in D) - One(t \in C)
        /\ Cardinality(C) \in Nat /\ Cardinality(D) \in Nat
    BY <1>1, <1>2, CountOne
  <1>5. /\ One(t \in A) = One(Posting(t, s)) /\ One(t \in B) = One(Posting(t, s)')
        /\ One(t \in C) = One(Handling(t, s)) /\ One(t \in D) = One(Handling(t, s)')
    BY DEF One
  <1>6. /\ One(t \in A) \in Int /\ One(t \in B) \in Int /\ One(t \in C) \in Int /\ One(t \in D) \in Int
    BY DEF One
  <1>7. slot[s].ioCount = Cardinality(OpsOn(s)) + Cardinality(A) + Cardinality(C)
    BY DEF IoAccounting
  <1>8. slot'[s].ioCount = slot[s].ioCount + Cardinality(OpsOn(s))' - Cardinality(OpsOn(s))
                         + One(t \in B) - One(t \in A) + One(t \in D) - One(t \in C)
    BY <1>5 DEF KeepsTally
  <1>9. slot[s].ioCount \in Int /\ Cardinality(OpsOn(s)) \in Int /\ Cardinality(OpsOn(s))' \in Int
    BY SlotTyped, OpsFinite DEF KeepsTally
  <1> HIDE DEF A, B, C, D
  <1>10. slot'[s].ioCount = Cardinality(OpsOn(s))' + Cardinality(B) + Cardinality(D)
    BY <1>3, <1>4, <1>6, <1>7, <1>8, <1>9, SMT
  <1> QED BY <1>10 DEF B, D

(* The count. *)
LEMMA CountStep ==
  ASSUME TypeInv, Records, IoAccounting, NEW t \in Threads, Others(t), io' = io,
         \A s \in Slots : KeepsCount(t, s)
  PROVE  IoAccounting'
  <1>1. ASSUME NEW s \in Slots PROVE KeepsTally(t, s)
    <2>1. OpsOn(s)' = OpsOn(s)
      BY DEF OpsOn
    <2>2. Cardinality(OpsOn(s)) \in Nat /\ slot[s].ioCount \in Int
      BY OpsFinite, SlotTyped
    <2>3. slot[s].ioCount + Cardinality(OpsOn(s)) - Cardinality(OpsOn(s)) = slot[s].ioCount
      BY <2>2, SMT
    <2> QED BY <2>1, <2>2, <2>3 DEF KeepsTally, KeepsCount
  <1> QED BY <1>1, TallyStep

(* The places. *)
LEMMA PlacesStep ==
  ASSUME TypeInv, ThreadInv', Places, NEW t \in Threads, Others(t), KeepsOps(t), freeList' = freeList,
         sessionMap' = sessionMap, \A s \in Slots : KeepsSession(t, s), KeepsPlace(t)
  PROVE  Places'
  <1>1. \A s \in Slots : Listed(s)' = Listed(s) /\ Mapped(s)' = Mapped(s) /\ Begun(s)' = Begun(s)
    BY DEF Listed, Mapped, Begun, KeepsSession
  <1>2. ASSUME NEW u \in Threads, NEW s \in Slots PROVE OnHand(u, s)' = OnHand(u, s)
    <2>1. CASE u = t
      BY <2>1 DEF OnHand, KeepsPlace
    <2>2. CASE u # t
      BY <2>2 DEF OnHand, Others, Sess
    <2> QED BY <2>1, <2>2
  <1>3. \A i, j \in 1..Len(freeList') : freeList'[i] = freeList'[j] => i = j
    BY DEF Places
  <1>4. \A id \in Ids : sessionMap'[id] # NoSlot => slot'[sessionMap'[id]].sessionId = id
    <2>1. \A id \in Ids : sessionMap[id] \in Slots \cup {NoSlot}
      BY DEF TypeInv, SharedTypes
    <2> QED BY <2>1 DEF Places, KeepsSession
  <1>5. /\ \A s \in Slots : Listed(s)' \/ Mapped(s)' \/ \E u \in Threads : OnHand(u, s)'
        /\ \A s \in Slots : Listed(s)' => ~Mapped(s)'
        /\ \A s \in Slots, u \in Threads : OnHand(u, s)' => ~Listed(s)' /\ ~Mapped(s)'
        /\ \A s \in Slots, u, v \in Threads : OnHand(u, s)' /\ OnHand(v, s)' => u = v
    BY <1>1, <1>2 DEF Places
  <1>6. ASSUME NEW u \in Threads, pc'[u] \in {"rm_drain", "rm_erase"} PROVE Mapped(Sess(u))'
    <2>1. PICK s : s = frame'[u].sess
      OBVIOUS
    <2>2. s \in Slots
      <3>1. pc'[u] \in SessLabels
        BY <1>6 DEF SessLabels, Labels, FindLabels, HandlerLabels
      <3>2. frame'[u] \in Frame /\ CtlOf(u, pc[u], frame[u])'
        BY DEF ThreadInv
      <3> QED BY <2>1, <3>1, <3>2 DEF CtlOf, Frame
    <2>3. Mapped(s)
      BY <1>6, <2>1 DEF Places, KeepsPlace, Others, Sess
    <2>4. Mapped(s)' /\ Sess(u)' = s
      BY <1>1, <2>1, <2>2, <2>3 DEF Sess
    <2> QED BY <2>4 DEF Mapped, Begun
  <1>7. \A s \in Slots : Listed(s)' /\ Begun(s)' => slot'[s].isTornDown
    BY <1>1 DEF Places, KeepsSession
  <1>8. ASSUME pc'[Acceptor] \in {"init", "insert"}
        PROVE  /\ Acceptor # t /\ pc[Acceptor] = pc'[Acceptor] /\ Sess(Acceptor)' = Sess(Acceptor)
               /\ Sess(Acceptor) \in Slots
    <2>1. Acceptor # t
      BY <1>8 DEF KeepsPlace
    <2>2. Acceptor \in Threads
      BY DEF Threads
    <2>3. pc[Acceptor] = pc'[Acceptor] /\ frame'[Acceptor] = frame[Acceptor]
      BY <2>1, <2>2 DEF Others
    <2> QED BY <1>8, <2>1, <2>2, <2>3, AtSess DEF Sess, TypeInv, SessLabels, Labels, FindLabels, HandlerLabels
  <1>9. (pc[Acceptor] = "init" /\ Begun(Sess(Acceptor)) => S(Acceptor).isTornDown)'
    <2> SUFFICES ASSUME NEW s \in Slots, s = Sess(Acceptor), s = Sess(Acceptor)', pc'[Acceptor] = "init", Begun(s)'
                 PROVE  slot'[s].isTornDown
      BY <1>8 DEF S, Begun
    <2>1. pc[Acceptor] = "init" /\ Begun(s) /\ slot[s].isTornDown
      BY <1>1, <1>8 DEF Places, S
    <2> QED BY <2>1 DEF KeepsSession
  <1>10. (pc[Acceptor] = "insert" => /\ OpsOn(Sess(Acceptor)) = {}
                                     /\ \A u \in Threads \ {Acceptor} : ~Uses(u, Sess(Acceptor)))'
    <2> SUFFICES ASSUME NEW s \in Slots, s = Sess(Acceptor), s = Sess(Acceptor)', pc'[Acceptor] = "insert"
                 PROVE  OpsOn(s)' = {} /\ \A u \in Threads \ {Acceptor} : ~Uses(u, s)'
      BY <1>8 DEF OpsOn, Uses
    <2>1. pc[Acceptor] = "insert" /\ OpsOn(s) = {} /\ \A u \in Threads \ {Acceptor} : ~Uses(u, s)
      BY <1>8 DEF Places
    <2>2. ~Mapped(s)
      <3>1. OnHand(Acceptor, s) /\ Acceptor \in Threads
        BY <2>1 DEF OnHand, Threads
      <3> QED BY <3>1 DEF Places
    <2>3. ASSUME NEW u \in Threads \ {Acceptor} PROVE ~Uses(u, s)'
      <3>1. CASE u = t
        BY <2>1, <2>2, <3>1 DEF KeepsPlace
      <3>2. CASE u # t
        BY <2>1, <3>2 DEF Uses, Sess, Others
      <3> QED BY <3>1, <3>2
    <2>4. OpsOn(s)' = {}
      BY <1>8, <2>1 DEF KeepsOps
    <2> QED BY <2>3, <2>4
  <1> QED BY <1>3, <1>4, <1>5, <1>6, <1>7, <1>9, <1>10 DEF Places

(* The ids. *)
LEMMA IdsStep ==
  ASSUME IdsOnce, closed' = closed, nextSessionId' = nextSessionId,
         \A s \in Slots : slot'[s].sessionId = slot[s].sessionId
  PROVE  IdsOnce'
  BY DEF IdsOnce, Begun

(* What is known of the operations in flight, when there are no new ones. *)
LEMMA RecordsStep ==
  ASSUME TypeInv, Records, io' = io, \A s \in Slots : slot'[s].sessionId = slot[s].sessionId
  PROVE  Records'
  <1>1. \A r \in io : r.slot \in Slots
    BY DEF TypeInv, SharedTypes
  <1> QED BY <1>1 DEF Records

(* A thread of the server gets a pointer or an id from what it has only:   *)
(* from the completion it handles, the session it works on, or the map.    *)
KeepsHold(t) ==
  /\ frame'[t].client \in {NoSlot, frame[t].client}
  /\ \/ frame'[t].sess \in {NoSlot, frame[t].sess, frame[t].client}
     \/ pc[t] \in FindLabels /\ slot[frame'[t].sess].sessionId = frame[t].id
  /\ pc'[t] \in FindLabels =>
       \/ frame[t].client # NoSlot /\ frame'[t].id = slot[frame[t].client].sessionId
       \/ frame[t].sess # NoSlot /\ frame'[t].id = slot[frame[t].sess].sessionId

(* A step of one thread that stays away from the free list, the map and    *)
(* the operations in flight.                                               *)
Quiet(t) == /\ Others(t)
            /\ io' = io /\ closed' = closed /\ left' = left /\ UNCHANGED tables
            /\ \A s \in Slots : KeepsTokens(t, s) /\ KeepsSession(t, s) /\ KeepsCount(t, s)
            /\ KeepsTeardown(t) /\ KeepsPlace(t) /\ pc'[t] # "rm_erase"
            /\ t \in Apps \/ KeepsHold(t)

(* A quiet step keeps the invariant. *)
LEMMA QuietStep ==
  ASSUME SessionInv, TypeInv', NEW t \in Threads, Quiet(t)
  PROVE  SessionInv'
  <1>1. /\ TypeInv /\ Tokens /\ Records /\ Teardown /\ IdsOnce /\ Places /\ IoAccounting
        /\ ThreadInv /\ ThreadInv'
    BY DEF SessionInv, TypeInv
  <1>2. /\ Others(t) /\ io' = io /\ closed' = closed /\ left' = left /\ KeepsOps(t)
        /\ freeList' = freeList /\ sessionMap' = sessionMap /\ nextSessionId' = nextSessionId
        /\ \A s \in Slots : KeepsTokens(t, s)
        /\ \A s \in Slots : KeepsSession(t, s)
        /\ \A s \in Slots : KeepsCount(t, s)
        /\ KeepsTeardown(t) /\ KeepsPlace(t)
    BY DEF Quiet, tables, KeepsOps, OpsOn
  <1>3. \A s \in Slots : slot'[s].sessionId = slot[s].sessionId
    BY <1>2 DEF KeepsSession
  <1>4. Tokens'
    BY <1>1, <1>2, TokensStep
  <1>5. Teardown'
    BY <1>1, <1>2, TeardownStep
  <1>6. IoAccounting'
    BY <1>1, <1>2, CountStep
  <1>7. Places'
    BY <1>1, <1>2, PlacesStep
  <1>8. IdsOnce' /\ Records'
    BY <1>1, <1>2, <1>3, IdsStep, RecordsStep
  <1> QED BY <1>4, <1>5, <1>6, <1>7, <1>8 DEF SessionInv

-----------------------------------------------------------------------------
(* Steps, summed up *)

(* Where thread t is and what it holds after its step. *)
Went(t, l, c, s, i, r) ==
  /\ Others(t) /\ pc'[t] = l
  /\ frame'[t].client = c /\ frame'[t].sess = s /\ frame'[t].id = i /\ frame'[t].ret = r

(* What a write does to slot s. *)
Wrote(s, n, pending, closing, torn) ==
  /\ \A q \in Slots \ {s} : slot'[q] = slot[q]
  /\ slot'[s].sessionId = slot[s].sessionId
  /\ slot'[s].ioCount = slot[s].ioCount + n
  /\ slot'[s].isSendPending = pending
  /\ slot'[s].isClosing = closing /\ slot'[s].isTornDown = torn

Calm == io' = io /\ closed' = closed /\ left' = left /\ UNCHANGED tables

(* The thread goes on inside its call... *)
LEMMA StepWent ==
  ASSUME ThreadInv, NEW t \in Threads, NEW l, Step(t, l)
  PROVE  Went(t, l, frame[t].client, frame[t].sess, frame[t].id, frame[t].ret)
  BY SMT DEF ThreadInv, Step, Goto, Went, Others

(* ... or goes to the label with another frame. *)
LEMMA MoveWent ==
  ASSUME ThreadInv, NEW t \in Threads, NEW l, NEW f, Moves(t, l, f)
  PROVE  Went(t, l, f.client, f.sess, f.id, f.ret)
  BY SMT DEF ThreadInv, Moves, Went, Others

(* ... or returns. *)
LEMMA ReturnWent ==
  ASSUME ThreadInv, NEW t \in Threads, pc[t] \notin HandlerLabels, Return(t)
  PROVE  Went(t, frame[t].ret, frame[t].client, NoSlot, NoId, "idle") /\ frame[t].ret \in Rets
  <1>1. Moves(t, frame[t].ret, Back(t))
    BY ReturnMoves
  <1>2. frame[t].client \in Slots \cup {NoSlot} /\ frame[t].todo \in 0..MaxPerRecv /\ frame[t].ret \in Rets
        /\ CtlOf(t, pc[t], frame[t])
    BY FrameTyped DEF Rets
  <1>3. Holds([NoFrame EXCEPT !.client = frame[t].client, !.todo = frame[t].todo], frame[t].client,
              NoSlot, NoId, FALSE, frame[t].todo, <<>>, "idle")
    BY <1>2, NoFrameTyped, RecvFrame DEF NoFrame
  <1>4. CASE frame[t].ret = "idle"
    <2>1. Back(t) = NoFrame /\ frame[t].client = NoSlot
      BY <1>2, <1>4 DEF Back, CtlOf
    <2> QED BY <1>1, <1>2, <1>4, <2>1, MoveWent DEF NoFrame
  <1>5. CASE frame[t].ret # "idle"
    <2>1. Back(t) = [NoFrame EXCEPT !.client = frame[t].client, !.todo = frame[t].todo]
      BY <1>5 DEF Back
    <2>2. Holds(Back(t), frame[t].client, NoSlot, NoId, FALSE, frame[t].todo, <<>>, "idle")
      BY <1>3, <2>1
    <2>3. Went(t, frame[t].ret, Back(t).client, Back(t).sess, Back(t).id, Back(t).ret)
      BY <1>1, MoveWent
    <2> QED BY <1>2, <2>2, <2>3 DEF Holds
  <1> QED BY <1>4, <1>5

(* The small updates of a session, in the slot. *)
LEMMA WritesWrote ==
  ASSUME TypeInv, NEW t, NEW l0, NEW s \in Slots, NEW rec, Writes(t, l0, s, rec)
  PROVE  /\ Calm
         /\ \A n \in Int : rec = AddIo(slot[s], n) =>
              Wrote(s, n, slot[s].isSendPending, slot[s].isClosing, slot[s].isTornDown)
         /\ \A b \in BOOLEAN : rec = SetPending(slot[s], b) =>
              Wrote(s, 0, b, slot[s].isClosing, slot[s].isTornDown)
         /\ rec = [slot[s] EXCEPT !.isClosing = TRUE] =>
              Wrote(s, 0, slot[s].isSendPending, TRUE, slot[s].isTornDown)
         /\ rec = [slot[s] EXCEPT !.isTornDown = TRUE] =>
              Wrote(s, 0, slot[s].isSendPending, slot[s].isClosing, TRUE)
         /\ \A n : rec = [slot[s] EXCEPT !.sendPacketCount = n] =>
              Wrote(s, 0, slot[s].isSendPending, slot[s].isClosing, slot[s].isTornDown)
  <1>1. /\ slot' = [slot EXCEPT ![s] = rec] /\ slot \in [Slots -> Session]
        /\ Calm
    BY DEF Writes, TypeInv, SharedTypes, Calm, tables, kernel, history
  <1>2. (\A q \in Slots \ {s} : slot'[q] = slot[q]) /\ slot'[s] = rec
    BY <1>1
  <1>3. slot[s] \in Session /\ slot[s].ioCount \in Int
    BY SlotTyped
  <1>4. /\ \A n \in Int : rec = AddIo(slot[s], n) =>
              Wrote(s, n, slot[s].isSendPending, slot[s].isClosing, slot[s].isTornDown)
        /\ \A b \in BOOLEAN : rec = SetPending(slot[s], b) =>
              Wrote(s, 0, b, slot[s].isClosing, slot[s].isTornDown)
    BY <1>2, <1>3, SMT DEF AddIo, SetPending, Session, Wrote
  <1>5. /\ rec = [slot[s] EXCEPT !.isClosing = TRUE] =>
              Wrote(s, 0, slot[s].isSendPending, TRUE, slot[s].isTornDown)
        /\ rec = [slot[s] EXCEPT !.isTornDown = TRUE] =>
              Wrote(s, 0, slot[s].isSendPending, slot[s].isClosing, TRUE)
        /\ \A n : rec = [slot[s] EXCEPT !.sendPacketCount = n] =>
              Wrote(s, 0, slot[s].isSendPending, slot[s].isClosing, slot[s].isTornDown)
    BY <1>2, <1>3, SMT DEF Session, Wrote
  <1> QED BY <1>1, <1>4, <1>5

LEMMA AddWrote ==
  ASSUME TypeInv, NEW t, NEW l0, NEW s \in Slots, NEW n \in Int, Writes(t, l0, s, AddIo(slot[s], n))
  PROVE  Calm /\ Wrote(s, n, slot[s].isSendPending, slot[s].isClosing, slot[s].isTornDown)
  <1> DEFINE rec == AddIo(slot[s], n)
  <1>1. Writes(t, l0, s, rec) /\ rec = AddIo(slot[s], n)
    OBVIOUS
  <1> HIDE DEF rec
  <1> QED BY <1>1, WritesWrote

LEMMA PendingWrote ==
  ASSUME TypeInv, NEW t, NEW l0, NEW s \in Slots, NEW b \in BOOLEAN, Writes(t, l0, s, SetPending(slot[s], b))
  PROVE  Calm /\ Wrote(s, 0, b, slot[s].isClosing, slot[s].isTornDown)
  <1> DEFINE rec == SetPending(slot[s], b)
  <1>1. Writes(t, l0, s, rec) /\ rec = SetPending(slot[s], b)
    OBVIOUS
  <1> HIDE DEF rec
  <1> QED BY <1>1, WritesWrote

(* A write of the send ring. *)
LEMMA RingWrote ==
  ASSUME TypeInv, NEW s \in Slots, NEW q, slot' = [slot EXCEPT ![s].sendRing = q]
  PROVE  Wrote(s, 0, slot[s].isSendPending, slot[s].isClosing, slot[s].isTornDown)
  <1>1. /\ slot \in [Slots -> Session] /\ slot[s] \in Session /\ slot[s].ioCount \in Int
    BY SlotTyped DEF TypeInv, SharedTypes
  <1>2. (\A p \in Slots \ {s} : slot'[p] = slot[p]) /\ slot'[s] = [slot[s] EXCEPT !.sendRing = q]
    BY <1>1
  <1> QED BY <1>1, <1>2, SMT DEF Session, Wrote

(* The parts of the invariant, and what the frame of a thread holds. *)
LEMMA Parts ==
  ASSUME SessionInv, NEW t \in Threads
  PROVE  /\ TypeInv /\ ThreadInv /\ Tokens /\ Records /\ Teardown /\ IdsOnce /\ Places /\ IoAccounting
         /\ CtlOf(t, pc[t], frame[t])
  BY FrameTyped DEF SessionInv, TypeInv

-----------------------------------------------------------------------------
(* recvPost keeps away from the tables. *)
LEMMA RecvPostQuiet ==
  ASSUME SessionInv, NEW t \in Threads,
         RecvPostCheck(t) \/ RecvPostInc(t) \/ RecvPostRecheck(t) \/ RecvPostUndo(t)
  PROVE  Quiet(t)
  <1>0. /\ TypeInv /\ ThreadInv /\ Tokens /\ Records /\ Teardown /\ IdsOnce /\ Places /\ IoAccounting
        /\ CtlOf(t, pc[t], frame[t])
    BY Parts
  <1>1. /\ pc[t] \in {"rp_check", "rp_inc", "rp_recheck", "rp_undo"} /\ pc[t] \notin HandlerLabels
        /\ pc[t] \in SessLabels
    BY DEF RecvPostCheck, RecvPostInc, RecvPostRecheck, RecvPostUndo, Reads, Writes, HandlerLabels, SessLabels, Labels, FindLabels
  <1>2. PICK s \in Slots : s = Sess(t)
    BY <1>0, <1>1, AtSess
  <1>3. slot[s].isClosing \in BOOLEAN /\ \A q \in Slots : slot[q].ioCount \in Int
    BY <1>0, SlotTyped
  <1>a. RecvPostInc(t) => Calm /\ Wrote(s, 1, slot[s].isSendPending, slot[s].isClosing, slot[s].isTornDown)
    <2>1. RecvPostInc(t) => Writes(t, "rp_inc", s, AddIo(slot[s], 1))
      BY <1>2 DEF RecvPostInc, S
    <2> QED BY <1>0, <2>1, 1 \in Int, AddWrote
  <1>b. RecvPostUndo(t) => Calm /\ Wrote(s, -1, slot[s].isSendPending, slot[s].isClosing, slot[s].isTornDown)
    <2>1. RecvPostUndo(t) => Writes(t, "rp_undo", s, AddIo(slot[s], -1))
      BY <1>2 DEF RecvPostUndo, S
    <2> QED BY <1>0, <2>1, -1 \in Int, AddWrote
  <1> USE DEF Quiet, Calm, Went, Wrote, KeepsTokens, KeepsSession, KeepsCount, KeepsTeardown, KeepsPlace,
              KeepsHold, FindLabels, RecvTok, SendTok, Posting, Handling, Uses, One, Sess, S, AfterFind, AfterCount, Rets
  <1>4. CASE RecvPostCheck(t)
    <2>1. /\ pc[t] = "rp_check" /\ slot' = slot /\ Calm
          /\ \/ Step(t, "rp_inc")
             \/ Return(t)
      BY <1>4 DEF RecvPostCheck, GoOrReturn, Step, Reads, Calm, kernel, history
    <2>2. CASE Step(t, "rp_inc")
      <3>1. Went(t, "rp_inc", frame[t].client, frame[t].sess, frame[t].id, frame[t].ret)
        BY <1>0, <2>2, StepWent
      <3> QED BY <1>0, <1>2, <1>3, <2>1, <3>1, SMTT(30)
    <2>3. CASE Return(t)
      <3>1. Went(t, frame[t].ret, frame[t].client, NoSlot, NoId, "idle") /\ frame[t].ret \in Rets
        BY <1>0, <1>1, <2>3, ReturnWent
      <3> QED BY <1>0, <1>2, <1>3, <2>1, <3>1, NoneApart, SMTT(30)
    <2> QED BY <2>1, <2>2, <2>3
  <1>5. CASE RecvPostInc(t)
    <2>1. pc[t] = "rp_inc" /\ Step(t, "rp_recheck")
      BY <1>5 DEF RecvPostInc, Writes
    <2>2. Calm /\ Wrote(s, 1, slot[s].isSendPending, slot[s].isClosing, slot[s].isTornDown)
      BY <1>5, <1>a
    <2>3. Went(t, "rp_recheck", frame[t].client, frame[t].sess, frame[t].id, frame[t].ret)
      BY <1>0, <2>1, StepWent
    <2> QED BY <1>0, <1>2, <1>3, <2>1, <2>2, <2>3, SMTT(30)
  <1>6. CASE RecvPostRecheck(t)
    <2> DEFINE l == IF S(t).isClosing THEN "rp_undo" ELSE "rp_call"
    <2>1. pc[t] = "rp_recheck" /\ slot' = slot /\ Calm /\ Step(t, l)
      BY <1>6 DEF RecvPostRecheck, Reads, Calm, kernel, history
    <2>2. Went(t, l, frame[t].client, frame[t].sess, frame[t].id, frame[t].ret)
      BY <1>0, <2>1, StepWent
    <2> QED BY <1>0, <1>2, <1>3, <2>1, <2>2, SMTT(30)
  <1>7. CASE RecvPostUndo(t)
    <2>1. pc[t] = "rp_undo" /\ Return(t)
      BY <1>7 DEF RecvPostUndo, Writes
    <2>2. Calm /\ Wrote(s, -1, slot[s].isSendPending, slot[s].isClosing, slot[s].isTornDown)
      BY <1>7, <1>b
    <2>3. Went(t, frame[t].ret, frame[t].client, NoSlot, NoId, "idle") /\ frame[t].ret \in Rets
      BY <1>0, <1>1, <2>1, ReturnWent
    <2> QED BY <1>0, <1>2, <1>3, <2>1, <2>2, <2>3, NoneApart, SMTT(30)
  <1> QED BY <1>4, <1>5, <1>6, <1>7

(* A failed call: the count goes back. *)
LEMMA PostFailsQuiet ==
  ASSUME SessionInv, NEW t \in Threads, NEW l,
         \/ pc[t] = "rp_call" /\ l = "readId"
         \/ pc[t] = "so_call" /\ l = "so_failed",
         PostFails(t, l)
  PROVE  Quiet(t)
  <1>0. /\ TypeInv /\ ThreadInv /\ Tokens /\ Records /\ Teardown /\ IdsOnce /\ Places /\ IoAccounting
        /\ CtlOf(t, pc[t], frame[t])
    BY Parts
  <1>1. pc[t] \in SessLabels
    BY DEF HandlerLabels, SessLabels, Labels, FindLabels
  <1>2. PICK s \in Slots : s = Sess(t)
    BY <1>0, <1>1, AtSess
  <1>3. slot[s].isClosing \in BOOLEAN /\ \A q \in Slots : slot[q].ioCount \in Int
    BY <1>0, SlotTyped
  <1>4. /\ slot' = [slot EXCEPT ![s] = AddIo(slot[s], -1)] /\ Calm
        /\ pc' = [pc EXCEPT ![t] = l] /\ frame' = [frame EXCEPT ![t].mark = TRUE]
    BY <1>0, <1>2, SMTT(30) DEF PostFails, Goto, Calm, tables, kernel, TypeInv, SharedTypes
  <1>5. Wrote(s, -1, slot[s].isSendPending, slot[s].isClosing, slot[s].isTornDown)
    <2>1. (\A q \in Slots \ {s} : slot'[q] = slot[q]) /\ slot'[s] = AddIo(slot[s], -1) /\ slot[s] \in Session
      BY <1>0, <1>4, SlotTyped DEF TypeInv, SharedTypes
    <2> QED BY <1>3, <2>1, SMT DEF AddIo, Session, Wrote
  <1>6. Went(t, l, frame[t].client, frame[t].sess, frame[t].id, frame[t].ret)
    <2> DEFINE f == [frame[t] EXCEPT !.mark = TRUE]
    <2>1. Holds(f, frame[t].client, frame[t].sess, frame[t].id, TRUE, frame[t].todo, frame[t].pkts, frame[t].ret)
      BY <1>0, FrameHolds, SetMark
    <2>2. Moves(t, l, f)
      BY <1>0, <1>4, SMTT(30) DEF Moves, ThreadInv
    <2> HIDE DEF f
    <2> QED BY <1>0, <2>1, <2>2, MoveWent DEF Holds
  <1> USE DEF Quiet, Calm, Went, Wrote, KeepsTokens, KeepsSession, KeepsCount, KeepsTeardown, KeepsPlace,
              KeepsHold, FindLabels, RecvTok, SendTok, Posting, Handling, Uses, One, Sess, S, AfterFind, AfterCount, Rets
  <1>7. CASE pc[t] = "rp_call" /\ l = "readId"
    <2>1. \A q \in Slots : KeepsTokens(t, q)
      BY <1>0, <1>2, <1>3, <1>4, <1>5, <1>6, <1>7, SMTT(30)
    <2>2. \A q \in Slots : KeepsSession(t, q)
      BY <1>0, <1>2, <1>3, <1>4, <1>5, <1>6, <1>7, SMTT(30)
    <2>3. \A q \in Slots : KeepsCount(t, q)
      BY <1>0, <1>2, <1>3, <1>4, <1>5, <1>6, <1>7, SMTT(30)
    <2>4. Others(t) /\ KeepsTeardown(t) /\ KeepsPlace(t) /\ KeepsHold(t) /\ pc'[t] # "rm_erase"
      BY <1>0, <1>2, <1>3, <1>4, <1>5, <1>6, <1>7, SMTT(30)
    <2> QED BY <1>4, <2>1, <2>2, <2>3, <2>4
  <1>8. CASE pc[t] = "so_call" /\ l = "so_failed"
    <2>1. \A q \in Slots : KeepsTokens(t, q)
      BY <1>0, <1>2, <1>3, <1>4, <1>5, <1>6, <1>8, SMTT(30) DEF Tokens
    <2>2. \A q \in Slots : KeepsSession(t, q)
      BY <1>0, <1>2, <1>3, <1>4, <1>5, <1>6, <1>8, SMTT(30)
    <2>3. \A q \in Slots : KeepsCount(t, q)
      BY <1>0, <1>2, <1>3, <1>4, <1>5, <1>6, <1>8, SMTT(30)
    <2>4. Others(t) /\ KeepsTeardown(t) /\ KeepsPlace(t) /\ KeepsHold(t) /\ pc'[t] # "rm_erase"
      BY <1>0, <1>2, <1>3, <1>4, <1>5, <1>6, <1>8, SMTT(30)
    <2> QED BY <1>4, <2>1, <2>2, <2>3, <2>4
  <1> QED BY <1>7, <1>8

(* sendPacket *)
LEMMA SendPacketQuiet ==
  ASSUME SessionInv, NEW t \in Threads, SendPacket(t)
  PROVE  Quiet(t)
  <1>0. /\ TypeInv /\ ThreadInv /\ Tokens /\ Records /\ Teardown /\ IdsOnce /\ Places /\ IoAccounting
        /\ CtlOf(t, pc[t], frame[t])
    BY Parts
  <1>1. /\ pc[t] \in {"sp_find", "sp_enqueue", "sp_pending"} /\ pc[t] \notin HandlerLabels
        /\ pc[t] # "sp_find" => pc[t] \in SessLabels
    BY DEF SendPacket, SendPacketFind, SendPacketEnqueue, SendPacketPending, Reads, HandlerLabels, SessLabels, Labels, FindLabels
  <1>2. pc[t] # "sp_find" => Sess(t) \in Slots
    BY <1>0, <1>1, AtSess
  <1>3. \A q \in Slots : slot[q].isClosing \in BOOLEAN /\ slot[q].ioCount \in Int
    BY <1>0, SlotTyped
  <1>4. ASSUME Return(t)
        PROVE  Went(t, frame[t].ret, frame[t].client, NoSlot, NoId, "idle") /\ frame[t].ret \in Rets
    BY <1>0, <1>1, <1>4, ReturnWent
  <1> USE DEF Quiet, Calm, Went, Wrote, KeepsTokens, KeepsSession, KeepsCount, KeepsTeardown, KeepsPlace,
              KeepsHold, FindLabels, RecvTok, SendTok, Posting, Handling, Uses, One, Sess, S, AfterFind, AfterCount, Rets
  <1>5. ASSUME slot' = slot, Calm, Return(t) PROVE Quiet(t)
    BY <1>0, <1>1, <1>3, <1>4, <1>5, NoneApart, SMTT(30)
  <1>6. CASE SendPacketFind(t)
    <2> DEFINE s == sessionMap[frame[t].id]
               f == [frame[t] EXCEPT !.sess = s]
    <2>1. /\ pc[t] = "sp_find" /\ slot' = slot /\ Calm
          /\ s = NoSlot => Return(t)
          /\ s # NoSlot => frame' = [frame EXCEPT ![t].sess = s] /\ pc' = [pc EXCEPT ![t] = "sp_enqueue"]
      BY <1>6 DEF SendPacketFind, Reads, Calm, kernel, history, Goto
    <2>2. CASE s # NoSlot
      <3>1. s \in Slots /\ Mapped(s) /\ slot[s].sessionId = frame[t].id
        <4>1. frame[t].id \in Ids
          BY <1>0, <2>1, FrameTyped DEF CtlOf, FindLabels
        <4> QED BY <1>0, <2>2, <4>1, NoneApart DEF TypeInv, SharedTypes, Places, Mapped, Begun
      <3>2. Went(t, "sp_enqueue", frame[t].client, s, frame[t].id, frame[t].ret)
        <4>1. Moves(t, "sp_enqueue", f)
          BY <1>0, <2>1, <2>2, SMTT(30) DEF Moves, ThreadInv
        <4> HIDE DEF s
        <4>2. Holds(f, frame[t].client, s, frame[t].id, frame[t].mark, frame[t].todo, frame[t].pkts, frame[t].ret)
          BY <1>0, <3>1, FrameHolds, SetSess
        <4> HIDE DEF f
        <4> QED BY <1>0, <4>1, <4>2, MoveWent DEF Holds
      <3> HIDE DEF s
      <3> QED BY <1>0, <1>3, <2>1, <3>1, <3>2, SMTT(30)
    <2> QED BY <1>5, <2>1, <2>2
  <1>7. CASE SendPacketEnqueue(t)
    <2> DEFINE room == Len(S(t).sendRing) < RingCap
               q    == Append(S(t).sendRing, frame[t].pkts[1])
    <2>1. pc[t] = "sp_enqueue" /\ Calm /\ GoOrReturn(t, room, "sp_pending")
      BY <1>7 DEF SendPacketEnqueue, Calm, kernel
    <2>2. PICK s \in Slots : s = Sess(t)
      BY <1>2, <2>1
    <2>3. CASE room
      <3>1. slot' = [slot EXCEPT ![s].sendRing = q] /\ Step(t, "sp_pending")
        BY <1>0, <1>7, <2>1, <2>2, <2>3, SMTT(30) DEF SendPacketEnqueue, GoOrReturn, Step, TypeInv, SharedTypes
      <3>2. Wrote(s, 0, slot[s].isSendPending, slot[s].isClosing, slot[s].isTornDown)
        BY <1>0, <3>1, RingWrote
      <3>3. Went(t, "sp_pending", frame[t].client, frame[t].sess, frame[t].id, frame[t].ret)
        BY <1>0, <3>1, StepWent
      <3> QED BY <1>0, <1>3, <2>1, <2>2, <3>2, <3>3, SMTT(30)
    <2>4. CASE ~room
      BY <1>5, <1>7, <2>1, <2>4 DEF SendPacketEnqueue, GoOrReturn
    <2> QED BY <2>3, <2>4
  <1>8. CASE SendPacketPending(t)
    <2>1. /\ pc[t] = "sp_pending" /\ slot' = slot /\ Calm
          /\ Step(t, "so_xchg") \/ Return(t)
      BY <1>8 DEF SendPacketPending, GoOrReturn, Step, Reads, Calm, kernel, history
    <2>2. CASE Step(t, "so_xchg")
      <3>1. Went(t, "so_xchg", frame[t].client, frame[t].sess, frame[t].id, frame[t].ret)
        BY <1>0, <2>2, StepWent
      <3> QED BY <1>0, <1>3, <2>1, <3>1, SMTT(30)
    <2> QED BY <1>5, <2>1, <2>2
  <1> QED BY <1>6, <1>7, <1>8 DEF SendPacket

(* sendPost *)
LEMMA SendPostQuiet ==
  ASSUME SessionInv, NEW t \in Threads, SendPost(t), pc[t] # "so_call"
  PROVE  Quiet(t)
  <1>0. /\ TypeInv /\ ThreadInv /\ Tokens /\ Records /\ Teardown /\ IdsOnce /\ Places /\ IoAccounting
        /\ CtlOf(t, pc[t], frame[t])
    BY Parts
  <1>1. /\ pc[t] \in {"so_xchg", "so_check", "so_reset", "so_count", "so_peek", "so_gather",
                      "so_recheck", "so_undo", "so_failed"}
        /\ pc[t] \notin HandlerLabels /\ pc[t] \in SessLabels
    BY DEF SendPost, SendPostExchange, SendPostCheck, SendPostReset, SendPostCount, SendPostPeek, SendPostGather, SendPostRecheck, SendPostUndo, SendPostCall, SendPostFailed, Reads, Writes, HandlerLabels, SessLabels, Labels, FindLabels
  <1>2. PICK s \in Slots : s = Sess(t)
    BY <1>0, <1>1, AtSess
  <1>3. /\ slot[s].isClosing \in BOOLEAN /\ slot[s].isSendPending \in BOOLEAN
        /\ \A q \in Slots : slot[q].ioCount \in Int
    BY <1>0, SlotTyped
  <1>4. ASSUME Return(t)
        PROVE  Went(t, frame[t].ret, frame[t].client, NoSlot, NoId, "idle") /\ frame[t].ret \in Rets
    BY <1>0, <1>1, <1>4, ReturnWent
  <1>5. ASSUME NEW l, Step(t, l)
        PROVE  Went(t, l, frame[t].client, frame[t].sess, frame[t].id, frame[t].ret)
    BY <1>0, <1>5, StepWent
  <1>b. SendPostExchange(t) => Calm /\ Wrote(s, 0, TRUE, slot[s].isClosing, slot[s].isTornDown)
    <2>1. SendPostExchange(t) => Writes(t, "so_xchg", s, SetPending(slot[s], TRUE))
      BY <1>2 DEF SendPostExchange, S
    <2> QED BY <1>0, <2>1, PendingWrote
  <1>c. SendPostReset(t) => Calm /\ Wrote(s, 0, FALSE, slot[s].isClosing, slot[s].isTornDown)
    <2>1. SendPostReset(t) => Writes(t, "so_reset", s, SetPending(slot[s], FALSE))
      BY <1>2 DEF SendPostReset, S
    <2> QED BY <1>0, <2>1, PendingWrote
  <1>d. SendPostFailed(t) => Calm /\ Wrote(s, 0, FALSE, slot[s].isClosing, slot[s].isTornDown)
    <2>1. SendPostFailed(t) => Writes(t, "so_failed", s, SetPending(slot[s], FALSE))
      BY <1>2 DEF SendPostFailed, S
    <2> QED BY <1>0, <2>1, PendingWrote
  <1>e. SendPostGather(t) => Calm /\ Wrote(s, 1, slot[s].isSendPending, slot[s].isClosing, slot[s].isTornDown)
    <2>1. SendPostGather(t) => Writes(t, "so_gather", s, AddIo(slot[s], 1))
      BY <1>2 DEF SendPostGather, S
    <2> QED BY <1>0, <2>1, 1 \in Int, AddWrote
  <1>f. SendPostUndo(t) => Calm /\ Wrote(s, -1, slot[s].isSendPending, slot[s].isClosing, slot[s].isTornDown)
    <2>1. SendPostUndo(t) => Writes(t, "so_undo", s, AddIo(slot[s], -1))
      BY <1>2 DEF SendPostUndo, S
    <2> QED BY <1>0, <2>1, -1 \in Int, AddWrote
  <1>a. SendPostCount(t) => Calm /\ Wrote(s, 0, slot[s].isSendPending, slot[s].isClosing, slot[s].isTornDown)
    <2> DEFINE n   == Min2(Len(slot[s].sendRing), MaxBatch)
               rec == [slot[s] EXCEPT !.sendPacketCount = n]
    <2>1. SendPostCount(t) => Writes(t, "so_count", s, rec) /\ rec = [slot[s] EXCEPT !.sendPacketCount = n]
      BY <1>2 DEF SendPostCount, S
    <2> HIDE DEF n, rec
    <2> QED BY <1>0, <2>1, WritesWrote
  <1>8. ASSUME NEW l0, Reads(t, l0)
        PROVE  pc[t] = l0 /\ slot' = slot /\ Calm
    BY <1>8 DEF Reads, Calm, kernel, history
  <1> USE DEF Quiet, Calm, Went, Wrote, KeepsTokens, KeepsSession, KeepsCount, KeepsTeardown, KeepsPlace,
              KeepsHold, FindLabels, RecvTok, SendTok, Posting, Handling, Uses, One, Sess, S, AfterFind, AfterCount, Rets
  <1>9. CASE SendPostExchange(t)
    <2>1. /\ pc[t] = "so_xchg"
          /\ slot[s].isSendPending => Return(t)
          /\ ~slot[s].isSendPending => Step(t, "so_check")
      BY <1>2, <1>9 DEF SendPostExchange, Writes, GoOrReturn, Step
    <2>2. Calm /\ Wrote(s, 0, TRUE, slot[s].isClosing, slot[s].isTornDown)
      BY <1>9, <1>b
    <2>3. CASE slot[s].isSendPending
      BY <1>0, <1>2, <1>3, <1>4, <2>1, <2>2, <2>3, NoneApart, SMTT(60) DEF Tokens
    <2>4. CASE ~slot[s].isSendPending
      <3>1. Went(t, "so_check", frame[t].client, frame[t].sess, frame[t].id, frame[t].ret)
        BY <1>5, <2>1, <2>4
      <3> QED BY <1>0, <1>2, <1>3, <2>1, <2>2, <2>4, <3>1, SMTT(30) DEF Tokens
    <2> QED BY <2>3, <2>4
  <1>10. CASE SendPostCheck(t)
    <2> DEFINE l == IF S(t).isClosing THEN "so_reset" ELSE "so_count"
    <2>1. pc[t] = "so_check" /\ slot' = slot /\ Calm /\ Went(t, l, frame[t].client, frame[t].sess, frame[t].id, frame[t].ret)
      BY <1>5, <1>8, <1>10 DEF SendPostCheck
    <2> QED BY <1>0, <1>2, <1>3, <2>1, SMTT(30) DEF Tokens
  <1>11. CASE SendPostReset(t)
    <2>1. pc[t] = "so_reset" /\ Return(t)
      BY <1>2, <1>11 DEF SendPostReset, Writes
    <2>2. Calm /\ Wrote(s, 0, FALSE, slot[s].isClosing, slot[s].isTornDown)
      BY <1>11, <1>c
    <2> QED BY <1>0, <1>2, <1>3, <1>4, <2>1, <2>2, NoneApart, SMTT(60) DEF Tokens
  <1>12. CASE SendPostCount(t)
    <2>1. pc[t] = "so_count" /\ Step(t, "so_peek")
      BY <1>2, <1>12 DEF SendPostCount, Writes
    <2>2. Calm /\ Wrote(s, 0, slot[s].isSendPending, slot[s].isClosing, slot[s].isTornDown)
      BY <1>12, <1>a
    <2>3. Went(t, "so_peek", frame[t].client, frame[t].sess, frame[t].id, frame[t].ret)
      BY <1>5, <2>1
    <2> QED BY <1>0, <1>2, <1>3, <2>1, <2>2, <2>3, SMTT(30) DEF Tokens
  <1>13. CASE SendPostPeek(t)
    <2> DEFINE p == SubSeq(S(t).sendRing, 1, Min2(S(t).sendPacketCount, Len(S(t).sendRing)))
               f == [frame[t] EXCEPT !.pkts = p]
    <2>1. pc[t] = "so_peek" /\ slot' = slot /\ Calm
      BY <1>8, <1>13 DEF SendPostPeek
    <2>2. Moves(t, "so_gather", f)
      BY <1>0, <1>13, SMTT(30) DEF SendPostPeek, Goto, Moves, ThreadInv
    <2> HIDE DEF p
    <2>3. f.client = frame[t].client /\ f.sess = frame[t].sess /\ f.id = frame[t].id /\ f.ret = frame[t].ret
      BY <1>0, FrameTyped DEF Frame
    <2> HIDE DEF f
    <2>4. Went(t, "so_gather", frame[t].client, frame[t].sess, frame[t].id, frame[t].ret)
      BY <1>0, <2>2, <2>3, MoveWent
    <2> QED BY <1>0, <1>2, <1>3, <2>1, <2>4, SMTT(30) DEF Tokens
  <1>14. CASE SendPostGather(t)
    <2>1. pc[t] = "so_gather" /\ Step(t, "so_recheck")
      BY <1>2, <1>14 DEF SendPostGather, Writes
    <2>2. Calm /\ Wrote(s, 1, slot[s].isSendPending, slot[s].isClosing, slot[s].isTornDown)
      BY <1>14, <1>e
    <2>3. Went(t, "so_recheck", frame[t].client, frame[t].sess, frame[t].id, frame[t].ret)
      BY <1>5, <2>1
    <2> QED BY <1>0, <1>2, <1>3, <2>1, <2>2, <2>3, SMTT(30) DEF Tokens
  <1>15. CASE SendPostRecheck(t)
    <2> DEFINE l == IF S(t).isClosing THEN "so_undo" ELSE "so_call"
    <2>1. pc[t] = "so_recheck" /\ slot' = slot /\ Calm /\ Went(t, l, frame[t].client, frame[t].sess, frame[t].id, frame[t].ret)
      BY <1>5, <1>8, <1>15 DEF SendPostRecheck
    <2> QED BY <1>0, <1>2, <1>3, <2>1, SMTT(30) DEF Tokens
  <1>16. CASE SendPostUndo(t)
    <2>1. pc[t] = "so_undo" /\ Step(t, "so_reset")
      BY <1>2, <1>16 DEF SendPostUndo, Writes
    <2>2. Calm /\ Wrote(s, -1, slot[s].isSendPending, slot[s].isClosing, slot[s].isTornDown)
      BY <1>16, <1>f
    <2>3. Went(t, "so_reset", frame[t].client, frame[t].sess, frame[t].id, frame[t].ret)
      BY <1>5, <2>1
    <2> QED BY <1>0, <1>2, <1>3, <2>1, <2>2, <2>3, SMTT(30) DEF Tokens
  <1>17. CASE SendPostFailed(t)
    <2>1. pc[t] = "so_failed" /\ Step(t, "readId")
      BY <1>2, <1>17 DEF SendPostFailed, Writes
    <2>2. Calm /\ Wrote(s, 0, FALSE, slot[s].isClosing, slot[s].isTornDown)
      BY <1>17, <1>d
    <2>3. Went(t, "readId", frame[t].client, frame[t].sess, frame[t].id, frame[t].ret)
      BY <1>5, <2>1
    <2> QED BY <1>0, <1>2, <1>3, <2>1, <2>2, <2>3, SMTT(30) DEF Tokens
  <1>18. ~SendPostCall(t)
    BY DEF SendPostCall
  <1> QED BY <1>9, <1>10, <1>11, <1>12, <1>13, <1>14, <1>15, <1>16, <1>17, <1>18 DEF SendPost

(* A count of zero: nothing is in flight, being posted or being handled.   *)
LEMMA CountZero ==
  ASSUME TypeInv, Records, IoAccounting, NEW s \in Slots, slot[s].ioCount = 0
  PROVE  OpsOn(s) = {} /\ \A t \in Threads : ~Posting(t, s) /\ ~Handling(t, s)
  <1> DEFINE P == {t \in Threads : Posting(t, s)}
             H == {t \in Threads : Handling(t, s)}
  <1>1. /\ IsFiniteSet(P) /\ IsFiniteSet(H) /\ IsFiniteSet(OpsOn(s))
        /\ Cardinality(P) \in Nat /\ Cardinality(H) \in Nat /\ Cardinality(OpsOn(s)) \in Nat
    BY ThreadsFinite, OpsFinite
  <1>2. 0 = Cardinality(OpsOn(s)) + Cardinality(P) + Cardinality(H)
    BY DEF IoAccounting
  <1>3. Cardinality(P) = 0 /\ Cardinality(H) = 0 /\ Cardinality(OpsOn(s)) = 0
    <2> HIDE DEF P, H
    <2> QED BY <1>1, <1>2, SMT
  <1>4. P = {} /\ H = {} /\ OpsOn(s) = {}
    BY <1>1, <1>3, FS_EmptySet
  <1> QED BY <1>4

(* The session a thread works on is in the map while it is not torn down. *)
LEMMA NotTornMapped ==
  ASSUME SessionInv, NEW t \in Threads, NEW s \in Slots, s = Sess(t),
         pc[t] \in SessLabels \ {"init", "insert"}, ~slot[s].isTornDown
  PROVE  Mapped(s)
  <1>0. /\ TypeInv /\ ThreadInv /\ Tokens /\ Records /\ Teardown /\ IdsOnce /\ Places /\ IoAccounting
        /\ CtlOf(t, pc[t], frame[t])
    BY Parts
  <1>1. Begun(s)
    BY <1>0, AtSess DEF SessLabels, Labels, HandlerLabels, FindLabels
  <1>2. ~Listed(s)
    BY <1>0, <1>1 DEF Places
  <1>3. ASSUME NEW u \in Threads, OnHand(u, s) PROVE FALSE
    <2>1. CASE pc[u] = "init"
      <3>1. u = Acceptor
        BY <1>0, <2>1, FrameTyped DEF CtlOf, AcceptLabels
      <3> QED BY <1>0, <1>1, <1>3, <2>1, <3>1 DEF Places, OnHand, S, Sess
    <2>2. CASE pc[u] = "insert"
      <3>1. u = Acceptor /\ t # Acceptor
        BY <1>0, <2>2, FrameTyped DEF CtlOf, AcceptLabels
      <3>2. Uses(t, s) /\ Sess(Acceptor) = s
        BY <1>3, <3>1 DEF Uses, OnHand, SessLabels, Labels, FindLabels, HandlerLabels
      <3> QED BY <1>0, <2>2, <3>1, <3>2 DEF Places
    <2>3. CASE pc[u] = "rm_push"
      BY <1>0, <1>3, <2>3 DEF Teardown, TearingDown, OnHand, S
    <2> QED BY <1>3, <2>1, <2>2, <2>3 DEF OnHand
  <1> QED BY <1>0, <1>2, <1>3 DEF Places

(* removeSession, up to the end of the loop that empties the ring.         *)
LEMMA RemoveQuiet ==
  ASSUME SessionInv, NEW t \in Threads,
         \/ ReadId(t) \/ RemoveFind(t) \/ RemoveMark(t) \/ RemoveClosing(t)
         \/ RemoveCount(t) \/ RemoveCas(t) \/ RemoveDrain(t)
  PROVE  Quiet(t)
  <1>0. /\ TypeInv /\ ThreadInv /\ Tokens /\ Records /\ Teardown /\ IdsOnce /\ Places /\ IoAccounting
        /\ CtlOf(t, pc[t], frame[t])
    BY Parts
  <1>1. /\ pc[t] \in {"readId", "rm_find", "rm_mark", "rm_closing", "rm_count", "rm_cas", "rm_drain"}
        /\ pc[t] \notin HandlerLabels
        /\ pc[t] # "rm_find" => pc[t] \in SessLabels
    BY DEF ReadId, RemoveFind, RemoveMark, RemoveClosing, RemoveCount, RemoveCas, RemoveDrain, Reads, Writes, HandlerLabels, SessLabels, Labels, FindLabels
  <1>2. pc[t] # "rm_find" => Sess(t) \in Slots
    BY <1>0, <1>1, AtSess
  <1>3. \A q \in Slots : /\ slot[q].isClosing \in BOOLEAN /\ slot[q].isTornDown \in BOOLEAN
                         /\ slot[q].ioCount \in Int
    BY <1>0, SlotTyped
  <1>4. ASSUME Return(t)
        PROVE  Went(t, frame[t].ret, frame[t].client, NoSlot, NoId, "idle") /\ frame[t].ret \in Rets
    BY <1>0, <1>1, <1>4, ReturnWent
  <1>5. ASSUME NEW l, Step(t, l)
        PROVE  Went(t, l, frame[t].client, frame[t].sess, frame[t].id, frame[t].ret)
    BY <1>0, <1>5, StepWent
  <1>6. ASSUME NEW l0, Reads(t, l0)
        PROVE  pc[t] = l0 /\ slot' = slot /\ Calm
    BY <1>6 DEF Reads, Calm, kernel, history
  <1>7. ASSUME NEW s \in Slots, NEW l0, Writes(t, l0, s, [slot[s] EXCEPT !.isClosing = TRUE])
        PROVE  Calm /\ Wrote(s, 0, slot[s].isSendPending, TRUE, slot[s].isTornDown)
    BY <1>0, <1>7, WritesWrote
  <1>8. ASSUME NEW s \in Slots, NEW l0, Writes(t, l0, s, [slot[s] EXCEPT !.isTornDown = TRUE])
        PROVE  Calm /\ Wrote(s, 0, slot[s].isSendPending, slot[s].isClosing, TRUE)
    BY <1>0, <1>8, WritesWrote
  <1>b. RemoveDrain(t) => Wrote(Sess(t), 0, S(t).isSendPending, S(t).isClosing, S(t).isTornDown)
    <2> SUFFICES ASSUME RemoveDrain(t)
                 PROVE  Wrote(Sess(t), 0, S(t).isSendPending, S(t).isClosing, S(t).isTornDown)
      OBVIOUS
    <2>1. PICK s \in Slots : s = Sess(t)
      BY <1>2 DEF RemoveDrain
    <2>2. slot' = [slot EXCEPT ![s].sendRing = Tail(slot[s].sendRing)]
      BY <1>0, <2>1, SMT DEF RemoveDrain, TypeInv, SharedTypes
    <2> QED BY <1>0, <2>1, <2>2, RingWrote DEF S
  <1> USE DEF Quiet, Calm, Went, Wrote, KeepsTokens, KeepsSession, KeepsCount, KeepsTeardown, KeepsPlace,
              KeepsHold, FindLabels, RecvTok, SendTok, Posting, Handling, Uses, One, Sess, S, AfterFind, AfterCount, Rets
  <1>9. ASSUME slot' = slot, Calm, Return(t) PROVE Quiet(t)
    BY <1>0, <1>1, <1>3, <1>4, <1>9, NoneApart, SMTT(30)
  <1>10. CASE ReadId(t)
    <2>1. pc[t] = "readId" /\ slot' = slot /\ Calm /\ CallRemove(t, S(t).sessionId, frame[t].mark, frame[t].ret)
      BY <1>6, <1>10 DEF ReadId
    <2>2. /\ S(t).sessionId \in Ids /\ frame[t].mark \in BOOLEAN /\ frame[t].ret \in Rets
          /\ frame[t].ret # "idle" <=> frame[t].client # NoSlot
      BY <1>0, <1>1, <2>1, AtSess, SlotTyped, FrameTyped DEF CtlOf, HandlerLabels
    <2>3. PICK f \in Frame : /\ Moves(t, "rm_find", f)
                             /\ Holds(f, frame[t].client, frame[t].sess, S(t).sessionId, frame[t].mark,
                                      frame[t].todo, frame[t].pkts, frame[t].ret)
      BY <1>0, <2>1, <2>2, CallRemoveOk
    <2>4. Went(t, "rm_find", frame[t].client, frame[t].sess, S(t).sessionId, frame[t].ret)
      BY <1>0, <2>3, MoveWent DEF Holds
    <2>5. frame[t].sess # NoSlot
      BY <1>0, <1>1, <2>1, AtSess, NoneApart
    <2> QED BY <1>0, <1>3, <2>1, <2>4, <2>5, SMTT(30)
  <1>11. CASE RemoveFind(t)
    <2> DEFINE s == sessionMap[frame[t].id]
               f == [frame[t] EXCEPT !.sess = s]
               l == IF frame[t].mark THEN "rm_mark" ELSE "rm_closing"
    <2>1. /\ pc[t] = "rm_find" /\ slot' = slot /\ Calm
          /\ s = NoSlot => Return(t)
          /\ s # NoSlot => frame' = [frame EXCEPT ![t].sess = s] /\ pc' = [pc EXCEPT ![t] = l]
      BY <1>11 DEF RemoveFind, Reads, Calm, kernel, history, Goto
    <2>2. CASE s # NoSlot
      <3>1. s \in Slots /\ Mapped(s) /\ slot[s].sessionId = frame[t].id
        <4>1. frame[t].id \in Ids
          BY <1>0, <2>1, FrameTyped DEF CtlOf, FindLabels
        <4> QED BY <1>0, <2>2, <4>1, NoneApart DEF TypeInv, SharedTypes, Places, Mapped, Begun
      <3>2. Went(t, l, frame[t].client, s, frame[t].id, frame[t].ret)
        <4>1. Moves(t, l, f)
          BY <1>0, <2>1, <2>2, SMTT(30) DEF Moves, ThreadInv
        <4> HIDE DEF s
        <4>2. Holds(f, frame[t].client, s, frame[t].id, frame[t].mark, frame[t].todo, frame[t].pkts, frame[t].ret)
          BY <1>0, <3>1, FrameHolds, SetSess
        <4> HIDE DEF f, l
        <4> QED BY <1>0, <4>1, <4>2, MoveWent DEF Holds
      <3>3. l \in {"rm_mark", "rm_closing"}
        OBVIOUS
      <3> HIDE DEF s, l
      <3> QED BY <1>0, <1>3, <2>1, <3>1, <3>2, <3>3, SMTT(30)
    <2> QED BY <1>9, <2>1, <2>2
  <1>12. CASE RemoveMark(t)
    <2>1. PICK s \in Slots : s = Sess(t)
      BY <1>1, <1>2, <1>12 DEF RemoveMark, Writes
    <2>2. pc[t] = "rm_mark" /\ Calm /\ Wrote(s, 0, slot[s].isSendPending, TRUE, slot[s].isTornDown)
      BY <1>7, <1>12, <2>1 DEF RemoveMark, Writes
    <2>3. Went(t, "rm_closing", frame[t].client, frame[t].sess, frame[t].id, frame[t].ret)
      BY <1>5, <1>12 DEF RemoveMark
    <2> QED BY <1>0, <1>3, <2>1, <2>2, <2>3, SMTT(30) DEF Teardown
  <1>13. CASE RemoveClosing(t)
    <2>1. /\ pc[t] = "rm_closing" /\ slot' = slot /\ Calm
          /\ S(t).isClosing => Step(t, "rm_count")
          /\ ~S(t).isClosing => Return(t)
      BY <1>6, <1>13 DEF RemoveClosing, GoOrReturn, Step
    <2>2. CASE S(t).isClosing
      <3>1. Went(t, "rm_count", frame[t].client, frame[t].sess, frame[t].id, frame[t].ret)
        BY <1>5, <2>1, <2>2
      <3> QED BY <1>0, <1>3, <2>1, <2>2, <3>1, SMTT(30) DEF Teardown
    <2> QED BY <1>9, <2>1, <2>2
  <1>14. CASE RemoveCount(t)
    <2>1. /\ pc[t] = "rm_count" /\ slot' = slot /\ Calm
          /\ S(t).ioCount = 0 => Step(t, "rm_cas")
          /\ S(t).ioCount # 0 => Return(t)
      BY <1>6, <1>14 DEF RemoveCount, GoOrReturn, Step
    <2>2. CASE S(t).ioCount = 0
      <3>1. PICK s \in Slots : s = Sess(t)
        BY <1>2, <2>1
      <3>2. Dead(s)
        <4>1. OpsOn(s) = {} /\ \A u \in Threads : ~Posting(u, s) /\ ~Handling(u, s)
          BY <1>0, <2>2, <3>1, CountZero
        <4> QED BY <1>0, <2>1, <3>1, <4>1 DEF Dead, Teardown
      <3>3. Went(t, "rm_cas", frame[t].client, frame[t].sess, frame[t].id, frame[t].ret)
        BY <1>5, <2>1, <2>2
      <3> QED BY <1>0, <1>3, <2>1, <3>1, <3>2, <3>3, SMTT(30) DEF Teardown
    <2> QED BY <1>9, <2>1, <2>2
  <1>15. CASE RemoveCas(t)
    <2>1. PICK s \in Slots : s = Sess(t)
      BY <1>1, <1>2, <1>15 DEF RemoveCas, Writes
    <2>2. /\ pc[t] = "rm_cas" /\ Calm /\ Wrote(s, 0, slot[s].isSendPending, slot[s].isClosing, TRUE)
          /\ ~slot[s].isTornDown => Step(t, "rm_drain")
          /\ slot[s].isTornDown => Return(t)
      BY <1>8, <1>15, <2>1 DEF RemoveCas, Writes, GoOrReturn, Step
    <2>3. Dead(s) /\ slot[s].sessionId = frame[t].id
      BY <1>0, <2>1, <2>2 DEF Teardown
    <2>4. CASE ~slot[s].isTornDown
      <3>1. Mapped(s) /\ slot[s].sessionId \notin closed
        BY <1>0, <2>1, <2>2, <2>4, NotTornMapped DEF Teardown, SessLabels, Labels, FindLabels, HandlerLabels
      <3>2. Went(t, "rm_drain", frame[t].client, frame[t].sess, frame[t].id, frame[t].ret)
        BY <1>5, <2>2, <2>4
      <3> QED BY <1>0, <1>3, <2>1, <2>2, <2>3, <2>4, <3>1, <3>2, SMTT(30)
    <2>5. CASE slot[s].isTornDown
      BY <1>0, <1>3, <1>4, <2>1, <2>2, <2>5, NoneApart, SMTT(30)
    <2> QED BY <2>4, <2>5
  <1>16. CASE RemoveDrain(t)
    <2>1. PICK s \in Slots : s = Sess(t)
      BY <1>2, <1>16 DEF RemoveDrain
    <2>2. pc[t] = "rm_drain" /\ Calm /\ UNCHANGED <<pc, frame>>
      BY <1>16 DEF RemoveDrain, Calm, kernel, history
    <2>3. Went(t, "rm_drain", frame[t].client, frame[t].sess, frame[t].id, frame[t].ret)
      BY <2>2 DEF Others
    <2> QED BY <1>0, <1>3, <1>16, <1>b, <2>1, <2>2, <2>3, SMTT(60) DEF Teardown, Places, TearingDown
  <1> QED BY <1>10, <1>11, <1>12, <1>13, <1>14, <1>15, <1>16

(* The handler of a completion. *)
LEMMA HandleQuiet ==
  ASSUME SessionInv, NEW w \in Workers, Handle(w)
  PROVE  Quiet(w)
  <1>0. /\ TypeInv /\ ThreadInv /\ Tokens /\ Records /\ Teardown /\ IdsOnce /\ Places /\ IoAccounting
        /\ CtlOf(w, pc[w], frame[w])
    BY Parts DEF Threads
  <1>1. w \in Threads /\ pc[w] \in HandlerLabels
    BY DEF Threads, Handle, RecvDone, SendDequeue, SendClear, SendMore, Decrement, Reads, Writes, HandlerLabels
  <1>2. PICK s \in Slots : s = frame[w].client
    BY <1>0, <1>1, AtHandler
  <1>3. frame[w] \in Frame /\ s # NoSlot
        /\ \A q \in Slots : /\ slot[q].isClosing \in BOOLEAN /\ slot[q].isSendPending \in BOOLEAN
                           /\ slot[q].ioCount \in Int
    BY <1>0, <1>1, <1>2, SlotTyped, FrameTyped, NoneApart
  <1>4. ASSUME NEW l, Step(w, l)
        PROVE  Went(w, l, frame[w].client, frame[w].sess, frame[w].id, frame[w].ret)
    BY <1>0, <1>1, <1>4, StepWent
  <1>5. ASSUME NEW l0, Reads(w, l0)
        PROVE  pc[w] = l0 /\ slot' = slot /\ Calm
    BY <1>5 DEF Reads, Calm, kernel, history
  <1>6. ASSUME NEW l0, Writes(w, l0, s, SetPending(slot[s], FALSE))
        PROVE  pc[w] = l0 /\ Calm /\ Wrote(s, 0, FALSE, slot[s].isClosing, slot[s].isTornDown)
    BY <1>0, <1>6, WritesWrote DEF Writes
  <1>7. ASSUME NEW l0, Writes(w, l0, s, AddIo(slot[s], -1))
        PROVE  pc[w] = l0 /\ Calm /\ Wrote(s, -1, slot[s].isSendPending, slot[s].isClosing, slot[s].isTornDown)
    BY <1>0, <1>7, -1 \in Int, WritesWrote DEF Writes
  <1>a. ASSUME NEW l, NEW f, Goto(w, l), frame' = [frame EXCEPT ![w] = f]
        PROVE  Went(w, l, f.client, f.sess, f.id, f.ret)
    BY <1>0, <1>1, <1>a, MoveWent DEF Moves, Goto
  <1> USE DEF Quiet, Calm, Went, Wrote, KeepsTokens, KeepsSession, KeepsCount, KeepsTeardown, KeepsPlace,
              KeepsHold, FindLabels, RecvTok, SendTok, Posting, Handling, Uses, One, Sess, S, AfterFind, AfterCount, Rets
  <1>8. CASE RecvDone(w)
    <2> DEFINE f == [frame[w] EXCEPT !.sess = s, !.todo = 0, !.ret = "dec"]
    <2>1. pc[w] = "recvLoop" /\ slot' = slot /\ Calm
      BY <1>5, <1>8 DEF RecvDone
    <2>2. frame' = [frame EXCEPT ![w] = f] /\ Goto(w, "rp_check")
      BY <1>0, <1>2, <1>8 DEF RecvDone, ThreadInv
    <2>3. 0 \in 0..MaxPerRecv /\ "dec" \in Rets
      BY SessionAssumption, SMT
    <2>4. Holds(f, frame[w].client, s, frame[w].id, frame[w].mark, 0, frame[w].pkts, "dec")
      BY <1>3, <2>3, PostFrame
    <2> HIDE DEF f
    <2>5. Went(w, "rp_check", frame[w].client, s, frame[w].id, "dec")
      BY <1>a, <2>2, <2>4 DEF Holds
    <2> QED BY <1>0, <1>2, <1>3, <2>1, <2>5, SMTT(30)
  <1>9. CASE SendDequeue(w)
    <2> DEFINE n == Min2(slot[s].sendPacketCount, Len(slot[s].sendRing))
               rest == SubSeq(slot[s].sendRing, n + 1, Len(slot[s].sendRing))
    <2>1. pc[w] = "dequeue" /\ Calm /\ Step(w, "clear")
      BY <1>9 DEF SendDequeue, Calm, kernel, history
    <2>a. slot' = [slot EXCEPT ![s].sendRing = rest]
      BY <1>2, <1>9 DEF SendDequeue
    <2> HIDE DEF rest
    <2>2. Wrote(s, 0, slot[s].isSendPending, slot[s].isClosing, slot[s].isTornDown)
      BY <1>0, <2>a, RingWrote
    <2>3. Went(w, "clear", frame[w].client, frame[w].sess, frame[w].id, frame[w].ret)
      BY <1>4, <2>1
    <2>4. slot[s].isSendPending
      BY <1>0, <1>1, <1>2, <2>1 DEF Tokens
    <2>5. ASSUME NEW q \in Slots PROVE KeepsTokens(w, q)
      <3>1. CASE q = s
        <4>1. RecvTok(w, s)' => RecvTok(w, s)
          BY <1>2, <2>1, <2>3, SMT
        <4>2. SendTok(w, s) /\ slot'[s].isSendPending
          BY <1>2, <2>1, <2>2, <2>4
        <4> QED BY <3>1, <4>1, <4>2
      <3>2. CASE q # s
        BY <1>2, <1>3, <2>1, <2>2, <2>3, <3>2, SMT
      <3> QED BY <3>1, <3>2
    <2> QED BY <1>2, <1>3, <2>1, <2>2, <2>3, <2>4, <2>5, SMT
  <1>10. CASE SendClear(w)
    <2>1. pc[w] = "clear" /\ Calm /\ Wrote(s, 0, FALSE, slot[s].isClosing, slot[s].isTornDown)
      BY <1>2, <1>6, <1>10 DEF SendClear
    <2>2. Went(w, "more", frame[w].client, frame[w].sess, frame[w].id, frame[w].ret)
      BY <1>4, <1>10 DEF SendClear
    <2> QED BY <1>0, <1>2, <1>3, <2>1, <2>2, SMTT(30) DEF Tokens
  <1>11. CASE SendMore(w)
    <2>1. pc[w] = "more" /\ slot' = slot /\ Calm
      BY <1>5, <1>11 DEF SendMore
    <2>2. CASE Step(w, "dec")
      <3>1. Went(w, "dec", frame[w].client, frame[w].sess, frame[w].id, frame[w].ret)
        BY <1>4, <2>2
      <3> QED BY <1>0, <1>2, <1>3, <2>1, <3>1, SMTT(30)
    <2>3. CASE frame' = [frame EXCEPT ![w].sess = s, ![w].ret = "dec"] /\ Goto(w, "so_xchg")
      <3> DEFINE f == [frame[w] EXCEPT !.sess = s, !.ret = "dec"]
      <3>1. frame' = [frame EXCEPT ![w] = f] /\ "dec" \in Rets
        BY <1>0, <2>3 DEF ThreadInv
      <3>2. Holds(f, frame[w].client, s, frame[w].id, frame[w].mark, frame[w].todo, frame[w].pkts, "dec")
        BY <1>3, <3>1, MoreFrame
      <3> HIDE DEF f
      <3>3. Went(w, "so_xchg", frame[w].client, s, frame[w].id, "dec")
        BY <1>a, <2>3, <3>1, <3>2 DEF Holds
      <3> QED BY <1>0, <1>2, <1>3, <2>1, <3>3, SMTT(30)
    <2> QED BY <1>2, <1>11, <2>2, <2>3 DEF SendMore
  <1>12. CASE Decrement(w)
    <2> DEFINE f == [frame[w] EXCEPT !.client = NoSlot, !.sess = s, !.ret = "idle"]
    <2>1. pc[w] = "dec" /\ Calm /\ Wrote(s, -1, slot[s].isSendPending, slot[s].isClosing, slot[s].isTornDown)
      BY <1>2, <1>7, <1>12 DEF Decrement
    <2>2. frame' = [frame EXCEPT ![w] = f] /\ Goto(w, "readId") /\ "idle" \in Rets
      BY <1>0, <1>2, <1>12 DEF Decrement, ThreadInv
    <2>3. Holds(f, NoSlot, s, frame[w].id, frame[w].mark, frame[w].todo, frame[w].pkts, "idle")
      BY <1>3, <2>2, DecrementFrame
    <2> HIDE DEF f
    <2>4. Went(w, "readId", NoSlot, s, frame[w].id, "idle")
      BY <1>a, <2>2, <2>3 DEF Holds
    <2> QED BY <1>0, <1>2, <1>3, <2>1, <2>4, NoneApart, SMTT(30)
  <1> QED BY <1>8, <1>9, <1>10, <1>11, <1>12 DEF Handle

(* onRecv answers, or gives a reason to close. *)
LEMMA OnRecvQuiet ==
  ASSUME SessionInv, NEW w \in Workers, OnRecvSend(w) \/ OnRecvClose(w)
  PROVE  Quiet(w)
  <1> DEFINE id == slot[frame[w].client].sessionId
  <1>0. /\ TypeInv /\ ThreadInv /\ Tokens /\ Records /\ Teardown /\ IdsOnce /\ Places /\ IoAccounting
        /\ CtlOf(w, pc[w], frame[w])
    BY Parts DEF Threads
  <1>1. /\ w \in Threads /\ pc[w] = "recvLoop" /\ slot' = slot /\ Calm
    BY DEF Threads, OnRecvSend, OnRecvClose, Condemn, Calm, kernel
  <1>2. frame[w].client \in Slots /\ frame[w].client # NoSlot /\ id \in Ids /\ frame[w] \in Frame
    BY <1>0, <1>1, AtHandler, SlotTyped, FrameTyped, NoneApart DEF HandlerLabels
  <1>3. \A q \in Slots : slot[q].isClosing \in BOOLEAN /\ slot[q].ioCount \in Int
    BY <1>0, SlotTyped
  <1> HIDE DEF id
  <1>4. \E l \in FindLabels, r \in {"recvLoop", "dec"} : Went(w, l, frame[w].client, frame[w].sess, id, r)
    <2>1. CASE OnRecvSend(w)
      <3> DEFINE p == <<id, packets>>
                 n == frame[w].todo - 1
                 f == [frame[w] EXCEPT !.id = id, !.pkts = <<p>>, !.todo = n, !.ret = "recvLoop"]
      <3>1. /\ frame[w].todo > 0 /\ Goto(w, "sp_find")
            /\ frame' = [frame EXCEPT ![w].id = id, ![w].pkts = <<<<id, packets>>>>,
                                      ![w].todo = @ - 1, ![w].ret = "recvLoop"]
        BY <2>1 DEF OnRecvSend, id
      <3>2. frame' = [frame EXCEPT ![w] = f]
        BY <1>0, <3>1 DEF ThreadInv
      <3>a. frame[w].todo \in 0..MaxPerRecv /\ packets \in 0..MaxPackets
        BY <1>0, <1>1, FrameTyped DEF TypeInv, SharedTypes
      <3>3. p \in Packet /\ n \in 0..MaxPerRecv /\ "recvLoop" \in Rets
        BY <1>2, <3>1, <3>a, SessionAssumption, SMT DEF Packet, Rets
      <3> HIDE DEF p, n
      <3>4. <<p>> \in Seq(Packet)
        BY <3>3, SMT
      <3>5. Holds(f, frame[w].client, frame[w].sess, id, frame[w].mark, n, <<p>>, "recvLoop")
        BY <1>2, <3>3, <3>4, AnswerFrame
      <3> HIDE DEF f
      <3>6. Moves(w, "sp_find", f)
        BY <3>1, <3>2 DEF Moves, Goto
      <3> QED BY <1>0, <1>1, <3>5, <3>6, MoveWent DEF Holds, FindLabels
    <2>2. CASE OnRecvClose(w)
      <3>1. PICK r \in {"recvLoop", "dec"} : CallRemove(w, id, TRUE, r)
        BY <2>2 DEF OnRecvClose, id
      <3>2. r \in Rets /\ (r # "idle" <=> frame[w].client # NoSlot) /\ pc[w] # "init" /\ TRUE \in BOOLEAN
        BY <1>1, <1>2 DEF Rets
      <3>3. PICK f \in Frame : /\ Moves(w, "rm_find", f)
                               /\ Holds(f, frame[w].client, frame[w].sess, id, TRUE,
                                        frame[w].todo, frame[w].pkts, r)
        BY <1>0, <1>1, <1>2, <3>1, <3>2, CallRemoveOk
      <3> QED BY <1>0, <1>1, <3>3, MoveWent DEF Holds, FindLabels
    <2> QED BY <2>1, <2>2
  <1>5. PICK l \in {"sp_find", "rm_find"}, r \in {"recvLoop", "dec"} : Went(w, l, frame[w].client, frame[w].sess, id, r)
    BY <1>4 DEF FindLabels
  <1>6. id = slot[frame[w].client].sessionId
    BY DEF id
  <1> USE DEF Quiet, Calm, Went, Wrote, KeepsTokens, KeepsSession, KeepsCount, KeepsTeardown, KeepsPlace,
              KeepsHold, FindLabels, RecvTok, SendTok, Posting, Handling, Uses, One, Sess, S, AfterFind, AfterCount, Rets
  <1> QED BY <1>0, <1>1, <1>2, <1>3, <1>5, <1>6, SMTT(30)

(* The application sends and disconnects. *)
LEMMA AppQuiet ==
  ASSUME SessionInv, NEW a \in Apps, NEW id \in Joined, AppSend(a, id) \/ AppDisconnect(a, id)
  PROVE  Quiet(a)
  <1>0. /\ TypeInv /\ ThreadInv /\ Tokens /\ Records /\ Teardown /\ IdsOnce /\ Places /\ IoAccounting
        /\ CtlOf(a, pc[a], frame[a])
    BY Parts DEF Threads
  <1>1. /\ a \in Threads /\ pc[a] = "idle" /\ slot' = slot /\ Calm /\ id \in Ids
    BY DEF Threads, AppSend, AppDisconnect, Condemn, Calm, kernel, Joined
  <1>2. /\ frame[a] \in Frame /\ frame[a].client = NoSlot /\ frame[a].ret = "idle"
    BY <1>0, <1>1, FrameTyped, IdleFrame DEF NoFrame
  <1>3. \A q \in Slots : slot[q].isClosing \in BOOLEAN /\ slot[q].ioCount \in Int
    BY <1>0, SlotTyped
  <1>4. \E l \in FindLabels : Went(a, l, frame[a].client, frame[a].sess, id, "idle")
    <2>1. CASE AppSend(a, id)
      <3> DEFINE p == <<id, packets>>
                 f == [frame[a] EXCEPT !.id = id, !.pkts = <<p>>]
      <3>1. frame' = [frame EXCEPT ![a] = f] /\ Goto(a, "sp_find")
        BY <1>0, <2>1 DEF ThreadInv, AppSend
      <3>2. p \in Packet
        BY <1>0, <1>1, SessionAssumption, SMTT(30) DEF Packet, TypeInv, SharedTypes
      <3> HIDE DEF p
      <3>3. <<p>> \in Seq(Packet)
        BY <3>2, SMT
      <3>4. Holds(f, frame[a].client, frame[a].sess, id, frame[a].mark, frame[a].todo, <<p>>, frame[a].ret)
        BY <1>1, <1>2, <3>3, SendFrame
      <3> HIDE DEF f
      <3> QED BY <1>0, <1>1, <1>2, <3>1, <3>4, MoveWent DEF Holds, Moves, Goto, FindLabels
    <2>2. CASE AppDisconnect(a, id)
      <3>1. CallRemove(a, id, TRUE, "idle")
        BY <2>2 DEF AppDisconnect
      <3>2. "idle" \in Rets /\ ("idle" # "idle" <=> frame[a].client # NoSlot) /\ pc[a] # "init" /\ TRUE \in BOOLEAN
        BY <1>1, <1>2 DEF Rets
      <3>3. PICK f \in Frame : /\ Moves(a, "rm_find", f)
                               /\ Holds(f, frame[a].client, frame[a].sess, id, TRUE,
                                        frame[a].todo, frame[a].pkts, "idle")
        BY <1>0, <1>1, <3>1, <3>2, CallRemoveOk
      <3> QED BY <1>0, <1>1, <3>3, MoveWent DEF Holds, FindLabels
    <2> QED BY <2>1, <2>2
  <1>5. PICK l \in {"sp_find", "rm_find"} : Went(a, l, frame[a].client, frame[a].sess, id, "idle")
    BY <1>4 DEF FindLabels
  <1> USE DEF Quiet, Calm, Went, Wrote, KeepsTokens, KeepsSession, KeepsCount, KeepsTeardown, KeepsPlace,
              KeepsHold, FindLabels, RecvTok, SendTok, Posting, Handling, Uses, One, Sess, S, AfterFind, AfterCount, Rets
  <1> QED BY <1>0, <1>1, <1>2, <1>3, <1>5, NoneApart, SMTT(30)

(* The accept thread tells the application. *)
LEMMA JoinQuiet ==
  ASSUME SessionInv, AcceptJoin
  PROVE  Quiet(Acceptor)
  <1>0. /\ Acceptor \in Threads /\ TypeInv /\ ThreadInv
    BY DEF Threads, SessionInv, TypeInv
  <1>1. pc[Acceptor] = "join" /\ slot' = slot /\ Calm /\ Step(Acceptor, "rp_check")
    BY DEF AcceptJoin, Reads, Calm, kernel, history
  <1>2. Went(Acceptor, "rp_check", frame[Acceptor].client, frame[Acceptor].sess, frame[Acceptor].id, frame[Acceptor].ret)
    BY <1>0, <1>1, StepWent
  <1>3. \A q \in Slots : slot[q].isClosing \in BOOLEAN /\ slot[q].ioCount \in Int
    BY <1>0, SlotTyped
  <1> USE DEF Quiet, Calm, Went, Wrote, KeepsTokens, KeepsSession, KeepsCount, KeepsTeardown, KeepsPlace,
              KeepsHold, FindLabels, RecvTok, SendTok, Posting, Handling, Uses, One, Sess, S, AfterFind, AfterCount, Rets
  <1> QED BY <1>0, <1>1, <1>2, <1>3, SMTT(30)

-----------------------------------------------------------------------------
(* Steps that move a slot *)

(* A move that leaves the slots and the operations alone keeps everything  *)
(* but the places.                                                         *)
Shifts(t) == /\ Others(t)
             /\ slot' = slot /\ io' = io /\ closed' = closed /\ left' = left
             /\ nextSessionId' = nextSessionId
             /\ \A s \in Slots : KeepsTokens(t, s) /\ KeepsSession(t, s) /\ KeepsCount(t, s)
             /\ KeepsTeardown(t)

(* Such a step keeps the invariant, if the places are right after it. *)
LEMMA ShiftStep ==
  ASSUME SessionInv, TypeInv', NEW t \in Threads, Shifts(t), Places'
  PROVE  SessionInv'
  <1>1. /\ TypeInv /\ Tokens /\ Records /\ Teardown /\ IdsOnce /\ IoAccounting
        /\ ThreadInv /\ ThreadInv'
    BY DEF SessionInv, TypeInv
  <1>2. /\ Others(t) /\ io' = io /\ closed' = closed /\ left' = left /\ KeepsOps(t)
        /\ nextSessionId' = nextSessionId
        /\ \A s \in Slots : KeepsTokens(t, s)
        /\ \A s \in Slots : KeepsSession(t, s)
        /\ \A s \in Slots : KeepsCount(t, s)
        /\ \A s \in Slots : slot'[s].sessionId = slot[s].sessionId
        /\ KeepsTeardown(t)
    BY DEF Shifts, KeepsOps, OpsOn
  <1>4. Tokens'
    BY <1>1, <1>2, TokensStep
  <1>5. Teardown'
    BY <1>1, <1>2, TeardownStep
  <1>6. IoAccounting'
    BY <1>1, <1>2, CountStep
  <1>8. IdsOnce' /\ Records'
    BY <1>1, <1>2, IdsStep, RecordsStep
  <1> QED BY <1>1, <1>4, <1>5, <1>6, <1>8 DEF SessionInv

(* The accept thread takes the top of the free list. *)
LEMMA PopStep ==
  ASSUME SessionInv, TypeInv', AcceptPop
  PROVE  SessionInv'
  <1>0. /\ Acceptor \in Threads
        /\ TypeInv /\ ThreadInv /\ Tokens /\ Records /\ Teardown /\ IdsOnce /\ Places /\ IoAccounting
        /\ CtlOf(Acceptor, pc[Acceptor], frame[Acceptor])
    BY Parts DEF Threads
  <1> DEFINE top == freeList[Len(freeList)]
  <1>1. /\ pc[Acceptor] = "idle" /\ freeList # <<>> /\ slot' = slot /\ sessionMap' = sessionMap
        /\ io' = io /\ closed' = closed /\ left' = left /\ nextSessionId' = nextSessionId
        /\ freeList' = SubSeq(freeList, 1, Len(freeList) - 1)
        /\ frame' = [frame EXCEPT ![Acceptor].sess = top] /\ Goto(Acceptor, "init")
    BY DEF AcceptPop, kernel, history
  <1>2. /\ Len(freeList) \in Nat \ {0} /\ Len(freeList') = Len(freeList) - 1
        /\ \A i \in 1..(Len(freeList) - 1) : freeList'[i] = freeList[i]
        /\ top \in Slots
    BY <1>0, <1>1, PopTyped DEF TypeInv, SharedTypes
  <1>3. PICK s \in Slots : s = top
    BY <1>2
  <1>4. Went(Acceptor, "init", frame[Acceptor].client, s, frame[Acceptor].id, frame[Acceptor].ret)
    <2> DEFINE f == [frame[Acceptor] EXCEPT !.sess = s]
    <2>1. Moves(Acceptor, "init", f)
      BY <1>0, <1>1, <1>3 DEF ThreadInv, Goto, Moves
    <2>2. Holds(f, frame[Acceptor].client, s, frame[Acceptor].id, frame[Acceptor].mark,
                frame[Acceptor].todo, frame[Acceptor].pkts, frame[Acceptor].ret)
      BY <1>0, FrameHolds, SetSess
    <2> HIDE DEF f
    <2> QED BY <1>0, <2>1, <2>2, MoveWent DEF Holds
  <1>5. \A q \in Slots : /\ slot[q].isClosing \in BOOLEAN /\ slot[q].isSendPending \in BOOLEAN
                         /\ slot[q].ioCount \in Int
    BY <1>0, SlotTyped
  <1>6. Shifts(Acceptor)
    BY <1>0, <1>1, <1>4, <1>5, SMTT(30) DEF Shifts, Went, KeepsTokens, KeepsSession, KeepsCount, KeepsTeardown, RecvTok, SendTok, Posting, Handling, One, Sess, S, AfterFind, AfterCount, Tokens
  <1>7. Listed(s)
    BY <1>2, <1>3 DEF Listed
  <1>8. ASSUME NEW q \in Slots PROVE Listed(q)' <=> Listed(q) /\ q # s
    <2>1. Listed(q)' <=> \E i \in 1..(Len(freeList) - 1) : freeList[i] = q
      BY <1>2 DEF Listed
    <2>2. \A i \in 1..Len(freeList) : i = Len(freeList) \/ i \in 1..(Len(freeList) - 1)
      BY <1>2, SMT
    <2>3. \A i \in 1..(Len(freeList) - 1) : i \in 1..Len(freeList) /\ i # Len(freeList) /\ Len(freeList) \in 1..Len(freeList)
      BY <1>2, SMT
    <2>4. \A i \in 1..(Len(freeList) - 1) : freeList[i] # s
      BY <1>0, <1>3, <2>3 DEF Places
    <2> QED BY <1>3, <2>1, <2>2, <2>3, <2>4 DEF Listed
  <1>9. ASSUME NEW q \in Slots
        PROVE  /\ Mapped(q)' = Mapped(q) /\ Begun(q)' = Begun(q)
               /\ \A u \in Threads : OnHand(u, q)' <=> OnHand(u, q) \/ (u = Acceptor /\ q = s)
    BY <1>0, <1>1, <1>4, SMTT(30) DEF Mapped, Begun, OnHand, Went, Others, Sess
  <1>10. Places'
    <2>1. \A i, j \in 1..Len(freeList') : freeList'[i] = freeList'[j] => i = j
      <3>1. \A i \in 1..Len(freeList') : i \in 1..Len(freeList) /\ freeList'[i] = freeList[i]
        BY <1>2, SMT
      <3> QED BY <1>0, <3>1 DEF Places
    <2>2. \A id \in Ids : sessionMap'[id] # NoSlot => slot'[sessionMap'[id]].sessionId = id
      BY <1>0, <1>1 DEF Places
    <2>3. /\ \A q \in Slots : Listed(q)' \/ Mapped(q)' \/ \E u \in Threads : OnHand(u, q)'
          /\ \A q \in Slots : Listed(q)' => ~Mapped(q)'
          /\ \A q \in Slots, u \in Threads : OnHand(u, q)' => ~Listed(q)' /\ ~Mapped(q)'
          /\ \A q \in Slots, u, v \in Threads : OnHand(u, q)' /\ OnHand(v, q)' => u = v
      BY <1>0, <1>7, <1>8, <1>9 DEF Places
    <2>4. ASSUME NEW u \in Threads, pc'[u] \in {"rm_drain", "rm_erase"} PROVE Mapped(Sess(u))'
      <3>1. u # Acceptor
        BY <1>4, <2>4 DEF Went
      <3>2. pc[u] = pc'[u] /\ frame'[u] = frame[u]
        BY <1>4, <3>1 DEF Went, Others
      <3> QED BY <1>0, <1>1, <2>4, <3>2 DEF Places, Mapped, Begun, Sess
    <2>5. \A q \in Slots : Listed(q)' /\ Begun(q)' => slot'[q].isTornDown
      BY <1>0, <1>1, <1>8, <1>9 DEF Places
    <2>6. Begun(s) => slot[s].isTornDown
      BY <1>0, <1>7 DEF Places
    <2>7. (pc[Acceptor] = "init" /\ Begun(Sess(Acceptor)) => S(Acceptor).isTornDown)'
      BY <1>1, <1>4, <2>6 DEF Went, Begun, Sess, S
    <2>8. pc'[Acceptor] # "insert"
      BY <1>4 DEF Went
    <2> QED BY <2>1, <2>2, <2>3, <2>4, <2>5, <2>7, <2>8, Zenon DEF Places
  <1> QED BY <1>0, <1>6, <1>10, ShiftStep

(* The accept thread puts the session into the map. *)
LEMMA InsertStep ==
  ASSUME SessionInv, TypeInv', AcceptInsert
  PROVE  SessionInv'
  <1>0. /\ Acceptor \in Threads
        /\ TypeInv /\ ThreadInv /\ Tokens /\ Records /\ Teardown /\ IdsOnce /\ Places /\ IoAccounting
        /\ CtlOf(Acceptor, pc[Acceptor], frame[Acceptor])
    BY Parts DEF Threads
  <1>1. /\ pc[Acceptor] = "insert" /\ slot' = slot /\ freeList' = freeList
        /\ io' = io /\ closed' = closed /\ left' = left /\ nextSessionId' = nextSessionId
        /\ sessionMap' = [sessionMap EXCEPT ![S(Acceptor).sessionId] = Sess(Acceptor)]
        /\ Step(Acceptor, "join")
    BY DEF AcceptInsert, kernel, history
  <1>2. Sess(Acceptor) \in Slots /\ Begun(Sess(Acceptor))
    BY <1>0, <1>1, AtSess DEF SessLabels, Labels, HandlerLabels, FindLabels
  <1>3. PICK s \in Slots : s = Sess(Acceptor) /\ Begun(s) /\ slot[s].sessionId \in Ids /\ s # NoSlot
    BY <1>0, <1>2, SlotTyped, NoneApart
  <1>4. Went(Acceptor, "join", frame[Acceptor].client, frame[Acceptor].sess, frame[Acceptor].id, frame[Acceptor].ret)
    BY <1>0, <1>1, StepWent
  <1>5. \A q \in Slots : /\ slot[q].isClosing \in BOOLEAN /\ slot[q].isSendPending \in BOOLEAN
                         /\ slot[q].ioCount \in Int
    BY <1>0, SlotTyped
  <1>6. Shifts(Acceptor)
    BY <1>0, <1>1, <1>4, <1>5, SMTT(30) DEF Shifts, Went, KeepsTokens, KeepsSession, KeepsCount, KeepsTeardown, RecvTok, SendTok, Posting, Handling, One, Sess, S, AfterFind, AfterCount, Tokens
  <1>7. OnHand(Acceptor, s)
    BY <1>1, <1>3 DEF OnHand
  <1>8. \A id \in Ids : sessionMap'[id] = IF id = slot[s].sessionId THEN s ELSE sessionMap[id]
    BY <1>0, <1>1, <1>3 DEF TypeInv, SharedTypes, S
  <1>9. ASSUME NEW q \in Slots
        PROVE  /\ Listed(q)' = Listed(q) /\ Begun(q)' = Begun(q)
               /\ Mapped(q)' <=> Mapped(q) \/ q = s
               /\ \A u \in Threads : OnHand(u, q)' <=> OnHand(u, q) /\ u # Acceptor
    <2>1. Listed(q)' = Listed(q) /\ Begun(q)' = Begun(q)
      BY <1>1 DEF Listed, Begun
    <2>2. Mapped(q)' <=> Mapped(q) \/ q = s
      <3>1. Begun(q) => slot[q].sessionId \in Ids
        BY <1>0, SlotTyped
      <3>2. Begun(q) /\ q # s => slot[q].sessionId # slot[s].sessionId
        BY <1>0, <1>3 DEF IdsOnce
      <3> QED BY <1>1, <1>3, <1>8, <2>1, <3>1, <3>2 DEF Mapped
    <2>3. \A u \in Threads : OnHand(u, q)' <=> OnHand(u, q) /\ u # Acceptor
      BY <1>0, <1>4, SMTT(30) DEF OnHand, Went, Others, Sess
    <2> QED BY <2>1, <2>2, <2>3
  <1>10. Places'
    <2>1. \A i, j \in 1..Len(freeList') : freeList'[i] = freeList'[j] => i = j
      BY <1>0, <1>1 DEF Places
    <2>2. \A id \in Ids : sessionMap'[id] # NoSlot => slot'[sessionMap'[id]].sessionId = id
      BY <1>0, <1>1, <1>3, <1>8 DEF Places
    <2>3. /\ \A q \in Slots : Listed(q)' \/ Mapped(q)' \/ \E u \in Threads : OnHand(u, q)'
          /\ \A q \in Slots : Listed(q)' => ~Mapped(q)'
          /\ \A q \in Slots, u \in Threads : OnHand(u, q)' => ~Listed(q)' /\ ~Mapped(q)'
          /\ \A q \in Slots, u, v \in Threads : OnHand(u, q)' /\ OnHand(v, q)' => u = v
      <3>1. \A q \in Slots : OnHand(Acceptor, q) => q = s
        BY <1>3 DEF OnHand
      <3>2. \A u \in Threads : OnHand(u, s) => u = Acceptor
        BY <1>0, <1>7 DEF Places
      <3> QED BY <1>0, <1>7, <1>9, <3>1, <3>2 DEF Places
    <2>4. ASSUME NEW u \in Threads, pc'[u] \in {"rm_drain", "rm_erase"} PROVE Mapped(Sess(u))'
      <3>1. u # Acceptor
        BY <1>4, <2>4 DEF Went
      <3>2. pc[u] = pc'[u] /\ frame'[u] = frame[u]
        BY <1>4, <3>1 DEF Went, Others
      <3>3. PICK q \in Slots : q = Sess(u)
        BY <1>0, <2>4, <3>2, AtSess DEF SessLabels, Labels, HandlerLabels, FindLabels
      <3>4. Mapped(q)
        BY <1>0, <2>4, <3>2, <3>3 DEF Places
      <3>5. Mapped(q)' /\ Sess(u)' = q
        BY <1>9, <3>2, <3>3, <3>4 DEF Sess
      <3> QED BY <3>5 DEF Mapped, Begun
    <2>5. \A q \in Slots : Listed(q)' /\ Begun(q)' => slot'[q].isTornDown
      BY <1>0, <1>1, <1>9 DEF Places
    <2>6. pc'[Acceptor] = "join"
      BY <1>4 DEF Went
    <2> QED BY <2>1, <2>2, <2>3, <2>4, <2>5, <2>6 DEF Places
  <1> QED BY <1>0, <1>6, <1>10, ShiftStep

(* The session map forgets the session. *)
LEMMA EraseStep ==
  ASSUME SessionInv, TypeInv', NEW t \in Threads, RemoveErase(t)
  PROVE  SessionInv'
  <1>0. /\ TypeInv /\ ThreadInv /\ Tokens /\ Records /\ Teardown /\ IdsOnce /\ Places /\ IoAccounting
        /\ CtlOf(t, pc[t], frame[t])
    BY Parts
  <1>1. /\ pc[t] = "rm_erase" /\ slot' = slot /\ freeList' = freeList
        /\ io' = io /\ closed' = closed /\ left' = left /\ nextSessionId' = nextSessionId
        /\ sessionMap' = [sessionMap EXCEPT ![S(t).sessionId] = NoSlot]
        /\ Step(t, "rm_push")
    BY DEF RemoveErase, kernel, history
  <1>2. Sess(t) \in Slots /\ Begun(Sess(t))
    BY <1>0, <1>1, AtSess DEF SessLabels, Labels, HandlerLabels, FindLabels
  <1>3. PICK s \in Slots : /\ s = Sess(t) /\ Begun(s) /\ slot[s].sessionId \in Ids /\ s # NoSlot
                           /\ Mapped(s) /\ slot[s].isTornDown
                           /\ Dead(s) /\ slot[s].sessionId = frame[t].id
    <2>1. Mapped(Sess(t)) /\ slot[Sess(t)].isTornDown /\ Dead(Sess(t)) /\ slot[Sess(t)].sessionId = frame[t].id
      BY <1>0, <1>1 DEF Places, Teardown, TearingDown, S, AfterCount, AfterFind
    <2> QED BY <1>0, <1>2, <2>1, SlotTyped, NoneApart
  <1>4. Went(t, "rm_push", frame[t].client, frame[t].sess, frame[t].id, frame[t].ret)
    BY <1>0, <1>1, StepWent
  <1>5. \A q \in Slots : /\ slot[q].isClosing \in BOOLEAN /\ slot[q].isSendPending \in BOOLEAN
                         /\ slot[q].ioCount \in Int
    BY <1>0, SlotTyped
  <1>6. Shifts(t)
    BY <1>0, <1>1, <1>3, <1>4, <1>5, SMTT(30) DEF Shifts, Went, KeepsTokens, KeepsSession, KeepsCount, KeepsTeardown, RecvTok, SendTok, Posting, Handling, One, Sess, S, AfterFind, AfterCount, Tokens, TearingDown
  <1>8. \A id \in Ids : sessionMap'[id] = IF id = slot[s].sessionId THEN NoSlot ELSE sessionMap[id]
    BY <1>0, <1>1, <1>3 DEF TypeInv, SharedTypes, S
  <1>9. ASSUME NEW q \in Slots
        PROVE  /\ Listed(q)' = Listed(q) /\ Begun(q)' = Begun(q)
               /\ Mapped(q)' <=> Mapped(q) /\ q # s
               /\ \A u \in Threads : OnHand(u, q)' <=> OnHand(u, q) \/ (u = t /\ q = s)
    <2>1. Listed(q)' = Listed(q) /\ Begun(q)' = Begun(q)
      BY <1>1 DEF Listed, Begun
    <2>2. Mapped(q)' <=> Mapped(q) /\ q # s
      <3>1. Begun(q) => slot[q].sessionId \in Ids
        BY <1>0, SlotTyped
      <3>2. Begun(q) /\ q # s => slot[q].sessionId # slot[s].sessionId
        BY <1>0, <1>3 DEF IdsOnce
      <3>3. q # NoSlot
        BY NoneApart
      <3> QED BY <1>1, <1>3, <1>8, <2>1, <3>1, <3>2, <3>3 DEF Mapped
    <2>3. \A u \in Threads : OnHand(u, q)' <=> OnHand(u, q) \/ (u = t /\ q = s)
      BY <1>0, <1>1, <1>3, <1>4, SMTT(30) DEF OnHand, Went, Others, Sess
    <2> QED BY <2>1, <2>2, <2>3
  <1>10. Places'
    <2>1. \A i, j \in 1..Len(freeList') : freeList'[i] = freeList'[j] => i = j
      BY <1>0, <1>1 DEF Places
    <2>2. \A id \in Ids : sessionMap'[id] # NoSlot => slot'[sessionMap'[id]].sessionId = id
      BY <1>0, <1>1, <1>8 DEF Places
    <2>3. /\ \A q \in Slots : Listed(q)' \/ Mapped(q)' \/ \E u \in Threads : OnHand(u, q)'
          /\ \A q \in Slots : Listed(q)' => ~Mapped(q)'
          /\ \A q \in Slots, u \in Threads : OnHand(u, q)' => ~Listed(q)' /\ ~Mapped(q)'
          /\ \A q \in Slots, u, v \in Threads : OnHand(u, q)' /\ OnHand(v, q)' => u = v
      <3>1. ~Listed(s) /\ \A u \in Threads : ~OnHand(u, s)
        BY <1>0, <1>3 DEF Places
      <3> QED BY <1>0, <1>9, <3>1 DEF Places
    <2>4. ASSUME NEW u \in Threads, pc'[u] \in {"rm_drain", "rm_erase"} PROVE Mapped(Sess(u))'
      <3>1. u # t
        BY <1>4, <2>4 DEF Went
      <3>2. pc[u] = pc'[u] /\ frame'[u] = frame[u]
        BY <1>4, <3>1 DEF Went, Others
      <3>3. PICK q \in Slots : q = Sess(u)
        BY <1>0, <2>4, <3>2, AtSess DEF SessLabels, Labels, HandlerLabels, FindLabels
      <3>4. Mapped(q) /\ q # s
        BY <1>0, <1>1, <1>3, <2>4, <3>1, <3>2, <3>3 DEF Places, Teardown, TearingDown
      <3>5. Mapped(q)' /\ Sess(u)' = q
        BY <1>9, <3>2, <3>3, <3>4 DEF Sess
      <3> QED BY <3>5 DEF Mapped, Begun
    <2>5. \A q \in Slots : Listed(q)' /\ Begun(q)' => slot'[q].isTornDown
      BY <1>0, <1>1, <1>9 DEF Places
    <2>6. ASSUME pc'[Acceptor] \in {"init", "insert"}
          PROVE  /\ Acceptor # t /\ pc[Acceptor] = pc'[Acceptor] /\ frame'[Acceptor] = frame[Acceptor]
      BY <1>4, <2>6, SMT DEF Went, Others, Threads
    <2>7. (pc[Acceptor] = "init" /\ Begun(Sess(Acceptor)) => S(Acceptor).isTornDown)'
      BY <1>0, <1>1, <2>6 DEF Places, Begun, Sess, S
    <2>8. (pc[Acceptor] = "insert" => /\ OpsOn(Sess(Acceptor)) = {}
                                      /\ \A u \in Threads \ {Acceptor} : ~Uses(u, Sess(Acceptor)))'
      <3> SUFFICES ASSUME pc'[Acceptor] = "insert"
                   PROVE  (/\ OpsOn(Sess(Acceptor)) = {}
                           /\ \A u \in Threads \ {Acceptor} : ~Uses(u, Sess(Acceptor)))'
        OBVIOUS
      <3>1. /\ OpsOn(Sess(Acceptor)) = {} /\ \A u \in Threads \ {Acceptor} : ~Uses(u, Sess(Acceptor))
        BY <1>0, <2>6 DEF Places
      <3>2. OpsOn(Sess(Acceptor))' = {}
        BY <1>1, <2>6, <3>1 DEF OpsOn, Sess
      <3>3. \A u \in Threads \ {Acceptor} : ~Uses(u, Sess(Acceptor))'
        BY <1>1, <1>4, <2>6, <3>1, SMT DEF Uses, Sess, Went, Others
      <3> QED BY <3>2, <3>3
    <2> QED BY <2>1, <2>2, <2>3, <2>4, <2>5, <2>7, <2>8, Zenon DEF Places
  <1> QED BY <1>0, <1>6, <1>10, ShiftStep

(* The slot goes back to the free list. *)
LEMMA PushStep ==
  ASSUME SessionInv, TypeInv', NEW t \in Threads, RemovePush(t)
  PROVE  SessionInv'
  <1>0. /\ TypeInv /\ ThreadInv /\ Tokens /\ Records /\ Teardown /\ IdsOnce /\ Places /\ IoAccounting
        /\ CtlOf(t, pc[t], frame[t])
    BY Parts
  <1>1. /\ pc[t] = "rm_push" /\ slot' = slot /\ sessionMap' = sessionMap
        /\ io' = io /\ closed' = closed /\ left' = left /\ nextSessionId' = nextSessionId
        /\ freeList' = Append(freeList, Sess(t))
        /\ Return(t)
    BY DEF RemovePush, kernel, history
  <1>2. Sess(t) \in Slots /\ Begun(Sess(t))
    BY <1>0, <1>1, AtSess DEF SessLabels, Labels, HandlerLabels, FindLabels
  <1>3. PICK s \in Slots : s = Sess(t) /\ Begun(s) /\ slot[s].isTornDown /\ OnHand(t, s)
    BY <1>0, <1>1, <1>2 DEF Teardown, TearingDown, S, OnHand
  <1>4. Went(t, frame[t].ret, frame[t].client, NoSlot, NoId, "idle") /\ frame[t].ret \in Rets
    BY <1>0, <1>1, ReturnWent DEF HandlerLabels
  <1>5. \A q \in Slots : /\ slot[q].isClosing \in BOOLEAN /\ slot[q].isSendPending \in BOOLEAN
                         /\ slot[q].ioCount \in Int
    BY <1>0, SlotTyped
  <1>6. Shifts(t)
    BY <1>0, <1>1, <1>4, <1>5, NoneApart, SMTT(30) DEF Shifts, Went, KeepsTokens, KeepsSession, KeepsCount, KeepsTeardown, RecvTok, SendTok, Posting, Handling, One, Sess, S, AfterFind, AfterCount, Tokens, Rets
  <1>7. /\ Len(freeList) \in Nat /\ Len(freeList') = Len(freeList) + 1 /\ freeList'[Len(freeList')] = s
        /\ \A i \in 1..Len(freeList) : freeList'[i] = freeList[i]
    BY <1>0, <1>1, <1>3, SMTT(30) DEF TypeInv, SharedTypes
  <1>8. ASSUME NEW q \in Slots PROVE Listed(q)' <=> Listed(q) \/ q = s
    <2>1. \A i \in 1..Len(freeList') : i = Len(freeList') \/ i \in 1..Len(freeList)
      BY <1>7, SMT
    <2>2. Len(freeList') \in 1..Len(freeList') /\ \A i \in 1..Len(freeList) : i \in 1..Len(freeList')
      BY <1>7, SMT
    <2> QED BY <1>7, <2>1, <2>2 DEF Listed
  <1>9. ASSUME NEW q \in Slots
        PROVE  /\ Mapped(q)' = Mapped(q) /\ Begun(q)' = Begun(q)
               /\ \A u \in Threads : OnHand(u, q)' <=> OnHand(u, q) /\ u # t
    BY <1>0, <1>1, <1>4, NoneApart, SMTT(30) DEF Mapped, Begun, OnHand, Went, Others, Sess, Rets
  <1>10. Places'
    <2>0. ~Listed(s) /\ ~Mapped(s) /\ \A u \in Threads : OnHand(u, s) => u = t
      BY <1>0, <1>3 DEF Places
    <2>1. \A i, j \in 1..Len(freeList') : freeList'[i] = freeList'[j] => i = j
      <3>1. \A i \in 1..Len(freeList') : i = Len(freeList') \/ i \in 1..Len(freeList)
        BY <1>7, SMT
      <3>2. \A i \in 1..Len(freeList) : freeList'[i] # s
        BY <1>7, <2>0 DEF Listed
      <3>3. \A i, j \in 1..Len(freeList) : freeList'[i] = freeList'[j] => i = j
        BY <1>0, <1>7 DEF Places
      <3> QED BY <1>7, <3>1, <3>2, <3>3
    <2>2. \A id \in Ids : sessionMap'[id] # NoSlot => slot'[sessionMap'[id]].sessionId = id
      BY <1>0, <1>1 DEF Places
    <2>3. /\ \A q \in Slots : Listed(q)' \/ Mapped(q)' \/ \E u \in Threads : OnHand(u, q)'
          /\ \A q \in Slots : Listed(q)' => ~Mapped(q)'
          /\ \A q \in Slots, u \in Threads : OnHand(u, q)' => ~Listed(q)' /\ ~Mapped(q)'
          /\ \A q \in Slots, u, v \in Threads : OnHand(u, q)' /\ OnHand(v, q)' => u = v
      <3>1. \A q \in Slots : OnHand(t, q) => q = s
        BY <1>3 DEF OnHand
      <3> QED BY <1>0, <1>8, <1>9, <2>0, <3>1 DEF Places
    <2>4. ASSUME NEW u \in Threads, pc'[u] \in {"rm_drain", "rm_erase"} PROVE Mapped(Sess(u))'
      <3>1. u # t
        BY <1>4, <2>4 DEF Went, Rets
      <3>2. pc[u] = pc'[u] /\ frame'[u] = frame[u]
        BY <1>4, <3>1 DEF Went, Others
      <3> QED BY <1>0, <1>1, <2>4, <3>2 DEF Places, Mapped, Begun, Sess
    <2>5. \A q \in Slots : Listed(q)' /\ Begun(q)' => slot'[q].isTornDown
      BY <1>0, <1>1, <1>3, <1>8, <1>9 DEF Places
    <2>6. ASSUME pc'[Acceptor] \in {"init", "insert"}
          PROVE  /\ Acceptor # t /\ pc[Acceptor] = pc'[Acceptor] /\ frame'[Acceptor] = frame[Acceptor]
      BY <1>4, <2>6, SMT DEF Went, Others, Threads, Rets
    <2>7. (pc[Acceptor] = "init" /\ Begun(Sess(Acceptor)) => S(Acceptor).isTornDown)'
      BY <1>0, <1>1, <2>6 DEF Places, Begun, Sess, S
    <2>8. (pc[Acceptor] = "insert" => /\ OpsOn(Sess(Acceptor)) = {}
                                      /\ \A u \in Threads \ {Acceptor} : ~Uses(u, Sess(Acceptor)))'
      <3> SUFFICES ASSUME pc'[Acceptor] = "insert"
                   PROVE  (/\ OpsOn(Sess(Acceptor)) = {}
                           /\ \A u \in Threads \ {Acceptor} : ~Uses(u, Sess(Acceptor)))'
        OBVIOUS
      <3>1. /\ OpsOn(Sess(Acceptor)) = {} /\ \A u \in Threads \ {Acceptor} : ~Uses(u, Sess(Acceptor))
        BY <1>0, <2>6 DEF Places
      <3>2. OpsOn(Sess(Acceptor))' = {}
        BY <1>1, <2>6, <3>1 DEF OpsOn, Sess
      <3>4. Sess(Acceptor) # NoSlot
        BY <1>0, <2>6, AtSess, NoneApart DEF SessLabels, Labels, HandlerLabels, FindLabels, Threads
      <3>3. \A u \in Threads \ {Acceptor} : ~Uses(u, Sess(Acceptor))'
        BY <1>1, <1>4, <2>6, <3>1, <3>4, SMT DEF Uses, Sess, Went, Others
      <3> QED BY <3>2, <3>3
    <2> QED BY <2>1, <2>2, <2>3, <2>4, <2>5, <2>7, <2>8, Zenon DEF Places
  <1> QED BY <1>0, <1>6, <1>10, ShiftStep

(* The socket is closed and the application told. *)
LEMMA CloseStep ==
  ASSUME SessionInv, TypeInv', NEW t \in Threads, RemoveClose(t)
  PROVE  SessionInv'
  <1>0. /\ TypeInv /\ ThreadInv /\ Tokens /\ Records /\ Teardown /\ IdsOnce /\ Places /\ IoAccounting
        /\ CtlOf(t, pc[t], frame[t])
    BY Parts
  <1>1. /\ pc[t] = "rm_drain" /\ slot' = slot /\ io' = io /\ UNCHANGED tables
        /\ closed' = closed \cup {S(t).sessionId}
        /\ left' = [left EXCEPT ![S(t).sessionId] = @ + 1]
        /\ Step(t, "rm_erase")
    BY DEF RemoveClose
  <1>2. Sess(t) \in Slots /\ Begun(Sess(t))
    BY <1>0, <1>1, AtSess DEF SessLabels, Labels, HandlerLabels, FindLabels
  <1>3. PICK s \in Slots : /\ s = Sess(t) /\ Begun(s) /\ slot[s].sessionId \in Ids
                           /\ Mapped(s) /\ slot[s].isTornDown /\ slot[s].sessionId \notin closed
    <2>1. Mapped(Sess(t)) /\ slot[Sess(t)].isTornDown /\ slot[Sess(t)].sessionId \notin closed
      BY <1>0, <1>1 DEF Places, Teardown, TearingDown, S
    <2> QED BY <1>0, <1>2, <2>1, SlotTyped
  <1>4. Went(t, "rm_erase", frame[t].client, frame[t].sess, frame[t].id, frame[t].ret)
    BY <1>0, <1>1, StepWent
  <1>a. frame' = frame /\ \A u \in Threads : pc'[u] = IF u = t THEN "rm_erase" ELSE pc[u]
    BY <1>0, <1>1 DEF Step, Goto, ThreadInv
  <1>5. \A q \in Slots : /\ slot[q].isClosing \in BOOLEAN /\ slot[q].isSendPending \in BOOLEAN
                         /\ slot[q].ioCount \in Int
    BY <1>0, SlotTyped
  <1>6. /\ \A q \in Slots : KeepsTokens(t, q)
        /\ \A q \in Slots : KeepsSession(t, q)
        /\ \A q \in Slots : KeepsCount(t, q)
        /\ Others(t) /\ KeepsPlace(t) /\ KeepsOps(t)
    BY <1>0, <1>1, <1>3, <1>4, <1>5, SMTT(30) DEF Went, KeepsTokens, KeepsSession, KeepsCount, KeepsPlace, KeepsOps, OpsOn, Uses, RecvTok, SendTok, Posting, Handling, One, Sess, S, AfterFind, AfterCount, Tokens
  <1>7. Tokens' /\ IoAccounting' /\ Records'
    BY <1>0, <1>1, <1>6, TokensStep, CountStep, RecordsStep
  <1>8. Places'
    BY <1>0, <1>1, <1>6, PlacesStep DEF TypeInv, tables
  <1>9. IdsOnce'
    <2>1. slot[s].sessionId < nextSessionId
      BY <1>0, <1>3 DEF TypeInv, SharedPtrs
    <2> QED BY <1>0, <1>1, <1>3, <2>1 DEF IdsOnce, Begun, S, tables
  <1>10. Teardown'
    <2>0. \A q \in Slots : Begun(q) /\ slot[q].sessionId = slot[s].sessionId => q = s
      BY <1>0, <1>3 DEF IdsOnce
    <2>1. \A q : Dead(q) => Dead(q)'
      BY <1>1, <1>4, SMT DEF Dead, OpsOn, Went, Others, Sess
    <2>2. ASSUME NEW u \in Threads
          PROVE  /\ pc'[u] = "rm_count" => S(u)'.isClosing
                 /\ pc'[u] \in AfterCount => Dead(Sess(u))'
                 /\ TearingDown(u)' => S(u)'.isTornDown
                 /\ pc'[u] = "rm_drain" => S(u)'.sessionId \notin closed'
                 /\ pc'[u] \in AfterFind => S(u)'.sessionId = frame'[u].id
      <3>1. Sess(u)' = Sess(u) /\ S(u)' = S(u) /\ frame'[u] = frame[u]
        BY <1>1, <1>a DEF Sess, S
      <3>2. (pc'[u] = "rm_erase" /\ pc[u] = "rm_drain") \/ pc'[u] = pc[u]
        BY <1>1, <1>a
      <3>3. pc'[u] \in AfterCount => Dead(Sess(u))
        BY <1>0, <3>2 DEF Teardown, AfterCount
      <3>4. pc'[u] \in AfterCount => Dead(Sess(u))'
        BY <1>1, <1>a, <2>1, <3>3 DEF Dead, OpsOn, Sess
      <3>5. pc'[u] = "rm_drain" => S(u)'.sessionId \notin closed'
        <4> SUFFICES ASSUME pc'[u] = "rm_drain" PROVE S(u).sessionId \notin closed \cup {slot[s].sessionId}
          BY <1>1, <1>3, <3>1 DEF S
        <4>1. u # t /\ pc[u] = "rm_drain"
          BY <1>a
        <4>2. Sess(u) \in Slots /\ Begun(Sess(u))
          BY <1>0, <4>1, AtSess DEF SessLabels, Labels, HandlerLabels, FindLabels
        <4>3. Sess(u) # s
          BY <1>0, <1>1, <1>3, <4>1 DEF Teardown, TearingDown
        <4> QED BY <1>0, <2>0, <4>1, <4>2, <4>3 DEF Teardown, S
      <3>6. /\ pc'[u] = "rm_count" => S(u)'.isClosing
            /\ TearingDown(u)' => S(u)'.isTornDown
            /\ pc'[u] \in AfterFind => S(u)'.sessionId = frame'[u].id
        BY <1>0, <3>1, <3>2 DEF Teardown, TearingDown, AfterFind
      <3> QED BY <3>4, <3>5, <3>6
    <2>3. \A u, v \in Threads : TearingDown(u)' /\ TearingDown(v)' /\ Sess(u)' = Sess(v)' => u = v
      <3>1. \A u \in Threads : TearingDown(u)' <=> TearingDown(u)
        BY <1>1, <1>a DEF TearingDown
      <3>2. \A u \in Threads : Sess(u)' = Sess(u)
        BY <1>a DEF Sess
      <3> QED BY <1>0, <3>1, <3>2 DEF Teardown
    <2>4. \A q \in Slots : slot'[q].isTornDown => Dead(q)'
      BY <1>0, <1>1, <2>1 DEF Teardown
    <2>5. \A q \in Slots : slot'[q].sessionId \in closed' => slot'[q].isTornDown
      <3>1. \A q \in Slots : slot[q].sessionId = slot[s].sessionId => Begun(q)
        BY <1>3, NoneApart DEF Begun
      <3> QED BY <1>0, <1>1, <1>3, <2>0, <3>1 DEF Teardown, S
    <2>6. \A id \in Ids : left'[id] = IF id \in closed' THEN 1 ELSE 0
      <3>1. left \in [Ids -> Nat] /\ left[slot[s].sessionId] = 0
        BY <1>0, <1>3 DEF Teardown, TypeInv, SharedTypes
      <3>2. \A id \in Ids : left'[id] = IF id = slot[s].sessionId THEN 0 + 1 ELSE left[id]
        BY <1>1, <1>3, <3>1 DEF S
      <3>3. 0 + 1 = 1
        BY SMT
      <3> QED BY <1>0, <1>1, <1>3, <3>2, <3>3 DEF Teardown, S
    <2> QED BY <2>2, <2>3, <2>4, <2>5, <2>6, Zenon DEF Teardown
  <1> QED BY <1>7, <1>8, <1>9, <1>10 DEF SessionInv

-----------------------------------------------------------------------------
(* Steps that post an operation or dequeue one *)

(* Operations come and go, and the rest stays. *)
LEMMA IoStep ==
  ASSUME SessionInv, TypeInv', NEW t \in Threads, Others(t), slot' = slot, UNCHANGED tables,
         closed' = closed, left' = left, KeepsOps(t), KeepsTeardown(t), KeepsPlace(t),
         \A s \in Slots : KeepsSession(t, s) /\ KeepsTally(t, s), Tokens', Records'
  PROVE  SessionInv'
  <1>1. /\ TypeInv /\ Tokens /\ Records /\ Teardown /\ IdsOnce /\ Places /\ IoAccounting
        /\ ThreadInv /\ ThreadInv'
    BY DEF SessionInv, TypeInv
  <1>2. /\ freeList' = freeList /\ sessionMap' = sessionMap /\ nextSessionId' = nextSessionId
        /\ \A s \in Slots : KeepsSession(t, s)
        /\ \A s \in Slots : KeepsTally(t, s)
        /\ \A s \in Slots : slot'[s].sessionId = slot[s].sessionId
    BY DEF tables
  <1>3. Teardown'
    BY <1>1, <1>2, TeardownStep
  <1>4. IoAccounting'
    BY <1>1, <1>2, TallyStep
  <1>5. Places'
    BY <1>1, <1>2, PlacesStep
  <1>6. IdsOnce'
    BY <1>1, <1>2, IdsStep
  <1> QED BY <1>3, <1>4, <1>5, <1>6 DEF SessionInv

(* The operation is posted. *)
LEMMA PostStep ==
  ASSUME SessionInv, TypeInv', NEW t \in Threads, NEW kind,
         \/ pc[t] = "rp_call" /\ kind = "recv"
         \/ pc[t] = "so_call" /\ kind = "send",
         Post(t, kind)
  PROVE  SessionInv'
  <1>0. /\ TypeInv /\ ThreadInv /\ Tokens /\ Records /\ Teardown /\ IdsOnce /\ Places /\ IoAccounting
        /\ CtlOf(t, pc[t], frame[t])
    BY Parts
  <1>1. /\ pc[t] \in SessLabels /\ pc[t] \notin HandlerLabels
        /\ pc[t] = "rp_call" => frame[t].ret # "recvLoop"
    BY <1>0 DEF HandlerLabels, SessLabels, Labels, FindLabels, CtlOf, RecvPostLabels
  <1>2. PICK s \in Slots : s = Sess(t)
    BY <1>0, <1>1, AtSess
  <1> DEFINE r == [kind |-> kind, slot |-> Sess(t), id |-> S(t).sessionId, pkts |-> frame[t].pkts]
  <1>3. /\ io' = io \cup {r} /\ slot' = slot /\ closed' = closed /\ left' = left /\ UNCHANGED tables
        /\ Return(t)
    BY DEF Post, history
  <1>r. r.slot = s /\ r.kind = kind /\ r.id = slot[s].sessionId /\ kind \in {"recv", "send"}
    BY <1>2 DEF S
  <1> HIDE DEF r
  <1>4. Went(t, frame[t].ret, frame[t].client, NoSlot, NoId, "idle") /\ frame[t].ret \in Rets
    BY <1>0, <1>1, <1>3, ReturnWent
  <1>5. \A q \in Slots : /\ slot[q].isClosing \in BOOLEAN /\ slot[q].isSendPending \in BOOLEAN
                         /\ slot[q].ioCount \in Int
    BY <1>0, SlotTyped
  <1>6. /\ OpsOf(s, kind) = {} /\ r \notin io /\ ~Dead(s)
        /\ kind = "send" => slot[s].isSendPending
    <2>1. OpsOf(s, kind) = {} /\ (kind = "send" => slot[s].isSendPending)
      BY <1>0, <1>2 DEF Tokens, RecvTok, SendTok
    <2>2. r \notin io
      BY <1>r, <2>1 DEF OpsOf
    <2>3. ~Dead(s)
      BY <1>2 DEF Dead
    <2> QED BY <2>1, <2>2, <2>3
  <1>7. Records'
    <2>1. IsFiniteSet(io')
      BY <1>0, <1>3, FS_AddElement DEF Records
    <2>2. \A p \in io' : p.id = slot'[p.slot].sessionId
      BY <1>0, <1>3, <1>r DEF Records
    <2>3. \A p, q \in io' : q.slot = p.slot /\ q.kind = p.kind => q = p
      <3>1. \A p \in io : ~(p.slot = s /\ p.kind = kind)
        BY <1>6 DEF OpsOf
      <3> QED BY <1>0, <1>3, <1>r, <3>1 DEF Records
    <2> QED BY <2>1, <2>2, <2>3 DEF Records
  <1>8. ASSUME NEW q \in Slots
        PROVE  /\ OpsOf(q, "recv")' = IF q = s /\ kind = "recv" THEN OpsOf(q, "recv") \cup {r} ELSE OpsOf(q, "recv")
               /\ OpsOf(q, "send")' = IF q = s /\ kind = "send" THEN OpsOf(q, "send") \cup {r} ELSE OpsOf(q, "send")
               /\ OpsOn(q)' = IF q = s THEN OpsOn(q) \cup {r} ELSE OpsOn(q)
    BY <1>3, <1>r DEF OpsOf, OpsOn
  <1>9. Tokens'
    <2>1. ASSUME NEW q \in Slots, NEW u \in Threads
          PROVE  /\ RecvTok(u, q)' => RecvTok(u, q) /\ ~(u = t /\ kind = "recv")
                 /\ SendTok(u, q)' => SendTok(u, q) /\ u # t
      <3>1. CASE u = t
        <4>1. ~SendTok(u, q)'
          BY <1>4, <3>1, NoneApart, SMT DEF SendTok, Sess, Went, Rets
        <4>2. RecvTok(u, q)' => frame[t].client = q /\ frame[t].ret = "recvLoop"
          BY <1>4, <3>1, NoneApart, SMT DEF RecvTok, Sess, Went, Rets
        <4>3. frame[t].client = q /\ frame[t].ret = "recvLoop" => RecvTok(t, q) /\ kind # "recv"
          BY <1>1 DEF RecvTok
        <4> QED BY <3>1, <4>1, <4>2, <4>3
      <3>2. CASE u # t
        BY <1>4, <3>2 DEF Went, Others, RecvTok, SendTok, Sess
      <3> QED BY <3>1, <3>2
    <2>2. /\ kind = "recv" => RecvTok(t, s)
          /\ kind = "send" => SendTok(t, s)
      BY <1>2 DEF RecvTok, SendTok
    <2>3. ASSUME NEW q \in Slots, NEW u \in Threads, RecvTok(u, q)' PROVE OpsOf(q, "recv")' = {}
      <3>1. OpsOf(q, "recv") = {} /\ RecvTok(u, q) /\ ~(u = t /\ kind = "recv")
        BY <1>0, <2>1, <2>3 DEF Tokens
      <3>2. ~(q = s /\ kind = "recv")
        BY <1>0, <2>2, <3>1 DEF Tokens
      <3> QED BY <1>8, <3>1, <3>2
    <2>4. ASSUME NEW q \in Slots, NEW u \in Threads, SendTok(u, q)'
          PROVE  OpsOf(q, "send")' = {} /\ slot'[q].isSendPending
      <3>1. OpsOf(q, "send") = {} /\ slot[q].isSendPending /\ SendTok(u, q) /\ u # t
        BY <1>0, <2>1, <2>4 DEF Tokens
      <3>2. ~(q = s /\ kind = "send")
        BY <1>0, <2>2, <3>1 DEF Tokens
      <3> QED BY <1>3, <1>8, <3>1, <3>2
    <2>5. ASSUME NEW q \in Slots, OpsOf(q, "send")' # {} PROVE slot'[q].isSendPending
      BY <1>0, <1>3, <1>6, <1>8, <2>5 DEF Tokens
    <2>6. \A q \in Slots : /\ \A u, v \in Threads : RecvTok(u, q)' /\ RecvTok(v, q)' => u = v
                           /\ \A u, v \in Threads : SendTok(u, q)' /\ SendTok(v, q)' => u = v
      BY <1>0, <2>1 DEF Tokens
    <2> QED BY <2>3, <2>4, <2>5, <2>6, Zenon DEF Tokens
  <1>10. ASSUME NEW q \in Slots PROVE KeepsTally(t, q)
    <2>1. IsFiniteSet(OpsOn(q)) /\ Cardinality(OpsOn(q)) \in Nat
      BY <1>0, OpsFinite
    <2>2. Cardinality(OpsOn(q))' = Cardinality(OpsOn(q)) + One(q = s)
      <3>1. CASE q = s
        <4>1. r \notin OpsOn(q) /\ One(q = s) = 1
          BY <1>6, <3>1 DEF OpsOn, One
        <4>2. Cardinality(OpsOn(q) \cup {r}) = Cardinality(OpsOn(q)) + 1
          BY <2>1, <4>1, FS_AddElement
        <4> QED BY <1>8, <3>1, <4>1, <4>2
      <3>2. CASE q # s
        <4>1. One(q = s) = 0
          BY <3>2 DEF One
        <4> QED BY <1>8, <2>1, <3>2, <4>1, SMT
      <3> QED BY <3>1, <3>2
    <2>3. One(Posting(t, q)) = One(q = s) /\ One(Posting(t, q)') = 0 /\ One(Handling(t, q)') = One(Handling(t, q))
      BY <1>2, <1>4, NoneApart, SMT DEF One, Posting, Handling, Went, Sess, Rets
    <2>4. One(q = s) \in Nat /\ One(Handling(t, q)) \in Nat
      BY DEF One
    <2>5. Cardinality(OpsOn(q))' \in Nat
      BY <2>1, <2>2, <2>4, SMT
    <2>6. slot[q].ioCount = slot[q].ioCount + (Cardinality(OpsOn(q)) + One(q = s)) - Cardinality(OpsOn(q))
                            + 0 - One(q = s) + One(Handling(t, q)) - One(Handling(t, q))
      BY <1>5, <2>1, <2>4, SMT
    <2> QED BY <1>3, <2>2, <2>3, <2>5, <2>6 DEF KeepsTally
  <1>11. KeepsOps(t)
    <2>1. Uses(t, s) /\ ~Dead(s)
      BY <1>2, <1>6 DEF Uses
    <2> QED BY <1>8, <2>1 DEF KeepsOps
  <1>12. /\ Others(t) /\ KeepsTeardown(t) /\ KeepsPlace(t)
         /\ \A q \in Slots : KeepsSession(t, q)
    BY <1>0, <1>3, <1>4, <1>5, NoneApart, SMTT(30) DEF Went, KeepsTeardown, KeepsPlace, KeepsSession, Handling, Uses, Sess, AfterFind, AfterCount, Rets
  <1> QED BY <1>0, <1>3, <1>7, <1>9, <1>10, <1>11, <1>12, IoStep

(* A worker takes a completion: the label and the frame it gets.           *)
LEMMA GetWent ==
  ASSUME TypeInv, NEW w \in Workers, NEW r \in io, Get(w, r)
  PROVE  /\ pc[w] = "idle" /\ frame[w] = NoFrame
         /\ io' = io \ {r} /\ slot' = slot /\ closed' = closed /\ left' = left /\ UNCHANGED tables
         /\ \E l \in {"dec", "recvLoop", "dequeue"} :
              /\ Went(w, l, r.slot, NoSlot, NoId, "idle")
              /\ l = "recvLoop" => r.kind = "recv"
              /\ l = "dequeue" => r.kind = "send"
  <1>1. /\ w \in Threads /\ pc[w] = "idle" /\ ThreadInv
        /\ io' = io \ {r} /\ slot' = slot /\ closed' = closed /\ left' = left /\ UNCHANGED tables
    BY DEF Threads, Get, GetZero, GetRecv, GetSend, Dequeue, TypeInv
  <1>2. frame[w] = NoFrame /\ NoFrame \in Frame /\ r.slot \in Slots \cup {NoSlot}
        /\ NoFrame.sess = NoSlot /\ NoFrame.id = NoId /\ NoFrame.ret = "idle"
    BY <1>1, IdleFrame, NoFrameTyped DEF TypeInv, SharedTypes, NoFrame
  <1>3. ASSUME NEW l, NEW f, Goto(w, l), frame' = [frame EXCEPT ![w] = f]
        PROVE  Went(w, l, f.client, f.sess, f.id, f.ret)
    BY <1>1, <1>3, MoveWent DEF Moves, Goto
  <1>4. CASE GetZero(w, r)
    <2> DEFINE f == [frame[w] EXCEPT !.client = r.slot, !.mark = TRUE]
    <2>1. Goto(w, "dec") /\ frame' = [frame EXCEPT ![w] = f]
      BY <1>1, <1>4 DEF GetZero, Dequeue, ThreadInv
    <2>2. Holds(f, r.slot, frame[w].sess, frame[w].id, TRUE, frame[w].todo, frame[w].pkts, frame[w].ret)
      BY <1>2, ZeroFrame
    <2> HIDE DEF f
    <2>3. Went(w, "dec", r.slot, NoSlot, NoId, "idle")
      BY <1>2, <1>3, <2>1, <2>2 DEF Holds
    <2> QED BY <1>1, <1>2, <2>3
  <1>5. CASE GetRecv(w, r)
    <2> DEFINE f == [frame[w] EXCEPT !.client = r.slot, !.todo = MaxPerRecv]
    <2>1. Goto(w, "recvLoop") /\ frame' = [frame EXCEPT ![w] = f] /\ r.kind = "recv"
      BY <1>1, <1>5 DEF GetRecv, Dequeue, ThreadInv
    <2>a. MaxPerRecv \in 0..MaxPerRecv
      BY SessionAssumption, SMT
    <2>2. Holds(f, r.slot, frame[w].sess, frame[w].id, frame[w].mark, MaxPerRecv, frame[w].pkts, frame[w].ret)
      BY <1>2, <2>a, RecvFrame
    <2> HIDE DEF f
    <2>3. Went(w, "recvLoop", r.slot, NoSlot, NoId, "idle")
      BY <1>2, <1>3, <2>1, <2>2 DEF Holds
    <2> QED BY <1>1, <1>2, <2>1, <2>3
  <1>6. CASE GetSend(w, r)
    <2> DEFINE f == [frame[w] EXCEPT !.client = r.slot]
    <2>1. Goto(w, "dequeue") /\ frame' = [frame EXCEPT ![w] = f] /\ r.kind = "send"
      BY <1>1, <1>6 DEF GetSend, Dequeue, ThreadInv
    <2>2. Holds(f, r.slot, frame[w].sess, frame[w].id, frame[w].mark, frame[w].todo, frame[w].pkts, frame[w].ret)
      BY <1>1, <1>2, FrameHolds, SetClient
    <2> HIDE DEF f
    <2>3. Went(w, "dequeue", r.slot, NoSlot, NoId, "idle")
      BY <1>2, <1>3, <2>1, <2>2 DEF Holds
    <2> QED BY <1>1, <1>2, <2>1, <2>3
  <1> QED BY <1>4, <1>5, <1>6 DEF Get

(* A completion is dequeued. *)
LEMMA GetStep ==
  ASSUME SessionInv, TypeInv', NEW w \in Workers, NEW r \in io, Get(w, r)
  PROVE  SessionInv'
  <1>0. /\ TypeInv /\ ThreadInv /\ Tokens /\ Records /\ Teardown /\ IdsOnce /\ Places /\ IoAccounting
        /\ CtlOf(w, pc[w], frame[w])
    BY Parts DEF Threads
  <1>1. /\ w \in Threads /\ pc[w] = "idle" /\ frame[w] = NoFrame
        /\ io' = io \ {r} /\ slot' = slot /\ closed' = closed /\ left' = left /\ UNCHANGED tables
    BY <1>0, GetWent DEF Threads
  <1>2. PICK l \in {"dec", "recvLoop", "dequeue"} :
              /\ Went(w, l, r.slot, NoSlot, NoId, "idle")
              /\ l = "recvLoop" => r.kind = "recv"
              /\ l = "dequeue" => r.kind = "send"
    BY <1>0, GetWent
  <1>3. PICK s \in Slots : s = r.slot /\ s # NoSlot
    BY <1>0, NoneApart DEF TypeInv, SharedTypes
  <1>4. /\ r.kind \in {"recv", "send"} /\ r \in OpsOn(s) /\ r \in OpsOf(s, r.kind)
        /\ \A p \in OpsOf(s, r.kind) : p = r
    BY <1>0, <1>3 DEF TypeInv, SharedTypes, OpsOn, OpsOf, Records
  <1>5. \A q \in Slots : /\ slot[q].isClosing \in BOOLEAN /\ slot[q].isSendPending \in BOOLEAN
                         /\ slot[q].ioCount \in Int
    BY <1>0, SlotTyped
  <1>6. Records'
    <2>1. IsFiniteSet(io')
      BY <1>0, <1>1, FS_Subset DEF Records
    <2> QED BY <1>0, <1>1, <2>1 DEF Records
  <1>7. ASSUME NEW q \in Slots
        PROVE  /\ OpsOf(q, "recv")' = OpsOf(q, "recv") \ {r}
               /\ OpsOf(q, "send")' = OpsOf(q, "send") \ {r}
               /\ OpsOn(q)' = OpsOn(q) \ {r}
               /\ q # s => r \notin OpsOn(q)
    BY <1>1, <1>3 DEF OpsOf, OpsOn
  <1>8. Tokens'
    <2>1. ASSUME NEW q \in Slots, NEW u \in Threads
          PROVE  /\ RecvTok(u, q)' => RecvTok(u, q) \/ (u = w /\ q = s /\ r.kind = "recv")
                 /\ SendTok(u, q)' => SendTok(u, q) \/ (u = w /\ q = s /\ r.kind = "send")
      <3>1. CASE u = w
        BY <1>2, <1>3, <3>1, NoneApart, SMT DEF RecvTok, SendTok, Sess, Went
      <3>2. CASE u # w
        BY <1>2, <3>2 DEF Went, Others, RecvTok, SendTok, Sess
      <3> QED BY <3>1, <3>2
    <2>2. /\ r.kind = "recv" => \A u \in Threads : ~RecvTok(u, s)
          /\ r.kind = "send" => slot[s].isSendPending /\ \A u \in Threads : ~SendTok(u, s)
      BY <1>0, <1>4 DEF Tokens
    <2>3. ASSUME NEW q \in Slots, NEW u \in Threads, RecvTok(u, q)' PROVE OpsOf(q, "recv")' = {}
      <3>1. CASE RecvTok(u, q)
        BY <1>0, <1>7, <3>1 DEF Tokens
      <3>2. CASE q = s /\ r.kind = "recv"
        BY <1>4, <1>7, <3>2
      <3> QED BY <2>1, <2>3, <3>1, <3>2
    <2>4. ASSUME NEW q \in Slots, NEW u \in Threads, SendTok(u, q)'
          PROVE  OpsOf(q, "send")' = {} /\ slot'[q].isSendPending
      <3>1. CASE SendTok(u, q)
        BY <1>0, <1>1, <1>7, <3>1 DEF Tokens
      <3>2. CASE q = s /\ r.kind = "send"
        BY <1>1, <1>4, <1>7, <2>2, <3>2
      <3> QED BY <2>1, <2>4, <3>1, <3>2
    <2>5. ASSUME NEW q \in Slots, OpsOf(q, "send")' # {} PROVE slot'[q].isSendPending
      BY <1>0, <1>1, <1>7, <2>5 DEF Tokens
    <2>6. \A q \in Slots : /\ \A u, v \in Threads : RecvTok(u, q)' /\ RecvTok(v, q)' => u = v
                           /\ \A u, v \in Threads : SendTok(u, q)' /\ SendTok(v, q)' => u = v
      BY <1>0, <2>1, <2>2 DEF Tokens
    <2> QED BY <2>3, <2>4, <2>5, <2>6, Zenon DEF Tokens
  <1>9. ASSUME NEW q \in Slots PROVE KeepsTally(w, q)
    <2>1. IsFiniteSet(OpsOn(q)) /\ Cardinality(OpsOn(q)) \in Nat
      BY <1>0, OpsFinite
    <2>2. Cardinality(OpsOn(q))' = Cardinality(OpsOn(q)) - One(q = s) /\ Cardinality(OpsOn(q))' \in Nat
      <3>1. CASE q = s
        <4>1. r \in OpsOn(q) /\ One(q = s) = 1
          BY <1>4, <3>1 DEF One
        <4>2. Cardinality(OpsOn(q) \ {r}) = Cardinality(OpsOn(q)) - 1 /\ Cardinality(OpsOn(q) \ {r}) \in Nat
          BY <2>1, <4>1, FS_RemoveElement, FS_CardinalityType
        <4> QED BY <1>7, <3>1, <4>1, <4>2
      <3>2. CASE q # s
        <4>1. One(q = s) = 0
          BY <3>2 DEF One
        <4>2. OpsOn(q)' = OpsOn(q)
          BY <1>7, <3>2
        <4> QED BY <2>1, <4>1, <4>2, SMT
      <3> QED BY <3>1, <3>2
    <2>3. One(Posting(w, q)) = 0 /\ One(Posting(w, q)') = 0 /\ One(Handling(w, q)') = One(q = s) /\ One(Handling(w, q)) = 0
      BY <1>1, <1>2, <1>3, NoneApart, SMT DEF One, Posting, Handling, Went, Sess, NoFrame
    <2>4. One(q = s) \in Nat
      BY DEF One
    <2>5. slot[q].ioCount = slot[q].ioCount + (Cardinality(OpsOn(q)) - One(q = s)) - Cardinality(OpsOn(q))
                            + 0 - 0 + One(q = s) - 0
      BY <1>5, <2>1, <2>4, SMT
    <2> QED BY <1>1, <2>2, <2>3, <2>5 DEF KeepsTally
  <1>10. KeepsOps(w)
    BY <1>7 DEF KeepsOps
  <1>11. /\ Others(w) /\ KeepsTeardown(w) /\ KeepsPlace(w)
         /\ \A q \in Slots : KeepsSession(w, q)
    <2>1. OpsOn(s) # {} /\ ~Dead(s)
      BY <1>4 DEF Dead
    <2> QED BY <1>0, <1>1, <1>2, <1>3, <1>5, <2>1, NoneApart, SMTT(30) DEF Went, KeepsTeardown, KeepsPlace, KeepsSession, Handling, Uses, Sess, AfterFind, AfterCount
  <1> QED BY <1>0, <1>1, <1>6, <1>8, <1>9, <1>10, <1>11, IoStep

-----------------------------------------------------------------------------
(* The step that reuses a slot *)

(* The slot gets its next session while no other thread points to it.      *)
LEMMA InitStep ==
  ASSUME SessionInv, TypeInv', AcceptInit,
         \A t \in Threads \ {Acceptor} : ~Uses(t, Sess(Acceptor))
  PROVE  SessionInv'
  <1>0. /\ Acceptor \in Threads
        /\ TypeInv /\ ThreadInv /\ Tokens /\ Records /\ Teardown /\ IdsOnce /\ Places /\ IoAccounting
        /\ CtlOf(Acceptor, pc[Acceptor], frame[Acceptor])
    BY Parts DEF Threads
  <1>1. /\ pc[Acceptor] = "init"
        /\ slot' = [slot EXCEPT ![Sess(Acceptor)] = NewSlot]
        /\ nextSessionId' = nextSessionId + 1
        /\ Step(Acceptor, "insert")
        /\ sessionMap' = sessionMap /\ freeList' = freeList
        /\ io' = io /\ closed' = closed /\ left' = left
    BY DEF AcceptInit, NewSlot, kernel, history
  <1>2. PICK s \in Slots : s = Sess(Acceptor)
    BY <1>0, <1>1, AtSess DEF SessLabels, Labels, HandlerLabels, FindLabels
  <1>3. nextSessionId \in Ids /\ nextSessionId \in Nat /\ nextSessionId # NoId
    <2>1. nextSessionId < MaxSessions
      BY <1>0, <1>1 DEF CtlOf
    <2>2. nextSessionId \in Ids
      BY <1>0, <2>1, SessionAssumption, SMTT(30) DEF TypeInv, SharedTypes, Ids
    <2> QED BY <2>2, NoneApart
  <1>4. /\ NewSlot.sessionId = nextSessionId /\ NewSlot.ioCount = 0
        /\ NewSlot.isSendPending = FALSE /\ NewSlot.isClosing = FALSE /\ NewSlot.isTornDown = FALSE
    BY <1>0, <1>2, <1>3, NewSlotTyped, SlotTyped DEF S
  <1>5. slot'[s] = NewSlot /\ \A q \in Slots \ {s} : slot'[q] = slot[q]
    BY <1>0, <1>1, <1>2 DEF TypeInv, SharedTypes
  <1>6. /\ frame' = frame
        /\ \A u \in Threads : pc'[u] = IF u = Acceptor THEN "insert" ELSE pc[u]
    BY <1>0, <1>1 DEF Step, Goto, ThreadInv
  <1>7. \A u \in Threads \ {Acceptor} : frame[u].client # s /\ (frame[u].sess = s => pc[u] = "rm_find")
    BY <1>2 DEF Uses, Sess
  <1>8. frame[Acceptor].client = NoSlot /\ frame[Acceptor].client # s /\ OnHand(Acceptor, s)
    BY <1>0, <1>1, <1>2, NoneApart, SessionAssumption DEF CtlOf, OnHand
  <1>9. OpsOn(s) = {}
    <2>1. CASE Begun(s)
      BY <1>0, <1>1, <1>2, <2>1 DEF Places, Teardown, Dead, S
    <2>2. CASE ~Begun(s)
      BY <1>0, <2>2 DEF OpsOn, TypeInv, SharedPtrs
    <2> QED BY <2>1, <2>2
  <1>10. OpsOf(s, "recv") = {} /\ OpsOf(s, "send") = {}
    BY <1>9 DEF OpsOf, OpsOn
  <1>11. ASSUME NEW q \in Slots, Begun(q) PROVE slot[q].sessionId # nextSessionId
    BY <1>0, <1>3, <1>11, SlotTyped, NoneApart, SMTT(30) DEF TypeInv, SharedPtrs
  <1>12. Tokens'
    <2>1. ASSUME NEW q \in Slots, NEW u \in Threads
          PROVE  /\ RecvTok(u, q)' => (RecvTok(u, q) /\ q # s) \/ (u = Acceptor /\ q = s)
                 /\ SendTok(u, q)' => SendTok(u, q) /\ q # s
      <3>1. CASE u = Acceptor
        BY <1>1, <1>2, <1>6, <1>8, <3>1, SMT DEF RecvTok, SendTok, Sess
      <3>2. CASE u # Acceptor
        <4>1. /\ RecvTok(u, q)' <=> RecvTok(u, q)
              /\ SendTok(u, q)' <=> SendTok(u, q)
          BY <1>6, <3>2 DEF RecvTok, SendTok, Sess
        <4>2. ~RecvTok(u, s) /\ ~SendTok(u, s)
          BY <1>7, <3>2 DEF RecvTok, SendTok, Sess
        <4> QED BY <3>2, <4>1, <4>2
      <3> QED BY <3>1, <3>2
    <2>2. \A q \in Slots : OpsOf(q, "recv")' = OpsOf(q, "recv") /\ OpsOf(q, "send")' = OpsOf(q, "send")
      BY <1>1 DEF OpsOf
    <2>3. ASSUME NEW q \in Slots, NEW u \in Threads, RecvTok(u, q)' PROVE OpsOf(q, "recv")' = {}
      BY <1>0, <1>10, <2>1, <2>2, <2>3 DEF Tokens
    <2>4. ASSUME NEW q \in Slots, NEW u \in Threads, SendTok(u, q)'
          PROVE  OpsOf(q, "send")' = {} /\ slot'[q].isSendPending
      <3>1. SendTok(u, q) /\ q # s
        BY <2>1, <2>4
      <3> QED BY <1>0, <1>5, <2>2, <3>1 DEF Tokens
    <2>5. ASSUME NEW q \in Slots, OpsOf(q, "send")' # {} PROVE slot'[q].isSendPending
      <3>1. OpsOf(q, "send") # {} /\ q # s
        BY <1>10, <2>2, <2>5
      <3> QED BY <1>0, <1>5, <3>1 DEF Tokens
    <2>6. \A q \in Slots : /\ \A u, v \in Threads : RecvTok(u, q)' /\ RecvTok(v, q)' => u = v
                           /\ \A u, v \in Threads : SendTok(u, q)' /\ SendTok(v, q)' => u = v
      BY <1>0, <2>1 DEF Tokens
    <2> QED BY <2>3, <2>4, <2>5, <2>6, Zenon DEF Tokens
  <1>13. Records'
    <2>1. \A r \in io : r.slot \in Slots /\ r.slot # s
      BY <1>0, <1>9 DEF TypeInv, SharedTypes, OpsOn
    <2> QED BY <1>0, <1>1, <1>5, <2>1 DEF Records
  <1>14. \A q \in Slots : q # s /\ Dead(q) => Dead(q)'
    BY <1>1, <1>5, <1>6, SMT DEF Dead, OpsOn, Sess
  <1>15. Teardown'
    <2>1. ASSUME NEW u \in Threads, pc'[u] \in AfterFind
          PROVE  u # Acceptor \/ pc'[u] # "insert"
      BY <2>1 DEF AfterFind
    <2>2. ASSUME NEW u \in Threads, pc'[u] \in AfterFind
          PROVE  pc[u] = pc'[u] /\ frame'[u] = frame[u] /\ Sess(u)' = Sess(u) /\ Sess(u) \in Slots \ {s} /\ S(u)' = S(u)
      <3>1. u # Acceptor /\ pc[u] = pc'[u] /\ frame'[u] = frame[u]
        BY <1>6, <2>2 DEF AfterFind
      <3>2. Sess(u) \in Slots
        BY <1>0, <2>2, <3>1, AtSess DEF SessLabels, Labels, HandlerLabels, FindLabels, AfterFind
      <3>3. Sess(u) # s
        BY <1>7, <2>2, <3>1 DEF AfterFind, Sess
      <3> QED BY <1>5, <3>1, <3>2, <3>3 DEF Sess, S
    <2>3. ASSUME NEW u \in Threads
          PROVE  /\ pc'[u] = "rm_count" => S(u)'.isClosing
                 /\ pc'[u] \in AfterCount => Dead(Sess(u))'
                 /\ TearingDown(u)' => S(u)'.isTornDown
                 /\ pc'[u] = "rm_drain" => S(u)'.sessionId \notin closed'
                 /\ pc'[u] \in AfterFind => S(u)'.sessionId = frame'[u].id
      <3>1. CASE pc'[u] \in AfterFind
        <4>1. PICK q \in Slots : q = Sess(u) /\ q # s /\ Sess(u)' = q
          BY <2>2, <3>1
        <4>2. pc'[u] \in AfterCount => Dead(q)'
          BY <1>0, <1>14, <2>2, <3>1, <4>1 DEF Teardown
        <4>3. pc'[u] \in AfterCount => Dead(Sess(u))'
          BY <4>1, <4>2 DEF Dead, OpsOn
        <4> QED BY <1>0, <1>1, <2>2, <3>1, <4>3 DEF Teardown, TearingDown
      <3>2. CASE pc'[u] \notin AfterFind
        BY <3>2 DEF AfterFind, AfterCount, TearingDown
      <3> QED BY <3>1, <3>2
    <2>4. \A u, v \in Threads : TearingDown(u)' /\ TearingDown(v)' /\ Sess(u)' = Sess(v)' => u = v
      BY <1>0, <2>2 DEF Teardown, TearingDown, AfterFind
    <2>5. \A q \in Slots : slot'[q].isTornDown => Dead(q)'
      <3> SUFFICES ASSUME NEW q \in Slots, slot'[q].isTornDown PROVE Dead(q)'
        OBVIOUS
      <3>1. q # s /\ slot[q].isTornDown
        BY <1>4, <1>5
      <3>2. Dead(q)
        BY <1>0, <3>1 DEF Teardown
      <3> QED BY <1>14, <3>1, <3>2
    <2>6. nextSessionId \notin closed
      BY <1>0, <1>3, SMTT(30) DEF IdsOnce
    <2>7. \A q \in Slots : slot'[q].sessionId \in closed' => slot'[q].isTornDown
      BY <1>0, <1>1, <1>4, <1>5, <2>6 DEF Teardown
    <2>8. \A id \in Ids : left'[id] = IF id \in closed' THEN 1 ELSE 0
      BY <1>0, <1>1 DEF Teardown
    <2> QED BY <2>3, <2>4, <2>5, <2>7, <2>8, Zenon DEF Teardown
  <1>16. IdsOnce'
    <2>1. \A q1, q2 \in Slots : Begun(q1)' /\ slot'[q1].sessionId = slot'[q2].sessionId => q1 = q2
      <3> SUFFICES ASSUME NEW q1 \in Slots, NEW q2 \in Slots, Begun(q1)', slot'[q1].sessionId = slot'[q2].sessionId
                   PROVE  q1 = q2
        OBVIOUS
      <3>1. CASE q1 # s /\ q2 # s
        BY <1>0, <1>5, <3>1 DEF IdsOnce, Begun
      <3>2. CASE q1 = s /\ q2 # s
        <4>1. slot[q2].sessionId = nextSessionId /\ Begun(q2)
          BY <1>3, <1>4, <1>5, <3>2 DEF Begun
        <4> QED BY <1>11, <4>1
      <3>3. CASE q1 # s /\ q2 = s
        <4>1. slot[q1].sessionId = nextSessionId /\ Begun(q1)
          BY <1>3, <1>4, <1>5, <3>3 DEF Begun
        <4> QED BY <1>11, <4>1
      <3> QED BY <3>1, <3>2, <3>3
    <2>2. \A id \in closed' : id < nextSessionId'
      <3>1. \A id \in closed : id \in Nat /\ id < nextSessionId
        BY <1>0, NoneApart DEF IdsOnce, TypeInv, SharedTypes
      <3> QED BY <1>1, <1>3, <3>1, SMT
    <2> QED BY <2>1, <2>2 DEF IdsOnce
  <1>17. ASSUME NEW q \in Slots
         PROVE  /\ Listed(q)' = Listed(q)
                /\ Mapped(q)' <=> Mapped(q)
                /\ \A u \in Threads : OnHand(u, q)' <=> OnHand(u, q)
    <2>1. Listed(q)' = Listed(q)
      BY <1>1 DEF Listed
    <2>2. Mapped(q)' <=> Mapped(q)
      <3>1. CASE q # s
        BY <1>1, <1>5, <3>1 DEF Mapped, Begun
      <3>2. CASE q = s
        <4>1. ~Mapped(q)
          BY <1>0, <1>8, <3>2 DEF Places
        <4>2. sessionMap[nextSessionId] # s
          <5> SUFFICES ASSUME sessionMap[nextSessionId] = s PROVE FALSE
            OBVIOUS
          <5>1. slot[s].sessionId = nextSessionId
            BY <1>0, <1>3, NoneApart DEF Places
          <5> QED BY <1>3, <1>11, <5>1 DEF Begun
        <4> QED BY <1>1, <1>4, <1>5, <3>2, <4>1, <4>2 DEF Mapped
      <3> QED BY <3>1, <3>2
    <2>3. \A u \in Threads : OnHand(u, q)' <=> OnHand(u, q)
      BY <1>1, <1>6, SMT DEF OnHand, Sess
    <2> QED BY <2>1, <2>2, <2>3
  <1>18. Places'
    <2>1. \A i, j \in 1..Len(freeList') : freeList'[i] = freeList'[j] => i = j
      BY <1>0, <1>1 DEF Places
    <2>2. \A id \in Ids : sessionMap'[id] # NoSlot => slot'[sessionMap'[id]].sessionId = id
      <3> SUFFICES ASSUME NEW id \in Ids, sessionMap[id] # NoSlot PROVE slot'[sessionMap[id]].sessionId = id
        BY <1>1
      <3>1. sessionMap[id] \in Slots /\ slot[sessionMap[id]].sessionId = id
        BY <1>0 DEF Places, TypeInv, SharedTypes
      <3>2. sessionMap[id] # s
        <4> SUFFICES ASSUME sessionMap[id] = s PROVE FALSE
          OBVIOUS
        <4>1. Mapped(s)
          BY <3>1, NoneApart DEF Mapped, Begun
        <4> QED BY <1>0, <1>8, <4>1 DEF Places
      <3> QED BY <1>5, <3>1, <3>2
    <2>3. /\ \A q \in Slots : Listed(q)' \/ Mapped(q)' \/ \E u \in Threads : OnHand(u, q)'
          /\ \A q \in Slots : Listed(q)' => ~Mapped(q)'
          /\ \A q \in Slots, u \in Threads : OnHand(u, q)' => ~Listed(q)' /\ ~Mapped(q)'
          /\ \A q \in Slots, u, v \in Threads : OnHand(u, q)' /\ OnHand(v, q)' => u = v
      BY <1>0, <1>17 DEF Places
    <2>4. ASSUME NEW u \in Threads, pc'[u] \in {"rm_drain", "rm_erase"} PROVE Mapped(Sess(u))'
      <3>1. pc[u] = pc'[u] /\ Sess(u)' = Sess(u)
        BY <1>6, <2>4 DEF Sess
      <3>2. PICK q \in Slots : q = Sess(u)
        BY <1>0, <2>4, <3>1, AtSess DEF SessLabels, Labels, HandlerLabels, FindLabels
      <3>3. Mapped(q)'
        BY <1>0, <1>17, <2>4, <3>1, <3>2 DEF Places
      <3> QED BY <3>1, <3>2, <3>3 DEF Mapped, Begun
    <2>5. \A q \in Slots : Listed(q)' /\ Begun(q)' => slot'[q].isTornDown
      <3>1. ~Listed(s)
        BY <1>0, <1>8 DEF Places
      <3> QED BY <1>0, <1>5, <1>17, <3>1 DEF Places, Begun
    <2>6. pc'[Acceptor] = "insert"
      BY <1>0, <1>6
    <2>7. OpsOn(Sess(Acceptor))' = {}
      BY <1>1, <1>2, <1>6, <1>9 DEF OpsOn, Sess
    <2>8. \A u \in Threads \ {Acceptor} : ~Uses(u, Sess(Acceptor))'
      BY <1>2, <1>6, <1>7, SMT DEF Uses, Sess
    <2> QED BY <2>1, <2>2, <2>3, <2>4, <2>5, <2>6, <2>7, <2>8, Zenon DEF Places
  <1>19. IoAccounting'
    <2> SUFFICES ASSUME NEW q \in Slots
                 PROVE  slot'[q].ioCount = Cardinality(OpsOn(q)) + Cardinality({u \in Threads : Posting(u, q)'})
                                         + Cardinality({u \in Threads : Handling(u, q)'})
      BY <1>1 DEF IoAccounting, OpsOn
    <2>1. \A u \in Threads : (Posting(u, q)' <=> Posting(u, q)) /\ (Handling(u, q)' <=> Handling(u, q))
      BY <1>1, <1>6, SMT DEF Posting, Handling, Sess
    <2>2. CASE q # s
      <3>1. /\ {u \in Threads : Posting(u, q)'} = {u \in Threads : Posting(u, q)}
            /\ {u \in Threads : Handling(u, q)'} = {u \in Threads : Handling(u, q)}
        BY <2>1
      <3> QED BY <1>0, <1>5, <2>2, <3>1 DEF IoAccounting
    <2>3. CASE q = s
      <3>1. \A u \in Threads : ~Posting(u, s) /\ ~Handling(u, s)
        BY <1>1, <1>7, <1>8, SMT DEF Posting, Handling
      <3>2. {u \in Threads : Posting(u, q)'} = {} /\ {u \in Threads : Handling(u, q)'} = {} /\ OpsOn(q) = {}
        BY <1>9, <2>1, <2>3, <3>1
      <3>3. Cardinality({}) = 0 /\ 0 = 0 + 0 + 0
        BY FS_EmptySet, SMT
      <3> QED BY <1>4, <1>5, <2>3, <3>2, <3>3
    <2> QED BY <2>2, <2>3
  <1> QED BY <1>12, <1>13, <1>15, <1>16, <1>18, <1>19 DEF SessionInv

-----------------------------------------------------------------------------
(* The invariant holds in the beginning and is kept *)

(* Nothing is in flight and every slot is in the free list. *)
LEMMA InitInv == Init => SessionInv
  <1> SUFFICES ASSUME Init PROVE SessionInv
    OBVIOUS
  <1>1. TypeInv
    BY InitTypes
  <1>2. /\ \A t \in Threads : pc[t] = "idle" /\ frame[t].client = NoSlot /\ frame[t].sess = NoSlot
                              /\ frame[t].ret = "idle"
        /\ \A s \in Slots : /\ slot[s].sessionId = NoId /\ slot[s].ioCount = 0
                            /\ slot[s].isSendPending = FALSE /\ slot[s].isTornDown = FALSE
        /\ io = {} /\ closed = {}
    BY DEF Init, NoFrame, FreshSlot
  <1>3. \A s \in Slots : OpsOn(s) = {} /\ \A kind : OpsOf(s, kind) = {}
    BY <1>2 DEF OpsOn, OpsOf
  <1>4. Tokens
    BY <1>2, <1>3, NoneApart DEF Tokens, RecvTok, SendTok, Sess
  <1>5. Records
    BY <1>2, FS_EmptySet DEF Records
  <1>6. Teardown
    BY <1>2, NoneApart DEF Teardown, AfterFind, AfterCount, TearingDown, Init
  <1>7. IdsOnce
    BY <1>2 DEF IdsOnce, Begun
  <1>8. Places
    <2>1. Len(freeList) = SlotCount /\ \A i \in 1..SlotCount : freeList[i] = i
      BY SessionAssumption, SMT DEF Init, Slots
    <2>2. \A s \in Slots : Listed(s) /\ ~Mapped(s) /\ ~Begun(s)
      BY <1>2, <2>1 DEF Listed, Mapped, Begun, Slots
    <2>3. Acceptor \in Threads /\ \A t \in Threads : pc[t] = "idle"
      BY <1>2 DEF Threads
    <2>4. \A id \in Ids : sessionMap[id] = NoSlot
      BY DEF Init
    <2>5. \A i, j \in 1..Len(freeList) : freeList[i] = freeList[j] => i = j
      BY <2>1
    <2>6. \A t \in Threads : pc[t] \notin {"init", "insert", "rm_push", "rm_drain", "rm_erase"}
      BY <2>3
    <2>7. \A s \in Slots, t \in Threads : ~OnHand(t, s)
      BY <2>6 DEF OnHand
    <2>8. \A id \in Ids : sessionMap[id] # NoSlot => slot[sessionMap[id]].sessionId = id
      BY <2>4
    <2>9. /\ \A s \in Slots : Listed(s) \/ Mapped(s) \/ \E t \in Threads : OnHand(t, s)
          /\ \A s \in Slots : Listed(s) => ~Mapped(s)
          /\ \A s \in Slots, t \in Threads : OnHand(t, s) => ~Listed(s) /\ ~Mapped(s)
          /\ \A s \in Slots, t, u \in Threads : OnHand(t, s) /\ OnHand(u, s) => t = u
          /\ \A s \in Slots : Listed(s) /\ Begun(s) => slot[s].isTornDown
      BY <2>2, <2>7, Zenon
    <2>10. /\ \A t \in Threads : pc[t] \in {"rm_drain", "rm_erase"} => Mapped(Sess(t))
           /\ pc[Acceptor] = "init" /\ Begun(Sess(Acceptor)) => S(Acceptor).isTornDown
           /\ pc[Acceptor] = "insert" => /\ OpsOn(Sess(Acceptor)) = {}
                                         /\ \A t \in Threads \ {Acceptor} : ~Uses(t, Sess(Acceptor))
      <3>1. pc[Acceptor] \notin {"init", "insert"}
        BY <2>3
      <3> QED BY <2>6, <3>1
    <2> QED BY <2>5, <2>8, <2>9, <2>10, Zenon DEF Places
  <1>9. IoAccounting
    <2> SUFFICES ASSUME NEW s \in Slots
                 PROVE  slot[s].ioCount = Cardinality(OpsOn(s)) + Cardinality({t \in Threads : Posting(t, s)})
                                        + Cardinality({t \in Threads : Handling(t, s)})
      BY DEF IoAccounting
    <2> DEFINE A == {t \in Threads : Posting(t, s)}
               B == {t \in Threads : Handling(t, s)}
               C == OpsOn(s)
    <2>1. A = {} /\ B = {} /\ C = {}
      BY <1>2, <1>3, NoneApart DEF Posting, Handling
    <2> HIDE DEF A, B, C
    <2>2. Cardinality(A) = 0 /\ Cardinality(B) = 0 /\ Cardinality(C) = 0
      BY <2>1, FS_EmptySet
    <2>3. slot[s].ioCount = Cardinality(C) + Cardinality(A) + Cardinality(B)
      BY <1>2, <2>2
    <2> QED BY <2>3 DEF A, B, C
  <1> QED BY <1>1, <1>4, <1>5, <1>6, <1>7, <1>8, <1>9 DEF SessionInv

(* No step of any thread breaks it, but for the reuse of a slot that       *)
(* another thread still points to.                                         *)
LEMMA NextInv ==
  ASSUME SessionInv, [Next]_vars,
         AcceptInit => \A t \in Threads \ {Acceptor} : ~Uses(t, Sess(Acceptor))
  PROVE  SessionInv'
  <1>0. TypeInv' /\ Acceptor \in Threads /\ Workers \subseteq Threads /\ Apps \subseteq Threads
    BY NextTypes DEF SessionInv, Threads
  <1>1. CASE Accept
    BY <1>0, <1>1, PopStep, InitStep, InsertStep, JoinQuiet, QuietStep DEF Accept
  <1>2. ASSUME NEW t \in Threads, RecvPost(t) PROVE SessionInv'
    <2>1. CASE RecvPostCheck(t) \/ RecvPostInc(t) \/ RecvPostRecheck(t) \/ RecvPostUndo(t)
      BY <1>0, <2>1, RecvPostQuiet, QuietStep
    <2>2. CASE pc[t] = "rp_call" /\ Post(t, "recv")
      BY <1>0, <2>2, PostStep
    <2>3. CASE pc[t] = "rp_call" /\ PostFails(t, "readId")
      BY <1>0, <2>3, PostFailsQuiet, QuietStep
    <2> QED BY <1>2, <2>1, <2>2, <2>3 DEF RecvPost, RecvPostCall
  <1>3. ASSUME NEW t \in Threads, SendPacket(t) PROVE SessionInv'
    BY <1>0, <1>3, SendPacketQuiet, QuietStep
  <1>4. ASSUME NEW t \in Threads, SendPost(t) PROVE SessionInv'
    <2>1. CASE pc[t] # "so_call"
      BY <1>0, <1>4, <2>1, SendPostQuiet, QuietStep
    <2>2. CASE pc[t] = "so_call"
      <3>1. SendPostCall(t)
        BY <1>4, <2>2 DEF SendPost, SendPostExchange, SendPostCheck, SendPostReset, SendPostCount,
              SendPostPeek, SendPostGather, SendPostRecheck, SendPostUndo, SendPostFailed, Reads, Writes
      <3>2. CASE Post(t, "send")
        BY <1>0, <2>2, <3>2, PostStep
      <3>3. CASE PostFails(t, "so_failed")
        BY <1>0, <2>2, <3>3, PostFailsQuiet, QuietStep
      <3> QED BY <3>1, <3>2, <3>3 DEF SendPostCall
    <2> QED BY <2>1, <2>2
  <1>5. ASSUME NEW t \in Threads, RemoveSession(t) PROVE SessionInv'
    <2>1. CASE \/ ReadId(t) \/ RemoveFind(t) \/ RemoveMark(t) \/ RemoveClosing(t)
               \/ RemoveCount(t) \/ RemoveCas(t) \/ RemoveDrain(t)
      BY <1>0, <2>1, RemoveQuiet, QuietStep
    <2> QED BY <1>0, <1>5, <2>1, CloseStep, EraseStep, PushStep DEF RemoveSession
  <1>6. ASSUME NEW w \in Workers, (\E r \in io : Get(w, r)) \/ Handle(w) \/ OnRecvSend(w) \/ OnRecvClose(w)
        PROVE  SessionInv'
    <2>1. CASE \E r \in io : Get(w, r)
      BY <1>0, <2>1, GetStep
    <2>2. CASE Handle(w)
      BY <1>0, <2>2, HandleQuiet, QuietStep
    <2>3. CASE OnRecvSend(w) \/ OnRecvClose(w)
      BY <1>0, <2>3, OnRecvQuiet, QuietStep
    <2> QED BY <1>6, <2>1, <2>2, <2>3
  <1>7. ASSUME NEW a \in Apps, NEW id \in Joined, AppSend(a, id) \/ AppDisconnect(a, id)
        PROVE  SessionInv'
    BY <1>0, <1>7, AppQuiet, QuietStep
  <1>8. CASE /\ slot' = slot /\ sessionMap' = sessionMap /\ freeList' = freeList
             /\ nextSessionId' = nextSessionId /\ io' = io /\ closed' = closed
             /\ pc' = pc /\ frame' = frame /\ left' = left
    <2>1. Tokens'
      BY <1>8 DEF SessionInv, Tokens, RecvTok, SendTok, OpsOf, Sess
    <2>2. Records'
      BY <1>8 DEF SessionInv, Records
    <2>3. Teardown'
      BY <1>8 DEF SessionInv, Teardown, Dead, OpsOn, Sess, S, TearingDown
    <2>4. IdsOnce'
      BY <1>8 DEF SessionInv, IdsOnce, Begun
    <2>5. Places'
      BY <1>8 DEF SessionInv, Places, Listed, Mapped, OnHand, Begun, Sess, S, OpsOn, Uses
    <2>6. IoAccounting'
      BY <1>8 DEF SessionInv, IoAccounting, OpsOn, Posting, Handling
    <2> QED BY <1>0, <2>1, <2>2, <2>3, <2>4, <2>5, <2>6 DEF SessionInv
  <1>9. ASSUME NEW id \in Ids, PeerClose(id) PROVE SessionInv'
    BY <1>8, <1>9 DEF PeerClose, tables, history
  <1>10. CASE UNCHANGED vars
    BY <1>8, <1>10 DEF vars, tables, kernel, history
  <1>11. CASE Quiescent
    BY <1>10, <1>11 DEF Quiescent
  <1> QED BY <1>1, <1>2, <1>3, <1>4, <1>5, <1>6, <1>7, <1>9, <1>10, <1>11 DEF Next

-----------------------------------------------------------------------------
(* What the invariant says *)

(* No operation on a closed socket. *)
LEMMA NoIoFollows ==
  ASSUME SessionInv
  PROVE  NoIoOnClosedSocket
  <1>1. ASSUME NEW r \in io, r.id \in closed PROVE FALSE
    <2>1. r.slot \in Slots /\ slot[r.slot].sessionId \in closed
      BY <1>1, SMT DEF SessionInv, Records, TypeInv, SharedTypes
    <2>2. Dead(r.slot)
      BY <2>1 DEF SessionInv, Teardown
    <2> QED BY <2>2 DEF Dead, OpsOn
  <1>2. ASSUME NEW t \in Threads, pc[t] \in {"rp_call", "so_call"}, S(t).sessionId \in closed PROVE FALSE
    <2>1. Sess(t) \in Slots
      BY <1>2, AtSess DEF SessionInv, TypeInv, SessLabels, Labels, HandlerLabels, FindLabels
    <2>2. Dead(Sess(t))
      BY <1>2, <2>1 DEF SessionInv, Teardown, S
    <2> QED BY <1>2, <2>2 DEF Dead
  <1> QED BY <1>1, <1>2 DEF NoIoOnClosedSocket

(* One teardown, with nothing in flight. *)
LEMMA TeardownFollows ==
  ASSUME SessionInv
  PROVE  TeardownOnce
  <1>1. ASSUME NEW t \in Threads, TearingDown(t) PROVE OpsOn(Sess(t)) = {}
    BY <1>1 DEF SessionInv, Teardown, TearingDown, AfterCount, Dead
  <1> QED BY <1>1 DEF SessionInv, Teardown, TeardownOnce

(* The size of a set with at most one element. *)
LEMMA AtMostOne ==
  ASSUME NEW A, \A x, y \in A : x = y
  PROVE  Cardinality(A) = One(A # {})
  <1>1. CASE A = {}
    BY <1>1, FS_EmptySet DEF One
  <1>2. CASE A # {}
    <2>1. PICK x : A = {x}
      BY <1>2
    <2>2. Cardinality({x}) = 1
      BY FS_Singleton
    <2> QED BY <1>2, <2>1, <2>2 DEF One
  <1> QED BY <1>1, <1>2

(* Every slot is in one place, once. *)
LEMMA PartitionFollows ==
  ASSUME SessionInv
  PROVE  SlotsArePartitioned
  <1> SUFFICES ASSUME NEW s \in Slots
               PROVE  Cardinality({i \in 1..Len(freeList) : freeList[i] = s})
                      + Cardinality({id \in Ids : sessionMap[id] = s})
                      + Cardinality({t \in Threads : Sess(t) = s /\ pc[t] \in {"init", "insert", "rm_push"}}) = 1
    BY DEF SessionInv, Places, SlotsArePartitioned
  <1> DEFINE A == {i \in 1..Len(freeList) : freeList[i] = s}
             B == {id \in Ids : sessionMap[id] = s}
             C == {t \in Threads : Sess(t) = s /\ pc[t] \in {"init", "insert", "rm_push"}}
  <1>1. Cardinality(A) = One(A # {})
    <2>1. \A i, j \in A : i = j
      BY DEF SessionInv, Places
    <2> HIDE DEF A
    <2> QED BY <2>1, AtMostOne
  <1>2. \A id \in B : id = slot[s].sessionId
    BY NoneApart DEF SessionInv, Places
  <1>3. Cardinality(B) = One(B # {})
    <2> HIDE DEF B
    <2> QED BY <1>2, AtMostOne
  <1>4. Cardinality(C) = One(C # {})
    <2>1. \A t, u \in C : t = u
      BY DEF SessionInv, Places, OnHand
    <2> HIDE DEF C
    <2> QED BY <2>1, AtMostOne
  <1>5. /\ A # {} <=> Listed(s)
        /\ B # {} <=> Mapped(s)
        /\ C # {} <=> \E t \in Threads : OnHand(t, s)
    <2>1. slot[s].sessionId \in Ids \cup {NoId}
      BY SlotTyped DEF SessionInv, Session
    <2>2. B # {} <=> Mapped(s)
      BY <1>2, <2>1, NoneApart DEF Mapped, Begun
    <2> QED BY <2>2 DEF Listed, OnHand
  <1>6. /\ Listed(s) \/ Mapped(s) \/ \E t \in Threads : OnHand(t, s)
        /\ ~(Listed(s) /\ Mapped(s))
        /\ ~(Listed(s) /\ \E t \in Threads : OnHand(t, s))
        /\ ~(Mapped(s) /\ \E t \in Threads : OnHand(t, s))
    BY DEF SessionInv, Places
  <1> HIDE DEF A, B, C
  <1>7. One(A # {}) + One(B # {}) + One(C # {}) = 1
    BY <1>5, <1>6, SMT DEF One
  <1>8. Cardinality(A) + Cardinality(B) + Cardinality(C) = 1
    BY <1>1, <1>3, <1>4, <1>7
  <1> QED BY <1>8 DEF A, B, C

(* removeSession works on the session it was called for. *)
LEMMA OldIdFollows ==
  ASSUME SessionInv
  PROVE  OldIdTouchesNoOther
  BY DEF SessionInv, Teardown, OldIdTouchesNoOther, AfterFind

-----------------------------------------------------------------------------
(* The theorems *)

(* The invariant of every behaviour whose slots are reused unheld. *)
LEMMA SessionInductive == Spec /\ ReusedUnheld => []SessionInv
  <1>1. ASSUME SessionInv, [Next]_vars,
               [AcceptInit => \A t \in Threads \ {Acceptor} : ~Uses(t, Sess(Acceptor))]_vars
        PROVE  SessionInv'
    <2>1. CASE UNCHANGED vars
      <3>1. nextSessionId' = nextSessionId /\ nextSessionId \in Int
        BY <1>1, <2>1, SessionAssumption, SMT DEF vars, tables, SessionInv, TypeInv, SharedTypes
      <3>2. ~AcceptInit
        BY <3>1 DEF AcceptInit
      <3> QED BY <1>1, <3>2, NextInv
    <2> QED BY <1>1, <2>1, NextInv
  <1> QED BY <1>1, InitInv, PTL DEF Spec, ReusedUnheld

(* m_ioCount is exact: as long as no slot is given its next session while  *)
(* a thread still points to it, the count the closing protocol relies on   *)
(* is the number of operations in flight and of threads about to start or  *)
(* done with one.                                                          *)
THEOREM CountIsExact == Spec /\ ReusedUnheld => []IoAccounting
  <1>1. SessionInv => IoAccounting
    BY DEF SessionInv
  <1> QED BY <1>1, SessionInductive, PTL

(* The two-stage guard of recvPost and sendPost: under the same condition, *)
(* no operation is in flight or about to be posted on a closed socket.     *)
THEOREM SocketsAreQuiet == Spec /\ ReusedUnheld => []NoIoOnClosedSocket
  BY NoIoFollows, SessionInductive, PTL

(* Under the same condition a session is torn down by one thread, once,    *)
(* with nothing in flight, whatever number of threads call removeSession.  *)
THEOREM TornDownOnce == Spec /\ ReusedUnheld => []TeardownOnce
  BY TeardownFollows, SessionInductive, PTL

(* Under the same condition no slot is lost or handed out twice.           *)
THEOREM SlotsInOnePlace == Spec /\ ReusedUnheld => []SlotsArePartitioned
  BY PartitionFollows, SessionInductive, PTL

(* Under the same condition removeSession never marks, drains or erases    *)
(* the session that has taken over the slot of the one it was called for.  *)
THEOREM IdsAreExact == Spec /\ ReusedUnheld => []OldIdTouchesNoOther
  BY OldIdFollows, SessionInductive, PTL

-----------------------------------------------------------------------------
(* One worker *)

OneWorker == Apps = {} /\ \A v, w \in Workers : v = w

(* Thread t has a pointer to slot s, or the id that leads to it. *)
With(t, s) == \/ frame[t].client = s
              \/ Sess(t) = s
              \/ pc[t] \in FindLabels /\ frame[t].id = slot[s].sessionId

(* What a thread has is not free, and what the accept thread has is its    *)
(* own: no operation is in flight on it and the worker does not know it.   *)
Alone ==
  /\ \A s \in Slots, t \in Threads : With(t, s) => ~Listed(s)
  /\ \A s \in Slots, w \in Workers : With(w, s) => ~With(Acceptor, s)
  /\ \A s \in Slots : With(Acceptor, s) => OpsOn(s) = {}
  /\ \A t \in Threads : pc[t] \in FindLabels => frame[t].id < nextSessionId

-----------------------------------------------------------------------------
(* What keeps a thread alone *)

(* Thread t gets to a slot from a completion only, gives back a slot it    *)
(* had, and posts on a slot it has; the accept thread forgets that slot.   *)
KeepsAlone(t) ==
  /\ Others(t) /\ nextSessionId' = nextSessionId
  /\ pc'[t] \in FindLabels => frame'[t].id < nextSessionId
  /\ \A s \in Slots :
       /\ slot'[s].sessionId = slot[s].sessionId
       /\ With(t, s)' => With(t, s) \/ (t \in Workers /\ OpsOn(s) # {})
       /\ Listed(s)' => Listed(s) \/ (With(t, s) /\ ~With(t, s)')
       /\ OpsOn(s)' \subseteq OpsOn(s) \/ (With(t, s) /\ ~(t = Acceptor /\ With(t, s)'))

(* Nothing is in flight on a free slot. *)
LEMMA ListedIdle ==
  ASSUME SessionInv, NEW s \in Slots, Listed(s)
  PROVE  OpsOn(s) = {}
  <1>1. CASE Begun(s)
    BY <1>1 DEF SessionInv, Places, Teardown, Dead
  <1>2. CASE ~Begun(s)
    BY <1>2 DEF SessionInv, TypeInv, SharedPtrs, OpsOn
  <1> QED BY <1>1, <1>2

(* With one worker and no other threads, two threads are those two. *)
LEMMA TwoThreads ==
  ASSUME OneWorker, NEW t \in Threads, NEW u \in Threads, t # u
  PROVE  (t = Acceptor /\ u \in Workers) \/ (u = Acceptor /\ t \in Workers)
  BY DEF OneWorker, Threads

(* Such a step keeps the threads apart. *)
LEMMA AloneStep ==
  ASSUME OneWorker, SessionInv, Alone, NEW t \in Threads, KeepsAlone(t)
  PROVE  Alone'
  <1>1. ASSUME NEW u \in Threads, u # t, NEW s \in Slots PROVE With(u, s)' <=> With(u, s)
    BY <1>1 DEF KeepsAlone, Others, With, Sess
  <1>2. Acceptor \in Threads /\ Workers \subseteq Threads
    BY DEF Threads
  <1>3. ASSUME NEW s \in Slots, NEW u \in Threads, With(u, s)', Listed(s)' PROVE FALSE
    <2>1. CASE u = t
      BY <1>3, <2>1, ListedIdle DEF KeepsAlone, Alone
    <2>2. CASE u # t
      <3>1. With(u, s) /\ With(t, s)
        BY <1>1, <1>3, <2>2 DEF KeepsAlone, Alone
      <3> QED BY <2>2, <3>1, TwoThreads DEF Alone
    <2> QED BY <2>1, <2>2
  <1>4. ASSUME NEW s \in Slots, NEW w \in Workers, With(w, s)', With(Acceptor, s)' PROVE FALSE
    <2>0. w # Acceptor
      BY SessionAssumption
    <2>1. CASE t = Acceptor
      <3>1. With(w, s) /\ With(Acceptor, s)
        BY <1>1, <1>2, <1>4, <2>0, <2>1, SessionAssumption DEF KeepsAlone
      <3> QED BY <3>1 DEF Alone
    <2>2. CASE t # Acceptor
      <3>1. t = w
        BY <2>2 DEF OneWorker, Threads
      <3>2. With(Acceptor, s) /\ (With(w, s) \/ OpsOn(s) # {})
        BY <1>1, <1>2, <1>4, <2>2, <3>1 DEF KeepsAlone
      <3> QED BY <3>2 DEF Alone
    <2> QED BY <2>1, <2>2
  <1>5. ASSUME NEW s \in Slots, With(Acceptor, s)' PROVE OpsOn(s)' = {}
    <2>1. CASE t = Acceptor
      BY <1>5, <2>1, SessionAssumption DEF KeepsAlone, Alone
    <2>2. CASE t # Acceptor
      <3>1. t \in Workers /\ With(Acceptor, s)
        BY <1>1, <1>2, <1>5, <2>2 DEF OneWorker, Threads
      <3> QED BY <3>1 DEF KeepsAlone, Alone
    <2> QED BY <2>1, <2>2
  <1>6. ASSUME NEW u \in Threads, pc'[u] \in FindLabels PROVE frame'[u].id < nextSessionId'
    <2>1. CASE u = t
      BY <1>6, <2>1 DEF KeepsAlone
    <2>2. CASE u # t
      BY <1>6, <2>2 DEF KeepsAlone, Others, Alone
    <2> QED BY <2>1, <2>2
  <1> QED BY <1>3, <1>4, <1>5, <1>6, Zenon DEF Alone

-----------------------------------------------------------------------------
(* The steps *)

(* The steps away from the tables: what a thread gets, it got from what it *)
(* had, and two slots that have begun do not share an id.                  *)
LEMMA QuietAlone ==
  ASSUME SessionInv, NEW t \in Threads, t \notin Apps, Quiet(t)
  PROVE  KeepsAlone(t)
  <1>1. /\ Others(t) /\ nextSessionId' = nextSessionId /\ freeList' = freeList /\ io' = io
        /\ KeepsHold(t) /\ KeepsPlace(t)
        /\ \A s \in Slots : slot'[s].sessionId = slot[s].sessionId
    BY DEF Quiet, tables, KeepsSession
  <1>2. /\ frame[t].client # NoSlot => frame[t].client \in Slots /\ Begun(frame[t].client)
        /\ frame[t].sess # NoSlot => frame[t].sess \in Slots /\ Begun(frame[t].sess)
    BY <1>1, FrameTyped DEF SessionInv, TypeInv, PtrOf, KeepsPlace
  <1>3. ASSUME pc'[t] \in FindLabels
        PROVE  \E q \in Slots : /\ q = frame[t].client \/ q = frame[t].sess
                                /\ Begun(q) /\ frame'[t].id = slot[q].sessionId
    BY <1>1, <1>2, <1>3 DEF KeepsHold
  <1>4. pc'[t] \in FindLabels => frame'[t].id < nextSessionId
    BY <1>3 DEF SessionInv, TypeInv, SharedPtrs
  <1>5. ASSUME NEW s \in Slots, With(t, s)' PROVE With(t, s)
    <2>0. s # NoSlot
      BY NoneApart
    <2>1. CASE frame'[t].client = s
      BY <1>1, <2>0, <2>1 DEF KeepsHold, With
    <2>2. CASE frame'[t].sess = s
      BY <1>1, <2>0, <2>2 DEF KeepsHold, With, Sess
    <2>3. CASE pc'[t] \in FindLabels /\ frame'[t].id = slot'[s].sessionId
      <3>1. PICK q \in Slots : /\ q = frame[t].client \/ q = frame[t].sess
                               /\ Begun(q) /\ frame'[t].id = slot[q].sessionId
        BY <1>3, <2>3
      <3>2. q = s
        BY <1>1, <2>3, <3>1 DEF SessionInv, IdsOnce
      <3> QED BY <3>1, <3>2 DEF With, Sess
    <2> QED BY <1>5, <2>1, <2>2, <2>3 DEF With, Sess
  <1>6. \A s \in Slots : Listed(s)' = Listed(s) /\ OpsOn(s)' = OpsOn(s)
    BY <1>1 DEF Listed, OpsOn
  <1> QED BY <1>1, <1>4, <1>5, <1>6 DEF KeepsAlone

(* The steps of which the tables are all the effect. *)
LEMMA TableAlone ==
  ASSUME SessionInv, NEW t \in Threads, NEW l, Step(t, l), l \notin FindLabels,
         slot' = slot, io' = io, freeList' = freeList, nextSessionId' = nextSessionId
  PROVE  KeepsAlone(t)
  <1>1. Went(t, l, frame[t].client, frame[t].sess, frame[t].id, frame[t].ret)
    BY StepWent DEF SessionInv, TypeInv
  <1>2. \A s \in Slots : With(t, s)' => With(t, s)
    BY <1>1 DEF Went, With, Sess
  <1>3. \A s \in Slots : Listed(s)' = Listed(s) /\ OpsOn(s)' = OpsOn(s)
    BY DEF Listed, OpsOn
  <1> QED BY <1>1, <1>2, <1>3 DEF KeepsAlone, Went

(* A slot is given back by a thread that forgets it. *)
LEMMA PushAlone ==
  ASSUME SessionInv, NEW t \in Threads, RemovePush(t)
  PROVE  KeepsAlone(t)
  <1>0. TypeInv /\ ThreadInv
    BY Parts
  <1>1. /\ pc[t] = "rm_push" /\ slot' = slot /\ io' = io /\ nextSessionId' = nextSessionId
        /\ freeList' = Append(freeList, Sess(t)) /\ Return(t)
    BY DEF RemovePush, kernel, history
  <1>2. PICK s \in Slots : s = Sess(t)
    BY <1>0, <1>1, AtSess DEF SessLabels, Labels, HandlerLabels, FindLabels
  <1>3. Went(t, frame[t].ret, frame[t].client, NoSlot, NoId, "idle") /\ frame[t].ret \in Rets
    BY <1>0, <1>1, ReturnWent DEF HandlerLabels
  <1>4. frame[t].client # s
    BY <1>1, <1>2 DEF SessionInv, Teardown, AfterCount, Dead
  <1>5. pc'[t] \notin FindLabels
    BY <1>3 DEF Went, Rets, FindLabels
  <1>6. ASSUME NEW q \in Slots PROVE (With(t, q)' => With(t, q)) /\ ~With(t, s)'
    BY <1>3, <1>4, <1>5, NoneApart DEF Went, With, Sess
  <1>7. ASSUME NEW q \in Slots PROVE Listed(q)' => Listed(q) \/ q = s
    <2>1. /\ Len(freeList) \in Nat /\ Len(freeList') = Len(freeList) + 1 /\ freeList'[Len(freeList')] = s
          /\ \A i \in 1..Len(freeList) : freeList'[i] = freeList[i]
      BY <1>0, <1>1, <1>2, SMT DEF TypeInv, SharedTypes
    <2>2. \A i \in 1..Len(freeList') : i = Len(freeList') \/ i \in 1..Len(freeList)
      BY <2>1, SMT
    <2> QED BY <2>1, <2>2 DEF Listed
  <1>8. With(t, s) /\ \A q \in Slots : OpsOn(q)' = OpsOn(q) /\ slot'[q].sessionId = slot[q].sessionId
    BY <1>1, <1>2 DEF With, OpsOn
  <1> QED BY <1>1, <1>3, <1>5, <1>6, <1>7, <1>8 DEF KeepsAlone, Went

(* An operation is posted by a thread that has the session; the accept     *)
(* thread forgets it.                                                      *)
LEMMA PostAlone ==
  ASSUME SessionInv, NEW t \in Threads, NEW kind, pc[t] \in {"rp_call", "so_call"}, Post(t, kind)
  PROVE  KeepsAlone(t)
  <1>0. TypeInv /\ ThreadInv
    BY Parts
  <1>1. pc[t] \in SessLabels /\ pc[t] \notin HandlerLabels
    BY DEF HandlerLabels, SessLabels, Labels, FindLabels
  <1>2. PICK s \in Slots : s = Sess(t)
    BY <1>0, <1>1, AtSess
  <1>3. /\ io' = io \cup {[kind |-> kind, slot |-> Sess(t), id |-> S(t).sessionId, pkts |-> frame[t].pkts]}
        /\ slot' = slot /\ freeList' = freeList /\ nextSessionId' = nextSessionId /\ Return(t)
    BY DEF Post, tables
  <1>4. Went(t, frame[t].ret, frame[t].client, NoSlot, NoId, "idle") /\ frame[t].ret \in Rets
    BY <1>0, <1>1, <1>3, ReturnWent
  <1>5. pc'[t] \notin FindLabels
    BY <1>4 DEF Went, Rets, FindLabels
  <1>6. t = Acceptor => frame[t].client = NoSlot
    BY <1>0, AtClient, SessionAssumption
  <1>7. ASSUME NEW q \in Slots PROVE (With(t, q)' => With(t, q)) /\ (t = Acceptor => ~With(t, q)')
    BY <1>4, <1>5, <1>6, NoneApart DEF Went, With, Sess
  <1>8. ASSUME NEW q \in Slots PROVE OpsOn(q)' \subseteq OpsOn(q) \/ q = s
    BY <1>2, <1>3 DEF OpsOn
  <1>9. With(t, s) /\ \A q \in Slots : Listed(q)' = Listed(q) /\ slot'[q].sessionId = slot[q].sessionId
    BY <1>2, <1>3 DEF With, Listed
  <1> QED BY <1>3, <1>4, <1>5, <1>7, <1>8, <1>9 DEF KeepsAlone, Went

(* A worker gets a slot with the completion it dequeues. *)
LEMMA GetAlone ==
  ASSUME SessionInv, NEW w \in Workers, NEW r \in io, Get(w, r)
  PROVE  KeepsAlone(w)
  <1>0. TypeInv /\ ThreadInv /\ w \in Threads
    BY Parts DEF SessionInv, TypeInv, Threads
  <1>1. /\ io' = io \ {r} /\ slot' = slot /\ UNCHANGED tables
        /\ \E l \in {"dec", "recvLoop", "dequeue"} : Went(w, l, r.slot, NoSlot, NoId, "idle")
    BY <1>0, GetWent
  <1>2. PICK l \in {"dec", "recvLoop", "dequeue"} : Went(w, l, r.slot, NoSlot, NoId, "idle")
    BY <1>1
  <1>3. pc'[w] \notin FindLabels
    BY <1>2 DEF Went, FindLabels
  <1>4. ASSUME NEW q \in Slots, With(w, q)' PROVE OpsOn(q) # {}
    BY <1>2, <1>3, <1>4, NoneApart DEF Went, With, Sess, OpsOn
  <1>5. \A q \in Slots : Listed(q)' = Listed(q) /\ OpsOn(q)' \subseteq OpsOn(q)
    BY <1>1 DEF Listed, OpsOn, tables
  <1> QED BY <1>1, <1>2, <1>3, <1>4, <1>5 DEF KeepsAlone, Went, tables

(* The accept thread takes a slot that nobody has. *)
LEMMA PopAlone ==
  ASSUME SessionInv, SessionInv', Alone, AcceptPop
  PROVE  Alone'
  <1>0. TypeInv /\ ThreadInv /\ Acceptor \in Threads /\ Workers \subseteq Threads
    BY DEF SessionInv, TypeInv, Threads
  <1>1. /\ pc[Acceptor] = "idle" /\ freeList # <<>> /\ slot' = slot /\ io' = io
        /\ nextSessionId' = nextSessionId
        /\ freeList' = SubSeq(freeList, 1, Len(freeList) - 1)
        /\ frame' = [frame EXCEPT ![Acceptor].sess = freeList[Len(freeList)]] /\ Goto(Acceptor, "init")
    BY DEF AcceptPop, kernel, history
  <1>2. /\ Len(freeList) \in Nat \ {0} /\ Len(freeList') = Len(freeList) - 1
        /\ \A i \in 1..(Len(freeList) - 1) : freeList'[i] = freeList[i]
        /\ freeList[Len(freeList)] \in Slots
    BY <1>0, <1>1, PopTyped DEF TypeInv, SharedTypes
  <1>3. PICK s \in Slots : s = freeList[Len(freeList)]
    BY <1>2
  <1>4. Listed(s) /\ \A q \in Slots : Listed(q)' => Listed(q)
    BY <1>2, <1>3 DEF Listed
  <1>5. /\ frame[Acceptor].client = NoSlot /\ pc'[Acceptor] = "init"
        /\ frame'[Acceptor].client = NoSlot /\ frame'[Acceptor].sess = s
        /\ \A u \in Threads \ {Acceptor} : pc'[u] = pc[u] /\ frame'[u] = frame[u]
    <2>1. frame[Acceptor] = NoFrame /\ NoFrame.client = NoSlot
      BY <1>0, <1>1, IdleFrame DEF NoFrame
    <2>2. frame[Acceptor] \in Frame
      BY <1>0, FrameTyped
    <2> QED BY <1>0, <1>1, <1>3, <2>1, <2>2, SMT DEF ThreadInv, Goto, Frame
  <1>6. ~Listed(s)'
    <2>1. OnHand(Acceptor, s)'
      BY <1>5 DEF OnHand, Sess
    <2> QED BY <1>0, <2>1 DEF SessionInv, Places
  <1>7. ASSUME NEW q \in Slots, With(Acceptor, q)' PROVE q = s
    BY <1>5, <1>7, NoneApart DEF With, FindLabels, Sess
  <1>8. ASSUME NEW u \in Threads, u # Acceptor, NEW q \in Slots PROVE With(u, q)' <=> With(u, q)
    BY <1>1, <1>5, <1>8 DEF With, Sess
  <1>9. \A u \in Threads : ~With(u, s)
    BY <1>4 DEF Alone
  <1>10. \A q \in Slots, u \in Threads : With(u, q)' => ~Listed(q)'
    BY <1>4, <1>6, <1>7, <1>8 DEF Alone
  <1>11. \A q \in Slots, w \in Workers : With(w, q)' => ~With(Acceptor, q)'
    BY <1>0, <1>7, <1>8, <1>9, SessionAssumption
  <1>12. \A q \in Slots : With(Acceptor, q)' => OpsOn(q)' = {}
    <2>1. OpsOn(s) = {}
      BY <1>4, ListedIdle
    <2> QED BY <1>1, <1>7, <2>1 DEF OpsOn
  <1>13. \A u \in Threads : pc'[u] \in FindLabels => frame'[u].id < nextSessionId'
    BY <1>1, <1>5 DEF Alone, FindLabels
  <1> QED BY <1>10, <1>11, <1>12, <1>13, Zenon DEF Alone

(* The accept thread gives its slot an id that no thread has. *)
LEMMA InitAlone ==
  ASSUME SessionInv, Alone, AcceptInit
  PROVE  Alone'
  <1>0. TypeInv /\ ThreadInv /\ Acceptor \in Threads /\ Workers \subseteq Threads
    BY DEF SessionInv, TypeInv, Threads
  <1>1. /\ pc[Acceptor] = "init" /\ slot' = [slot EXCEPT ![Sess(Acceptor)] = NewSlot]
        /\ nextSessionId' = nextSessionId + 1 /\ Step(Acceptor, "insert")
        /\ freeList' = freeList /\ io' = io
    BY DEF AcceptInit, NewSlot, kernel, history
  <1>2. PICK s \in Slots : s = Sess(Acceptor)
    BY <1>0, <1>1, AtSess DEF SessLabels, Labels, HandlerLabels, FindLabels
  <1>3. nextSessionId \in Ids /\ nextSessionId \in Nat
    <2>1. nextSessionId < MaxSessions
      BY <1>0, <1>1, FrameTyped DEF CtlOf
    <2> QED BY <1>0, <2>1, SessionAssumption, SMT DEF TypeInv, SharedTypes, Ids
  <1>4. slot'[s].sessionId = nextSessionId /\ \A q \in Slots \ {s} : slot'[q] = slot[q]
    <2>1. NewSlot.sessionId = nextSessionId
      BY <1>0, <1>2, <1>3, NewSlotTyped, SlotTyped DEF S
    <2> QED BY <1>0, <1>1, <1>2, <2>1 DEF TypeInv, SharedTypes
  <1>5. /\ frame' = frame
        /\ \A u \in Threads : pc'[u] = IF u = Acceptor THEN "insert" ELSE pc[u]
    BY <1>0, <1>1 DEF Step, Goto, ThreadInv
  <1>6. frame[Acceptor].client = NoSlot
    BY <1>0, AtClient, SessionAssumption
  <1>7. ASSUME NEW q \in Slots, With(Acceptor, q)' PROVE With(Acceptor, q)
    BY <1>5, <1>6, <1>7, <1>0, NoneApart DEF With, FindLabels, Sess
  <1>8. ASSUME NEW u \in Threads, u # Acceptor, NEW q \in Slots, With(u, q)' PROVE With(u, q)
    <2>1. CASE pc[u] \in FindLabels /\ frame[u].id = slot'[q].sessionId
      <3>1. q # s
        <4>1. frame[u].id < nextSessionId /\ frame[u].id \in Int
          BY <1>0, <2>1, FrameTyped, NoneApart, SMT DEF Alone, NoId
        <4> QED BY <1>3, <1>4, <2>1, <4>1
      <3> QED BY <1>4, <2>1, <3>1 DEF With
    <2>2. CASE frame[u].client = q \/ frame[u].sess = q
      BY <2>2 DEF With, Sess
    <2> QED BY <1>5, <1>8, <2>1, <2>2 DEF With, Sess
  <1>9. \A q \in Slots : Listed(q)' = Listed(q) /\ OpsOn(q)' = OpsOn(q)
    BY <1>1 DEF Listed, OpsOn
  <1>10. \A u \in Threads : pc'[u] \in FindLabels => frame'[u].id < nextSessionId'
    <2>1. \A u \in Threads : pc[u] \in FindLabels => frame[u].id < nextSessionId /\ frame[u].id \in Int
      BY <1>0, FrameTyped, NoneApart, SMT DEF Alone, NoId
    <2> QED BY <1>1, <1>3, <1>5, <2>1, SMT DEF FindLabels
  <1>11. /\ \A q \in Slots, u \in Threads : With(u, q)' => ~Listed(q)'
         /\ \A q \in Slots : With(Acceptor, q)' => OpsOn(q)' = {}
    BY <1>0, <1>7, <1>8, <1>9 DEF Alone
  <1>12. \A q \in Slots, w \in Workers : With(w, q)' => ~With(Acceptor, q)'
    BY <1>0, <1>7, <1>8, SessionAssumption DEF Alone
  <1> QED BY <1>10, <1>11, <1>12, Zenon DEF Alone

-----------------------------------------------------------------------------
(* One worker: the slots are reused unheld *)

(* Nobody has anything in the beginning. *)
LEMMA AloneInit == Init => Alone
  <1> SUFFICES ASSUME Init PROVE Alone
    OBVIOUS
  <1>1. \A t \in Threads, s \in Slots : ~With(t, s)
    BY NoneApart DEF Init, With, Sess, NoFrame, FindLabels
  <1>2. \A t \in Threads : pc[t] \notin FindLabels
    BY DEF Init, FindLabels
  <1>3. Acceptor \in Threads /\ Workers \subseteq Threads
    BY DEF Threads
  <1> QED BY <1>1, <1>2, <1>3 DEF Alone

(* The other threads have nothing to do with the slot being reused. *)
LEMMA AloneUnheld ==
  ASSUME OneWorker, SessionInv, Alone, AcceptInit, NEW t \in Threads \ {Acceptor}
  PROVE  ~Uses(t, Sess(Acceptor))
  <1>1. ThreadInv /\ Acceptor \in Threads /\ pc[Acceptor] = "init"
    BY DEF SessionInv, TypeInv, Threads, AcceptInit
  <1>2. PICK s \in Slots : s = Sess(Acceptor)
    BY <1>1, AtSess DEF SessLabels, Labels, HandlerLabels, FindLabels
  <1>3. With(Acceptor, s) /\ t \in Workers
    BY <1>2 DEF With, OneWorker, Threads
  <1>4. ~With(t, s)
    BY <1>3 DEF Alone
  <1> QED BY <1>2, <1>4 DEF With, Uses

(* Every step keeps the threads apart, and with that the invariant. *)
LEMMA AloneNext ==
  ASSUME OneWorker, SessionInv, Alone, [Next]_vars
  PROVE  SessionInv' /\ Alone'
  <1>0. SessionInv'
    BY AloneUnheld, NextInv
  <1>1. Acceptor \in Threads /\ Workers \subseteq Threads /\ Apps = {}
    BY DEF Threads, OneWorker
  <1>2. ASSUME NEW t \in Threads, Quiet(t) PROVE Alone'
    BY <1>1, <1>2, QuietAlone, AloneStep
  <1>3. CASE Accept
    <2>1. CASE AcceptInsert
      <3>1. /\ Step(Acceptor, "join") /\ "join" \notin FindLabels
            /\ slot' = slot /\ io' = io /\ freeList' = freeList /\ nextSessionId' = nextSessionId
        BY <2>1 DEF AcceptInsert, kernel, FindLabels
      <3>2. PICK t \in Threads : t = Acceptor
        BY <1>1
      <3>3. KeepsAlone(t)
        BY <3>1, <3>2, TableAlone
      <3> QED BY <1>0, <3>3, AloneStep
    <2> QED BY <1>0, <1>1, <1>2, <1>3, <2>1, PopAlone, InitAlone, JoinQuiet DEF Accept
  <1>4. ASSUME NEW t \in Threads, RecvPost(t) PROVE Alone'
    <2>1. CASE RecvPostCheck(t) \/ RecvPostInc(t) \/ RecvPostRecheck(t) \/ RecvPostUndo(t)
      BY <1>2, <2>1, RecvPostQuiet
    <2>2. CASE pc[t] = "rp_call" /\ Post(t, "recv")
      BY <2>2, PostAlone, AloneStep
    <2>3. CASE pc[t] = "rp_call" /\ PostFails(t, "readId")
      BY <1>2, <2>3, PostFailsQuiet
    <2> QED BY <1>4, <2>1, <2>2, <2>3 DEF RecvPost, RecvPostCall
  <1>5. ASSUME NEW t \in Threads, SendPacket(t) PROVE Alone'
    BY <1>2, <1>5, SendPacketQuiet
  <1>6. ASSUME NEW t \in Threads, SendPost(t) PROVE Alone'
    <2>1. CASE pc[t] # "so_call"
      BY <1>2, <1>6, <2>1, SendPostQuiet
    <2>2. CASE pc[t] = "so_call"
      <3>1. SendPostCall(t)
        BY <1>6, <2>2 DEF SendPost, SendPostExchange, SendPostCheck, SendPostReset, SendPostCount,
              SendPostPeek, SendPostGather, SendPostRecheck, SendPostUndo, SendPostFailed, Reads, Writes
      <3>2. CASE Post(t, "send")
        BY <2>2, <3>2, PostAlone, AloneStep
      <3>3. CASE PostFails(t, "so_failed")
        BY <1>2, <2>2, <3>3, PostFailsQuiet
      <3> QED BY <3>1, <3>2, <3>3 DEF SendPostCall
    <2> QED BY <2>1, <2>2
  <1>7. ASSUME NEW t \in Threads, RemoveSession(t) PROVE Alone'
    <2>1. CASE \/ ReadId(t) \/ RemoveFind(t) \/ RemoveMark(t) \/ RemoveClosing(t)
               \/ RemoveCount(t) \/ RemoveCas(t) \/ RemoveDrain(t)
      BY <1>2, <2>1, RemoveQuiet
    <2>2. CASE RemoveClose(t)
      <3>1. /\ Step(t, "rm_erase") /\ "rm_erase" \notin FindLabels
            /\ slot' = slot /\ io' = io /\ freeList' = freeList /\ nextSessionId' = nextSessionId
        BY <2>2 DEF RemoveClose, tables, FindLabels
      <3> QED BY <3>1, TableAlone, AloneStep
    <2>3. CASE RemoveErase(t)
      <3>1. /\ Step(t, "rm_push") /\ "rm_push" \notin FindLabels
            /\ slot' = slot /\ io' = io /\ freeList' = freeList /\ nextSessionId' = nextSessionId
        BY <2>3 DEF RemoveErase, kernel, FindLabels
      <3> QED BY <3>1, TableAlone, AloneStep
    <2>4. CASE RemovePush(t)
      BY <2>4, PushAlone, AloneStep
    <2> QED BY <1>7, <2>1, <2>2, <2>3, <2>4 DEF RemoveSession
  <1>8. ASSUME NEW w \in Workers, (\E r \in io : Get(w, r)) \/ Handle(w) \/ OnRecvSend(w) \/ OnRecvClose(w)
        PROVE  Alone'
    <2>1. CASE \E r \in io : Get(w, r)
      BY <1>1, <2>1, GetAlone, AloneStep
    <2> QED BY <1>1, <1>2, <1>8, <2>1, HandleQuiet, OnRecvQuiet
  <1>9. CASE /\ slot' = slot /\ freeList' = freeList /\ nextSessionId' = nextSessionId
             /\ io' = io /\ pc' = pc /\ frame' = frame
    <2>1. \A t \in Threads, s \in Slots : With(t, s)' <=> With(t, s)
      BY <1>9 DEF With, Sess
    <2>2. \A s \in Slots : Listed(s)' = Listed(s) /\ OpsOn(s)' = OpsOn(s)
      BY <1>9 DEF Listed, OpsOn
    <2>3. \A t \in Threads : pc'[t] \in FindLabels => frame'[t].id < nextSessionId'
      BY <1>9 DEF Alone
    <2>4. \A s \in Slots, t \in Threads : With(t, s)' => ~Listed(s)'
      BY <2>1, <2>2 DEF Alone
    <2>5. \A s \in Slots, w \in Workers : With(w, s)' => ~With(Acceptor, s)'
      BY <1>1, <2>1 DEF Alone
    <2>6. \A s \in Slots : With(Acceptor, s)' => OpsOn(s)' = {}
      BY <1>1, <2>1, <2>2 DEF Alone
    <2>7. Alone'
      BY <2>3, <2>4, <2>5, <2>6, Zenon DEF Alone
    <2> QED BY <1>0, <2>7
  <1>10. ASSUME NEW id \in Ids, PeerClose(id) PROVE Alone'
    BY <1>9, <1>10 DEF PeerClose, tables
  <1>11. CASE UNCHANGED vars
    BY <1>9, <1>11 DEF vars, tables, kernel
  <1>12. CASE Quiescent
    BY <1>11, <1>12 DEF Quiescent
  <1> QED BY <1>0, <1>1, <1>3, <1>4, <1>5, <1>6, <1>7, <1>8, <1>10, <1>11, <1>12 DEF Next

-----------------------------------------------------------------------------
(* The theorems about reuse *)

(* A server with one worker gives a slot its next session only when no     *)
(* thread points to the one before, however many connections come and go:  *)
(* what the comment on session ids relies on.                              *)
THEOREM OneWorkerReuse ==
  ASSUME OneWorker
  PROVE  Spec => ReusedUnheld
  <1>1. Init => SessionInv /\ Alone
    BY InitInv, AloneInit
  <1>2. SessionInv /\ Alone /\ [Next]_vars => (SessionInv /\ Alone)'
    BY AloneNext
  <1>3. SessionInv /\ Alone /\ [Next]_vars
          => [AcceptInit => \A t \in Threads \ {Acceptor} : ~Uses(t, Sess(Acceptor))]_vars
    BY AloneUnheld
  <1> QED BY <1>1, <1>2, <1>3, PTL DEF Spec, ReusedUnheld

(* The first connection of a server finds every slot unused, whatever the  *)
(* threads of the server and of the application do.                        *)
THEOREM FirstSessionReuse ==
  ASSUME MaxSessions <= 1
  PROVE  Spec => ReusedUnheld
  <1>1. ASSUME TypeInv, AcceptInit, NEW t \in Threads \ {Acceptor}, Uses(t, Sess(Acceptor)) PROVE FALSE
    <2>1. ThreadInv /\ Acceptor \in Threads /\ pc[Acceptor] = "init"
      BY <1>1 DEF TypeInv, Threads, AcceptInit
    <2>2. PICK s \in Slots : s = Sess(Acceptor)
      BY <2>1, AtSess DEF SessLabels, Labels, HandlerLabels, FindLabels
    <2>3. nextSessionId = 0
      BY <1>1, <2>1, FrameTyped, SessionAssumption, SMT DEF CtlOf, TypeInv, SharedTypes
    <2>4. ~Begun(s)
      BY <1>1, <2>3, SlotTyped, SMT DEF TypeInv, SharedPtrs, Ids
    <2>5. frame[t].client = s \/ frame[t].sess = s
      BY <1>1, <2>2 DEF Uses, Sess
    <2> QED BY <2>1, <2>4, <2>5, FrameTyped, NoneApart DEF PtrOf
  <1>2. TypeInv /\ [Next]_vars
          => [AcceptInit => \A t \in Threads \ {Acceptor} : ~Uses(t, Sess(Acceptor))]_vars
    BY <1>1
  <1> QED BY <1>2, TypeInductive, PTL DEF Spec, ReusedUnheld

(* The closing protocol is right, without any condition on the behaviour,  *)
(* in a server with one worker, and in any server up to its first          *)
(* connection: m_ioCount is exact, no operation is left on a closed        *)
(* socket, each session is torn down once, no slot is lost or handed out   *)
(* twice, and removeSession touches the session it was called for only.    *)
THEOREM ClosingIsSafe ==
  ASSUME OneWorker \/ MaxSessions <= 1
  PROVE  Spec => [](/\ IoAccounting /\ NoIoOnClosedSocket /\ TeardownOnce
                    /\ SlotsArePartitioned /\ OldIdTouchesNoOther)
  <1>1. Spec => ReusedUnheld
    BY OneWorkerReuse, FirstSessionReuse
  <1>2. SessionInv => /\ IoAccounting /\ NoIoOnClosedSocket /\ TeardownOnce
                      /\ SlotsArePartitioned /\ OldIdTouchesNoOther
    BY NoIoFollows, TeardownFollows, PartitionFollows, OldIdFollows DEF SessionInv
  <1> QED BY <1>1, <1>2, SessionInductive, PTL

-----------------------------------------------------------------------------
(* The invariant behind the refinement *)

(* A session enters the map unmarked; an id given out is in the map, or    *)
(* about to be, until its socket is closed; it leaves the map after that.  *)
Opened ==
  /\ pc[Acceptor] = "insert" => ~S(Acceptor).isClosing
  /\ \A id \in Ids : id < nextSessionId =>
       \/ id \in closed \/ sessionMap[id] # NoSlot
       \/ pc[Acceptor] = "insert" /\ S(Acceptor).sessionId = id
  /\ \A t \in Threads : pc[t] \in {"rm_erase", "rm_push"} => frame[t].id \in closed

ServiceInv == SessionInv /\ Opened

(* What a step may do to the slots while it leaves the ids alone: mark the *)
(* session its thread is to mark.                                          *)
MarksOwn(t) ==
  \A s \in Slots : /\ slot'[s].sessionId = slot[s].sessionId
                   /\ slot[s].isClosing => slot'[s].isClosing
                   /\ slot'[s].isClosing => slot[s].isClosing \/ (pc[t] = "rm_mark" /\ Sess(t) = s)

(* A step of one thread that takes from the map closed ids at most.      *)
LEMMA OpenedStays ==
  ASSUME ServiceInv, ThreadInv', NEW t \in Threads, Others(t), MarksOwn(t), closed \subseteq closed',
         \A id \in Ids : sessionMap'[id] = sessionMap[id] \/ id \in closed',
         nextSessionId' = nextSessionId, pc[t] # "insert", pc'[t] # "insert",
         pc'[t] \in {"rm_erase", "rm_push"} => frame'[t].id \in closed'
  PROVE  Opened'
  <1>0. Acceptor \in Threads /\ Opened /\ Places /\ ThreadInv
    BY DEF Threads, ServiceInv, SessionInv, TypeInv
  <1>1. ASSUME pc[Acceptor] = "insert" \/ pc'[Acceptor] = "insert"
        PROVE  /\ Acceptor # t /\ pc[Acceptor] = "insert" /\ pc'[Acceptor] = "insert"
               /\ Sess(Acceptor) \in Slots /\ Sess(Acceptor)' = Sess(Acceptor)
               /\ S(Acceptor)'.sessionId = S(Acceptor).sessionId
               /\ S(Acceptor)'.isClosing => S(Acceptor).isClosing
    <2>1. Acceptor # t /\ pc[Acceptor] = "insert" /\ pc'[Acceptor] = "insert"
          /\ frame'[Acceptor] = frame[Acceptor]
      BY <1>0, <1>1 DEF Others
    <2>2. PICK s \in Slots : s = Sess(Acceptor) /\ s = Sess(Acceptor)'
      BY <1>0, <2>1, AtSess DEF SessLabels, Labels, HandlerLabels, FindLabels, Sess
    <2>3. ~Uses(t, s)
      BY <1>0, <2>1, <2>2 DEF Places
    <2>4. ~(pc[t] = "rm_mark" /\ Sess(t) = s)
      BY <2>3 DEF Uses
    <2> QED BY <2>1, <2>2, <2>4 DEF MarksOwn, S
  <1>2. pc'[Acceptor] = "insert" => ~S(Acceptor)'.isClosing
    BY <1>0, <1>1 DEF Opened
  <1>3. ASSUME NEW id \in Ids, id < nextSessionId'
        PROVE  \/ id \in closed' \/ sessionMap'[id] # NoSlot
               \/ pc'[Acceptor] = "insert" /\ S(Acceptor)'.sessionId = id
    BY <1>0, <1>1, <1>3 DEF Opened
  <1>4. ASSUME NEW u \in Threads, pc'[u] \in {"rm_erase", "rm_push"} PROVE frame'[u].id \in closed'
    <2>1. CASE u = t
      BY <1>4, <2>1
    <2>2. CASE u # t
      BY <1>0, <1>4, <2>2 DEF Others, Opened
    <2> QED BY <2>1, <2>2
  <1> QED BY <1>2, <1>3, <1>4 DEF Opened

-----------------------------------------------------------------------------
(* What is seen of a step *)

Stages  == [id \in Ids |-> Stage(id)]
Flights == [id \in Ids |-> Cardinality({r \in io : r.id = id})]
Unseen  == Stages' = Stages /\ Flights' = Flights

(* The stage of an id whose socket, place in the map and mark stay.        *)
LEMMA StageStays ==
  ASSUME NEW id \in Ids, id \in closed' <=> id \in closed, sessionMap'[id] = sessionMap[id],
         sessionMap[id] # NoSlot /\ id \notin closed =>
           (slot'[sessionMap[id]].isClosing <=> slot[sessionMap[id]].isClosing)
  PROVE  Stage(id)' = Stage(id)
  BY DEF Stage

(* A step that changes no mark is not seen. *)
LEMMA UnseenStep ==
  ASSUME TypeInv, \A s \in Slots : slot'[s].isClosing <=> slot[s].isClosing,
         sessionMap' = sessionMap, closed' = closed, io' = io
  PROVE  Unseen
  <1>1. \A id \in Ids : sessionMap[id] \in Slots \cup {NoSlot}
    BY DEF TypeInv, SharedTypes
  <1>2. \A id \in Ids : Stage(id)' = Stage(id)
    BY <1>1, StageStays
  <1> QED BY <1>2 DEF Unseen, Stages, Flights

(* The session a thread is to mark becomes doomed, the first time.         *)
LEMMA DoomStep ==
  ASSUME ServiceInv, NEW t \in Threads, MarksOwn(t),
         sessionMap' = sessionMap, closed' = closed, io' = io
  PROVE  Unseen \/ \E id \in Ids : Service!Doom(id)
  <1>0. TypeInv /\ ThreadInv /\ Teardown /\ Places
    BY DEF ServiceInv, SessionInv, TypeInv
  <1>1. CASE \A s \in Slots : slot'[s].isClosing <=> slot[s].isClosing
    BY <1>0, <1>1, UnseenStep
  <1>2. ASSUME NEW s \in Slots, ~(slot'[s].isClosing <=> slot[s].isClosing)
        PROVE  \E id \in Ids : Service!Doom(id)
    <2>1. pc[t] = "rm_mark" /\ Sess(t) = s /\ slot'[s].isClosing /\ ~slot[s].isClosing
      BY <1>2 DEF MarksOwn
    <2>2. Begun(s)
      BY <1>0, <2>1, AtSess DEF SessLabels, Labels, HandlerLabels, FindLabels
    <2>3. PICK i \in Ids : i = slot[s].sessionId
      BY <1>0, <2>2, SlotTyped
    <2>4. ~slot[s].isTornDown /\ i \notin closed
      BY <1>0, <2>1, <2>3 DEF Teardown, Dead
    <2>5. sessionMap[i] = s /\ s # NoSlot
      <3>1. Mapped(s)
        BY <2>1, <2>4, NotTornMapped DEF ServiceInv, SessLabels, Labels, HandlerLabels, FindLabels
      <3> QED BY <2>3, <3>1, NoneApart DEF Mapped
    <2>6. Stage(i) = "open" /\ Stage(i)' = "closing"
      BY <2>1, <2>4, <2>5 DEF Stage
    <2>7. ASSUME NEW j \in Ids \ {i} PROVE Stage(j)' = Stage(j)
      <3>1. sessionMap[j] \in Slots \cup {NoSlot} /\ sessionMap[j] # s
        BY <1>0, <2>3, <2>5 DEF TypeInv, SharedTypes, Places
      <3>2. sessionMap[j] # NoSlot => (slot'[sessionMap[j]].isClosing <=> slot[sessionMap[j]].isClosing)
        BY <2>1, <3>1 DEF MarksOwn
      <3> QED BY <3>2, StageStays
    <2>8. Stages' = [Stages EXCEPT ![i] = "closing"] /\ Stages[i] = "open"
      BY <2>6, <2>7 DEF Stages
    <2> QED BY <2>8 DEF Service!Doom, Stages, Flights
  <1> QED BY <1>1, <1>2
-----------------------------------------------------------------------------
(* The steps that are seen *)

(* The size of a set is the same in the instance. *)
LEMMA SameSize == \A A : Service!Cardinality(A) = Cardinality(A)
  BY Zenon DEF Service!Cardinality, Cardinality

(* There is room: the sessions alive are in slots other than the one the   *)
(* accept thread is about to insert.                                       *)
LEMMA RoomLeft ==
  ASSUME ServiceInv, NEW s \in Slots, ~Mapped(s)
  PROVE  Service!Cardinality(Service!Alive) < SlotCount
  <1> DEFINE A == {id \in Ids : Stage(id) \in {"open", "closing"}}
             B == Slots \ {s}
             f == [id \in A |-> sessionMap[id]]
  <1>1. Service!Alive = A
    BY DEF Service!Alive
  <1>2. ASSUME NEW id \in A
        PROVE  sessionMap[id] \in B /\ slot[sessionMap[id]].sessionId = id
    <2>1. sessionMap[id] # NoSlot /\ id \in Ids
      BY DEF Stage
    <2>2. sessionMap[id] \in Slots /\ slot[sessionMap[id]].sessionId = id
      BY <2>1 DEF ServiceInv, SessionInv, TypeInv, SharedTypes, Places
    <2>3. sessionMap[id] # s
      BY <2>1, <2>2, NoneApart DEF Mapped, Begun
    <2> QED BY <2>2, <2>3
  <1>3. f \in [A -> B] /\ \A x, y \in A : f[x] = f[y] => x = y
    BY <1>2
  <1>4. SlotCount \in Nat /\ IsFiniteSet(Slots) /\ Cardinality(Slots) = SlotCount
    <2>1. SlotCount \in Nat /\ SlotCount \in Int /\ 1 \in Int
      BY SessionAssumption, SMT
    <2>2. IsFiniteSet(1..SlotCount) /\ Cardinality(1..SlotCount) = IF 1 > SlotCount THEN 0 ELSE SlotCount - 1 + 1
      BY <2>1, FS_Interval
    <2> QED BY <2>1, <2>2, SMT DEF Slots
  <1>5. IsFiniteSet(B) /\ Cardinality(B) = SlotCount - 1
    BY <1>4, FS_RemoveElement
  <1>6. IsFiniteSet(A)
    <2>1. MaxSessions - 1 \in Int /\ 0 \in Int
      BY SessionAssumption, SMT
    <2>2. IsFiniteSet(Ids)
      BY <2>1, FS_Interval DEF Ids
    <2>3. A \in SUBSET Ids
      OBVIOUS
    <2> QED BY <2>2, <2>3, FS_Subset
  <1> HIDE DEF A, B, f
  <1>7. Cardinality(A) \in Nat /\ ~(Cardinality(B) < Cardinality(A))
    BY <1>3, <1>5, <1>6, FS_PigeonHole, FS_CardinalityType
  <1>8. Cardinality(A) < SlotCount
    BY <1>4, <1>5, <1>7, SMT
  <1> QED BY <1>1, <1>8, SameSize, Zenon

(* The accept thread opens the session. *)
LEMMA OpenStep ==
  ASSUME ServiceInv, AcceptInsert
  PROVE  (\E id \in Ids : Service!Open(id)) /\ Opened'
  <1>0. /\ Acceptor \in Threads /\ Opened
        /\ TypeInv /\ ThreadInv /\ SharedPtrs /\ Teardown /\ IdsOnce /\ Places
    BY DEF Threads, ServiceInv, SessionInv, TypeInv
  <1>1. /\ pc[Acceptor] = "insert"
        /\ sessionMap' = [sessionMap EXCEPT ![S(Acceptor).sessionId] = Sess(Acceptor)]
        /\ Step(Acceptor, "join")
        /\ slot' = slot /\ closed' = closed /\ io' = io /\ nextSessionId' = nextSessionId
    BY DEF AcceptInsert, kernel
  <1>2. Sess(Acceptor) \in Slots /\ Begun(Sess(Acceptor))
    BY <1>0, <1>1, AtSess DEF SessLabels, Labels, HandlerLabels, FindLabels
  <1>3. PICK s \in Slots : s = Sess(Acceptor) /\ Begun(s) /\ s # NoSlot
    BY <1>2, NoneApart
  <1>4. PICK i \in Ids : i = slot[s].sessionId /\ i < nextSessionId
    BY <1>0, <1>3, SlotTyped DEF SharedPtrs
  <1>5. ~slot[s].isClosing /\ i \notin closed
    <2>1. ~slot[s].isClosing
      BY <1>0, <1>1, <1>3 DEF Opened, S
    <2> QED BY <1>0, <1>4, <2>1 DEF Teardown, Dead
  <1>6. ~Mapped(s)
    BY <1>0, <1>1, <1>3 DEF Places, OnHand
  <1>7. sessionMap[i] = NoSlot
    <2>1. sessionMap[i] \in Slots \cup {NoSlot}
      BY <1>0 DEF TypeInv, SharedTypes
    <2>2. sessionMap[i] # NoSlot => sessionMap[i] = s
      BY <1>0, <1>3, <1>4, <2>1 DEF Places, IdsOnce
    <2> QED BY <1>3, <1>4, <1>6, <2>2 DEF Mapped
  <1>8. \A id \in Ids : sessionMap'[id] = IF id = i THEN s ELSE sessionMap[id]
    BY <1>0, <1>1, <1>3, <1>4 DEF TypeInv, SharedTypes, S
  <1>9. Stage(i) = "none" /\ Stage(i)' = "open"
    BY <1>1, <1>3, <1>5, <1>7, <1>8 DEF Stage
  <1>10. \A j \in Ids \ {i} : Stage(j)' = Stage(j)
    BY <1>1, <1>8, StageStays
  <1>11. \A j \in Ids : j < i => Stage(j) # "none"
    <2> SUFFICES ASSUME NEW j \in Ids, j < i PROVE Stage(j) # "none"
      OBVIOUS
    <2>1. j < nextSessionId /\ j # i
      BY <1>0, <1>4, NoneApart, SMT DEF TypeInv, SharedTypes, Ids
    <2>2. j \in closed \/ sessionMap[j] # NoSlot
      BY <1>0, <1>3, <1>4, <2>1 DEF Opened, S
    <2> QED BY <2>2 DEF Stage
  <1>12. Stages' = [Stages EXCEPT ![i] = "open"] /\ Flights' = Flights /\ Stages[i] = "none"
         /\ \A j \in Ids : j < i => Stages[j] # "none"
    BY <1>1, <1>9, <1>10, <1>11 DEF Stages, Flights
  <1>13. Service!Cardinality(Service!Alive) < SlotCount
    BY <1>6, RoomLeft
  <1>14. Service!Open(i)
    BY <1>12, <1>13 DEF Service!Open, Stages, Flights
  <1>15. Opened'
    <2>1. frame' = frame /\ \A u \in Threads : pc'[u] = IF u = Acceptor THEN "join" ELSE pc[u]
      BY <1>0, <1>1 DEF Step, Goto, ThreadInv
    <2>2. \A id \in Ids : id < nextSessionId => id \in closed \/ sessionMap'[id] # NoSlot
      BY <1>0, <1>3, <1>4, <1>8 DEF Opened, S
    <2>3. \A u \in Threads : pc'[u] \in {"rm_erase", "rm_push"} => frame'[u].id \in closed
      BY <1>0, <2>1 DEF Opened
    <2> QED BY <1>0, <1>1, <2>1, <2>2, <2>3 DEF Opened
  <1> QED BY <1>14, <1>15

(* The operations on the socket of an id are those on its slot. *)
LEMMA FlightsOn ==
  ASSUME ServiceInv, NEW s \in Slots, Begun(s)
  PROVE  {r \in io : r.id = slot[s].sessionId} = OpsOn(s)
  <1>1. \A r \in io : r.slot \in Slots /\ r.id = slot[r.slot].sessionId
    BY DEF ServiceInv, SessionInv, TypeInv, SharedTypes, Records
  <1>2. \A r \in io : r.id = slot[s].sessionId => r.slot = s
    BY <1>1 DEF ServiceInv, SessionInv, IdsOnce
  <1> QED BY <1>1, <1>2 DEF OpsOn

(* closesocket closes the session, doomed, with nothing in flight. *)
LEMMA ClosedStep ==
  ASSUME ServiceInv, ThreadInv', NEW t \in Threads, RemoveClose(t)
  PROVE  (\E id \in Ids : Service!Close(id)) /\ Opened'
  <1>0. /\ TypeInv /\ ThreadInv /\ Teardown /\ IdsOnce /\ Places
    BY DEF ServiceInv, SessionInv, TypeInv
  <1>1. /\ pc[t] = "rm_drain" /\ slot' = slot /\ io' = io
        /\ sessionMap' = sessionMap /\ nextSessionId' = nextSessionId
        /\ closed' = closed \cup {S(t).sessionId} /\ Step(t, "rm_erase")
    BY DEF RemoveClose, tables
  <1>2. PICK s \in Slots : s = Sess(t) /\ Begun(s)
    BY <1>0, <1>1, AtSess DEF SessLabels, Labels, HandlerLabels, FindLabels
  <1>3. /\ Mapped(s) /\ Dead(s) /\ slot[s].sessionId \notin closed /\ slot[s].sessionId = frame[t].id
    BY <1>0, <1>1, <1>2 DEF Places, Teardown, AfterCount, AfterFind, S
  <1>4. PICK i \in Ids : i = slot[s].sessionId
    BY <1>0, <1>2, SlotTyped
  <1>5. Stage(i) = "closing" /\ Stage(i)' = "closed"
    BY <1>1, <1>2, <1>3, <1>4, NoneApart DEF Stage, Mapped, Dead, S
  <1>6. \A j \in Ids \ {i} : Stage(j)' = Stage(j)
    BY <1>1, <1>2, <1>4, StageStays DEF S
  <1>7. Cardinality({r \in io : r.id = i}) = 0
    <2>1. {r \in io : r.id = i} = {}
      BY <1>2, <1>3, <1>4, FlightsOn DEF Dead
    <2> QED BY <2>1, FS_EmptySet
  <1>8. Stages' = [Stages EXCEPT ![i] = "closed"] /\ Stages[i] = "closing" /\ Flights' = Flights /\ Flights[i] = 0
    BY <1>1, <1>5, <1>6, <1>7 DEF Stages, Flights
  <1>9. Service!Close(i)
    BY <1>8 DEF Service!Close, Stages, Flights
  <1>10. Opened'
    <2>1. Went(t, "rm_erase", frame[t].client, frame[t].sess, frame[t].id, frame[t].ret)
      BY <1>0, <1>1, StepWent
    <2>2. Others(t) /\ pc'[t] = "rm_erase" /\ frame'[t].id \in closed'
      BY <1>1, <1>2, <1>3, <2>1 DEF Went, S
    <2>3. MarksOwn(t)
      BY <1>1 DEF MarksOwn
    <2> QED BY <1>1, <2>2, <2>3, OpenedStays
  <1> QED BY <1>9, <1>10
(* What is shown of every step. *)
Served == Opened' /\ (Unseen \/ Service!Next)

(* A quiet step is not seen, but for the mark. *)
LEMMA QuietServed ==
  ASSUME ServiceInv, TypeInv', NEW t \in Threads, Quiet(t)
  PROVE  Served
  <1>1. /\ Others(t) /\ io' = io /\ closed' = closed
        /\ sessionMap' = sessionMap /\ nextSessionId' = nextSessionId
        /\ pc[t] # "insert" /\ pc'[t] \notin {"insert", "rm_erase", "rm_push"}
    BY DEF Quiet, tables, KeepsPlace
  <1>2. MarksOwn(t)
    BY DEF Quiet, KeepsSession, MarksOwn
  <1>3. Opened'
    BY <1>1, <1>2, OpenedStays DEF TypeInv
  <1>4. Unseen \/ \E id \in Ids : Service!Doom(id)
    BY <1>1, <1>2, DoomStep
  <1> QED BY <1>3, <1>4 DEF Served, Service!Next

(* Taking a slot from the free list, and giving it back, is not seen. *)
LEMMA FreeListServed ==
  ASSUME ServiceInv, TypeInv',
         \/ AcceptPop
         \/ \E t \in Threads : RemovePush(t)
  PROVE  Served
  <1>0. TypeInv /\ ThreadInv /\ ThreadInv' /\ Acceptor \in Threads
    BY DEF ServiceInv, SessionInv, TypeInv, Threads
  <1>1. ASSUME NEW t \in Threads, Others(t), slot' = slot, sessionMap' = sessionMap,
               io' = io, closed' = closed, nextSessionId' = nextSessionId,
               pc[t] # "insert", pc'[t] \notin {"insert", "rm_erase", "rm_push"}
        PROVE  Served
    <2>1. MarksOwn(t)
      BY <1>1 DEF MarksOwn
    <2>2. Opened'
      BY <1>0, <1>1, <2>1, OpenedStays
    <2>3. Unseen
      BY <1>0, <1>1, UnseenStep
    <2> QED BY <2>2, <2>3 DEF Served
  <1>2. CASE AcceptPop
    <2>1. Others(Acceptor) /\ pc'[Acceptor] = "init"
      BY <1>0, <1>2 DEF AcceptPop, Goto, Others, ThreadInv
    <2> QED BY <1>0, <1>1, <1>2, <2>1 DEF AcceptPop, kernel
  <1>3. ASSUME NEW t \in Threads, RemovePush(t) PROVE Served
    <2>1. Others(t) /\ pc'[t] \in Rets
      BY <1>0, <1>3, ReturnWent DEF RemovePush, HandlerLabels, Went
    <2> QED BY <1>1, <1>3, <2>1 DEF RemovePush, kernel, Rets
  <1> QED BY <1>2, <1>3

(* The slot the accept thread prepares is in nobody's sight. *)
LEMMA PrepareServed ==
  ASSUME ServiceInv, AcceptInit
  PROVE  Served
  <1>0. /\ Acceptor \in Threads /\ Opened
        /\ TypeInv /\ ThreadInv /\ Places
        /\ CtlOf(Acceptor, pc[Acceptor], frame[Acceptor])
    BY Parts DEF Threads, ServiceInv
  <1>1. /\ pc[Acceptor] = "init"
        /\ slot' = [slot EXCEPT ![Sess(Acceptor)] = NewSlot]
        /\ nextSessionId' = nextSessionId + 1
        /\ Step(Acceptor, "insert")
        /\ sessionMap' = sessionMap /\ io' = io /\ closed' = closed
    BY DEF AcceptInit, NewSlot, kernel
  <1>2. PICK s \in Slots : s = Sess(Acceptor)
    BY <1>0, <1>1, AtSess DEF SessLabels, Labels, HandlerLabels, FindLabels
  <1>3. nextSessionId \in Ids /\ nextSessionId \in Nat
    <2>1. nextSessionId < MaxSessions
      BY <1>0, <1>1 DEF CtlOf
    <2> QED BY <1>0, <2>1, SessionAssumption, SMT DEF TypeInv, SharedTypes, Ids
  <1>4. NewSlot.sessionId = nextSessionId /\ NewSlot.isClosing = FALSE
    BY <1>0, <1>2, <1>3, NewSlotTyped, SlotTyped DEF S
  <1>5. slot'[s] = NewSlot /\ \A q \in Slots \ {s} : slot'[q] = slot[q]
    BY <1>0, <1>1, <1>2 DEF TypeInv, SharedTypes
  <1>6. frame' = frame /\ \A u \in Threads : pc'[u] = IF u = Acceptor THEN "insert" ELSE pc[u]
    BY <1>0, <1>1 DEF Step, Goto, ThreadInv
  <1>7. \A id \in Ids : sessionMap[id] # s
    <2>1. ~Mapped(s)
      BY <1>0, <1>1, <1>2 DEF Places, OnHand
    <2> QED BY <1>0, <2>1, NoneApart DEF Places, Mapped, Begun
  <1>8. Unseen
    <2>1. \A id \in Ids : sessionMap[id] \in (Slots \ {s}) \cup {NoSlot}
      BY <1>0, <1>7 DEF TypeInv, SharedTypes
    <2>2. \A id \in Ids : Stage(id)' = Stage(id)
      BY <1>1, <1>5, <2>1, StageStays
    <2> QED BY <1>1, <2>2 DEF Unseen, Stages, Flights
  <1>9. Opened'
    <2>1. S(Acceptor)' = NewSlot
      BY <1>2, <1>5, <1>6 DEF S, Sess
    <2>2. ASSUME NEW id \in Ids, id < nextSessionId'
          PROVE  \/ id \in closed' \/ sessionMap'[id] # NoSlot
                 \/ pc'[Acceptor] = "insert" /\ S(Acceptor)'.sessionId = id
      <3>1. id < nextSessionId \/ id = nextSessionId
        BY <1>1, <1>3, <2>2, SMT DEF Ids
      <3> QED BY <1>0, <1>1, <1>4, <1>6, <2>1, <3>1 DEF Opened
    <2>3. \A u \in Threads : pc'[u] \in {"rm_erase", "rm_push"} => frame'[u].id \in closed'
      BY <1>0, <1>1, <1>6 DEF Opened
    <2> QED BY <1>4, <2>1, <2>2, <2>3 DEF Opened
  <1> QED BY <1>8, <1>9 DEF Served

(* The map forgets an id that is closed already. *)
LEMMA EraseServed ==
  ASSUME ServiceInv, TypeInv', NEW t \in Threads, RemoveErase(t)
  PROVE  Served
  <1>0. TypeInv /\ ThreadInv /\ ThreadInv' /\ Teardown /\ Opened
    BY DEF ServiceInv, SessionInv, TypeInv
  <1>1. /\ pc[t] = "rm_erase" /\ slot' = slot /\ io' = io /\ closed' = closed
        /\ nextSessionId' = nextSessionId
        /\ sessionMap' = [sessionMap EXCEPT ![S(t).sessionId] = NoSlot]
        /\ Step(t, "rm_push")
    BY DEF RemoveErase, kernel
  <1>2. S(t).sessionId = frame[t].id /\ frame[t].id \in closed
    BY <1>0, <1>1 DEF Teardown, AfterFind, Opened
  <1>3. Went(t, "rm_push", frame[t].client, frame[t].sess, frame[t].id, frame[t].ret)
    BY <1>0, <1>1, StepWent
  <1>4. \A id \in Ids : sessionMap'[id] = sessionMap[id] \/ (id \in closed /\ id \in closed')
    BY <1>0, <1>1, <1>2 DEF TypeInv, SharedTypes
  <1>5. Opened'
    <2>1. MarksOwn(t)
      BY <1>1 DEF MarksOwn
    <2> QED BY <1>0, <1>1, <1>2, <1>3, <1>4, <2>1, OpenedStays DEF Went
  <1>6. \A id \in Ids : Stage(id)' = Stage(id)
    BY <1>1, <1>4 DEF Stage
  <1> QED BY <1>1, <1>5, <1>6 DEF Served, Unseen, Stages, Flights
(* The operations of an id are finitely many. *)
LEMMA FlightsFinite ==
  ASSUME Records, NEW id
  PROVE  IsFiniteSet({r \in io : r.id = id}) /\ Cardinality({r \in io : r.id = id}) \in Nat
  <1>1. {r \in io : r.id = id} \in SUBSET io /\ IsFiniteSet(io)
    BY DEF Records
  <1> QED BY <1>1, FS_Subset, FS_CardinalityType

(* WSARecv or WSASend posts an operation on a session that is alive. *)
LEMMA PostServed ==
  ASSUME ServiceInv, TypeInv', NEW t \in Threads, NEW kind,
         \/ pc[t] = "rp_call" /\ kind = "recv"
         \/ pc[t] = "so_call" /\ kind = "send",
         Post(t, kind)
  PROVE  Served
  <1>0. SessionInv /\ TypeInv /\ ThreadInv /\ ThreadInv' /\ Tokens /\ Records /\ Teardown /\ Places
    BY DEF ServiceInv, SessionInv, TypeInv
  <1>1. pc[t] \in SessLabels \ {"init", "insert"} /\ pc[t] \notin HandlerLabels
    BY DEF HandlerLabels, SessLabels, Labels, FindLabels
  <1>2. PICK s \in Slots : s = Sess(t) /\ Begun(s)
    BY <1>0, <1>1, AtSess DEF SessLabels, Labels, HandlerLabels, FindLabels
  <1>3. PICK i \in Ids : i = slot[s].sessionId
    BY <1>0, <1>2, SlotTyped
  <1> DEFINE r == [kind |-> kind, slot |-> Sess(t), id |-> S(t).sessionId, pkts |-> frame[t].pkts]
  <1>4. /\ io' = io \cup {r} /\ slot' = slot /\ closed' = closed /\ Return(t)
        /\ sessionMap' = sessionMap /\ nextSessionId' = nextSessionId
    BY DEF Post, tables
  <1>5. r.id = i /\ r.slot = s /\ r.kind = kind /\ i \notin closed
    BY <1>2, <1>3 DEF S, Post
  <1> HIDE DEF r
  <1>6. r \notin io
    BY <1>0, <1>2, <1>5 DEF Tokens, RecvTok, SendTok, OpsOf
  <1>7. Stage(i) \in {"open", "closing"}
    <2>1. ~slot[s].isTornDown
      BY <1>0, <1>2 DEF Teardown, Dead
    <2>2. Mapped(s)
      BY <1>0, <1>1, <1>2, <2>1, NotTornMapped
    <2> QED BY <1>3, <1>5, <2>2, NoneApart DEF Stage, Mapped
  <1>8. Stages' = Stages
    BY <1>4 DEF Stages, Stage
  <1>9. Flights' = [Flights EXCEPT ![i] = @ + 1]
    <2>1. Cardinality({q \in io : q.id = i} \cup {r}) = Cardinality({q \in io : q.id = i}) + 1
      <3> DEFINE F == {q \in io : q.id = i}
      <3>1. IsFiniteSet(F) /\ r \notin F
        BY <1>0, <1>6, FlightsFinite
      <3> HIDE DEF F
      <3>2. Cardinality(F \cup {r}) = Cardinality(F) + 1
        BY <3>1, FS_AddElement
      <3> QED BY <3>2 DEF F
    <2>2. {q \in io' : q.id = i} = {q \in io : q.id = i} \cup {r}
      BY <1>4, <1>5
    <2>3. \A j \in Ids \ {i} : {q \in io' : q.id = j} = {q \in io : q.id = j}
      BY <1>4, <1>5
    <2> QED BY <2>1, <2>2, <2>3 DEF Flights
  <1>10. Service!Post(i)
    BY <1>7, <1>8, <1>9 DEF Service!Post, Service!Alive, Stages, Flights
  <1>11. Opened'
    <2>1. Others(t) /\ pc'[t] \in Rets
      BY <1>0, <1>1, <1>4, ReturnWent DEF Went
    <2>2. MarksOwn(t)
      BY <1>4 DEF MarksOwn
    <2> QED BY <1>0, <1>4, <2>1, <2>2, OpenedStays DEF Rets
  <1> QED BY <1>10, <1>11 DEF Served, Service!Next

(* A worker takes a completion. *)
LEMMA GetServed ==
  ASSUME ServiceInv, TypeInv', NEW w \in Workers, NEW r \in io, Get(w, r)
  PROVE  Served
  <1>0. TypeInv /\ ThreadInv' /\ Records /\ w \in Threads
    BY DEF ServiceInv, SessionInv, TypeInv, Threads
  <1>1. /\ pc[w] = "idle" /\ io' = io \ {r} /\ slot' = slot /\ closed' = closed
        /\ sessionMap' = sessionMap /\ nextSessionId' = nextSessionId
        /\ Others(w) /\ pc'[w] \in {"dec", "recvLoop", "dequeue"}
    BY <1>0, GetWent DEF tables, Went
  <1>2. PICK i \in Ids : i = r.id
    BY <1>0 DEF TypeInv, SharedTypes
  <1>3. Stages' = Stages
    BY <1>1 DEF Stages, Stage
  <1> DEFINE F(j) == {q \in io : q.id = j}
  <1>4. IsFiniteSet(F(i)) /\ Cardinality(F(i)) \in Nat /\ r \in F(i)
    BY <1>0, <1>2, FlightsFinite
  <1>5. Cardinality(F(i) \ {r}) = Cardinality(F(i)) - 1 /\ Cardinality(F(i)) > 0
    <2>1. Cardinality(F(i) \ {r}) = Cardinality(F(i)) - 1
      BY <1>4, FS_RemoveElement
    <2>2. IsFiniteSet(F(i) \ {r})
      BY <1>4, FS_RemoveElement
    <2>3. Cardinality(F(i) \ {r}) \in Nat
      BY <2>2, FS_CardinalityType
    <2> HIDE DEF F
    <2> QED BY <1>4, <2>1, <2>3, SMT
  <1>6. Flights' = [Flights EXCEPT ![i] = @ - 1] /\ Flights[i] > 0
    <2>1. {q \in io' : q.id = i} = F(i) \ {r}
      BY <1>1
    <2>2. \A j \in Ids \ {i} : {q \in io' : q.id = j} = F(j)
      BY <1>1, <1>2
    <2> QED BY <1>5, <2>1, <2>2 DEF Flights
  <1>7. Service!Complete(i)
    BY <1>3, <1>6 DEF Service!Complete, Stages, Flights
  <1>8. Opened'
    <2>1. MarksOwn(w)
      BY <1>1 DEF MarksOwn
    <2> QED BY <1>0, <1>1, <2>1, OpenedStays
  <1> QED BY <1>7, <1>8 DEF Served, Service!Next

-----------------------------------------------------------------------------
(* The refinement *)

(* In the beginning no id is open. *)
LEMMA InitRefines == Init => Opened /\ Service!Init
  <1> SUFFICES ASSUME Init PROVE Opened /\ Service!Init
    OBVIOUS
  <1>1. /\ \A t \in Threads : pc[t] = "idle"
        /\ \A id \in Ids : sessionMap[id] = NoSlot
        /\ nextSessionId = 0 /\ io = {} /\ closed = {} /\ Acceptor \in Threads
    BY DEF Init, Threads
  <1>2. Opened
    BY <1>1, SMT DEF Opened, Ids
  <1>3. \A id \in Ids : Stage(id) = "none"
    BY <1>1 DEF Stage
  <1>4. \A id \in Ids : Cardinality({r \in io : r.id = id}) = 0
    <2>1. \A id \in Ids : {r \in io : r.id = id} = {}
      BY <1>1
    <2> QED BY <2>1, FS_EmptySet
  <1> QED BY <1>2, <1>3, <1>4 DEF Service!Init

(* Every step of a server that reuses the slot unheld is one of the        *)
(* service, or is not seen.                                                *)
LEMMA NextServed ==
  ASSUME ServiceInv, [Next]_vars,
         AcceptInit => \A t \in Threads \ {Acceptor} : ~Uses(t, Sess(Acceptor))
  PROVE  SessionInv' /\ Served
  <1>0. /\ SessionInv /\ SessionInv' /\ TypeInv' /\ ThreadInv'
        /\ Acceptor \in Threads /\ Workers \subseteq Threads /\ Apps \subseteq Threads
    BY NextInv DEF ServiceInv, SessionInv, TypeInv, Threads
  <1>1. CASE Accept
    <2>1. CASE AcceptInsert
      <3>1. (\E id \in Ids : Service!Open(id)) /\ Opened'
        BY <2>1, OpenStep
      <3> QED BY <1>0, <3>1 DEF Served, Service!Next
    <2> QED BY <1>0, <1>1, <2>1, FreeListServed, PrepareServed, JoinQuiet, QuietServed DEF Accept
  <1>2. ASSUME NEW t \in Threads, RecvPost(t) PROVE Served
    <2>1. CASE RecvPostCheck(t) \/ RecvPostInc(t) \/ RecvPostRecheck(t) \/ RecvPostUndo(t)
      BY <1>0, <2>1, RecvPostQuiet, QuietServed
    <2>2. CASE pc[t] = "rp_call" /\ Post(t, "recv")
      BY <1>0, <2>2, PostServed
    <2>3. CASE pc[t] = "rp_call" /\ PostFails(t, "readId")
      BY <1>0, <2>3, PostFailsQuiet, QuietServed
    <2> QED BY <1>2, <2>1, <2>2, <2>3 DEF RecvPost, RecvPostCall
  <1>3. ASSUME NEW t \in Threads, SendPacket(t) PROVE Served
    BY <1>0, <1>3, SendPacketQuiet, QuietServed
  <1>4. ASSUME NEW t \in Threads, SendPost(t) PROVE Served
    <2>1. CASE pc[t] # "so_call"
      BY <1>0, <1>4, <2>1, SendPostQuiet, QuietServed
    <2>2. CASE pc[t] = "so_call"
      <3>1. SendPostCall(t)
        BY <1>4, <2>2 DEF SendPost, SendPostExchange, SendPostCheck, SendPostReset, SendPostCount,
              SendPostPeek, SendPostGather, SendPostRecheck, SendPostUndo, SendPostFailed, Reads, Writes
      <3>2. CASE Post(t, "send")
        BY <1>0, <2>2, <3>2, PostServed
      <3>3. CASE PostFails(t, "so_failed")
        BY <1>0, <2>2, <3>3, PostFailsQuiet, QuietServed
      <3> QED BY <3>1, <3>2, <3>3 DEF SendPostCall
    <2> QED BY <2>1, <2>2
  <1>5. ASSUME NEW t \in Threads, RemoveSession(t) PROVE Served
    <2>1. CASE \/ ReadId(t) \/ RemoveFind(t) \/ RemoveMark(t) \/ RemoveClosing(t)
               \/ RemoveCount(t) \/ RemoveCas(t) \/ RemoveDrain(t)
      BY <1>0, <2>1, RemoveQuiet, QuietServed
    <2>2. CASE RemoveClose(t)
      BY <1>0, <2>2, ClosedStep DEF Served, Service!Next
    <2> QED BY <1>0, <1>5, <2>1, <2>2, EraseServed, FreeListServed DEF RemoveSession
  <1>6. ASSUME NEW w \in Workers, (\E r \in io : Get(w, r)) \/ Handle(w) \/ OnRecvSend(w) \/ OnRecvClose(w)
        PROVE  Served
    <2>1. CASE \E r \in io : Get(w, r)
      BY <1>0, <2>1, GetServed
    <2>2. CASE Handle(w)
      BY <1>0, <2>2, HandleQuiet, QuietServed
    <2>3. CASE OnRecvSend(w) \/ OnRecvClose(w)
      BY <1>0, <2>3, OnRecvQuiet, QuietServed
    <2> QED BY <1>6, <2>1, <2>2, <2>3
  <1>7. ASSUME NEW a \in Apps, NEW id \in Joined, AppSend(a, id) \/ AppDisconnect(a, id)
        PROVE  Served
    BY <1>0, <1>7, AppQuiet, QuietServed
  <1>8. CASE /\ slot' = slot /\ sessionMap' = sessionMap /\ nextSessionId' = nextSessionId
             /\ io' = io /\ closed' = closed /\ pc' = pc /\ frame' = frame
    <2>1. Opened'
      BY <1>8 DEF ServiceInv, Opened, S, Sess
    <2>2. Unseen
      BY <1>8 DEF Unseen, Stages, Stage, Flights
    <2> QED BY <1>0, <2>1, <2>2 DEF Served
  <1>9. ASSUME NEW id \in Ids, PeerClose(id) PROVE Served
    BY <1>8, <1>9 DEF PeerClose, tables
  <1>10. CASE UNCHANGED vars
    BY <1>8, <1>10 DEF vars, tables, kernel
  <1>11. CASE Quiescent
    BY <1>10, <1>11 DEF Quiescent
  <1> QED BY <1>0, <1>1, <1>2, <1>3, <1>4, <1>5, <1>6, <1>7, <1>9, <1>10, <1>11 DEF Next

(* The condition on the behaviour, as a condition on its steps. *)
LEMMA ServiceStep ==
  ASSUME ServiceInv, [Next]_vars,
         [AcceptInit => \A t \in Threads \ {Acceptor} : ~Uses(t, Sess(Acceptor))]_vars
  PROVE  ServiceInv' /\ [Service!Next]_(Service!vars)
  <1>1. AcceptInit => \A t \in Threads \ {Acceptor} : ~Uses(t, Sess(Acceptor))
    <2>1. CASE UNCHANGED vars
      <3>1. nextSessionId' = nextSessionId /\ nextSessionId \in Int
        BY <2>1, SessionAssumption, SMT DEF vars, tables, ServiceInv, SessionInv, TypeInv, SharedTypes
      <3> QED BY <3>1 DEF AcceptInit
    <2> QED BY <2>1
  <1>2. SessionInv' /\ Served
    BY <1>1, NextServed
  <1>3. Unseen => UNCHANGED Service!vars
    BY DEF Unseen, Stages, Flights, Service!vars
  <1> QED BY <1>2, <1>3 DEF ServiceInv, Served

(* The invariant of every behaviour whose slots are reused unheld. *)
LEMMA ServiceInductive == Spec /\ ReusedUnheld => []ServiceInv
  <1>1. Init => ServiceInv
    BY InitInv, InitRefines DEF ServiceInv
  <1> QED BY <1>1, ServiceStep, PTL DEF Spec, ReusedUnheld

(* The server keeps its promise, for any numbers of threads, slots,        *)
(* connections and packets, as long as no slot is given its next session   *)
(* while another thread still points to it.                                *)
THEOREM ImplementsService == Spec /\ ReusedUnheld => Refinement
  <1>1. Init => Service!Init
    BY InitRefines
  <1> QED BY <1>1, ServiceInductive, ServiceStep, PTL DEF Spec, ReusedUnheld, Refinement, Service!Spec

(* Without that condition: a server with one worker, and any server up to  *)
(* its first connection, implements the service.                           *)
THEOREM ServesSafely ==
  ASSUME OneWorker \/ MaxSessions <= 1
  PROVE  Spec => Refinement
  <1>1. Spec => ReusedUnheld
    BY OneWorkerReuse, FirstSessionReuse
  <1> QED BY <1>1, ImplementsService, PTL
=============================================================================
