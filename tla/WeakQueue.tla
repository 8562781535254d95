----------------------------- MODULE WeakQueue -----------------------------
(***************************************************************************)
(* What LockFreeQueue.h promises its callers: a bounded FIFO queue whose   *)
(* push and pop take effect at one moment of the call, and may give up not *)
(* only when the queue is full or empty but also while another thread is   *)
(* in the middle of the opposite call, its place taken and not yet passed  *)
(* on.  What a caller may conclude from a failed pop is therefore: the     *)
(* queue was empty, or a push had not returned.                            *)
(***************************************************************************)
EXTENDS Naturals, Sequences

CONSTANTS Threads,    \* the callers
          Values,     \* what is queued
          None,       \* no value
          Capacity    \* places in the queue

VARIABLES content,    \* the queue, the oldest value first
          call        \* call[t]: the call thread t is in, and its value

vars == <<content, call>>

Idle == [op |-> "idle", val |-> None]

Init == content = <<>> /\ call = [t \in Threads |-> Idle]

Becomes(t, c) == call' = [call EXCEPT ![t] = c]

InvokePush(t, v) == /\ call[t] = Idle
                    /\ Becomes(t, [op |-> "push", val |-> v])
                    /\ UNCHANGED content

InvokePop(t) == /\ call[t] = Idle
                /\ Becomes(t, [op |-> "pop", val |-> None])
                /\ UNCHANGED content

(* The value enters the queue; its push has yet to return true. *)
Put(t) == /\ call[t].op = "push"
          /\ Len(content) < Capacity
          /\ content' = Append(content, call[t].val)
          /\ Becomes(t, [call[t] EXCEPT !.op = "put"])

(* The oldest value leaves the queue; its pop has yet to return it. *)
Take(t) == /\ call[t].op = "pop"
           /\ content # <<>>
           /\ content' = Tail(content)
           /\ Becomes(t, [op |-> "took", val |-> Head(content)])

Done(t) == /\ call[t].op \in {"put", "took"}
           /\ Becomes(t, Idle)
           /\ UNCHANGED content

(* push returns false. *)
GiveUpPush(t) == /\ call[t].op = "push"
                 /\ \/ Len(content) = Capacity
                    \/ \E u \in Threads : call[u].op = "took"
                 /\ Becomes(t, Idle)
                 /\ UNCHANGED content

(* pop returns false. *)
GiveUpPop(t) == /\ call[t].op = "pop"
                /\ \/ content = <<>>
                   \/ \E u \in Threads : call[u].op = "put"
                /\ Becomes(t, Idle)
                /\ UNCHANGED content

Next == \E t \in Threads : \/ \E v \in Values : InvokePush(t, v)
                           \/ InvokePop(t)
                           \/ Put(t) \/ Take(t) \/ Done(t)
                           \/ GiveUpPush(t) \/ GiveUpPop(t)

Spec == Init /\ [][Next]_vars
=============================================================================
