--------------------------- MODULE SessionService ---------------------------
(***************************************************************************)
(* What the server promises about the connections it accepts, whatever its *)
(* threads do: an id is opened once, ids are opened in increasing order,   *)
(* never more than Capacity sessions are alive, and a session is closed    *)
(* once, after it was doomed and after the last operation on its socket.   *)
(* SessionLifecycle implements it (see Refinement there).                  *)
(***************************************************************************)
EXTENDS Integers, FiniteSets

CONSTANTS Ids,        \* session ids, in the order they are given out
          Capacity    \* m_sessionMax

VARIABLES stage,      \* stage[id]: none, open, closing or closed
          inflight    \* inflight[id]: operations posted on its socket

vars == <<stage, inflight>>

Init == /\ stage = [id \in Ids |-> "none"]
        /\ inflight = [id \in Ids |-> 0]

Alive == {id \in Ids : stage[id] \in {"open", "closing"}}

Open(id) == /\ stage[id] = "none"
            /\ \A j \in Ids : j < id => stage[j] # "none"
            /\ Cardinality(Alive) < Capacity
            /\ stage' = [stage EXCEPT ![id] = "open"]
            /\ UNCHANGED inflight

(* From here on the session will be closed; it may still be used. *)
Doom(id) == /\ stage[id] = "open"
            /\ stage' = [stage EXCEPT ![id] = "closing"]
            /\ UNCHANGED inflight

Post(id) == /\ id \in Alive
            /\ inflight' = [inflight EXCEPT ![id] = @ + 1]
            /\ UNCHANGED stage

Complete(id) == /\ inflight[id] > 0
                /\ inflight' = [inflight EXCEPT ![id] = @ - 1]
                /\ UNCHANGED stage

Close(id) == /\ stage[id] = "closing"
             /\ inflight[id] = 0
             /\ stage' = [stage EXCEPT ![id] = "closed"]
             /\ UNCHANGED inflight

Next == \E id \in Ids : Open(id) \/ Doom(id) \/ Post(id) \/ Complete(id) \/ Close(id)

Spec == Init /\ [][Next]_vars
=============================================================================
