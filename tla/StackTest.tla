----------------------------- MODULE StackTest -----------------------------
(***************************************************************************)
(* Benchmark.cpp, testLockFreeStack: producers push nodes, consumers pop   *)
(* them and stop once every producer has finished and isEmpty answers      *)
(* true, which they ask after a pop that found nothing.                    *)
(*                                                                         *)
(* The stack is AtomicStack, which LockFreeStack implements; a node is a   *)
(* producer and an index.  seen[value]++ and poppedCount++ are one step,   *)
(* read only after the threads have been joined.                           *)
(***************************************************************************)
EXTENDS Naturals, Sequences

CONSTANTS Producers, Consumers, None,
          CountPerThread    \* pushes of each producer

VARIABLES content, owned, call,   \* the stack
          sent,                   \* sent[p]: nodes p has made
          state,                  \* where each consumer is
          producersDone,
          seen                    \* seen[n]: how often node n was popped

Nodes == Producers \X (0..(CountPerThread - 1))

Stack == INSTANCE AtomicStack WITH Threads <- Producers \cup Consumers, Null <- None

Init == /\ Stack!Init
        /\ sent = [p \in Producers |-> 0]
        /\ state = [c \in Consumers |-> "look"]
        /\ producersDone = FALSE
        /\ seen = [n \in Nodes |-> 0]

-----------------------------------------------------------------------------

Push(p) == /\ sent[p] < CountPerThread
           /\ Stack!InvokePush(p, <<p, sent[p]>>)
           /\ sent' = [sent EXCEPT ![p] = @ + 1]
           /\ UNCHANGED <<state, producersDone, seen>>

PushReturns(p) == Stack!DoPush(p) /\ UNCHANGED <<sent, state, producersDone, seen>>

JoinProducers == /\ ~producersDone
                 /\ \A p \in Producers : sent[p] = CountPerThread /\ call[p] = Stack!Idle
                 /\ producersDone' = TRUE
                 /\ UNCHANGED <<content, owned, call, sent, state, seen>>

Become(c, s) == state' = [state EXCEPT ![c] = s]

Pop(c) == /\ state[c] = "look"
          /\ Stack!InvokePop(c)
          /\ UNCHANGED <<sent, state, producersDone, seen>>

PopReturns(c) == /\ Stack!DoPop(c)
                 /\ seen' = [seen EXCEPT ![Stack!Top(content)] = @ + 1]
                 /\ UNCHANGED <<sent, state, producersDone>>

PopFindsNothing(c) == /\ Stack!DoPopEmpty(c)
                      /\ UNCHANGED <<sent, state, producersDone, seen>>

PopFails(c) == /\ Stack!ReturnEmpty(c)
               /\ Become(c, "failed")
               /\ UNCHANGED <<sent, producersDone, seen>>

(* producersDone.load() *)
LookAtFlag(c) == /\ state[c] = "failed"
                 /\ Become(c, IF producersDone THEN "sawDone" ELSE "look")
                 /\ UNCHANGED <<content, owned, call, sent, producersDone, seen>>

(* Mutant: the pop that found nothing is taken for an empty stack. *)
TrustPop(c) == /\ state[c] = "sawDone"
               /\ Become(c, "done")
               /\ UNCHANGED <<content, owned, call, sent, producersDone, seen>>

(* isEmpty() *)
LookAtStack(c) == /\ state[c] = "sawDone"
                  /\ Become(c, IF content = <<>> THEN "done" ELSE "look")
                  /\ UNCHANGED <<content, owned, call, sent, producersDone, seen>>

Finished == producersDone /\ \A c \in Consumers : state[c] = "done"

-----------------------------------------------------------------------------

Producer(p) == Push(p) \/ PushReturns(p)
Consumer(c) == \/ Pop(c) \/ PopReturns(c) \/ PopFindsNothing(c) \/ PopFails(c)
               \/ LookAtFlag(c) \/ LookAtStack(c)

(* What the test checks at its end: every node came out exactly once.      *)
EverySeenOnce == Finished => \A n \in Nodes : seen[n] = 1
=============================================================================
