----------------------------- MODULE QueueTest -----------------------------
(***************************************************************************)
(* Benchmark.cpp, testLockFreeQueue: producers that retry a push until it  *)
(* succeeds, consumers that stop once every producer has finished and the  *)
(* queue is empty, and the count of what came out.  It is how a user of    *)
(* the queue is meant to end: the queue's false is no proof of emptiness   *)
(* while a push is half done, so a consumer that has seen producersDone    *)
(* tries once more.                                                        *)
(*                                                                         *)
(* The queue is WeakQueue, which LockFreeQueue implements; a value is a    *)
(* producer and an index.  seen[value]++ and poppedCount++ are one step,   *)
(* read only after the threads have been joined.                           *)
(***************************************************************************)
EXTENDS Naturals, Sequences

CONSTANTS Producers, Consumers, None,
          CountPerThread,   \* pushes of each producer
          Capacity          \* of the queue (1024)

VARIABLES content, call,    \* the queue
          sent,             \* sent[p]: pushes of p that have returned true
          state,            \* where each consumer is
          producersDone,
          seen              \* seen[v]: how often v was popped

queue == <<content, call>>

Values == Producers \X (0..(CountPerThread - 1))

Queue == INSTANCE WeakQueue WITH Threads <- Producers \cup Consumers

Init == /\ Queue!Init
        /\ sent = [p \in Producers |-> 0]
        /\ state = [c \in Consumers |-> "first"]
        /\ producersDone = FALSE
        /\ seen = [v \in Values |-> 0]

-----------------------------------------------------------------------------
(* A producer *)

Push(p) == /\ sent[p] < CountPerThread
           /\ Queue!InvokePush(p, <<p, sent[p]>>)
           /\ UNCHANGED <<sent, state, producersDone, seen>>

(* push works on the queue, or returns false: yield and try again. *)
PushGoesOn(p) == /\ Queue!Put(p) \/ Queue!GiveUpPush(p)
                 /\ UNCHANGED <<sent, state, producersDone, seen>>

PushReturns(p) == /\ Queue!Done(p)
                  /\ sent' = [sent EXCEPT ![p] = @ + 1]
                  /\ UNCHANGED <<state, producersDone, seen>>

(* The test's own thread: every producer is joined. *)
JoinProducers == /\ ~producersDone
                 /\ \A p \in Producers : sent[p] = CountPerThread
                 /\ producersDone' = TRUE
                 /\ UNCHANGED <<queue, sent, state, seen>>

-----------------------------------------------------------------------------
(* A consumer *)

Become(c, s) == state' = [state EXCEPT ![c] = s]

Pop(c) == /\ state[c] \in {"first", "second"}
          /\ Queue!InvokePop(c)
          /\ UNCHANGED <<sent, state, producersDone, seen>>

PopGoesOn(c) == Queue!Take(c) /\ UNCHANGED <<sent, state, producersDone, seen>>

PopReturns(c) == LET v == call[c].val IN
                 /\ Queue!Done(c)
                 /\ seen' = [seen EXCEPT ![v] = @ + 1]
                 /\ Become(c, "first")
                 /\ UNCHANGED <<sent, producersDone>>

PopFails(c) == /\ Queue!GiveUpPop(c)
               /\ Become(c, IF state[c] = "first" THEN "failed" ELSE "done")
               /\ UNCHANGED <<sent, producersDone, seen>>

(* Mutant: the flag is never looked at. *)
LookAway(c) == /\ state[c] = "failed"
               /\ Become(c, "first")
               /\ UNCHANGED <<queue, sent, producersDone, seen>>

(* producersDone.load() *)
Look(c) == /\ state[c] = "failed"
           /\ Become(c, IF producersDone THEN "second" ELSE "first")
           /\ UNCHANGED <<queue, sent, producersDone, seen>>

Finished == /\ producersDone
            /\ \A c \in Consumers : state[c] = "done"

-----------------------------------------------------------------------------

Producer(p) == Push(p) \/ PushGoesOn(p) \/ PushReturns(p)
Consumer(c) == Pop(c) \/ PopGoesOn(c) \/ PopReturns(c) \/ PopFails(c) \/ Look(c)

(* What the test checks at its end: every value came out exactly once.     *)
EverySeenOnce == Finished => \A v \in Values : seen[v] = 1
=============================================================================
