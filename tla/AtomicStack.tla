---------------------------- MODULE AtomicStack ----------------------------
(***************************************************************************)
(* What LockFreeStack promises to its callers: a linearizable stack of     *)
(* nodes.  A call is invoked, takes effect in one indivisible step between *)
(* its invocation and its return, and the node it moves belongs either to  *)
(* the stack or to the callers, never to both and never to two callers.    *)
(*                                                                         *)
(* The module says nothing of heads, tags or retries: LockFreeStack        *)
(* implements it (see Refinement there).                                   *)
(***************************************************************************)
EXTENDS Naturals, Sequences

CONSTANTS Threads,   \* the threads that call push and pop
          Nodes,     \* the objects that can be in the stack (T is a pointer to one)
          Null       \* nullptr

VARIABLES content,   \* the stacked nodes, the top last
          owned,     \* the nodes in the hands of the callers
          call       \* call[t]: what thread t is doing

vars == <<content, owned, call>>

Idle    == [op |-> "idle",  arg |-> Null]
Pop     == [op |-> "pop",   arg |-> Null]
Empty   == [op |-> "empty", arg |-> Null]   \* a pop that found the stack empty
Push(n) == [op |-> "push",  arg |-> n]

Top(s)     == s[Len(s)]
Without(s) == SubSeq(s, 1, Len(s) - 1)

Init == /\ content = <<>>
        /\ owned = Nodes
        /\ call = [t \in Threads |-> Idle]

InvokePush(t, n) == /\ call[t] = Idle
                    /\ n \in owned
                    /\ owned' = owned \ {n}
                    /\ call' = [call EXCEPT ![t] = Push(n)]
                    /\ UNCHANGED content

InvokePop(t) == /\ call[t] = Idle
                /\ call' = [call EXCEPT ![t] = Pop]
                /\ UNCHANGED <<content, owned>>

(* push takes effect and returns. *)
DoPush(t) == \E n \in Nodes :
                /\ call[t] = Push(n)
                /\ content' = Append(content, n)
                /\ call' = [call EXCEPT ![t] = Idle]
                /\ UNCHANGED owned

(* pop takes effect and returns the top. *)
DoPop(t) == /\ call[t] = Pop
            /\ content # <<>>
            /\ content' = Without(content)
            /\ owned' = owned \cup {Top(content)}
            /\ call' = [call EXCEPT ![t] = Idle]

(* pop takes effect on an empty stack; it returns nullptr some time later. *)
DoPopEmpty(t) == /\ call[t] = Pop
                 /\ content = <<>>
                 /\ call' = [call EXCEPT ![t] = Empty]
                 /\ UNCHANGED <<content, owned>>

ReturnEmpty(t) == /\ call[t] = Empty
                  /\ call' = [call EXCEPT ![t] = Idle]
                  /\ UNCHANGED <<content, owned>>

Next == \E t \in Threads :
          \/ \E n \in Nodes : InvokePush(t, n)
          \/ InvokePop(t)
          \/ DoPush(t)
          \/ DoPop(t)
          \/ DoPopEmpty(t)
          \/ ReturnEmpty(t)

Spec == Init /\ [][Next]_vars
=============================================================================
