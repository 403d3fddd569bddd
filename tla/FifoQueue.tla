----------------------------- MODULE FifoQueue ------------------------------
(***************************************************************************)
(* What the readiness queue promises to the rest of poll.rs: a queue of    *)
(* distinct nodes, first in first out, whose consumer may sleep on it, but *)
(* only when it is empty, and is woken by the next push.                   *)
(***************************************************************************)
EXTENDS Sequences

CONSTANT Node

VARIABLES
    q,          \* the nodes pushed and not yet taken, oldest first
    sleeping,   \* the consumer sleeps
    closed      \* nothing is pushed any more

vars == <<q, sleeping, closed>>

Contents == {q[i] : i \in DOMAIN q}

Init == q = <<>> /\ sleeping = FALSE /\ closed = FALSE

Push(n) ==
    /\ ~closed /\ n \notin Contents
    /\ q' = Append(q, n)
    /\ UNCHANGED <<sleeping, closed>>

Pop ==
    /\ ~sleeping /\ q # <<>>
    /\ q' = Tail(q)
    /\ UNCHANGED <<sleeping, closed>>

Sleep ==
    /\ ~sleeping /\ ~closed /\ q = <<>>
    /\ sleeping' = TRUE
    /\ UNCHANGED <<q, closed>>

WakeUp ==
    /\ sleeping
    /\ sleeping' = FALSE
    /\ UNCHANGED <<q, closed>>

Close ==
    /\ ~sleeping /\ ~closed
    /\ closed' = TRUE
    /\ UNCHANGED <<q, sleeping>>

Next == (\E n \in Node : Push(n)) \/ Pop \/ Sleep \/ WakeUp \/ Close

Safety == Init /\ [][Next]_vars

\* A sleeper is woken when there is something in the queue.
Spec == Safety /\ WF_vars(q # <<>> /\ WakeUp)

=============================================================================
