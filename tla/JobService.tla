----------------------------- MODULE JobService -----------------------------
(***************************************************************************)
(* What enqueue_job promises its callers: the jobs handed to a loop run    *)
(* one at a time, each once, in the order in which they were handed over,  *)
(* and all of them, unless the loop ends first.                            *)
(***************************************************************************)
EXTENDS Sequences

CONSTANT Job

VARIABLES
    todo,       \* the jobs handed over and not yet run, oldest first
    ran,        \* the jobs that were begun, in this order
    ended       \* the loop has ended

vars == <<todo, ran, ended>>

Handed == {todo[i] : i \in DOMAIN todo} \cup {ran[i] : i \in DOMAIN ran}

Init == todo = <<>> /\ ran = <<>> /\ ended = FALSE

Submit(j) ==
    /\ j \notin Handed
    /\ todo' = Append(todo, j)
    /\ UNCHANGED <<ran, ended>>

Run ==
    /\ todo # <<>> /\ ~ended
    /\ ran' = Append(ran, Head(todo))
    /\ todo' = Tail(todo)
    /\ UNCHANGED ended

End ==
    /\ ~ended
    /\ ended' = TRUE
    /\ UNCHANGED <<todo, ran>>

\* What the loop left behind is thrown away with it.
Discard ==
    /\ ended /\ todo # <<>>
    /\ todo' = Tail(todo)
    /\ UNCHANGED <<ran, ended>>

Next == (\E j \in Job : Submit(j)) \/ Run \/ End \/ Discard

Spec == Init /\ [][Next]_vars /\ WF_vars(Run)

=============================================================================
