------------------------------ MODULE PollLock ------------------------------
(***************************************************************************)
(* Poll::poll1: the lock that lets one thread at a time into poll2.        *)
(*                                                                         *)
(* lock_state is one word: bit 0 is set while a thread polls, the rest     *)
(* counts, in twos, the threads waiting on the condition variable.  The    *)
(* word is changed with compare_exchange, fetch_sub and fetch_and, the     *)
(* first two under the mutex except on the fast path, the last one always  *)
(* without it.  Each of those, and each operation of the mutex and of the  *)
(* condition variable, is a step.                                          *)
(***************************************************************************)
EXTENDS Integers, FiniteSets

CONSTANTS Thread,   \* the threads that call poll
          Nobody    \* the owner of a free mutex

ASSUME ThreadAssumption == IsFiniteSet(Thread) /\ Nobody \notin Thread

\* The caller's timeout: none, a positive one, or zero; a positive one becomes
\* zero once it has elapsed.
Timeout == {"none", "some", "zero"}

VARIABLES
    lockState,  \* Poll::lock_state
    mutex,      \* the owner of Poll::lock
    pc,         \* per thread, where in poll1 it is
    curr,       \* per thread, the local copy of lock_state
    inc,        \* per thread, whether it is counted in lock_state
    timeout     \* per thread

vars == <<lockState, mutex, pc, curr, inc, timeout>>

Held(v) == v % 2 = 1                   \* curr & 1

Label == {"idle", "lock", "loop", "wait", "woken", "reload", "poll",
          "notifyLock", "notify"}

Init ==
    /\ lockState = 0
    /\ mutex = Nobody
    /\ pc = [t \in Thread |-> "idle"]
    /\ curr = [t \in Thread |-> 0]
    /\ inc = [t \in Thread |-> FALSE]
    /\ timeout = [t \in Thread |-> "none"]

Goto(t, l) == pc' = [pc EXCEPT ![t] = l]

-----------------------------------------------------------------------------

\* The fast path: compare_exchange(0, 1).
EnterFree(t) ==
    /\ pc[t] = "idle"
    /\ lockState = 0
    /\ lockState' = 1
    /\ Goto(t, "poll")
    /\ UNCHANGED <<mutex, curr, inc, timeout>>

EnterHeld(t, to) ==
    /\ pc[t] = "idle"
    /\ lockState # 0
    /\ timeout' = [timeout EXCEPT ![t] = to]
    /\ curr' = [curr EXCEPT ![t] = lockState]
    /\ Goto(t, "lock")
    /\ UNCHANGED <<lockState, mutex, inc>>

\* The locals of a thread that leaves the loop are dead.
Forget(t) ==
    /\ curr' = [curr EXCEPT ![t] = 0]
    /\ timeout' = [timeout EXCEPT ![t] = "none"]

AcquireMutex(t, from, to) ==
    /\ pc[t] = from
    /\ mutex = Nobody
    /\ mutex' = t
    /\ Goto(t, to)
    /\ UNCHANGED <<lockState, curr, inc, timeout>>

Lock(t) == AcquireMutex(t, "lock", "loop")

\* Mutant: a waiter that takes the lock leaves itself counted.
DesiredKeepsCount(t) == curr[t] + 1

\* The lock looked free: take bit 0 and leave the count of waiters.
Desired(t) == curr[t] + 1 - (IF inc[t] THEN 2 ELSE 0)

\* Mutant: bit 0 is stored, not compared and exchanged.
TakeLockStores(t) ==
    /\ pc[t] = "loop" /\ ~Held(curr[t])
    /\ lockState' = Desired(t)
    /\ inc' = [inc EXCEPT ![t] = FALSE]
    /\ mutex' = Nobody
    /\ Goto(t, "poll")
    /\ Forget(t)

TakeLock(t) ==
    /\ pc[t] = "loop" /\ ~Held(curr[t])
    /\ lockState = curr[t]
    /\ lockState' = Desired(t)
    /\ inc' = [inc EXCEPT ![t] = FALSE]
    /\ mutex' = Nobody
    /\ Goto(t, "poll")
    /\ Forget(t)

\* Both compare_exchanges of the loop: another thread changed the word.
Retry(t) ==
    /\ pc[t] = "loop"
    /\ ~Held(curr[t]) \/ (timeout[t] # "zero" /\ ~inc[t])
    /\ lockState # curr[t]
    /\ curr' = [curr EXCEPT ![t] = lockState]
    /\ UNCHANGED <<lockState, mutex, pc, inc, timeout>>

\* Mutant: a thread that was never counted takes itself off.
GiveUpAlwaysSubtracts(t) ==
    /\ pc[t] = "loop" /\ Held(curr[t]) /\ timeout[t] = "zero"
    /\ lockState' = lockState - 2
    /\ inc' = [inc EXCEPT ![t] = FALSE]
    /\ mutex' = Nobody
    /\ Goto(t, "idle")
    /\ Forget(t)

\* The lock is held and there is no time left: Ok(0).
GiveUp(t) ==
    /\ pc[t] = "loop" /\ Held(curr[t]) /\ timeout[t] = "zero"
    /\ lockState' = (IF inc[t] THEN lockState - 2 ELSE lockState)
    /\ inc' = [inc EXCEPT ![t] = FALSE]
    /\ mutex' = Nobody
    /\ Goto(t, "idle")
    /\ Forget(t)

\* Count this thread as a waiter; it holds the mutex and waits next.
CountMe(t) ==
    /\ pc[t] = "loop" /\ Held(curr[t]) /\ timeout[t] # "zero" /\ ~inc[t]
    /\ lockState = curr[t]
    /\ lockState' = curr[t] + 2
    /\ inc' = [inc EXCEPT ![t] = TRUE]
    /\ UNCHANGED <<mutex, pc, curr, timeout>>

\* condvar.wait / wait_timeout gives the mutex up.
Wait(t) ==
    /\ pc[t] = "loop" /\ Held(curr[t]) /\ timeout[t] # "zero" /\ inc[t]
    /\ mutex' = Nobody
    /\ Goto(t, "wait")
    /\ curr' = [curr EXCEPT ![t] = 0]
    /\ UNCHANGED <<lockState, inc, timeout>>

\* A waiter leaves the condition variable by itself: spuriously, or because
\* its time is up.
Leave(t) ==
    /\ pc[t] = "wait"
    /\ Goto(t, "woken")
    /\ UNCHANGED <<lockState, mutex, curr, inc, timeout>>

\* The wait returns with the mutex; what is left of the timeout is computed.
Woken(t, up) ==
    /\ pc[t] = "woken"
    /\ mutex = Nobody
    /\ mutex' = t
    /\ up => timeout[t] = "some"
    /\ timeout' = (IF up THEN [timeout EXCEPT ![t] = "zero"] ELSE timeout)
    /\ Goto(t, "reload")
    /\ UNCHANGED <<lockState, curr, inc>>

Reload(t) ==
    /\ pc[t] = "reload"
    /\ curr' = [curr EXCEPT ![t] = lockState]
    /\ Goto(t, "loop")
    /\ UNCHANGED <<lockState, mutex, inc, timeout>>

\* Mutant: the poller leaves without a notification.
UnlockSilently(t) ==
    /\ pc[t] = "poll"
    /\ lockState' = (IF Held(lockState) THEN lockState - 1 ELSE lockState)
    /\ Goto(t, "idle")
    /\ UNCHANGED <<mutex, curr, inc, timeout>>

\* poll2 returned: fetch_and(!1), and a notification if anybody was counted.
Unlock(t) ==
    /\ pc[t] = "poll"
    /\ lockState' = (IF Held(lockState) THEN lockState - 1 ELSE lockState)
    /\ Goto(t, IF lockState = 1 THEN "idle" ELSE "notifyLock")
    /\ UNCHANGED <<mutex, curr, inc, timeout>>

NotifyLock(t) == AcquireMutex(t, "notifyLock", "notify")

\* notify_one, and the end of _lock's scope.
Notify(t) ==
    /\ pc[t] = "notify"
    /\ mutex' = Nobody
    /\ LET waiting == {u \in Thread : pc[u] = "wait"}
       IN IF waiting = {} THEN Goto(t, "idle")
          ELSE \E u \in waiting :
                 pc' = [pc EXCEPT ![t] = "idle", ![u] = "woken"]
    /\ UNCHANGED <<lockState, curr, inc, timeout>>

-----------------------------------------------------------------------------

\* The steps of a thread that is inside poll1; the environment decides when
\* poll is called and when a waiter wakes up by itself.
Step(t) ==
    \/ Lock(t) \/ TakeLock(t) \/ Retry(t) \/ GiveUp(t) \/ CountMe(t) \/ Wait(t)
    \/ Woken(t, TRUE) \/ Woken(t, FALSE) \/ Reload(t) \/ Unlock(t)
    \/ NotifyLock(t) \/ Notify(t)

Next ==
    \E t \in Thread : \/ Step(t) \/ Leave(t)
                     \/ EnterFree(t) \/ \E to \in Timeout : EnterHeld(t, to)

Spec == Init /\ [][Next]_vars

\* Every thread runs on, and every poll2 returns.  The mutex is not fair: a
\* thread is promised the mutex only if it would otherwise wait while the
\* mutex is free again and again.
Fairness == \A t \in Thread : /\ WF_vars(Step(t))
                              /\ SF_vars(Lock(t)) /\ SF_vars(NotifyLock(t))
                              /\ SF_vars(Woken(t, FALSE) \/ Woken(t, TRUE))

LiveSpec == Spec /\ Fairness

-----------------------------------------------------------------------------
(* Properties.                                                             *)

\* Every variable has the type of its Rust counterpart; in particular the
\* word is never driven below zero by fetch_sub or by leaving the waiters.
TypeOK ==
    /\ lockState \in Nat
    /\ mutex \in Thread \cup {Nobody}
    /\ pc \in [Thread -> Label]
    /\ curr \in [Thread -> Nat]
    /\ inc \in [Thread -> BOOLEAN]
    /\ timeout \in [Thread -> Timeout]

\* At most one thread is in poll2: tail_readiness, an UnsafeCell, has one user.
OnePoller ==
    \A t, u \in Thread : pc[t] = "poll" /\ pc[u] = "poll" => t = u

Polling == {t \in Thread : pc[t] = "poll"}
Counted == {t \in Thread : inc[t]}

\* The word says what it is meant to say: bit 0 is set exactly while a thread
\* polls, and the rest is twice the number of threads that will take
\* themselves off it, whatever compare_exchange, fetch_sub and fetch_and race.
WordExact ==
    lockState = 2 * Cardinality(Counted) + (IF Polling = {} THEN 0 ELSE 1)

\* A thread that will look at the lock again, or make another one look.
Responsible(t) ==
    \/ pc[t] \in {"notifyLock", "notify", "woken", "reload"}
    \/ pc[t] = "loop" /\ ~Held(curr[t])

\* No waiter is stranded: while a thread is counted as waiting and nobody
\* polls, some thread is on its way to take the lock or to notify.  A
\* notification that meets a waiter whose time is up is not lost for others.
NoStrandedWaiter ==
    Counted # {} /\ Polling = {} => \E t \in Thread : Responsible(t)

\* A thread that waits without a timeout is not forgotten: sooner or later
\* some thread polls (which one is up to the mutex).
WaitersLeadToPoll ==
    \A t \in Thread : pc[t] = "wait" /\ timeout[t] = "none" ~> Polling # {}

=============================================================================
