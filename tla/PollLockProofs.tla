--------------------------- MODULE PollLockProofs ---------------------------
(***************************************************************************)
(* Proofs about PollLock, for any finite set of threads.                   *)
(*                                                                         *)
(* Neither the type of lock_state (fetch_sub and the compare_exchange that *)
(* takes a waiter off must not go below zero) nor mutual exclusion is      *)
(* inductive without WordExact, which ties the word to the threads; and    *)
(* NoStrandedWaiter needs to know who holds the mutex.                     *)
(***************************************************************************)
EXTENDS PollLock, FiniteSetTheorems, TLAPS

\* The thread that runs the loop, reloads or notifies holds the mutex.
MutexHeld == \A t \in Thread : pc[t] \in {"loop", "reload", "notify"} => mutex = t

\* A thread is counted only between its own CountMe and its own exit.
CountedInside ==
    \A t \in Thread : inc[t] => pc[t] \in {"loop", "wait", "woken", "reload"}

IInv == TypeOK /\ OnePoller /\ WordExact /\ MutexHeld /\ CountedInside

\* The arithmetic of the word: bit 0 of 2n is clear and of 2n + 1 is set.
LEMMA Parity ==
    \A n \in Nat : /\ (2 * n) % 2 = 0
                   /\ (2 * n + 1) % 2 = 1
  OBVIOUS

\* The set of counted threads is finite, so its cardinality is a number.
LEMMA CountedFinite ==
    /\ IsFiniteSet(Counted) /\ Cardinality(Counted) \in Nat
    /\ Cardinality(Counted) = 0 <=> Counted = {}
  <1>1. Counted \in SUBSET Thread
    BY DEF Counted
  <1>2. IsFiniteSet(Counted)
    BY <1>1, ThreadAssumption, FS_Subset
  <1> QED BY <1>2, FS_CardinalityType, FS_EmptySet

\* What the word says when the invariant holds.
LEMMA WordMeans ==
    ASSUME IInv
    PROVE  /\ Held(lockState) <=> Polling # {}
           /\ lockState = 0 => Polling = {} /\ Counted = {}
           /\ Counted # {} => lockState >= 2
           /\ lockState = 1 => Counted = {}
  <1> DEFINE c == Cardinality(Counted)
  <1>1. c \in Nat /\ (c = 0 <=> Counted = {})
    BY CountedFinite
  <1>2. lockState = 2 * c + (IF Polling = {} THEN 0 ELSE 1)
    BY DEF IInv, WordExact
  <1> HIDE DEF c
  <1>3. (2 * c) % 2 = 0 /\ (2 * c + 1) % 2 = 1
    BY <1>1, Parity
  <1> QED BY <1>1, <1>2, <1>3 DEF Held

\* A step that moves nobody into or out of poll2 and counts nobody in or out
\* leaves the word alone.
LEMMA WordKept ==
    ASSUME WordExact, lockState' = lockState, inc' = inc, Polling' = Polling
    PROVE  WordExact'
  BY DEF WordExact, Counted

\* A thread that stops being counted takes one off the number of waiters.
LEMMA Uncount ==
    ASSUME IInv, NEW t \in Thread, inc[t], inc' = [inc EXCEPT ![t] = FALSE]
    PROVE  /\ Cardinality(Counted') = Cardinality(Counted) - 1
           /\ Cardinality(Counted) \in Nat \ {0}
  <1>1. inc \in [Thread -> BOOLEAN]
    BY DEF IInv, TypeOK
  <1>2. Counted' = Counted \ {t} /\ t \in Counted
    BY <1>1 DEF Counted
  <1>3. IsFiniteSet(Counted) /\ Cardinality(Counted) \in Nat \ {0}
    BY <1>2, CountedFinite
  <1> QED BY <1>2, <1>3, FS_RemoveElement

\* A thread that is counted adds one to the number of waiters.
LEMMA Count ==
    ASSUME IInv, NEW t \in Thread, ~inc[t], inc' = [inc EXCEPT ![t] = TRUE]
    PROVE  Cardinality(Counted') = Cardinality(Counted) + 1
  <1>1. inc \in [Thread -> BOOLEAN]
    BY DEF IInv, TypeOK
  <1>2. Counted' = Counted \cup {t} /\ t \notin Counted
    BY <1>1 DEF Counted
  <1> QED BY <1>2, CountedFinite, FS_AddElement

\* Setting a counter that is already off changes nothing.
LEMMA StaysUncounted ==
    ASSUME IInv, NEW t \in Thread, ~inc[t], inc' = [inc EXCEPT ![t] = FALSE]
    PROVE  inc' = inc
  BY DEF IInv, TypeOK

-----------------------------------------------------------------------------
(* The inductive invariant.                                                *)

\* Nobody polls, nobody is counted and the mutex is free in the beginning.
LEMMA InitIInv == Init => IInv
  <1> SUFFICES ASSUME Init PROVE IInv
    OBVIOUS
  <1>1. TypeOK /\ OnePoller /\ MutexHeld /\ CountedInside
    BY DEF Init, TypeOK, Label, Timeout, OnePoller, MutexHeld, CountedInside
  <1>2. Counted = {} /\ Polling = {}
    BY DEF Init, Counted, Polling
  <1>3. WordExact
    BY <1>2, FS_EmptySet DEF Init, WordExact
  <1> QED BY <1>1, <1>3 DEF IInv

\* Every step keeps the word, the mutex and the threads in agreement.
LEMMA NextIInv ==
    ASSUME IInv, [Next]_vars
    PROVE  IInv'
  <1> DEFINE c == Cardinality(Counted)
  <1> USE DEF Goto, Forget, AcquireMutex, Label, Timeout
  <1>t. /\ TypeOK /\ OnePoller /\ WordExact /\ MutexHeld /\ CountedInside
        /\ c \in Nat
    BY CountedFinite DEF IInv
  <1>w. lockState = 2 * c + (IF Polling = {} THEN 0 ELSE 1)
    BY <1>t DEF WordExact
  <1> HIDE DEF c
  <1>1. ASSUME NEW t \in Thread, EnterFree(t) PROVE IInv'
    <2> USE <1>1 DEF EnterFree
    <2>1. TypeOK'
      BY <1>t DEF TypeOK
    <2>2. Polling = {} /\ Counted = {} /\ Polling' = {t} /\ Counted' = {}
      BY <1>t, WordMeans DEF TypeOK, Polling, Counted
    <2>3. WordExact'
      BY <2>2, FS_EmptySet DEF WordExact
    <2>4. OnePoller' /\ MutexHeld' /\ CountedInside'
      BY <1>t, <2>2
      DEF TypeOK, OnePoller, MutexHeld, CountedInside, Polling, Counted
    <2> QED BY <2>1, <2>3, <2>4 DEF IInv
  <1>2. ASSUME NEW t \in Thread, NEW to \in Timeout, EnterHeld(t, to) PROVE IInv'
    <2> USE <1>2 DEF EnterHeld
    <2>1. TypeOK' /\ OnePoller' /\ MutexHeld' /\ CountedInside'
      BY <1>t DEF TypeOK, OnePoller, MutexHeld, CountedInside
    <2>2. Polling' = Polling
      BY <1>t DEF TypeOK, Polling
    <2> QED BY <1>t, <2>1, <2>2, WordKept DEF IInv
  <1>3. ASSUME NEW t \in Thread, Lock(t) PROVE IInv'
    <2> USE <1>3 DEF Lock
    <2>1. TypeOK' /\ OnePoller' /\ MutexHeld' /\ CountedInside'
      BY <1>t, ThreadAssumption DEF TypeOK, OnePoller, MutexHeld, CountedInside
    <2>2. Polling' = Polling
      BY <1>t DEF TypeOK, Polling
    <2> QED BY <1>t, <2>1, <2>2, WordKept DEF IInv
  <1>4. ASSUME NEW t \in Thread, TakeLock(t) PROVE IInv'
    <2> USE <1>4 DEF TakeLock
    <2>1. Polling = {} /\ Polling' = {t}
      BY <1>t, WordMeans DEF TypeOK, Polling
    <2>2. lockState' = 2 * Cardinality(Counted') + 1 /\ lockState' \in Nat
      <3>1. CASE inc[t]
        <4>1. Cardinality(Counted') = c - 1 /\ c \in Nat \ {0}
          BY <3>1, Uncount DEF c
        <4>2. lockState' = 2 * c - 1
          BY <3>1, <1>w, <1>t, <2>1 DEF Desired
        <4> QED BY <4>1, <4>2
      <3>2. CASE ~inc[t]
        <4>1. Counted' = Counted
          BY <3>2, StaysUncounted DEF Counted
        <4> QED BY <3>2, <4>1, <1>w, <1>t, <2>1 DEF Desired, c
      <3> QED BY <3>1, <3>2
    <2>3. TypeOK' /\ WordExact'
      BY <1>t, <2>1, <2>2 DEF TypeOK, WordExact
    <2>4. OnePoller' /\ MutexHeld' /\ CountedInside'
      BY <1>t, <2>1, ThreadAssumption
      DEF TypeOK, OnePoller, MutexHeld, CountedInside, Polling
    <2> QED BY <2>3, <2>4 DEF IInv
  <1>5. ASSUME NEW t \in Thread, Retry(t) PROVE IInv'
    <2> USE <1>5 DEF Retry
    <2>1. TypeOK' /\ OnePoller' /\ MutexHeld' /\ CountedInside'
      BY <1>t DEF TypeOK, OnePoller, MutexHeld, CountedInside
    <2>2. Polling' = Polling
      BY DEF Polling
    <2> QED BY <1>t, <2>1, <2>2, WordKept DEF IInv
  <1>6. ASSUME NEW t \in Thread, GiveUp(t) PROVE IInv'
    <2> USE <1>6 DEF GiveUp
    <2>1. Polling' = Polling
      BY <1>t DEF TypeOK, Polling
    <2>2. WordExact' /\ lockState' \in Nat
      <3>1. CASE inc[t]
        <4>1. Cardinality(Counted') = c - 1 /\ c \in Nat \ {0}
          BY <3>1, Uncount DEF c
        <4> QED BY <3>1, <4>1, <1>w, <2>1 DEF WordExact
      <3>2. CASE ~inc[t]
        BY <3>2, <1>t, <2>1, StaysUncounted, WordKept DEF TypeOK
      <3> QED BY <3>1, <3>2
    <2>3. TypeOK'
      BY <1>t, <2>2 DEF TypeOK
    <2>4. OnePoller' /\ MutexHeld' /\ CountedInside'
      BY <1>t, ThreadAssumption DEF TypeOK, OnePoller, MutexHeld, CountedInside
    <2> QED BY <2>2, <2>3, <2>4 DEF IInv
  <1>7. ASSUME NEW t \in Thread, CountMe(t) PROVE IInv'
    <2> USE <1>7 DEF CountMe
    <2>1. Polling' = Polling
      BY DEF Polling
    <2>2. WordExact'
      <3>1. Cardinality(Counted') = c + 1
        BY Count DEF c
      <3> QED BY <3>1, <1>w, <1>t, <2>1 DEF WordExact
    <2>3. TypeOK' /\ OnePoller' /\ MutexHeld' /\ CountedInside'
      BY <1>t DEF TypeOK, OnePoller, MutexHeld, CountedInside
    <2> QED BY <2>2, <2>3 DEF IInv
  <1>8. ASSUME NEW t \in Thread, Wait(t) \/ Leave(t) PROVE IInv'
    <2> USE <1>8 DEF Wait, Leave
    <2>1. TypeOK' /\ OnePoller' /\ MutexHeld' /\ CountedInside'
      BY <1>t, ThreadAssumption DEF TypeOK, OnePoller, MutexHeld, CountedInside
    <2>2. Polling' = Polling
      BY <1>t DEF TypeOK, Polling
    <2> QED BY <1>t, <2>1, <2>2, WordKept DEF IInv
  <1>9. ASSUME NEW t \in Thread, NEW up \in BOOLEAN, Woken(t, up) PROVE IInv'
    <2> USE <1>9 DEF Woken
    <2>1. TypeOK' /\ OnePoller' /\ MutexHeld' /\ CountedInside'
      BY <1>t, ThreadAssumption DEF TypeOK, OnePoller, MutexHeld, CountedInside
    <2>2. Polling' = Polling
      BY <1>t DEF TypeOK, Polling
    <2> QED BY <1>t, <2>1, <2>2, WordKept DEF IInv
  <1>10. ASSUME NEW t \in Thread, Reload(t) PROVE IInv'
    <2> USE <1>10 DEF Reload
    <2>1. TypeOK' /\ OnePoller' /\ MutexHeld' /\ CountedInside'
      BY <1>t DEF TypeOK, OnePoller, MutexHeld, CountedInside
    <2>2. Polling' = Polling
      BY <1>t DEF TypeOK, Polling
    <2> QED BY <1>t, <2>1, <2>2, WordKept DEF IInv
  <1>11. ASSUME NEW t \in Thread, Unlock(t) PROVE IInv'
    <2> USE <1>11 DEF Unlock
    <2>1. Polling = {t} /\ Polling' = {}
      BY <1>t DEF TypeOK, OnePoller, Polling
    <2>2. Held(lockState) /\ lockState' = 2 * c
      BY <1>w, <1>t, <2>1, WordMeans
    <2>3. WordExact' /\ lockState' \in Nat
      BY <1>t, <2>1, <2>2 DEF WordExact, c, Counted
    <2>4. TypeOK' /\ OnePoller' /\ MutexHeld' /\ CountedInside'
      BY <1>t, <2>3 DEF TypeOK, OnePoller, MutexHeld, CountedInside
    <2> QED BY <2>3, <2>4 DEF IInv
  <1>12. ASSUME NEW t \in Thread, NotifyLock(t) PROVE IInv'
    <2> USE <1>12 DEF NotifyLock
    <2>1. TypeOK' /\ OnePoller' /\ MutexHeld' /\ CountedInside'
      BY <1>t, ThreadAssumption DEF TypeOK, OnePoller, MutexHeld, CountedInside
    <2>2. Polling' = Polling
      BY <1>t DEF TypeOK, Polling
    <2> QED BY <1>t, <2>1, <2>2, WordKept DEF IInv
  <1>13. ASSUME NEW t \in Thread, Notify(t) PROVE IInv'
    <2> USE <1>13 DEF Notify
    <2>1. TypeOK' /\ OnePoller' /\ MutexHeld' /\ CountedInside'
      BY <1>t, ThreadAssumption DEF TypeOK, OnePoller, MutexHeld, CountedInside
    <2>2. Polling' = Polling
      BY <1>t DEF TypeOK, Polling
    <2> QED BY <1>t, <2>1, <2>2, WordKept DEF IInv
  <1>14. CASE UNCHANGED vars
    BY <1>t, <1>14
    DEF vars, IInv, TypeOK, OnePoller, WordExact, MutexHeld, CountedInside,
        Polling, Counted
  <1> QED BY <1>1, <1>2, <1>3, <1>4, <1>5, <1>6, <1>7, <1>8, <1>9, <1>10,
             <1>11, <1>12, <1>13, <1>14
          DEF Next, Step

\* The word, the mutex and the threads agree in every reachable state.
THEOREM Invariance == Spec => []IInv
  BY InitIInv, NextIInv, PTL DEF Spec

\* poll1 keeps its types; the word in particular never wraps below zero.
THEOREM TypeCorrect == Spec => []TypeOK
  <1>1. IInv => TypeOK
    BY DEF IInv
  <1> QED BY <1>1, Invariance, PTL

\* poll1 lets one thread at a time into poll2, whatever the number of threads.
THEOREM MutualExclusion == Spec => []OnePoller
  <1>1. IInv => OnePoller
    BY DEF IInv
  <1> QED BY <1>1, Invariance, PTL

\* lock_state is at any moment the number of counted waiters and the poller.
THEOREM WordIsExact == Spec => []WordExact
  <1>1. IInv => WordExact
    BY DEF IInv
  <1> QED BY <1>1, Invariance, PTL

-----------------------------------------------------------------------------
(* No waiter is stranded.                                                  *)

\* A responsible thread that a step leaves where it is stays responsible.
LEMMA StaysResponsible ==
    ASSUME NEW u \in Thread, Responsible(u), pc'[u] = pc[u], curr'[u] = curr[u]
    PROVE  Responsible(u)'
  BY DEF Responsible

\* Every step that takes a responsible thread away, or that counts a waiter,
\* either has somebody in poll2 or makes another thread responsible.
LEMMA NextNotStranded ==
    ASSUME IInv, NoStrandedWaiter, [Next]_vars
    PROVE  NoStrandedWaiter'
  <1> SUFFICES ASSUME Counted' # {}, Polling' = {}
               PROVE  \E u \in Thread : Responsible(u)'
    BY DEF NoStrandedWaiter
  <1> USE DEF Goto, Forget, AcquireMutex
  <1>t. TypeOK /\ MutexHeld /\ CountedInside
    BY DEF IInv
  <1>1. ASSUME NEW t \in Thread, EnterFree(t) \/ TakeLock(t) PROVE FALSE
    BY <1>1, <1>t DEF TypeOK, EnterFree, TakeLock, Polling
  <1>2. ASSUME NEW t \in Thread, ~Responsible(t), Counted # {}, Polling = {},
               \A u \in Thread \ {t} : pc'[u] = pc[u] /\ curr'[u] = curr[u]
        PROVE  \E u \in Thread : Responsible(u)'
    <2>1. PICK u \in Thread : Responsible(u)
      BY <1>2 DEF NoStrandedWaiter
    <2> QED BY <1>2, <2>1, StaysResponsible
  <1>3. ASSUME NEW t \in Thread, \/ \E to \in Timeout : EnterHeld(t, to)
                                 \/ Lock(t) \/ GiveUp(t) \/ Wait(t)
        PROVE  \E u \in Thread : Responsible(u)'
    <2>1. ~Responsible(t)
      BY <1>3 DEF Responsible, EnterHeld, Lock, GiveUp, Wait
    <2>2. \A u \in Thread \ {t} : pc'[u] = pc[u] /\ curr'[u] = curr[u]
      BY <1>3, <1>t DEF TypeOK, EnterHeld, Lock, GiveUp, Wait
    <2>3. Polling = {}
      BY <1>3, <1>t DEF TypeOK, Polling, EnterHeld, Lock, GiveUp, Wait
    <2>4. Counted # {}
      BY <1>3, <1>t DEF TypeOK, Counted, EnterHeld, Lock, GiveUp, Wait
    <2> QED BY <1>2, <2>1, <2>2, <2>3, <2>4
  <1>4. ASSUME NEW t \in Thread, Retry(t) \/ Reload(t) PROVE Responsible(t)'
    <2>1. Polling = {}
      BY <1>4, <1>t DEF TypeOK, Polling, Retry, Reload
    <2>2. ~Held(lockState)
      BY <2>1, WordMeans
    <2> QED BY <1>4, <1>t, <2>2 DEF TypeOK, Responsible, Retry, Reload
  <1>5. ASSUME NEW t \in Thread, CountMe(t) PROVE FALSE
    <2>1. Polling # {}
      BY <1>5, WordMeans DEF CountMe
    <2> QED BY <1>5, <2>1 DEF CountMe, Polling
  <1>6. ASSUME NEW t \in Thread, \/ Leave(t) \/ NotifyLock(t)
                                 \/ \E up \in BOOLEAN : Woken(t, up)
        PROVE  Responsible(t)'
    BY <1>6, <1>t DEF TypeOK, Responsible, Leave, NotifyLock, Woken
  <1>7. ASSUME NEW t \in Thread, Unlock(t) PROVE Responsible(t)'
    <2>1. Counted # {}
      BY <1>7 DEF Unlock, Counted
    <2>2. lockState # 1
      BY <2>1, WordMeans
    <2> QED BY <1>7, <1>t, <2>2 DEF TypeOK, Responsible, Unlock
  <1>8. ASSUME NEW t \in Thread, Notify(t)
        PROVE  \E u \in Thread : Responsible(u)'
    <2>1. CASE \E u \in Thread : pc[u] = "wait"
      <3>1. PICK u \in Thread : pc[u] = "wait" /\ pc'[u] = "woken"
        BY <1>8, <2>1, <1>t DEF TypeOK, Notify
      <3> QED BY <3>1 DEF Responsible
    <2>2. CASE ~\E u \in Thread : pc[u] = "wait"
      <3>1. PICK u \in Thread : inc[u]
        BY <1>8 DEF Notify, Counted
      <3>2. pc[u] = "woken" /\ u # t
        BY <3>1, <2>2, <1>8, <1>t DEF CountedInside, MutexHeld, Notify
      <3>3. pc'[u] = "woken"
        BY <1>8, <2>2, <3>2, <1>t DEF TypeOK, Notify
      <3> QED BY <3>3 DEF Responsible
    <2> QED BY <2>1, <2>2
  <1>9. CASE UNCHANGED vars
    <2>1. Counted # {} /\ Polling = {}
      BY <1>9 DEF vars, Counted, Polling
    <2>2. PICK u \in Thread : Responsible(u)
      BY <2>1 DEF NoStrandedWaiter
    <2> QED BY <1>9, <2>2, StaysResponsible DEF vars
  <1> QED BY <1>1, <1>3, <1>4, <1>5, <1>6, <1>7, <1>8, <1>9 DEF Next, Step

\* While a thread is counted and nobody polls, some thread is about to take
\* the lock or to notify: the notification of poll1 is never lost.
THEOREM NobodyStranded == Spec => []NoStrandedWaiter
  <1>1. Init => NoStrandedWaiter
    BY DEF Init, NoStrandedWaiter, Counted
  <1> QED BY <1>1, Invariance, NextNotStranded, PTL DEF Spec

=============================================================================
