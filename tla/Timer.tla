------------------------------- MODULE Timer --------------------------------
(***************************************************************************)
(* The hashed timer wheel of timer.rs, the thread that wakes it up, and    *)
(* the event loop that drives it (EventLoop::io_process: while let Some).  *)
(*                                                                         *)
(* The wheel belongs to the loop thread; it shares with the wakeup thread  *)
(* the word wakeup_state, the park token and the readiness of the timer's  *)
(* Registration, of which ReadinessNode is the detailed model.  Every      *)
(* iteration of poll_to is a step, so that the wakeup thread and the clock *)
(* run between iterations.                                                 *)
(***************************************************************************)
EXTENDS Integers, FiniteSets

CONSTANTS
    Key,        \* keys of the slab of entries
    Empty,      \* EMPTY
    TickMs,     \* milliseconds per tick
    NumSlots,   \* slots of the wheel, a power of two
    Delay,      \* delays callers ask for, in milliseconds
    MaxMs,      \* bound: the clock stops here
    MaxTick,    \* bound: poll is not called once the wheel is past this tick
    TickMax     \* TICK_MAX and usize::MAX

DurationToTick(d) == (d + TickMs \div 2) \div TickMs

ASSUME TimerAssumption ==
    /\ Empty \notin Key /\ TickMax \in Nat
    /\ TickMs \in Nat \ {0} /\ NumSlots \in Nat \ {0}
    /\ MaxMs \in Nat /\ Delay \subseteq Nat /\ MaxTick \in Nat
    /\ MaxTick + NumSlots < TickMax
    /\ \A d \in Delay : DurationToTick(MaxMs + d) < TickMax

TERMINATE_THREAD == 0

VARIABLES
    ms,         \* start.elapsed() in milliseconds
    tick, nxt, wheel, entries,  \* Timer: tick, next, wheel, entries
    lpc,        \* the loop thread: "idle", or where in poll_to it is
    target,     \* poll_to's target_tick
    ready, queued,              \* the Registration: readable, and in the queue
    wakeupState, unparked,      \* wakeup_state; the park token
    wpc, sleepUntil,            \* the wakeup thread
    sameTick,   \* auxiliary: entries inserted at the tick the wheel was at
    zeroTick    \* auxiliary: a timeout was set at tick 0, TERMINATE_THREAD

wheelVars == <<tick, nxt, wheel, entries, sameTick, zeroTick>>
nodeVars == <<ready, queued>>
wakeVars == <<wakeupState, unparked>>
threadVars == <<wpc, sleepUntil>>
vars == <<ms, wheelVars, lpc, target, nodeVars, wakeVars, threadVars>>

Slot == 0..(NumSlots - 1)
SlotFor(t) == t % NumSlots

Vacant == [tick |-> 0, prev |-> Empty, next |-> Empty, used |-> FALSE]
Used == {k \in Key : entries[k].used}
Now == DurationToTick(ms)

NewWheel == [s \in Slot |-> [nextTick |-> TickMax, head |-> Empty]]

MinOf(a, b) == IF a < b THEN a ELSE b

Init ==
    /\ ms = 0
    /\ tick = 0 /\ nxt = Empty
    /\ wheel = NewWheel
    /\ entries = [k \in Key |-> Vacant]
    /\ lpc = "idle" /\ target = 0
    /\ ready = FALSE /\ queued = FALSE
    /\ wakeupState = TickMax /\ unparked = FALSE
    /\ wpc = "check" /\ sleepUntil = TickMax
    /\ sameTick = {} /\ zeroTick = FALSE

Clock ==
    /\ ms < MaxMs
    /\ ms' = ms + 1
    /\ UNCHANGED <<wheelVars, lpc, target, nodeVars, wakeVars, threadVars>>

-----------------------------------------------------------------------------
(* The wheel.                                                              *)

\* Mutant: the wakeup thread is left parked.
ScheduleReadinessOnly(t) ==
    wakeupState' = MinOf(t, wakeupState) /\ UNCHANGED unparked

\* schedule_readiness: lower wakeup_state to t and unpark the thread.  (Between
\* the compare_exchange and the unpark the thread can only see t sooner.)
ScheduleReadiness(t) ==
    IF wakeupState <= t THEN UNCHANGED wakeVars
                        ELSE wakeupState' = t /\ unparked' = TRUE

\* Mutant: a tick the wheel has passed is used as it is.
InsertTickAsIs(t) == t

\* A tick the wheel has passed is replaced by the next one.
InsertTick(t) == IF t < tick THEN tick + 1 ELSE t

\* The loop thread outside the timer, or in a callback poll returned.
Free == lpc \in {"idle", "callback"}

\* set_timeout and insert: at the front of the list of its slot
SetTimeout(k, d) ==
    /\ Free /\ k \notin Used
    /\ LET t == InsertTick(DurationToTick(ms + d))
           s == SlotFor(t)
           old == wheel[s].head
       IN /\ entries' = [j \in Key |->
                IF j = k THEN [tick |-> t, prev |-> Empty, next |-> old, used |-> TRUE]
                ELSE IF j = old THEN [entries[j] EXCEPT !.prev = k] ELSE entries[j]]
          /\ wheel' = [wheel EXCEPT ![s] =
                [nextTick |-> MinOf(t, wheel[s].nextTick), head |-> k]]
          /\ ScheduleReadiness(t)
          /\ sameTick' = IF t = tick THEN sameTick \cup {k} ELSE sameTick
          /\ zeroTick' = (zeroTick \/ t = TERMINATE_THREAD)
    /\ UNCHANGED <<ms, tick, nxt, lpc, target, nodeVars, threadVars>>

\* Mutant: the scan keeps pointing at the entry that is removed.
RemoveKeepsNext(k, w) ==
    LET e == entries[k]
    IN /\ entries' = [j \in Key |->
             IF j = k THEN Vacant
             ELSE IF j = e.prev THEN [entries[j] EXCEPT !.next = e.next]
             ELSE IF j = e.next THEN [entries[j] EXCEPT !.prev = e.prev]
             ELSE entries[j]]
       /\ wheel' = IF e.prev = Empty
                   THEN [w EXCEPT ![SlotFor(e.tick)].head = e.next] ELSE w
       /\ sameTick' = sameTick \ {k}
       /\ UNCHANGED nxt

\* unlink and entries.remove
Remove(k, w) ==
    LET e == entries[k]
    IN /\ entries' = [j \in Key |->
             IF j = k THEN Vacant
             ELSE IF j = e.prev THEN [entries[j] EXCEPT !.next = e.next]
             ELSE IF j = e.next THEN [entries[j] EXCEPT !.prev = e.prev]
             ELSE entries[j]]
       /\ wheel' = IF e.prev = Empty
                   THEN [w EXCEPT ![SlotFor(e.tick)].head = e.next] ELSE w
       /\ nxt' = IF nxt = k THEN e.next ELSE nxt
       /\ sameTick' = sameTick \ {k}

\* cancel_timeout with a handle whose key is in use and whose tick agrees; any
\* other handle changes nothing.
CancelTimeout(k) ==
    /\ Free /\ k \in Used
    /\ Remove(k, wheel)
    /\ UNCHANGED <<ms, tick, zeroTick, lpc, target, nodeVars, wakeVars, threadVars>>

\* The timer's event reaches io_process, which calls poll until it is None.
TimersEvent ==
    /\ lpc = "idle" /\ queued
    /\ queued' = FALSE
    /\ lpc' = IF ready THEN "poll" ELSE "idle"
    /\ UNCHANGED <<ms, wheelVars, target, ready, wakeVars, threadVars>>

PollTo ==
    /\ lpc \in {"poll", "callback"} /\ tick <= MaxTick
    /\ target' = IF Now < tick THEN tick ELSE Now
    /\ lpc' = "scan"
    /\ UNCHANGED <<ms, wheelVars, nodeVars, wakeVars, threadVars>>

Scanning == lpc = "scan" /\ tick <= target

\* The list of this tick is done: on to the next.
ScanAdvance ==
    /\ Scanning /\ nxt = Empty
    /\ tick' = tick + 1
    /\ LET s == SlotFor(tick + 1)
       IN /\ nxt' = wheel[s].head
          /\ wheel' = IF wheel[s].head = Empty
                      THEN [wheel EXCEPT ![s].nextTick = TickMax] ELSE wheel
    /\ UNCHANGED <<ms, entries, sameTick, zeroTick, lpc, target, nodeVars, wakeVars,
                   threadVars>>

\* next_tick of the slot is recomputed by the scan that starts at its head.
ScannedWheel ==
    LET s == SlotFor(tick)
    IN IF nxt = wheel[s].head THEN [wheel EXCEPT ![s].nextTick = TickMax] ELSE wheel

\* Some(state), run by io_process
ScanFire ==
    /\ Scanning /\ nxt # Empty
    /\ entries[nxt].tick <= tick
    /\ Remove(nxt, ScannedWheel)
    /\ lpc' = "callback"
    /\ UNCHANGED <<ms, tick, zeroTick, target, nodeVars, wakeVars, threadVars>>

\* An entry of a later round of the wheel
ScanKeep ==
    /\ Scanning /\ nxt # Empty
    /\ entries[nxt].tick > tick
    /\ wheel' = [ScannedWheel EXCEPT ![SlotFor(tick)].nextTick =
                    MinOf(@, entries[nxt].tick)]
    /\ nxt' = entries[nxt].next
    /\ UNCHANGED <<ms, tick, entries, sameTick, zeroTick, lpc, target, nodeVars, wakeVars,
                   threadVars>>

\* None: set_readiness(empty) ...
ScanDone ==
    /\ lpc = "scan" /\ tick > target
    /\ ready' = FALSE
    /\ lpc' = "schedule"
    /\ UNCHANGED <<ms, wheelVars, target, queued, wakeVars, threadVars>>

NextTick ==
    IF nxt # Empty /\ wheel[SlotFor(entries[nxt].tick)].nextTick = tick THEN tick
    ELSE CHOOSE m \in {wheel[s].nextTick : s \in Slot} :
            \A s \in Slot : m <= wheel[s].nextTick

\* Mutant: a poll that finds nothing does not arm the wakeup again.
ScheduleForgets ==
    /\ lpc = "schedule"
    /\ lpc' = "idle"
    /\ UNCHANGED <<ms, wheelVars, target, nodeVars, wakeVars, threadVars>>

\* ... and schedule_readiness(next_tick)
Schedule ==
    /\ lpc = "schedule"
    /\ ScheduleReadiness(NextTick)
    /\ lpc' = "idle"
    /\ UNCHANGED <<ms, wheelVars, target, nodeVars, threadVars>>

\* Nothing is left of the wheel.
Freed ==
    /\ tick' = 0 /\ nxt' = Empty
    /\ wheel' = NewWheel /\ entries' = [k \in Key |-> Vacant]
    /\ sameTick' = {}

\* Mutant: the drop stores TERMINATE_THREAD and does not unpark.
DropTimerParked ==
    /\ lpc = "idle"
    /\ lpc' = "gone"
    /\ wakeupState' = TERMINATE_THREAD
    /\ Freed
    /\ UNCHANGED <<ms, zeroTick, target, nodeVars, unparked, threadVars>>

\* The timer is dropped with the event loop: Drop for Inner ends the thread, and
\* the entries and the wheel are freed.
DropTimer ==
    /\ lpc = "idle"
    /\ lpc' = "gone"
    /\ wakeupState' = TERMINATE_THREAD
    /\ unparked' = TRUE
    /\ Freed
    /\ UNCHANGED <<ms, zeroTick, target, nodeVars, threadVars>>

-----------------------------------------------------------------------------
(* spawn_wakeup_thread.                                                    *)

WakeupTerminates ==
    /\ wpc = "check" /\ sleepUntil = TERMINATE_THREAD
    /\ wpc' = "dead"
    /\ UNCHANGED <<ms, wheelVars, lpc, target, nodeVars, wakeVars, sleepUntil>>

Park ==
    /\ wpc = "check" /\ sleepUntil # TERMINATE_THREAD /\ Now < sleepUntil
    /\ wpc' = "parked"
    /\ UNCHANGED <<ms, wheelVars, lpc, target, nodeVars, wakeVars, sleepUntil>>

\* park_timeout returns: unparked, timed out, or for no reason.
Unpark ==
    /\ wpc = "parked"
    /\ unparked' = FALSE
    /\ sleepUntil' = wakeupState
    /\ wpc' = "check"
    /\ UNCHANGED <<ms, wheelVars, lpc, target, nodeVars, wakeupState>>

\* The tick has come: claim it, unless it was changed meanwhile.
Claim ==
    /\ wpc = "check" /\ sleepUntil # TERMINATE_THREAD /\ Now >= sleepUntil
    /\ IF wakeupState = sleepUntil
       THEN wakeupState' = TickMax /\ wpc' = "fire" /\ UNCHANGED sleepUntil
       ELSE sleepUntil' = wakeupState /\ UNCHANGED <<wakeupState, wpc>>
    /\ UNCHANGED <<ms, wheelVars, lpc, target, nodeVars, unparked>>

\* set_readiness(readable)
Fire ==
    /\ wpc = "fire"
    /\ ready' = TRUE /\ queued' = TRUE
    /\ sleepUntil' = TickMax
    /\ wpc' = "check"
    /\ UNCHANGED <<ms, wheelVars, lpc, target, wakeVars>>

-----------------------------------------------------------------------------

LoopStep ==
    TimersEvent \/ PollTo \/ ScanAdvance \/ ScanFire \/ ScanKeep \/ ScanDone \/ Schedule

WakeupStep ==
    \/ WakeupTerminates \/ Park \/ Claim \/ Fire
    \/ (unparked \/ Now >= sleepUntil) /\ Unpark

Next ==
    \/ Clock \/ LoopStep \/ WakeupStep \/ Unpark \/ DropTimer
    \/ \E k \in Key : CancelTimeout(k) \/ \E d \in Delay : SetTimeout(k, d)

Spec == Init /\ [][Next]_vars

\* The loop and the wakeup thread run on, and time passes.
Fairness == WF_vars(LoopStep) /\ WF_vars(WakeupStep) /\ WF_vars(Clock)

LiveSpec == Spec /\ Fairness

-----------------------------------------------------------------------------
(* Properties.                                                             *)

\* Every variable has its type: ticks, the current one (a u64) included, are
\* never negative, and links are keys of the slab or EMPTY.
TypeOK ==
    /\ ms \in 0..MaxMs /\ Now \in Nat
    /\ tick \in Nat /\ nxt \in Key \cup {Empty}
    /\ wheel \in [Slot -> [nextTick : Nat, head : Key \cup {Empty}]]
    /\ entries \in [Key -> [tick : Nat, prev : Key \cup {Empty},
                            next : Key \cup {Empty}, used : BOOLEAN]]
    /\ lpc \in {"idle", "poll", "callback", "scan", "schedule", "gone"}
    /\ target \in Nat
    /\ ready \in BOOLEAN /\ queued \in BOOLEAN
    /\ wakeupState \in Nat /\ unparked \in BOOLEAN
    /\ wpc \in {"check", "parked", "fire", "dead"} /\ sleepUntil \in Nat
    /\ sameTick \subseteq Key /\ zeroTick \in BOOLEAN

\* The lists of the wheel: each entry is linked both ways in the list of the
\* slot of its tick and of no other, the scan stands in the list of its own
\* tick, whatever callbacks insert and cancel between two calls of poll.
WheelLinked ==
    /\ \A k \in Used :
         LET e == entries[k]
         IN /\ IF e.prev = Empty THEN wheel[SlotFor(e.tick)].head = k
               ELSE e.prev \in Used /\ entries[e.prev].next = k
            /\ e.next # Empty =>
                 /\ e.next \in Used /\ entries[e.next].prev = k
                 /\ SlotFor(entries[e.next].tick) = SlotFor(e.tick)
    /\ \A s \in Slot : wheel[s].head # Empty =>
         /\ wheel[s].head \in Used
         /\ entries[wheel[s].head].prev = Empty
         /\ SlotFor(entries[wheel[s].head].tick) = s
    /\ nxt # Empty => nxt \in Used /\ SlotFor(entries[nxt].tick) = SlotFor(tick)

\* The wheel is well typed and linked.
WheelSound == TypeOK /\ WheelLinked

\* While there is a timer its wakeup thread lives, unless a timeout was set at
\* tick 0, which is TERMINATE_THREAD (timer.rs:197), and the wakeup is armed for
\* every entry but those inserted at the tick the wheel stood at: while the loop
\* is outside the timer, either the thread's word is at most the entry's tick and
\* the thread will see it, or the timer's event is on its way.  So a readiness
\* cleared by poll_to (set_readiness(empty)) just after the thread set it loses no
\* timeout.
WakeupArmed ==
    lpc = "idle" =>
       \/ wpc = "dead" /\ zeroTick
       \/ /\ wpc # "dead"
          /\ \A k \in Used \ sameTick : \/ wakeupState <= entries[k].tick
                                        \/ wpc = "fire" \/ (ready /\ queued)
          /\ wpc = "parked" /\ ~unparked => sleepUntil <= wakeupState

\* poll returns None only when nothing is due, except for entries that were
\* inserted at the very tick the wheel stood at.
OnlySameTickMissed ==
    lpc = "schedule" => \A k \in Used \ sameTick : entries[k].tick > target

\* Entries of tick t, but for those inserted while the wheel stood at it.
Waiting(t) == {k \in Used \ sameTick : entries[k].tick = t}

\* A timeout waits for its time and not for ever: whether it is due when it is
\* set, or armed and parked for until the clock comes to its tick, or armed again
\* by a poll that came for an earlier one, it is run or cancelled.  The exceptions
\* are an entry inserted at the tick the wheel stood at, and a timeout that was
\* set at tick 0 and has ended the thread (timer.rs:197, 329).
DueFires ==
    \A t \in 1..DurationToTick(MaxMs) :
       Waiting(t) # {} ~> Waiting(t) = {} \/ zeroTick \/ lpc = "gone"

\* Dropping the timer ends the wakeup thread, whatever it was about to do.
ThreadEnds == lpc = "gone" ~> wpc = "dead"

=============================================================================
