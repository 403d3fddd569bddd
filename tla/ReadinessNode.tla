--------------------------- MODULE ReadinessNode ----------------------------
(***************************************************************************)
(* One node of the readiness queue and the threads that share it: the      *)
(* SetReadiness handles, the Registration and the callers of its register  *)
(* and deregister, the thread in ReadinessQueue::poll, and the drop of the *)
(* Poll.  The state word is changed with compare_exchange only, except     *)
(* that the drop of the Registration ORs two bits in; the three token      *)
(* slots and the job are plain memory.                                     *)
(*                                                                         *)
(* The queue is seen through what ReadinessQueue is shown to provide: a    *)
(* push puts the node in, or gives the reference back once it is closed;   *)
(* a pop takes it out.  One Poll; reads of plain memory take one step.     *)
(***************************************************************************)
EXTENDS Integers, FiniteSets

CONSTANTS
    Setter,     \* threads, each with its own clone of the SetReadiness
    Updater,    \* threads that call register / deregister on the Registration
    Bit,        \* readiness bits
    Token,      \* tokens a caller passes
    NoToken,    \* Token(0), in the unused slots and after a deregister
    NoJob,      \* the closure that does nothing
    Opts        \* the PollOpts callers pass

ASSUME NodeAssumption ==
    /\ IsFiniteSet(Setter)
    /\ NoToken \notin Token
    /\ Setter \cap Updater = {}
    /\ {"reg", "poll"} \cap (Setter \cup Updater) = {}
    /\ NoJob \notin Token
    /\ Opts \subseteq {"level", "edge", "edgeOneshot"}

Ready == SUBSET Bit

\* The combinations of PollOpt that poll tells apart.
Opt == {"level", "edge", "edgeOneshot"}

Slot == 0..2

State == [readiness : Ready, interest : Ready, opt : Opt,
          queued : BOOLEAN, dropped : BOOLEAN, rd : Slot, wr : Slot]

VARIABLES
    state,      \* the state word
    slots,      \* token_0, token_1, token_2
    updateLock, \* update_lock
    assoc,      \* readiness_queue is not null
    ref,        \* ref_count
    job,        \* node.job; a caller's job is named after its token
    inQueue,    \* how many times the node is in the queue
    closed,     \* the closed marker is in the queue
    alive,      \* the handles: the SetReadiness clones, and "reg"
    pc,         \* per setter and updater, and for "reg" and "poll"
    st,         \* per thread, the state word it read last
    arg,        \* per setter, the readiness; per updater, what it registers
    held,       \* the queue owns one of the references
    published,  \* auxiliary: the token of the last update that took effect
    ev          \* the event poll is about to push

nodeVars == <<state, slots, updateLock, assoc, ref, job, held, published>>
queueVars == <<inQueue, closed>>
threadVars == <<alive, pc, st, arg, ev>>
vars == <<nodeVars, queueVars, threadVars>>

Thread == Setter \cup Updater \cup {"reg", "poll"}

NoEvent == [ready |-> {}, pos |-> 0, token |-> NoToken, job |-> NoJob]
NoArg == [token |-> NoToken, interest |-> {}, opt |-> "level", ready |-> {}, pos |-> 0]

FreshState(int, o) ==
    [readiness |-> {}, interest |-> int, opt |-> o,
     queued |-> FALSE, dropped |-> FALSE, rd |-> 0, wr |-> 0]

NoState == FreshState({}, "level")

\* Registration::new2 leaves the queue to the first register; Registration::new
\* takes a reference for the queue at once (its one caller, the timer, passes
\* Token(0) and asks for edges).
Init ==
    /\ assoc \in BOOLEAN /\ held = assoc
    /\ state = IF assoc THEN FreshState(Bit, "edge") ELSE FreshState({}, "level")
    /\ slots = [i \in Slot |-> NoToken]
    /\ published = NoToken
    /\ updateLock = FALSE
    /\ ref = Cardinality(Setter) + (IF assoc THEN 2 ELSE 1)
    /\ job = NoJob
    /\ inQueue = 0 /\ closed = FALSE
    /\ alive = Setter \cup {"reg"}
    /\ pc = [t \in Thread |-> "idle"]
    /\ st = [t \in Thread |-> NoState]
    /\ arg = [t \in Thread |-> NoArg]
    /\ ev = NoEvent

Goto(t, l) == pc' = [pc EXCEPT ![t] = l]

\* Locals that are dead at the next label are forgotten.
Move(t, l) ==
    /\ Goto(t, l)
    /\ st' = IF l \in {"update", "word"} THEN st ELSE [st EXCEPT ![t] = NoState]
    /\ arg' = IF l \in {"idle", "enqueue", "unlock"} THEN [arg EXCEPT ![t] = NoArg] ELSE arg

-----------------------------------------------------------------------------
(* Pure functions of the state word.                                       *)

Effective(s) == s.readiness \cap s.interest

QueueIfReady(s) == IF Effective(s) # {} THEN [s EXCEPT !.queued = TRUE] ELSE s

\* Mutant: the next slot, though poll may be reading it.
NextTokenPosInTurn(s) == (s.wr + 1) % 3

\* next_token_pos: a slot that is neither the one poll reads nor the current one
NextTokenPos(s) ==
    IF s.rd # s.wr THEN CHOOSE i \in Slot : i \notin {s.rd, s.wr}
                   ELSE IF s.wr = 0 THEN 1 ELSE IF s.wr = 1 THEN 2 ELSE 0

WithReadiness(s, r) == QueueIfReady([s EXCEPT !.readiness = r])

WithRegistration(s, a) ==
    QueueIfReady([s EXCEPT !.wr = a.pos, !.interest = a.interest, !.opt = a.opt])

\* The word poll leaves: dequeued unless level-triggered and ready, a oneshot
\* disarmed by its event, and the token to read fixed.
Polled(s) ==
    LET ready == Effective(s)
        off == [s EXCEPT !.queued = FALSE, !.rd = s.wr]
    IN  IF s.opt = "edgeOneshot" /\ ready # {} THEN [off EXCEPT !.interest = {}]
        ELSE IF s.opt = "level" /\ ready # {} THEN [s EXCEPT !.rd = s.wr]
        ELSE off

-----------------------------------------------------------------------------
(* The queue, and the references.                                          *)

ReleaseNode(by) == ref' = ref - by

\* enqueue_node, from a thread that goes on to label l
Push(t, l) ==
    /\ IF closed
       THEN ReleaseNode(1) /\ held' = FALSE /\ UNCHANGED inQueue
       ELSE inQueue' = inQueue + 1 /\ UNCHANGED <<ref, held>>
    /\ Move(t, l)

\* ReadinessNode::enqueue_with_wakeup: nothing before the first register
Enqueue(t, l) ==
    /\ pc[t] = "enqueue"
    /\ IF assoc THEN Push(t, l) ELSE Move(t, l) /\ UNCHANGED <<ref, held, inQueue>>
    /\ UNCHANGED <<state, slots, updateLock, assoc, job, published, closed, alive, ev>>

-----------------------------------------------------------------------------
(* SetReadiness.                                                           *)

SetReadiness(t, r) ==
    /\ t \in alive /\ pc[t] = "idle"
    /\ arg' = [arg EXCEPT ![t].ready = r]
    /\ st' = [st EXCEPT ![t] = state]
    /\ Goto(t, "set")
    /\ UNCHANGED <<nodeVars, queueVars, alive, ev>>

SetDropped(t) ==
    /\ pc[t] = "set" /\ st[t].dropped
    /\ Move(t, "idle")
    /\ UNCHANGED <<nodeVars, queueVars, alive, ev>>

\* Mutant: pushes a node that was queued already.
SetSwapPushesAgain(t) ==
    /\ pc[t] = "set" /\ ~st[t].dropped
    /\ LET next == WithReadiness(st[t], arg[t].ready)
       IN IF state = st[t]
          THEN state' = next /\ Move(t, IF next.queued THEN "enqueue" ELSE "idle")
          ELSE st' = [st EXCEPT ![t] = state] /\ UNCHANGED <<state, pc, arg>>
    /\ UNCHANGED <<slots, updateLock, assoc, ref, job, held, published,
                   queueVars, alive, ev>>

SetSwap(t) ==
    /\ pc[t] = "set" /\ ~st[t].dropped
    /\ LET next == WithReadiness(st[t], arg[t].ready)
       IN IF state = st[t]
          THEN /\ state' = next
               /\ Move(t, IF ~state.queued /\ next.queued THEN "enqueue" ELSE "idle")
          ELSE st' = [st EXCEPT ![t] = state] /\ UNCHANGED <<state, pc, arg>>
    /\ UNCHANGED <<slots, updateLock, assoc, ref, job, held, published,
                   queueVars, alive, ev>>

DropSetter(t) ==
    /\ t \in alive /\ pc[t] = "idle"
    /\ alive' = alive \ {t}
    /\ ReleaseNode(1)
    /\ UNCHANGED <<state, slots, updateLock, assoc, job, held, published,
                   queueVars, pc, st, arg, ev>>

-----------------------------------------------------------------------------
(* RegistrationInner::update, for register and deregister.                 *)

\* The Registration and the Poll are borrowed for the whole call.
Update(t, tok, int, o) ==
    /\ "reg" \in alive /\ ~closed /\ pc[t] = "idle"
    /\ arg' = [arg EXCEPT ![t] = [NoArg EXCEPT !.token = tok, !.interest = int, !.opt = o]]
    /\ Goto(t, IF assoc THEN "lock" ELSE "assoc")
    /\ UNCHANGED <<nodeVars, queueVars, alive, st, ev>>

\* compare_exchange of readiness_queue; the loser of the race finds the winner's.
Associate(t) ==
    /\ pc[t] = "assoc"
    /\ assoc' = TRUE
    /\ Move(t, IF assoc THEN "lock" ELSE "count")
    /\ UNCHANGED <<state, slots, updateLock, ref, job, held, published, queueVars, alive, ev>>

CountQueue(t) ==
    /\ pc[t] = "count"
    /\ ref' = ref + 1 /\ held' = TRUE
    /\ Move(t, "lock")
    /\ UNCHANGED <<state, slots, updateLock, assoc, job, published, queueVars, alive, ev>>

\* A caller that finds the lock taken returns Ok without doing anything.
TryLock(t) ==
    /\ pc[t] = "lock"
    /\ updateLock' = TRUE
    /\ Move(t, IF updateLock THEN "idle" ELSE "read")
    /\ UNCHANGED <<state, slots, assoc, ref, job, held, published, queueVars, alive, ev>>

ReadToken(t) ==
    /\ pc[t] = "read"
    /\ st' = [st EXCEPT ![t] = state]
    /\ LET same == slots[state.wr] = arg[t].token
       IN /\ arg' = [arg EXCEPT ![t].pos =
                        IF same THEN state.wr ELSE NextTokenPos(state)]
          /\ Goto(t, IF same THEN "update" ELSE "write")
    /\ UNCHANGED <<nodeVars, queueVars, alive, ev>>

WriteToken(t) ==
    /\ pc[t] = "write"
    /\ slots' = [slots EXCEPT ![arg[t].pos] = arg[t].token]
    /\ Move(t, "update")
    /\ UNCHANGED <<state, updateLock, assoc, ref, job, held, published,
                   queueVars, alive, ev>>

UpdateSwap(t) ==
    /\ pc[t] = "update"
    /\ LET next == WithRegistration(st[t], arg[t])
       IN IF state = st[t]
          THEN /\ state' = next
               /\ published' = arg[t].token
               /\ Move(t, IF ~state.queued /\ next.queued THEN "unlockPush"
                                                         ELSE "unlock")
          ELSE st' = [st EXCEPT ![t] = state] /\ UNCHANGED <<state, published, pc, arg>>
    /\ UNCHANGED <<slots, updateLock, assoc, ref, job, held, queueVars, alive, ev>>

Unlock(t) ==
    /\ pc[t] \in {"unlock", "unlockPush"}
    /\ updateLock' = FALSE
    /\ Move(t, IF pc[t] = "unlock" THEN "idle" ELSE "job")
    /\ UNCHANGED <<state, slots, assoc, ref, job, held, published, queueVars,
                   alive, ev>>

\* The job is kept only by an update that also queues the node.
WriteJob(t) ==
    /\ pc[t] = "job"
    /\ job' = (IF arg[t].token = NoToken THEN NoJob ELSE arg[t].token)
    /\ Move(t, "enqueue")
    /\ UNCHANGED <<state, slots, updateLock, assoc, ref, held, published, queueVars, alive, ev>>

-----------------------------------------------------------------------------
(* Drop for Registration: nobody borrows it any more.                      *)

NotBorrowed == \A u \in Updater : pc[u] = "idle"

\* Mutant: flag_as_dropped leaves the QUEUED bit off.
DropRegistrationUnqueued ==
    /\ "reg" \in alive /\ NotBorrowed
    /\ alive' = alive \ {"reg"}
    /\ state' = [state EXCEPT !.dropped = TRUE]
    /\ Move("reg", IF state.queued THEN "release" ELSE "enqueue")
    /\ UNCHANGED <<slots, updateLock, assoc, ref, job, held, published, queueVars, ev>>

DropRegistration ==
    /\ "reg" \in alive /\ NotBorrowed
    /\ alive' = alive \ {"reg"}
    /\ state' = [state EXCEPT !.dropped = TRUE, !.queued = TRUE]
    /\ Move("reg", IF state.queued THEN "release" ELSE "enqueue")
    /\ UNCHANGED <<slots, updateLock, assoc, ref, job, held, published, queueVars, ev>>

ReleaseRegistration ==
    /\ pc["reg"] = "release"
    /\ ReleaseNode(1)
    /\ Move("reg", "gone")
    /\ UNCHANGED <<state, slots, updateLock, assoc, job, held, published, queueVars, alive, ev>>

-----------------------------------------------------------------------------
(* ReadinessQueue::poll with this node, and the drop of the queue.         *)

PollTake ==
    /\ pc["poll"] = "idle" /\ ~closed
    /\ inQueue > 0
    /\ inQueue' = inQueue - 1
    /\ st' = [st EXCEPT !["poll"] = state]
    /\ Goto("poll", "word")
    /\ UNCHANGED <<nodeVars, closed, alive, arg, ev>>

\* Mutant: poll skips a dropped node without giving its reference back.
PollDroppedLeaks ==
    /\ pc["poll"] = "word" /\ st["poll"].dropped
    /\ held' = FALSE
    /\ Move("poll", "idle")
    /\ UNCHANGED <<state, slots, updateLock, assoc, ref, job, published, queueVars, alive, ev>>

PollDropped ==
    /\ pc["poll"] = "word" /\ st["poll"].dropped
    /\ ReleaseNode(1) /\ held' = FALSE
    /\ Move("poll", "idle")
    /\ UNCHANGED <<state, slots, updateLock, assoc, job, published, queueVars, alive, ev>>

\* compare_exchange only when there is something to change
PollSwap ==
    /\ pc["poll"] = "word" /\ ~st["poll"].dropped
    /\ LET old == st["poll"]
           next == Polled(old)
       IN IF next = old \/ state = old
          THEN /\ state' = (IF next = old THEN state ELSE next)
               /\ ev' = [NoEvent EXCEPT !.ready = Effective(old), !.pos = next.rd,
                                        !.token = slots[old.wr]]
               /\ Move("poll", IF next.queued THEN "enqueue"
                               ELSE IF Effective(old) # {} THEN "token" ELSE "idle")
          ELSE st' = [st EXCEPT !["poll"] = state] /\ UNCHANGED <<state, ev, pc, arg>>
    /\ UNCHANGED <<slots, updateLock, assoc, ref, job, held, published,
                   queueVars, alive>>

\* token(node, read_pos): from here on the event is the one that is pushed
PollToken ==
    /\ pc["poll"] = "token"
    /\ ev' = [ev EXCEPT !.token = slots[ev.pos]]
    /\ Move("poll", "job")
    /\ UNCHANGED <<nodeVars, queueVars, alive>>

PollJob ==
    /\ pc["poll"] = "job"
    /\ ev' = [ev EXCEPT !.job = job]
    /\ Move("poll", "takeJob")
    /\ UNCHANGED <<nodeVars, queueVars, alive>>

PollTakeJob ==
    /\ pc["poll"] = "takeJob"
    /\ job' = NoJob /\ ev' = NoEvent
    /\ Move("poll", "idle")
    /\ UNCHANGED <<state, slots, updateLock, assoc, ref, held, published,
                   queueVars, alive>>

\* Drop for ReadinessQueue: nobody borrows the Poll any more.  What is in the
\* queue is given back, or stays if a push is in the middle (ReadinessQueue).
Close ==
    /\ pc["poll"] = "idle" /\ ~closed /\ NotBorrowed
    /\ closed' = TRUE
    /\ Move("poll", "drain")
    /\ UNCHANGED <<nodeVars, inQueue, alive, ev>>

Drain ==
    /\ pc["poll"] = "drain" /\ inQueue > 0
    /\ inQueue' = inQueue - 1
    /\ ReleaseNode(1) /\ held' = FALSE
    /\ UNCHANGED <<state, slots, updateLock, assoc, job, published, closed,
                   alive, pc, st, arg, ev>>

DrainEnds ==
    /\ pc["poll"] = "drain"
    /\ Move("poll", "gone")
    /\ UNCHANGED <<nodeVars, queueVars, alive, ev>>

-----------------------------------------------------------------------------

SetterStep(t) == SetDropped(t) \/ SetSwap(t) \/ Enqueue(t, "idle")

UpdaterStep(t) ==
    \/ Associate(t) \/ CountQueue(t) \/ TryLock(t) \/ ReadToken(t)
    \/ WriteToken(t) \/ UpdateSwap(t) \/ Unlock(t) \/ WriteJob(t)
    \/ Enqueue(t, "idle")

RegStep == Enqueue("reg", "release") \/ ReleaseRegistration

PollStep ==
    \/ PollTake \/ PollDropped \/ PollSwap
    \/ Enqueue("poll", "token")
    \/ PollToken \/ PollJob \/ PollTakeJob

Next ==
    \/ \E t \in Setter : \/ SetterStep(t) \/ DropSetter(t)
                         \/ \E r \in Ready : SetReadiness(t, r)
    \/ \E t \in Updater :
         \/ UpdaterStep(t)
         \/ Update(t, NoToken, {}, "level")
         \/ \E tok \in Token, o \in Opts : Update(t, tok, Bit, o)
    \/ DropRegistration \/ RegStep
    \/ PollStep \/ Close \/ Drain \/ DrainEnds

Spec == Init /\ [][Next]_vars

-----------------------------------------------------------------------------
(* Properties.                                                             *)

\* Every variable has its type; in particular release_node never takes
\* ref_count below zero.
TypeOK ==
    /\ state \in State
    /\ slots \in [Slot -> Token \cup {NoToken}]
    /\ updateLock \in BOOLEAN /\ assoc \in BOOLEAN /\ held \in BOOLEAN
    /\ ref \in Nat
    /\ job \in Token \cup {NoJob}
    /\ inQueue \in Nat /\ closed \in BOOLEAN
    /\ alive \subseteq Setter \cup {"reg"}
    /\ published \in Token \cup {NoToken}

Pushing(t) == \/ pc[t] \in {"unlockPush", "enqueue"}
              \/ t \in Updater /\ pc[t] = "job"
PollHas == pc["poll"] = "word"

\* What the queue takes for granted (BeginEnqueue of ReadinessQueue): the QUEUED
\* bit is owned by one push at a time, so a node is never in the list twice,
\* whichever of set_readiness, update, the drop and the requeue of poll race;
\* and while the bit is on and the queue is open, somebody has the node: a
\* readiness that was set is not forgotten.
QueuedBitExact ==
    LET pushes == inQueue + Cardinality({t \in Thread : Pushing(t)})
                    + (IF PollHas THEN 1 ELSE 0)
    IN /\ pushes <= 1
       /\ pushes = 1 => state.queued
       /\ state.queued /\ held /\ ~closed => pushes = 1

\* A level-triggered registration whose readiness is on is always on its way
\* to the poll loop.
LevelStaysQueued ==
    state.opt = "level" /\ Effective(state) # {} => state.queued

\* The state word: well typed, its QUEUED bit owned by one push at a time, and on
\* for as long as a level-triggered registration is ready.
NodeSound == TypeOK /\ QueuedBitExact /\ LevelStaysQueued

\* The token poll reads is the one of the registration the event belongs to:
\* no update writes the slot between poll's compare_exchange and its read,
\* though the read and the writes are plain memory accesses.
TokenStable ==
    pc["poll"] \in {"enqueue", "token"} =>
        /\ slots[ev.pos] = ev.token
        /\ \A u \in Updater : pc[u] = "write" => arg[u].pos # ev.pos

\* The slot the state word names holds the token registered last.
TokenPublished == slots[state.wr] = published

\* The three token slots: update writes a slot that poll is not reading, and
\* publishes it with the word.
TokenSlots == TokenStable /\ TokenPublished

\* ref_count is the number of handles plus the queue's reference, so the node
\* is freed once, by the last of them, and everyone who still works on the
\* node has a reference of its own.
RefCountExact ==
    /\ ref = Cardinality(alive \cap Setter) + (IF held THEN 1 ELSE 0)
             + (IF "reg" \in alive \/ pc["reg"] \in {"enqueue", "release"} THEN 1 ELSE 0)
    /\ \A t \in Setter : pc[t] # "idle" => t \in alive
    /\ (inQueue > 0 \/ pc["poll"] \notin {"idle", "drain", "gone"}) => held \/ ~NotBorrowed

\* The debug_assert!s: a push on a closed queue is not the last reference, an
\* update never meets a dropped word and never sees its token position move.
DebugAsserts ==
    /\ \A t \in Thread : pc[t] = "enqueue" /\ closed /\ assoc => ref >= 2
    /\ \A u \in Updater : pc[u] = "update" =>
          ~state.dropped /\ ~st[u].dropped /\ state.wr = st[u].wr
    /\ pc["poll"] = "word" => st["poll"].queued

\* What docs/qa.bak:142-144 says of an event of the readiness queue: it is
\* merged into Events and io_process runs its job.  The job that was passed with
\* the token of the event comes with it.
JobComesWithEvent ==
    pc["poll"] = "takeJob" /\ ev.token \in Token => ev.job = ev.token

=============================================================================
