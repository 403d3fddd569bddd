------------------------ MODULE ReadinessNodeProofs -------------------------
(***************************************************************************)
(* Proofs about ReadinessNode, for any number of SetReadiness handles and  *)
(* of threads in register and deregister, any tokens, readiness bits and   *)
(* options.                                                                *)
(*                                                                         *)
(* IInv has five parts.  Lives says which handles exist; UnderLock who is  *)
(* in the critical section of update; Association who may still have to    *)
(* count the queue's reference; OneOwner who has a queued node; Slots what *)
(* the token slots hold between the steps of update and poll.              *)
(*                                                                         *)
(* The second half links the record of ReadinessNode to the word of        *)
(* ReadinessState.                                                         *)
(***************************************************************************)
EXTENDS ReadinessNode, ReadinessState, FiniteSetTheorems, TLAPS

Arg == [token : Token \cup {NoToken}, interest : Ready, opt : Opt, ready : Ready, pos : Slot]

Event == [ready : Ready, pos : Slot, token : Token \cup {NoToken}, job : Token \cup {NoJob}]

SetterLabel == {"idle", "set", "enqueue"}
UpdaterLabel == {"idle", "assoc", "count", "lock", "read", "write", "update", "unlock",
                 "unlockPush", "job", "enqueue"}
RegLabel == {"idle", "enqueue", "release", "gone"}
PollLabel == {"idle", "word", "enqueue", "token", "job", "takeJob", "drain", "gone"}

\* The types of the threads' own variables, and TypeOK but for ref_count.
Types ==
    /\ state \in State
    /\ slots \in [Slot -> Token \cup {NoToken}]
    /\ updateLock \in BOOLEAN /\ assoc \in BOOLEAN /\ held \in BOOLEAN
    /\ job \in Token \cup {NoJob}
    /\ closed \in BOOLEAN
    /\ alive \subseteq Setter \cup {"reg"}
    /\ published \in Token \cup {NoToken}
    /\ pc \in [Thread -> SetterLabel \cup UpdaterLabel \cup RegLabel \cup PollLabel]
    /\ \A t \in Setter : pc[t] \in SetterLabel
    /\ \A u \in Updater : pc[u] \in UpdaterLabel
    /\ pc["reg"] \in RegLabel /\ pc["poll"] \in PollLabel
    /\ st \in [Thread -> State]
    /\ arg \in [Thread -> Arg]
    /\ ev \in Event

\* The handles: who still works on the node has one, and the Registration and
\* the Poll outlive the calls that borrow them.
Lives ==
    /\ "reg" \in alive <=> pc["reg"] = "idle"
    /\ state.dropped <=> "reg" \notin alive
    /\ "reg" \notin alive \/ closed => NotBorrowed
    /\ closed <=> pc["poll"] \in {"drain", "gone"}
    /\ \A t \in Setter : pc[t] # "idle" => t \in alive

Locked(u) == pc[u] \in {"read", "write", "update", "unlock", "unlockPush"}

\* update_lock admits one thread.
UnderLock ==
    /\ \A u \in Updater : Locked(u) => updateLock
    /\ \A u, v \in Updater : Locked(u) /\ Locked(v) => u = v

Counting == \E u \in Updater : pc[u] = "count"

\* The queue's reference is counted once, by the thread that associated the
\* node.  Until then no interest is registered, so that the node can be queued
\* only by the drop of its Registration.
Association ==
    /\ held => assoc
    /\ \A u \in Updater : pc[u] \notin {"idle", "assoc"} => assoc
    /\ \A u \in Updater : pc[u] = "count" => ~held
    /\ \A u, v \in Updater : pc[u] = "count" /\ pc[v] = "count" => u = v
    /\ assoc /\ ~held => Counting \/ state.queued
    /\ ~assoc => /\ state.interest = {} /\ inQueue = 0
                 /\ pc["poll"] \in {"idle", "drain", "gone"}
                 /\ state.queued => state.dropped
                 /\ \A t \in Setter : pc[t] # "enqueue"

Owned == inQueue = 1 \/ PollHas \/ \E t \in Thread : Pushing(t)
PollBusy == pc["poll"] \notin {"idle", "drain", "gone"}

\* Whoever turned QUEUED on has the node until it is in the queue, then the
\* queue has it, then poll: one of them at a time, for as long as the bit is on.
OneOwner ==
    /\ inQueue \in {0, 1}
    /\ \A t, u \in Thread : Pushing(t) /\ Pushing(u) => t = u
    /\ \A t \in Thread : Pushing(t) => inQueue = 0 /\ ~PollHas
    /\ PollHas => inQueue = 0
    /\ Owned => state.queued
    /\ state.queued /\ (held \/ Counting) /\ ~closed => Owned
    /\ (Owned \/ PollBusy) /\ assoc => held \/ Counting
    /\ PollHas => st["poll"].queued /\ (st["poll"].dropped => state.dropped)

\* The slot poll reads and the slot update writes are never the same.
Slots ==
    /\ TokenPublished
    /\ \A u \in Updater : pc[u] \in {"write", "update"} =>
            st[u].wr = state.wr /\ ~st[u].dropped
    /\ \A u \in Updater : pc[u] = "write" => arg[u].pos \notin {state.rd, state.wr}
    /\ \A u \in Updater : pc[u] = "update" => slots[arg[u].pos] = arg[u].token
    /\ PollHas => st["poll"].rd = state.rd
    /\ pc["poll"] \in {"enqueue", "token"} => state.rd = ev.pos /\ slots[ev.pos] = ev.token

\* ref_count is the number of its owners.
Counted ==
    ref = Cardinality(alive \cap Setter) + (IF held THEN 1 ELSE 0)
          + (IF "reg" \in alive \/ pc["reg"] \in {"enqueue", "release"} THEN 1 ELSE 0)

IInv ==
    /\ Types /\ Lives /\ UnderLock /\ Association /\ OneOwner /\ Slots /\ Counted
    /\ LevelStaysQueued

-----------------------------------------------------------------------------
(* The functions of the state word.                                        *)

\* set_readiness turns QUEUED on if the node is ready, and nothing else.
LEMMA WithReadinessFields ==
    ASSUME NEW s \in State, NEW r \in Ready, NEW n, n = WithReadiness(s, r)
    PROVE  /\ n \in State
           /\ n.readiness = r /\ n.interest = s.interest /\ n.opt = s.opt
           /\ n.dropped = s.dropped /\ n.rd = s.rd /\ n.wr = s.wr
           /\ s.queued => n.queued
           /\ Effective(n) # {} => n.queued
           /\ s.interest = {} => n.queued = s.queued
  BY DEF State, WithReadiness, QueueIfReady, Effective

\* So does update, with the registration it was given.
LEMMA WithRegistrationFields ==
    ASSUME NEW s \in State, NEW a \in Arg, NEW n, n = WithRegistration(s, a)
    PROVE  /\ n \in State
           /\ n.interest = a.interest /\ n.wr = a.pos
           /\ n.dropped = s.dropped /\ n.rd = s.rd
           /\ s.queued => n.queued
           /\ Effective(n) # {} => n.queued
  BY DEF State, Arg, WithRegistration, QueueIfReady, Effective

\* poll leaves QUEUED on exactly for a ready level-triggered registration, and
\* moves the read position to the write position.
LEMMA PolledFields ==
    ASSUME NEW s \in State, s.queued, NEW n, n = Polled(s)
    PROVE  /\ n \in State
           /\ n.opt = s.opt /\ n.dropped = s.dropped /\ n.wr = s.wr /\ n.rd = s.wr
           /\ s.interest = {} => n.interest = {}
           /\ n.queued <=> s.opt = "level" /\ Effective(s) # {}
           /\ Effective(n) # {} => Effective(s) # {}
           /\ n = s => n.queued /\ s.rd = s.wr
  <1> DEFINE off == [s EXCEPT !.queued = FALSE, !.rd = s.wr]
  <1>1. CASE s.opt = "edgeOneshot" /\ Effective(s) # {}
    <2>1. n = [off EXCEPT !.interest = {}]
      BY <1>1 DEF Polled
    <2> QED BY <1>1, <2>1 DEF State, Opt, Ready, Effective
  <1>2. CASE s.opt = "level" /\ Effective(s) # {}
    <2>1. n = [s EXCEPT !.rd = s.wr]
      BY <1>2 DEF Polled
    <2> QED BY <1>2, <2>1 DEF State, Effective
  <1>3. CASE ~(s.opt \in {"edgeOneshot", "level"} /\ Effective(s) # {})
    <2>1. n = off
      BY <1>3 DEF Polled
    <2> QED BY <1>3, <2>1 DEF State, Effective
  <1> QED BY <1>1, <1>2, <1>3

\* next_token_pos: neither the slot poll reads nor the published one.
LEMMA NextTokenPosFree ==
    ASSUME NEW s \in State
    PROVE  NextTokenPos(s) \in Slot /\ NextTokenPos(s) \notin {s.rd, s.wr}
  <1>1. s.rd \in Slot /\ s.wr \in Slot
    BY DEF State
  <1>2. \E i \in Slot : i \notin {s.rd, s.wr}
    BY <1>1 DEF Slot
  <1> QED BY <1>1, <1>2 DEF NextTokenPos, Slot
\* The locals that are forgotten.
LEMMA NoLocals ==
    NoArg \in Arg /\ NoEvent \in Event /\ NoState \in State
  <1>1. NoArg \in Arg
    BY DEF NoArg, Arg, Ready, Opt, Slot
  <1>2. NoEvent \in Event
    BY DEF NoEvent, Event, Ready, Slot
  <1>3. NoState \in State
    BY DEF NoState, FreshState, State, Ready, Opt, Slot
  <1> QED BY <1>1, <1>2, <1>3

\* What register passes to update.
LEMMA RegisteredArg ==
    ASSUME NEW tok \in Token \cup {NoToken}, NEW int \in Ready, NEW o \in Opt
    PROVE  [NoArg EXCEPT !.token = tok, !.interest = int, !.opt = o] \in Arg
  BY NoLocals DEF Arg
-----------------------------------------------------------------------------
(* Steps of a thread.                                                      *)

\* What a thread forgets when it moves on.
LEMMA MoveLocals ==
    ASSUME Types, NEW t \in Thread, NEW l, Move(t, l)
    PROVE  /\ pc' = [pc EXCEPT ![t] = l]
           /\ st' \in [Thread -> State] /\ arg' \in [Thread -> Arg]
           /\ \A u \in Thread \ {t} : st'[u] = st[u] /\ arg'[u] = arg[u]
           /\ l = "update" => st' = st /\ arg' = arg
  BY NoLocals DEF Types, Move, Goto

\* The number of SetReadiness handles.
LEMMA SetterCount ==
    ASSUME Types
    PROVE  /\ IsFiniteSet(alive \cap Setter)
           /\ Cardinality(alive \cap Setter) \in Nat
           /\ \A t \in alive \cap Setter :
                /\ Cardinality((alive \ {t}) \cap Setter) = Cardinality(alive \cap Setter) - 1
                /\ Cardinality(alive \cap Setter) >= 1
  <1>1. IsFiniteSet(alive \cap Setter) /\ Cardinality(alive \cap Setter) \in Nat
    BY NodeAssumption, FS_Subset, FS_CardinalityType
  <1>2. ASSUME NEW t \in alive \cap Setter
        PROVE  /\ Cardinality((alive \ {t}) \cap Setter) = Cardinality(alive \cap Setter) - 1
               /\ Cardinality(alive \cap Setter) >= 1
    <2>1. (alive \ {t}) \cap Setter = (alive \cap Setter) \ {t}
      OBVIOUS
    <2>2. Cardinality(alive \cap Setter) # 0
      BY <1>1, FS_EmptySet
    <2>3. Cardinality((alive \cap Setter) \ {t}) = Cardinality(alive \cap Setter) - 1
      BY <1>1, FS_RemoveElement
    <2> QED BY <1>1, <2>1, <2>2, <2>3
  <1> QED BY <1>1, <1>2

\* enqueue_node, by whoever turned QUEUED on: a closed queue gives its reference
\* back, an open one takes the node.
LEMMA EnqueueKeeps ==
    ASSUME IInv, NEW t \in Thread, NEW l, Enqueue(t, l),
           \/ t \in Setter \cup Updater /\ l = "idle"
           \/ t = "reg" /\ l = "release"
           \/ t = "poll" /\ l = "token"
    PROVE  IInv'
  <1> USE NodeAssumption DEF Thread
  <1>i. /\ Types /\ Lives /\ UnderLock /\ Association /\ OneOwner /\ Slots /\ Counted
        /\ LevelStaysQueued
    BY DEF IInv
  <1>1. Pushing(t) /\ Owned
    BY DEF Enqueue, Pushing, Owned
  <1>2. /\ Move(t, l) /\ pc[t] = "enqueue"
        /\ UNCHANGED <<state, slots, updateLock, assoc, job, published, closed, alive, ev>>
    BY DEF Enqueue, Push
  <1>3. /\ pc' = [pc EXCEPT ![t] = l] /\ st' \in [Thread -> State] /\ arg' \in [Thread -> Arg]
        /\ \A u \in Thread \ {t} : st'[u] = st[u] /\ arg'[u] = arg[u]
    BY <1>i, <1>2, MoveLocals
  <1>4. closed /\ assoc => held
    BY <1>i, <1>1 DEF OneOwner, Lives, NotBorrowed, Counting
  <1>5. \/ ~assoc /\ UNCHANGED <<ref, held, inQueue>>
        \/ assoc /\ closed /\ held /\ ref' = ref - 1 /\ held' = FALSE /\ inQueue' = inQueue
        \/ assoc /\ ~closed /\ inQueue' = inQueue + 1 /\ UNCHANGED <<ref, held>>
    BY <1>i, <1>4 DEF Enqueue, Push, ReleaseNode, Types
  <1>6. inQueue = 0 /\ ~PollHas /\ state.queued /\ \A u \in Thread \ {t} : ~Pushing(u)
    BY <1>i, <1>1 DEF OneOwner
  <1>7. \A u \in Thread : ~Pushing(u)'
    BY <1>i, <1>3, <1>6 DEF Pushing, Types
  <1>8. Types'
    BY <1>i, <1>2, <1>3, <1>5
    DEF Types, SetterLabel, UpdaterLabel, RegLabel, PollLabel
  <1>9. Lives'
    BY <1>i, <1>2, <1>3 DEF Lives, NotBorrowed, Types
  <1>10. UnderLock'
    BY <1>i, <1>2, <1>3 DEF UnderLock, Locked, Types
  <1>11. Counting' <=> Counting
    BY <1>i, <1>2, <1>3 DEF Counting, Types
  <1>12. ~assoc => ~held /\ ~Counting
    BY <1>i DEF Association, Counting
  <1>13. Association'
    <2>1. /\ held' => assoc'
          /\ \A u \in Updater : pc'[u] \notin {"idle", "assoc"} => assoc'
          /\ \A u \in Updater : pc'[u] = "count" => ~held'
          /\ \A u, v \in Updater : pc'[u] = "count" /\ pc'[v] = "count" => u = v
      BY <1>i, <1>2, <1>3, <1>5 DEF Association, Types
    <2>2. assoc' /\ ~held' => Counting' \/ state'.queued
      BY <1>2, <1>6
    <2>3. ~assoc' => /\ state'.interest = {} /\ inQueue' = 0
                     /\ pc'["poll"] \in {"idle", "drain", "gone"}
                     /\ state'.queued => state'.dropped
                     /\ \A u \in Setter : pc'[u] # "enqueue"
      BY <1>i, <1>2, <1>3, <1>5 DEF Association, Types
    <2> QED BY <2>1, <2>2, <2>3 DEF Association, Counting
  <1>14. PollHas' <=> FALSE
    BY <1>i, <1>2, <1>3, <1>6 DEF PollHas, Types
  <1>15. PollBusy' => PollBusy
    BY <1>i, <1>2, <1>3 DEF PollBusy, Types
  <1>16. OneOwner'
    <2>1. Owned' <=> assoc /\ ~closed
      BY <1>5, <1>6, <1>7, <1>14 DEF Owned
    <2>2. inQueue' \in {0, 1}
      BY <1>5, <1>6
    <2>3. closed => ~PollBusy
      BY <1>i DEF Lives, PollBusy
    <2>4. (Owned' \/ PollBusy') /\ assoc' => held' \/ Counting'
      BY <1>i, <1>1, <1>2, <1>5, <1>11, <1>15, <2>1, <2>3 DEF OneOwner
    <2>5. state'.queued /\ (held' \/ Counting') /\ ~closed' => Owned'
      BY <1>2, <1>5, <1>11, <1>12, <2>1
    <2> QED BY <1>2, <1>6, <1>7, <1>14, <2>1, <2>2, <2>4, <2>5 DEF OneOwner
  <1>17. Slots'
    BY <1>i, <1>2, <1>3, <1>14 DEF Slots, TokenPublished, Types
  <1>18. Counted'
    BY <1>i, <1>2, <1>3, <1>5, SetterCount DEF Counted, Types, Lives
  <1>19. LevelStaysQueued'
    BY <1>i, <1>2 DEF LevelStaysQueued, Effective
  <1> QED
    BY <1>8, <1>9, <1>10, <1>13, <1>16, <1>17, <1>18, <1>19 DEF IInv

-----------------------------------------------------------------------------
(* SetReadiness.                                                           *)

\* set_readiness and the drop of its handle.
LEMMA SetterKeeps ==
    ASSUME IInv, NEW t \in Setter,
           SetterStep(t) \/ DropSetter(t) \/ \E r \in Ready : SetReadiness(t, r)
    PROVE  IInv'
  <1> USE NodeAssumption DEF Thread
  <1>i. /\ Types /\ Lives /\ UnderLock /\ Association /\ OneOwner /\ Slots /\ Counted
        /\ LevelStaysQueued
    BY DEF IInv
  <1>1. ASSUME NEW r \in Ready, SetReadiness(t, r) PROVE IInv'
    <2> USE <1>i, <1>1 DEF SetReadiness, Goto, nodeVars, queueVars
    <2>1. Types'
      BY DEF Types, Arg, SetterLabel, UpdaterLabel, RegLabel, PollLabel
    <2>2. Lives' /\ UnderLock'
      BY DEF Types, Lives, NotBorrowed, UnderLock, Locked
    <2>3. Association' /\ OneOwner'
      BY DEF Types, Association, OneOwner, Owned, PollBusy, PollHas, Pushing, Counting
    <2>4. Slots' /\ Counted' /\ LevelStaysQueued'
      BY DEF Types, Slots, TokenPublished, PollHas, Counted, LevelStaysQueued, Effective
    <2> QED BY <2>1, <2>2, <2>3, <2>4 DEF IInv
  <1>2. ASSUME SetDropped(t) PROVE IInv'
    <2> USE <1>i, <1>2 DEF SetDropped, nodeVars, queueVars
    <2>0. /\ pc' = [pc EXCEPT ![t] = "idle"] /\ st' \in [Thread -> State] /\ arg' \in [Thread -> Arg]
          /\ \A u \in Thread \ {t} : st'[u] = st[u] /\ arg'[u] = arg[u]
      BY MoveLocals
    <2>1. Types'
      BY <2>0 DEF Types, SetterLabel, UpdaterLabel, RegLabel, PollLabel
    <2>2. Lives' /\ UnderLock'
      BY <2>0 DEF Types, Lives, NotBorrowed, UnderLock, Locked
    <2>3. Association' /\ OneOwner'
      BY <2>0 DEF Types, Association, OneOwner, Owned, PollBusy, PollHas, Pushing, Counting
    <2>4. Slots' /\ Counted' /\ LevelStaysQueued'
      BY <2>0 DEF Types, Slots, TokenPublished, PollHas, Counted, LevelStaysQueued, Effective
    <2> QED BY <2>1, <2>2, <2>3, <2>4 DEF IInv
  <1>3. ASSUME SetSwap(t), state # st[t] PROVE IInv'
    <2> USE <1>i, <1>3 DEF SetSwap, queueVars
    <2>1. Types'
      BY DEF Types, SetterLabel, UpdaterLabel, RegLabel, PollLabel
    <2>2. Lives' /\ UnderLock'
      BY DEF Types, Lives, NotBorrowed, UnderLock, Locked
    <2>3. Association' /\ OneOwner'
      BY DEF Types, Association, OneOwner, Owned, PollBusy, PollHas, Pushing, Counting
    <2>4. Slots' /\ Counted' /\ LevelStaysQueued'
      BY DEF Types, Slots, TokenPublished, PollHas, Counted, LevelStaysQueued, Effective
    <2> QED BY <2>1, <2>2, <2>3, <2>4 DEF IInv
  <1>4. ASSUME SetSwap(t), state = st[t] PROVE IInv'
    <2> DEFINE l == IF ~state.queued /\ state'.queued THEN "enqueue" ELSE "idle"
    <2>0. /\ UNCHANGED <<slots, updateLock, assoc, ref, job, held, published,
                         inQueue, closed, alive, ev>>
          /\ state' = WithReadiness(state, arg[t].ready) /\ Move(t, l)
          /\ pc[t] = "set" /\ ~state.dropped
      BY <1>4 DEF SetSwap, queueVars
    <2>1. arg[t].ready \in Ready /\ state \in State
      BY <1>i DEF Types, Arg
    <2>2. /\ state' \in State
          /\ state'.interest = state.interest /\ state'.opt = state.opt
          /\ state'.dropped = state.dropped /\ state'.rd = state.rd /\ state'.wr = state.wr
          /\ state.queued => state'.queued
          /\ Effective(state') # {} => state'.queued
          /\ state.interest = {} => state'.queued = state.queued
      BY <2>0, <2>1, WithReadinessFields
    <2>3. /\ pc' = [pc EXCEPT ![t] = l] /\ st' \in [Thread -> State] /\ arg' \in [Thread -> Arg]
          /\ \A u \in Thread \ {t} : st'[u] = st[u] /\ arg'[u] = arg[u]
      BY <1>i, <2>0, MoveLocals
    <2>4. Types'
      BY <1>i, <2>0, <2>2, <2>3 DEF Types, SetterLabel, UpdaterLabel, RegLabel, PollLabel
    <2>5. Lives' /\ UnderLock'
      BY <1>i, <2>0, <2>2, <2>3 DEF Types, Lives, NotBorrowed, UnderLock, Locked
    <2>6. Association'
      BY <1>i, <2>0, <2>2, <2>3 DEF Types, Association, Counting
    <2>7. OneOwner'
      BY <1>i, <2>0, <2>2, <2>3
      DEF Types, OneOwner, Owned, PollBusy, PollHas, Pushing, Counting, Association
    <2>8. Slots' /\ Counted'
      BY <1>i, <2>0, <2>2, <2>3 DEF Types, Slots, TokenPublished, PollHas, Counted
    <2>9. LevelStaysQueued'
      BY <2>2 DEF LevelStaysQueued, Effective
    <2> QED BY <2>4, <2>5, <2>6, <2>7, <2>8, <2>9 DEF IInv
  <1>5. ASSUME DropSetter(t) PROVE IInv'
    <2> USE <1>i, <1>5 DEF DropSetter, ReleaseNode, queueVars
    <2>1. Types' /\ Lives' /\ UnderLock'
      BY DEF Types, Lives, NotBorrowed, UnderLock, Locked
    <2>2. Association' /\ OneOwner'
      BY DEF Types, Association, OneOwner, Owned, PollBusy, PollHas, Pushing, Counting
    <2>3. Slots' /\ LevelStaysQueued'
      BY DEF Types, Slots, TokenPublished, PollHas, LevelStaysQueued, Effective
    <2>4. Counted'
      <3>1. /\ Cardinality(alive' \cap Setter) = Cardinality(alive \cap Setter) - 1
            /\ Cardinality(alive \cap Setter) \in Nat
        BY SetterCount
      <3>2. "reg" \in alive' <=> "reg" \in alive
        OBVIOUS
      <3> QED BY <3>1, <3>2 DEF Counted
    <2> QED BY <2>1, <2>2, <2>3, <2>4 DEF IInv
  <1> QED
    BY <1>1, <1>2, <1>3, <1>4, <1>5, EnqueueKeeps DEF SetterStep

-----------------------------------------------------------------------------
(* RegistrationInner::update.                                              *)

\* The steps of a thread in register or deregister, up to its swap.
LEMMA UpdaterKeeps ==
    ASSUME IInv, NEW t \in Updater,
           \/ Associate(t) \/ CountQueue(t) \/ TryLock(t) \/ ReadToken(t) \/ WriteToken(t)
           \/ \E tok \in Token \cup {NoToken}, int \in Ready, o \in Opt : Update(t, tok, int, o)
    PROVE  IInv'
  <1> USE NodeAssumption DEF Thread
  <1>i. /\ Types /\ Lives /\ UnderLock /\ Association /\ OneOwner /\ Slots /\ Counted
        /\ LevelStaysQueued
    BY DEF IInv
  <1>1. ASSUME NEW tok \in Token \cup {NoToken}, NEW int \in Ready, NEW o \in Opt,
               Update(t, tok, int, o)
        PROVE  IInv'
    <2> DEFINE a == [NoArg EXCEPT !.token = tok, !.interest = int, !.opt = o]
               l == IF assoc THEN "lock" ELSE "assoc"
    <2>0. /\ UNCHANGED <<state, slots, updateLock, assoc, ref, job, held, published,
                         inQueue, closed, alive, st, ev>>
          /\ pc[t] = "idle" /\ pc' = [pc EXCEPT ![t] = l]
          /\ "reg" \in alive /\ ~closed
          /\ arg' = [arg EXCEPT ![t] = a]
      BY <1>1 DEF Update, Goto, nodeVars, queueVars
    <2>1. a \in Arg
      BY RegisteredArg
    <2> HIDE DEF a
    <2>2. Types'
      BY <1>i, <2>0, <2>1 DEF Types, SetterLabel, UpdaterLabel, RegLabel, PollLabel
    <2>3. Lives' /\ UnderLock'
      BY <1>i, <2>0 DEF Types, Lives, NotBorrowed, UnderLock, Locked
    <2>4. Association' /\ OneOwner'
      BY <1>i, <2>0
      DEF Types, Association, OneOwner, Owned, PollBusy, PollHas, Pushing, Counting
    <2>5. Slots' /\ Counted' /\ LevelStaysQueued'
      BY <1>i, <2>0
      DEF Types, Slots, TokenPublished, PollHas, Counted, LevelStaysQueued, Effective
    <2> QED BY <2>2, <2>3, <2>4, <2>5 DEF IInv
  <1>2. ASSUME Associate(t) PROVE IInv'
    <2> DEFINE l == IF assoc THEN "lock" ELSE "count"
    <2> USE <1>i, <1>2 DEF Associate, queueVars
    <2>0. /\ pc' = [pc EXCEPT ![t] = l] /\ st' \in [Thread -> State] /\ arg' \in [Thread -> Arg]
          /\ \A u \in Thread \ {t} : st'[u] = st[u] /\ arg'[u] = arg[u]
      BY MoveLocals
    <2>1. Types'
      BY <2>0 DEF Types, SetterLabel, UpdaterLabel, RegLabel, PollLabel
    <2>2. Lives' /\ UnderLock'
      BY <2>0 DEF Types, Lives, NotBorrowed, UnderLock, Locked
    <2>3. ~assoc => Counting'
      BY <2>0 DEF Types, Counting
    <2>4. Association'
      BY <2>0, <2>3 DEF Types, Association, Counting
    <2>5. ~assoc => ~state.queued
      BY DEF Association, Lives, NotBorrowed
    <2>6. /\ assoc => (Counting' <=> Counting)
          /\ (PollHas' <=> PollHas) /\ (PollBusy' <=> PollBusy)
          /\ st'["poll"] = st["poll"]
      BY <2>0 DEF Types, Counting, PollHas, PollBusy
    <2>o. /\ \A u \in Thread : Pushing(u)' <=> Pushing(u)
          /\ Owned' <=> Owned
      BY <2>0, <2>6 DEF Types, Pushing, Owned
    <2>7. OneOwner'
      <3>1. (Owned' \/ PollBusy') /\ assoc' => held' \/ Counting'
        BY <2>3, <2>6, <2>o DEF OneOwner
      <3>2. state'.queued /\ (held' \/ Counting') /\ ~closed' => Owned'
        BY <2>5, <2>6, <2>o DEF OneOwner
      <3> QED BY <2>6, <2>o, <3>1, <3>2 DEF OneOwner
    <2>8. Slots' /\ Counted' /\ LevelStaysQueued'
      BY <2>0 DEF Types, Slots, TokenPublished, PollHas, Counted, LevelStaysQueued, Effective
    <2> QED BY <2>1, <2>2, <2>4, <2>7, <2>8 DEF IInv
  <1>3. ASSUME CountQueue(t) PROVE IInv'
    <2> USE <1>i, <1>3 DEF CountQueue, queueVars
    <2>0. /\ pc' = [pc EXCEPT ![t] = "lock"] /\ st' \in [Thread -> State] /\ arg' \in [Thread -> Arg]
          /\ \A u \in Thread \ {t} : st'[u] = st[u] /\ arg'[u] = arg[u]
      BY MoveLocals
    <2>1. Types'
      BY <2>0 DEF Types, SetterLabel, UpdaterLabel, RegLabel, PollLabel
    <2>2. Lives' /\ UnderLock'
      BY <2>0 DEF Types, Lives, NotBorrowed, UnderLock, Locked
    <2>3. Association' /\ OneOwner'
      BY <2>0 DEF Types, Association, OneOwner, Owned, PollBusy, PollHas, Pushing, Counting
    <2>4. Slots' /\ LevelStaysQueued'
      BY <2>0 DEF Types, Slots, TokenPublished, PollHas, LevelStaysQueued, Effective
    <2>5. ~held
      BY DEF Association
    <2>6. Counted'
      BY <2>0, <2>5, SetterCount DEF Counted, Types
    <2> QED BY <2>1, <2>2, <2>3, <2>4, <2>6 DEF IInv
  <1>4. ASSUME TryLock(t) PROVE IInv'
    <2> DEFINE l == IF updateLock THEN "idle" ELSE "read"
    <2> USE <1>i, <1>4 DEF TryLock, queueVars
    <2>0. /\ pc' = [pc EXCEPT ![t] = l] /\ st' \in [Thread -> State] /\ arg' \in [Thread -> Arg]
          /\ \A u \in Thread \ {t} : st'[u] = st[u] /\ arg'[u] = arg[u]
      BY MoveLocals
    <2>1. Types'
      BY <2>0 DEF Types, SetterLabel, UpdaterLabel, RegLabel, PollLabel
    <2>2. Lives' /\ UnderLock'
      BY <2>0 DEF Types, Lives, NotBorrowed, UnderLock, Locked
    <2>3. Association' /\ OneOwner'
      BY <2>0 DEF Types, Association, OneOwner, Owned, PollBusy, PollHas, Pushing, Counting
    <2>4. Slots' /\ Counted' /\ LevelStaysQueued'
      BY <2>0 DEF Types, Slots, TokenPublished, PollHas, Counted, LevelStaysQueued, Effective
    <2> QED BY <2>1, <2>2, <2>3, <2>4 DEF IInv
  <1>5. ASSUME ReadToken(t) PROVE IInv'
    <2> DEFINE same == slots[state.wr] = arg[t].token
               pos == IF same THEN state.wr ELSE NextTokenPos(state)
    <2>0. /\ UNCHANGED <<state, slots, updateLock, assoc, ref, job, held, published,
                         inQueue, closed, alive, ev>>
          /\ pc[t] = "read" /\ pc' = [pc EXCEPT ![t] = IF same THEN "update" ELSE "write"]
          /\ st' = [st EXCEPT ![t] = state] /\ arg' = [arg EXCEPT ![t].pos = pos]
      BY <1>5 DEF ReadToken, Goto, nodeVars, queueVars
    <2>1. state \in State /\ state.wr \in Slot /\ NextTokenPos(state) \in Slot
          /\ NextTokenPos(state) \notin {state.rd, state.wr}
      BY <1>i, NextTokenPosFree DEF Types, State
    <2> HIDE DEF same
    <2>2. pos \in Slot /\ (same => pos = state.wr) /\ (~same => pos \notin {state.rd, state.wr})
      BY <2>1
    <2> HIDE DEF pos
    <2>3. arg'[t].pos = pos /\ arg'[t].token = arg[t].token /\ arg' \in [Thread -> Arg]
      BY <1>i, <2>0, <2>2 DEF Types, Arg
    <2>4. Types'
      BY <1>i, <2>0, <2>1, <2>3 DEF Types, SetterLabel, UpdaterLabel, RegLabel, PollLabel
    <2>5. Lives' /\ UnderLock'
      BY <1>i, <2>0 DEF Types, Lives, NotBorrowed, UnderLock, Locked
    <2>6. Association' /\ OneOwner'
      BY <1>i, <2>0
      DEF Types, Association, OneOwner, Owned, PollBusy, PollHas, Pushing, Counting
    <2>7. ~state.dropped
      BY <1>i, <2>0 DEF Lives, NotBorrowed
    <2>8. \A u \in Updater \ {t} : ~Locked(u) /\ pc'[u] = pc[u]
      BY <1>i, <2>0 DEF UnderLock, Locked, Types
    <2>9. Slots'
      BY <1>i, <2>0, <2>2, <2>3, <2>7, <2>8
      DEF Types, Slots, TokenPublished, PollHas, Locked, same
    <2>10. Counted' /\ LevelStaysQueued'
      BY <1>i, <2>0 DEF Types, Counted, LevelStaysQueued, Effective
    <2> QED BY <2>4, <2>5, <2>6, <2>9, <2>10 DEF IInv
  <1>6. ASSUME WriteToken(t) PROVE IInv'
    <2> USE <1>i, <1>6 DEF WriteToken, queueVars
    <2>0. /\ pc' = [pc EXCEPT ![t] = "update"] /\ st' = st /\ arg' = arg
      BY MoveLocals
    <2>1. arg[t].pos \in Slot /\ arg[t].token \in Token \cup {NoToken}
      BY DEF Types, Arg
    <2>2. Types'
      BY <2>0, <2>1 DEF Types, SetterLabel, UpdaterLabel, RegLabel, PollLabel
    <2>3. Lives' /\ UnderLock'
      BY <2>0 DEF Types, Lives, NotBorrowed, UnderLock, Locked
    <2>4. Association' /\ OneOwner'
      BY <2>0 DEF Types, Association, OneOwner, Owned, PollBusy, PollHas, Pushing, Counting
    <2>5. \A u \in Updater \ {t} : ~Locked(u) /\ pc'[u] = pc[u]
      BY <2>0 DEF UnderLock, Locked, Types
    <2>6. arg[t].pos # state.wr /\ arg[t].pos # state.rd
      BY DEF Slots
    <2>7. Slots'
      BY <2>0, <2>1, <2>5, <2>6 DEF Types, State, Slots, TokenPublished, PollHas, Locked
    <2>8. Counted' /\ LevelStaysQueued'
      BY <2>0 DEF Types, Counted, LevelStaysQueued, Effective
    <2> QED BY <2>2, <2>3, <2>4, <2>7, <2>8 DEF IInv
  <1> QED BY <1>1, <1>2, <1>3, <1>4, <1>5, <1>6

\* The swap of update, the unlock, and the push.
LEMMA UpdaterSwapKeeps ==
    ASSUME IInv, NEW t \in Updater, UpdateSwap(t) \/ Unlock(t) \/ WriteJob(t)
    PROVE  IInv'
  <1> USE NodeAssumption DEF Thread
  <1>i. /\ Types /\ Lives /\ UnderLock /\ Association /\ OneOwner /\ Slots /\ Counted
        /\ LevelStaysQueued
    BY DEF IInv
  <1>1. ASSUME UpdateSwap(t), state # st[t] PROVE IInv'
    <2> USE <1>i, <1>1 DEF UpdateSwap, queueVars
    <2>1. Types'
      BY DEF Types, SetterLabel, UpdaterLabel, RegLabel, PollLabel
    <2>2. Lives' /\ UnderLock'
      BY DEF Types, Lives, NotBorrowed, UnderLock, Locked
    <2>3. Association' /\ OneOwner'
      BY DEF Types, Association, OneOwner, Owned, PollBusy, PollHas, Pushing, Counting
    <2>4. ~state.dropped
      BY DEF Lives, NotBorrowed
    <2>5. Slots' /\ Counted' /\ LevelStaysQueued'
      BY <2>4 DEF Types, Slots, TokenPublished, PollHas, Counted, LevelStaysQueued, Effective
    <2> QED BY <2>1, <2>2, <2>3, <2>5 DEF IInv
  <1>2. ASSUME UpdateSwap(t), state = st[t] PROVE IInv'
    <2> DEFINE l == IF ~state.queued /\ state'.queued THEN "unlockPush" ELSE "unlock"
    <2>0. /\ UNCHANGED <<slots, updateLock, assoc, ref, job, held, inQueue, closed, alive, ev>>
          /\ state' = WithRegistration(state, arg[t]) /\ Move(t, l)
          /\ published' = arg[t].token /\ pc[t] = "update"
      BY <1>2 DEF UpdateSwap, queueVars
    <2>1. arg[t] \in Arg /\ state \in State /\ published' \in Token \cup {NoToken}
          /\ arg[t].pos \in Slot
      BY <1>i, <2>0 DEF Types, Arg
    <2>2. /\ state' \in State /\ state'.wr = arg[t].pos
          /\ state'.dropped = state.dropped /\ state'.rd = state.rd
          /\ state.queued => state'.queued
          /\ Effective(state') # {} => state'.queued
      BY <2>0, <2>1, WithRegistrationFields
    <2>3. /\ pc' = [pc EXCEPT ![t] = l] /\ st' \in [Thread -> State] /\ arg' \in [Thread -> Arg]
          /\ \A u \in Thread \ {t} : st'[u] = st[u] /\ arg'[u] = arg[u]
      BY <1>i, <2>0, MoveLocals
    <2>4. Types'
      BY <1>i, <2>0, <2>1, <2>2, <2>3 DEF Types, SetterLabel, UpdaterLabel, RegLabel, PollLabel
    <2>5. Lives' /\ UnderLock'
      BY <1>i, <2>0, <2>2, <2>3 DEF Types, Lives, NotBorrowed, UnderLock, Locked
    <2>6. assoc
      BY <1>i, <2>0 DEF Association
    <2>7. Association'
      BY <1>i, <2>0, <2>2, <2>3, <2>6 DEF Types, Association, Counting
    <2>8. OneOwner'
      BY <1>i, <2>0, <2>2, <2>3, <2>6
      DEF Types, OneOwner, Owned, PollBusy, PollHas, Pushing, Counting, Association
    <2>9. \A u \in Updater \ {t} : ~Locked(u) /\ pc'[u] = pc[u]
      BY <1>i, <2>0, <2>3 DEF UnderLock, Locked, Types
    <2>10. Slots'
      BY <1>i, <2>0, <2>2, <2>3, <2>9 DEF Types, Slots, TokenPublished, PollHas, Locked
    <2>11. Counted' /\ LevelStaysQueued'
      BY <1>i, <2>0, <2>2, <2>3 DEF Types, Counted, LevelStaysQueued, Effective
    <2> QED BY <2>4, <2>5, <2>7, <2>8, <2>10, <2>11 DEF IInv
  <1>3. ASSUME Unlock(t) PROVE IInv'
    <2> DEFINE l == IF pc[t] = "unlock" THEN "idle" ELSE "job"
    <2> USE <1>i, <1>3 DEF Unlock, queueVars
    <2>0. /\ pc' = [pc EXCEPT ![t] = l] /\ st' \in [Thread -> State] /\ arg' \in [Thread -> Arg]
          /\ \A u \in Thread \ {t} : st'[u] = st[u] /\ arg'[u] = arg[u]
      BY MoveLocals
    <2>1. Types'
      BY <2>0 DEF Types, SetterLabel, UpdaterLabel, RegLabel, PollLabel
    <2>2. Lives' /\ UnderLock'
      BY <2>0 DEF Types, Lives, NotBorrowed, UnderLock, Locked
    <2>3. Association' /\ OneOwner'
      BY <2>0 DEF Types, Association, OneOwner, Owned, PollBusy, PollHas, Pushing, Counting
    <2>4. Slots' /\ Counted' /\ LevelStaysQueued'
      BY <2>0 DEF Types, Slots, TokenPublished, PollHas, Counted, LevelStaysQueued, Effective
    <2> QED BY <2>1, <2>2, <2>3, <2>4 DEF IInv
  <1>4. ASSUME WriteJob(t) PROVE IInv'
    <2> USE <1>i, <1>4 DEF WriteJob, queueVars
    <2>0. /\ pc' = [pc EXCEPT ![t] = "enqueue"] /\ st' \in [Thread -> State] /\ arg' \in [Thread -> Arg]
          /\ \A u \in Thread \ {t} : st'[u] = st[u] /\ arg'[u] = arg[u]
      BY MoveLocals
    <2>1. Types'
      BY <2>0 DEF Types, Arg, SetterLabel, UpdaterLabel, RegLabel, PollLabel
    <2>2. Lives' /\ UnderLock'
      BY <2>0 DEF Types, Lives, NotBorrowed, UnderLock, Locked
    <2>3. Association' /\ OneOwner'
      BY <2>0 DEF Types, Association, OneOwner, Owned, PollBusy, PollHas, Pushing, Counting
    <2>4. Slots' /\ Counted' /\ LevelStaysQueued'
      BY <2>0 DEF Types, Slots, TokenPublished, PollHas, Counted, LevelStaysQueued, Effective
    <2> QED BY <2>1, <2>2, <2>3, <2>4 DEF IInv
  <1> QED BY <1>1, <1>2, <1>3, <1>4

-----------------------------------------------------------------------------
(* The drop of the Registration, and poll.                                 *)

\* flag_as_dropped, and the reference of the Registration.
LEMMA RegKeeps ==
    ASSUME IInv, DropRegistration \/ RegStep
    PROVE  IInv'
  <1> USE NodeAssumption DEF Thread
  <1>i. /\ Types /\ Lives /\ UnderLock /\ Association /\ OneOwner /\ Slots /\ Counted
        /\ LevelStaysQueued
    BY DEF IInv
  <1>1. ASSUME DropRegistration PROVE IInv'
    <2> DEFINE l == IF state.queued THEN "release" ELSE "enqueue"
    <2>0. /\ UNCHANGED <<slots, updateLock, assoc, ref, job, held, published, inQueue, closed, ev>>
          /\ "reg" \in alive /\ NotBorrowed /\ alive' = alive \ {"reg"}
          /\ state' = [state EXCEPT !.dropped = TRUE, !.queued = TRUE] /\ Move("reg", l)
      BY <1>1 DEF DropRegistration, queueVars
    <2>1. state \in State
      BY <1>i DEF Types
    <2>2. /\ state' \in State /\ state'.dropped /\ state'.queued
          /\ state'.interest = state.interest /\ state'.rd = state.rd /\ state'.wr = state.wr
      BY <2>0, <2>1 DEF State
    <2>3. /\ pc' = [pc EXCEPT !["reg"] = l] /\ st' \in [Thread -> State] /\ arg' \in [Thread -> Arg]
          /\ \A u \in Thread \ {"reg"} : st'[u] = st[u] /\ arg'[u] = arg[u]
      BY <1>i, <2>0, MoveLocals
    <2>4. Types'
      BY <1>i, <2>0, <2>2, <2>3 DEF Types, SetterLabel, UpdaterLabel, RegLabel, PollLabel
    <2>5. Lives' /\ UnderLock'
      BY <1>i, <2>0, <2>2, <2>3 DEF Types, Lives, NotBorrowed, UnderLock, Locked
    <2>6. Association'
      BY <1>i, <2>0, <2>2, <2>3 DEF Types, Association, Counting, NotBorrowed
    <2>7. /\ ~Counting /\ ~Counting' /\ (PollHas' <=> PollHas) /\ (PollBusy' <=> PollBusy)
          /\ st'["poll"] = st["poll"]
      BY <1>i, <2>0, <2>3 DEF Types, Counting, NotBorrowed, PollHas, PollBusy
    <2>8. /\ ~Pushing("reg") /\ (Pushing("reg")' <=> ~state.queued)
          /\ \A u \in Thread \ {"reg"} : Pushing(u)' <=> Pushing(u)
      BY <1>i, <2>0, <2>3 DEF Types, Lives, Pushing
    <2>9. Owned' <=> Owned \/ ~state.queued
      BY <2>0, <2>7, <2>8 DEF Owned
    <2>10. ~state.queued => ~Owned
      BY <1>i DEF OneOwner
    <2>11. OneOwner'
      <3>1. (Owned' \/ PollBusy') /\ assoc' => held' \/ Counting'
        BY <1>i, <2>0, <2>7, <2>9 DEF OneOwner, Association
      <3>2. state'.queued /\ (held' \/ Counting') /\ ~closed' => Owned'
        BY <1>i, <2>0, <2>7, <2>9 DEF OneOwner
      <3>3. /\ \A t, u \in Thread : Pushing(t)' /\ Pushing(u)' => t = u
            /\ \A t \in Thread : Pushing(t)' => inQueue' = 0 /\ ~PollHas'
        BY <1>i, <2>0, <2>7, <2>8, <2>10 DEF OneOwner, Owned
      <3> QED BY <1>i, <2>0, <2>2, <2>7, <3>1, <3>2, <3>3 DEF OneOwner
    <2>12. Slots'
      BY <1>i, <2>0, <2>2, <2>3 DEF Types, Slots, TokenPublished, PollHas
    <2>13. Counted' /\ LevelStaysQueued'
      <3>1. alive' \cap Setter = alive \cap Setter
        BY <2>0
      <3> QED BY <1>i, <2>0, <2>2, <2>3, <3>1 DEF Types, Counted, LevelStaysQueued
    <2> QED BY <2>4, <2>5, <2>6, <2>11, <2>12, <2>13 DEF IInv
  <1>2. ASSUME ReleaseRegistration PROVE IInv'
    <2> USE <1>i, <1>2 DEF ReleaseRegistration, ReleaseNode, queueVars
    <2>0. /\ pc' = [pc EXCEPT !["reg"] = "gone"] /\ st' \in [Thread -> State]
          /\ arg' \in [Thread -> Arg]
          /\ \A u \in Thread \ {"reg"} : st'[u] = st[u] /\ arg'[u] = arg[u]
      BY MoveLocals
    <2>1. Types'
      BY <2>0 DEF Types, SetterLabel, UpdaterLabel, RegLabel, PollLabel
    <2>2. Lives' /\ UnderLock'
      BY <2>0 DEF Types, Lives, NotBorrowed, UnderLock, Locked
    <2>3. Association' /\ OneOwner'
      BY <2>0 DEF Types, Association, OneOwner, Owned, PollBusy, PollHas, Pushing, Counting
    <2>4. Slots' /\ LevelStaysQueued'
      BY <2>0 DEF Types, Slots, TokenPublished, PollHas, LevelStaysQueued, Effective
    <2>5. Counted'
      BY <2>0, SetterCount DEF Counted, Types, Lives
    <2> QED BY <2>1, <2>2, <2>3, <2>4, <2>5 DEF IInv
  <1> QED BY <1>1, <1>2, EnqueueKeeps DEF RegStep

\* poll takes the node, and leaves one that was dropped.
LEMMA PollTakesKeeps ==
    ASSUME IInv, PollTake \/ PollDropped
    PROVE  IInv'
  <1> USE NodeAssumption DEF Thread
  <1>i. /\ Types /\ Lives /\ UnderLock /\ Association /\ OneOwner /\ Slots /\ Counted
        /\ LevelStaysQueued
    BY DEF IInv
  <1>1. ASSUME PollTake PROVE IInv'
    <2> USE <1>i, <1>1 DEF PollTake, Goto, nodeVars, queueVars
    <2>1. Types' /\ Lives' /\ UnderLock'
      BY DEF Types, Lives, NotBorrowed, UnderLock, Locked, SetterLabel, UpdaterLabel,
             RegLabel, PollLabel
    <2>2. inQueue = 1 /\ inQueue' = 0 /\ state.queued
      BY DEF OneOwner, Owned
    <2>3. Association' /\ OneOwner'
      BY <2>2 DEF Types, Association, OneOwner, Owned, PollBusy, PollHas, Pushing, Counting
    <2>4. Slots' /\ Counted' /\ LevelStaysQueued'
      BY DEF Types, Slots, TokenPublished, PollHas, Counted, LevelStaysQueued, Effective
    <2> QED BY <2>1, <2>3, <2>4 DEF IInv
  <1>2. ASSUME PollDropped, state.dropped PROVE IInv'
    <2> USE <1>i, <1>2 DEF PollDropped, ReleaseNode, queueVars
    <2>0. /\ pc' = [pc EXCEPT !["poll"] = "idle"] /\ st' \in [Thread -> State]
          /\ arg' \in [Thread -> Arg]
          /\ \A u \in Thread \ {"poll"} : st'[u] = st[u] /\ arg'[u] = arg[u]
      BY MoveLocals
    <2>1. Types'
      BY <2>0 DEF Types, SetterLabel, UpdaterLabel, RegLabel, PollLabel
    <2>2. Lives' /\ UnderLock'
      BY <2>0 DEF Types, Lives, NotBorrowed, UnderLock, Locked
    <2>3. PollHas /\ assoc /\ ~Counting /\ state.queued
      BY DEF PollHas, Association, Lives, NotBorrowed, Counting, OneOwner, Owned
    <2>4. held
      BY <2>3 DEF OneOwner, Owned
    <2>5. Association'
      BY <2>0, <2>3 DEF Types, Association, Counting
    <2>6. ~Owned' /\ ~PollBusy' /\ ~Counting' /\ (\A u \in Thread : ~Pushing(u)') /\ ~PollHas'
      BY <2>0, <2>3 DEF Types, OneOwner, Owned, Pushing, PollHas, PollBusy, Counting
    <2>7. OneOwner'
      BY <2>0, <2>3, <2>6 DEF OneOwner
    <2>8. Slots' /\ LevelStaysQueued'
      BY <2>0 DEF Types, Slots, TokenPublished, PollHas, LevelStaysQueued, Effective
    <2>9. Counted'
      BY <2>0, <2>4, SetterCount DEF Counted, Types
    <2> QED BY <2>1, <2>2, <2>5, <2>7, <2>8, <2>9 DEF IInv
  <1>3. PollDropped => state.dropped
    BY <1>i DEF PollDropped, OneOwner, PollHas
  <1> QED BY <1>1, <1>2, <1>3

\* The compare_exchange of poll, which fixes the slot the token is read from.
LEMMA PollSwapKeeps ==
    ASSUME IInv, PollSwap
    PROVE  IInv'
  <1> USE NodeAssumption DEF Thread
  <1>i. /\ Types /\ Lives /\ UnderLock /\ Association /\ OneOwner /\ Slots /\ Counted
        /\ LevelStaysQueued
    BY DEF IInv
  <1> DEFINE old == st["poll"]
             next == Polled(old)
             l == IF next.queued THEN "enqueue"
                  ELSE IF Effective(old) # {} THEN "token" ELSE "idle"
  <1>1. /\ pc["poll"] = "word" /\ PollHas /\ ~old.dropped /\ old \in State /\ old.queued
        /\ state \in State /\ state.queued /\ old.rd = state.rd
        /\ old.wr \in Slot /\ Effective(old) \in Ready
    BY <1>i
    DEF PollSwap, PollHas, Types, State, OneOwner, Owned, Slots, Effective, Ready
  <1>2. /\ UNCHANGED <<slots, updateLock, assoc, ref, job, held, published, inQueue, closed, alive>>
        /\ \/ /\ next = old \/ state = old
              /\ state' = (IF next = old THEN state ELSE next)
              /\ ev' = [NoEvent EXCEPT !.ready = Effective(old), !.pos = next.rd,
                                       !.token = slots[old.wr]]
              /\ Move("poll", l)
           \/ /\ next # old /\ state # old
              /\ st' = [st EXCEPT !["poll"] = state] /\ UNCHANGED <<state, ev, pc, arg>>
    BY DEF PollSwap, queueVars
  <1>3. /\ next \in State
        /\ next.opt = old.opt /\ next.dropped = old.dropped
        /\ next.wr = old.wr /\ next.rd = old.wr
        /\ next.queued <=> old.opt = "level" /\ Effective(old) # {}
        /\ Effective(next) # {} => Effective(old) # {}
        /\ next = old => next.queued /\ old.rd = old.wr
    BY <1>1, PolledFields
  <1>4. assoc /\ (held \/ Counting) /\ inQueue = 0 /\ ~closed /\ \A u \in Thread : ~Pushing(u)
    BY <1>i, <1>1 DEF Association, OneOwner, Owned, Lives
  <1> HIDE DEF next
  <1>5. CASE next # old /\ state # old
    <2>0. /\ UNCHANGED <<slots, updateLock, assoc, ref, job, held, published, inQueue, closed,
                         alive, state, ev, pc, arg>>
          /\ st' = [st EXCEPT !["poll"] = state]
      BY <1>2, <1>5
    <2>1. Types' /\ Lives' /\ UnderLock'
      BY <1>i, <2>0 DEF Types, Lives, NotBorrowed, UnderLock, Locked
    <2>2. Association' /\ OneOwner'
      BY <1>i, <1>1, <2>0
      DEF Types, Association, OneOwner, Owned, PollBusy, PollHas, Pushing, Counting
    <2>3. Slots' /\ Counted' /\ LevelStaysQueued'
      BY <1>i, <2>0
      DEF Types, Slots, TokenPublished, PollHas, Counted, LevelStaysQueued, Effective
    <2> QED BY <2>1, <2>2, <2>3 DEF IInv
  <1>6. CASE next = old \/ state = old
    <2>0. /\ state' = (IF next = old THEN state ELSE next) /\ Move("poll", l)
          /\ ev' = [NoEvent EXCEPT !.ready = Effective(old), !.pos = next.rd,
                                   !.token = slots[old.wr]]
      BY <1>2, <1>6
    <2>1. slots[old.wr] \in Token \cup {NoToken} /\ next.rd \in Slot
      BY <1>i, <1>1, <1>3 DEF Types
    <2>2. ev' \in Event /\ ev'.pos = old.wr /\ ev'.token = slots[old.wr]
      <3>1. ev' \in Event /\ ev'.pos = next.rd /\ ev'.token = slots[old.wr]
        <4> DEFINE r == Effective(old)
                   p == next.rd
                   tok == slots[old.wr]
        <4>1. r \in Ready /\ p \in Slot /\ tok \in Token \cup {NoToken}
          BY <1>1, <2>1
        <4>2. ev' = [NoEvent EXCEPT !.ready = r, !.pos = p, !.token = tok]
          BY <2>0
        <4> HIDE DEF r, p, tok
        <4>3. ev' \in Event /\ ev'.pos = p /\ ev'.token = tok
          BY <4>1, <4>2, NoLocals DEF Event
        <4> QED BY <4>3 DEF p, tok
      <3> QED BY <1>3, <3>1
    <2>3. /\ pc' = [pc EXCEPT !["poll"] = l] /\ st' \in [Thread -> State]
          /\ arg' \in [Thread -> Arg]
          /\ \A u \in Thread \ {"poll"} : st'[u] = st[u] /\ arg'[u] = arg[u]
      BY <1>i, <2>0, MoveLocals
    <2>4. /\ state' \in State /\ state'.dropped = state.dropped /\ state'.wr = state.wr
          /\ state'.rd = old.wr /\ old.wr \in {state.rd, state.wr}
          /\ state'.queued <=> l = "enqueue"
          /\ state'.opt = "level" /\ Effective(state') # {} => state'.queued
      BY <1>i, <1>1, <1>3, <1>6, <2>0 DEF LevelStaysQueued
    <2>5. l \in {"enqueue", "token", "idle"}
      OBVIOUS
    <2> HIDE DEF l
    <2>6. Types'
      BY <1>i, <1>2, <2>2, <2>3, <2>4, <2>5
      DEF Types, SetterLabel, UpdaterLabel, RegLabel, PollLabel
    <2>7. Lives' /\ UnderLock'
      BY <1>i, <1>1, <1>2, <2>3, <2>4, <2>5 DEF Types, Lives, NotBorrowed, UnderLock, Locked
    <2>8. Counting' <=> Counting
      BY <1>i, <2>3 DEF Types, Counting
    <2>9. Association'
      BY <1>i, <1>2, <1>4, <2>3, <2>8 DEF Types, Association
    <2>10. /\ ~PollHas' /\ (Pushing("poll")' <=> l = "enqueue")
           /\ \A u \in Thread \ {"poll"} : ~Pushing(u)'
      BY <1>i, <1>4, <2>3, <2>5 DEF Types, PollHas, Pushing
    <2>11. Owned' <=> l = "enqueue"
      BY <1>2, <1>4, <2>10 DEF Owned
    <2>12. OneOwner'
      BY <1>2, <1>4, <2>4, <2>8, <2>10, <2>11 DEF OneOwner
    <2>13. Slots'
      BY <1>i, <1>1, <1>2, <2>2, <2>3, <2>4, <2>10 DEF Types, Slots, TokenPublished
    <2>14. Counted' /\ LevelStaysQueued'
      BY <1>i, <1>2, <2>3, <2>4 DEF Types, Counted, LevelStaysQueued
    <2> QED BY <2>6, <2>7, <2>9, <2>12, <2>13, <2>14 DEF IInv
  <1> QED BY <1>5, <1>6

\* The event poll pushes.
LEMMA PollEventKeeps ==
    ASSUME IInv, PollToken \/ PollJob \/ PollTakeJob
    PROVE  IInv'
  <1> USE NodeAssumption DEF Thread
  <1>i. /\ Types /\ Lives /\ UnderLock /\ Association /\ OneOwner /\ Slots /\ Counted
        /\ LevelStaysQueued
    BY DEF IInv
  <1>1. PICK l : /\ pc["poll"] \in {"token", "job", "takeJob"} /\ l \in {"job", "takeJob", "idle"}
                 /\ Move("poll", l) /\ job' \in Token \cup {NoJob} /\ ev' \in Event
                 /\ UNCHANGED <<state, slots, updateLock, assoc, ref, held, published,
                                inQueue, closed, alive>>
    <2>1. ASSUME PollToken
          PROVE  ev' \in Event
      BY <1>i, <2>1 DEF PollToken, Types, Event
    <2>2. ASSUME PollJob
          PROVE  ev' \in Event
      BY <1>i, <2>2 DEF PollJob, Types, Event
    <2> QED
      BY <1>i, <2>1, <2>2, NoLocals
      DEF PollToken, PollJob, PollTakeJob, Types, nodeVars, queueVars
  <1>2. /\ pc' = [pc EXCEPT !["poll"] = l] /\ st' \in [Thread -> State]
        /\ arg' \in [Thread -> Arg]
        /\ \A u \in Thread \ {"poll"} : st'[u] = st[u] /\ arg'[u] = arg[u]
    BY <1>i, <1>1, MoveLocals
  <1>3. Types'
    BY <1>i, <1>1, <1>2 DEF Types, SetterLabel, UpdaterLabel, RegLabel, PollLabel
  <1>4. Lives' /\ UnderLock'
    BY <1>i, <1>1, <1>2 DEF Types, Lives, NotBorrowed, UnderLock, Locked
  <1>5. Association' /\ OneOwner'
    BY <1>i, <1>1, <1>2
    DEF Types, Association, OneOwner, Owned, PollBusy, PollHas, Pushing, Counting
  <1>6. Slots' /\ Counted' /\ LevelStaysQueued'
    BY <1>i, <1>1, <1>2
    DEF Types, Slots, TokenPublished, PollHas, Counted, LevelStaysQueued, Effective
  <1> QED BY <1>3, <1>4, <1>5, <1>6 DEF IInv

\* The drop of the queue.
LEMMA CloseKeeps ==
    ASSUME IInv, Close \/ Drain \/ DrainEnds
    PROVE  IInv'
  <1> USE NodeAssumption DEF Thread
  <1>i. /\ Types /\ Lives /\ UnderLock /\ Association /\ OneOwner /\ Slots /\ Counted
        /\ LevelStaysQueued
    BY DEF IInv
  <1>1. ASSUME Close \/ DrainEnds PROVE IInv'
    <2> DEFINE l == IF closed THEN "gone" ELSE "drain"
    <2>0. /\ Move("poll", l) /\ closed' = TRUE
          /\ pc["poll"] \in {"idle", "drain"} /\ NotBorrowed
          /\ UNCHANGED <<state, slots, updateLock, assoc, ref, job, held, published,
                         inQueue, alive, ev>>
      BY <1>i, <1>1 DEF Close, DrainEnds, nodeVars, queueVars, Lives, Types
    <2>1. /\ pc' = [pc EXCEPT !["poll"] = l] /\ st' \in [Thread -> State]
          /\ arg' \in [Thread -> Arg]
          /\ \A u \in Thread \ {"poll"} : st'[u] = st[u] /\ arg'[u] = arg[u]
      BY <1>i, <2>0, MoveLocals
    <2>2. l \in {"drain", "gone"}
      OBVIOUS
    <2> HIDE DEF l
    <2>3. Types'
      BY <1>i, <2>0, <2>1, <2>2 DEF Types, SetterLabel, UpdaterLabel, RegLabel, PollLabel
    <2>4. Lives' /\ UnderLock'
      BY <1>i, <2>0, <2>1, <2>2 DEF Types, Lives, NotBorrowed, UnderLock, Locked
    <2>5. Association' /\ OneOwner'
      BY <1>i, <2>0, <2>1, <2>2
      DEF Types, Association, OneOwner, Owned, PollBusy, PollHas, Pushing, Counting
    <2>6. Slots' /\ Counted' /\ LevelStaysQueued'
      BY <1>i, <2>0, <2>1, <2>2
      DEF Types, Slots, TokenPublished, PollHas, Counted, LevelStaysQueued, Effective
    <2> QED BY <2>3, <2>4, <2>5, <2>6 DEF IInv
  <1>2. ASSUME Drain PROVE IInv'
    <2> USE <1>i, <1>2 DEF Drain, ReleaseNode
    <2>1. inQueue = 1 /\ inQueue' = 0 /\ closed /\ Owned /\ ~PollHas
      BY DEF OneOwner, Lives, Owned
    <2>2. assoc /\ held /\ ~Counting /\ state.queued
      BY <2>1 DEF OneOwner, Lives, NotBorrowed, Counting, Association
    <2>3. Types' /\ Lives' /\ UnderLock'
      BY DEF Types, Lives, NotBorrowed, UnderLock, Locked
    <2>4. Association' /\ ~Counting'
      BY <2>2 DEF Association, Counting
    <2>5. /\ (PollHas' <=> PollHas) /\ (PollBusy' <=> PollBusy)
          /\ \A u \in Thread : ~Pushing(u)'
      BY <2>1 DEF OneOwner, PollHas, PollBusy, Pushing
    <2>6. ~Owned' /\ ~PollBusy
      BY <2>1, <2>5 DEF Owned, PollBusy
    <2>7. OneOwner'
      BY <2>1, <2>2, <2>4, <2>5, <2>6 DEF OneOwner
    <2>8. Slots' /\ LevelStaysQueued'
      BY DEF Slots, TokenPublished, PollHas, LevelStaysQueued, Effective
    <2>9. Counted'
      BY <2>2, SetterCount DEF Counted
    <2> QED BY <2>3, <2>4, <2>7, <2>8, <2>9 DEF IInv
  <1> QED BY <1>1, <1>2

-----------------------------------------------------------------------------
(* The invariant, and what it says.                                        *)

\* The initial states satisfy the invariant.
LEMMA InitIInv ==
    Init => IInv
  <1> SUFFICES ASSUME Init PROVE IInv
    OBVIOUS
  <1> USE NodeAssumption DEF Thread
  <1>1. /\ state \in State /\ ~state.queued /\ ~state.dropped /\ Effective(state) = {}
        /\ state.wr = 0 /\ state.rd = 0 /\ (~assoc => state.interest = {})
    BY DEF Init, FreshState, State, Ready, Opt, Slot, Effective
  <1>2. (Setter \cup {"reg"}) \cap Setter = Setter
    OBVIOUS
  <1>3. Cardinality(alive \cap Setter) = Cardinality(Setter) /\ Cardinality(Setter) \in Nat
    BY <1>2, FS_CardinalityType DEF Init
  <1>4. Types
    BY <1>1, NoLocals
    DEF Init, Types, SetterLabel, UpdaterLabel, RegLabel, PollLabel
  <1>5. Lives /\ UnderLock
    BY <1>1 DEF Init, Lives, NotBorrowed, UnderLock, Locked
  <1>6. Association /\ OneOwner
    BY <1>1
    DEF Init, Association, OneOwner, Owned, PollBusy, PollHas, Pushing, Counting
  <1>7. Slots /\ LevelStaysQueued
    BY <1>1 DEF Init, Slots, TokenPublished, PollHas, LevelStaysQueued, Slot
  <1>8. Counted
    BY <1>3 DEF Init, Counted
  <1> QED BY <1>4, <1>5, <1>6, <1>7, <1>8 DEF IInv

\* Every step preserves the invariant.
LEMMA NextIInv ==
    IInv /\ [Next]_vars => IInv'
  <1> SUFFICES ASSUME IInv, [Next]_vars PROVE IInv'
    OBVIOUS
  <1>1. CASE UNCHANGED vars
    BY <1>1
    DEF vars, nodeVars, queueVars, threadVars, IInv, Types, Lives, NotBorrowed, UnderLock,
        Locked, Association, Counting, OneOwner, Owned, Pushing, PollHas, PollBusy, Slots,
        TokenPublished, Counted, LevelStaysQueued, Effective
  <1>2. ASSUME NEW t \in Setter,
               SetterStep(t) \/ DropSetter(t) \/ \E r \in Ready : SetReadiness(t, r)
        PROVE  IInv'
    BY <1>2, SetterKeeps
  <1>3. ASSUME NEW t \in Updater,
               \/ UpdaterStep(t) \/ Update(t, NoToken, {}, "level")
               \/ \E tok \in Token, o \in Opts : Update(t, tok, Bit, o)
        PROVE  IInv'
    <2>1. ASSUME \/ Update(t, NoToken, {}, "level")
                 \/ \E tok \in Token, o \in Opts : Update(t, tok, Bit, o)
          PROVE  \E tok \in Token \cup {NoToken}, int \in Ready, o \in Opt : Update(t, tok, int, o)
      BY <2>1, NodeAssumption DEF Ready, Opt
    <2>2. t \in Thread
      BY DEF Thread
    <2>3. ASSUME Enqueue(t, "idle") PROVE IInv'
      BY <2>2, <2>3, EnqueueKeeps
    <2>4. ASSUME UpdateSwap(t) \/ Unlock(t) \/ WriteJob(t) PROVE IInv'
      BY <2>4, UpdaterSwapKeeps
    <2>5. ASSUME \/ Associate(t) \/ CountQueue(t) \/ TryLock(t) \/ ReadToken(t) \/ WriteToken(t)
                 \/ \E tok \in Token \cup {NoToken}, int \in Ready, o \in Opt :
                        Update(t, tok, int, o)
          PROVE  IInv'
      BY <2>5, UpdaterKeeps
    <2> QED BY <1>3, <2>1, <2>3, <2>4, <2>5 DEF UpdaterStep
  <1>4. ASSUME PollStep PROVE IInv'
    <2>1. ASSUME Enqueue("poll", "token") PROVE IInv'
      BY <2>1, EnqueueKeeps DEF Thread
    <2> QED BY <1>4, <2>1, PollTakesKeeps, PollSwapKeeps, PollEventKeeps DEF PollStep
  <1> QED BY <1>1, <1>2, <1>3, <1>4, RegKeeps, CloseKeeps DEF Next

\* The invariant holds of every behaviour.
LEMMA Invariance ==
    Spec => []IInv
  BY InitIInv, NextIInv, PTL DEF Spec

\* Whatever races, the QUEUED bit of the state word is owned by one push at a
\* time, from compare_exchange to the end of the push and on to poll; while it
\* is on and the queue is open, somebody has the node; a ready level-triggered
\* registration keeps it on; and release_node never finds ref_count at zero.
THEOREM QueuedIsOwned ==
    Spec => []NodeSound
  <1>1. IInv => TypeOK
    BY SetterCount DEF IInv, TypeOK, Types, OneOwner, Counted
  <1>2. IInv => QueuedBitExact
    <2> SUFFICES ASSUME IInv PROVE QueuedBitExact
      OBVIOUS
    <2> DEFINE P == {t \in Thread : Pushing(t)}
    <2>0. OneOwner
      BY DEF IInv
    <2>1. CASE P = {}
      <3>1. Cardinality(P) = 0
        BY <2>1, FS_EmptySet
      <3>2. \A t \in Thread : ~Pushing(t)
        BY <2>1
      <3> HIDE DEF P
      <3>3. /\ inQueue + 0 + (IF PollHas THEN 1 ELSE 0) <= 1
            /\ Owned <=> inQueue + 0 + (IF PollHas THEN 1 ELSE 0) = 1
        BY <2>0, <3>2 DEF OneOwner, Owned
      <3> QED BY <2>0, <3>1, <3>3 DEF OneOwner, QueuedBitExact, P
    <2>2. CASE P # {}
      <3>1. PICK t \in Thread : Pushing(t)
        BY <2>2
      <3>2. P = {t}
        BY <2>0, <3>1 DEF OneOwner
      <3>3. Cardinality(P) = 1
        BY <3>2, FS_Singleton
      <3> HIDE DEF P
      <3>4. inQueue = 0 /\ ~PollHas /\ Owned
        BY <2>0, <3>1 DEF OneOwner, Owned
      <3> QED BY <2>0, <3>3, <3>4 DEF OneOwner, QueuedBitExact, P
    <2> QED BY <2>1, <2>2
  <1>3. IInv => LevelStaysQueued
    BY DEF IInv
  <1> QED BY <1>1, <1>2, <1>3, Invariance, PTL DEF NodeSound

\* The token of an event is the one its registration was given: no update, of
\* however many, writes the slot poll is about to read.
THEOREM TokensDoNotTear ==
    Spec => []TokenSlots
  <1>1. IInv => TokenSlots
    BY DEF IInv, Slots, TokenSlots, TokenStable
  <1> QED BY <1>1, Invariance, PTL

\* ref_count is the number of handles plus the queue's reference, counted once
\* by the thread that associated the node: the node is freed once.
THEOREM NodeFreedOnce ==
    Spec => []RefCountExact
  <1>1. IInv => RefCountExact
    <2> SUFFICES ASSUME IInv PROVE RefCountExact
      OBVIOUS
    <2>1. ASSUME inQueue > 0 \/ pc["poll"] \notin {"idle", "drain", "gone"}
          PROVE  held \/ ~NotBorrowed
      <3>1. (Owned \/ PollBusy) /\ assoc
        BY <2>1 DEF IInv, OneOwner, Owned, PollBusy, Association
      <3> QED BY <3>1 DEF IInv, OneOwner, Counting, NotBorrowed
    <2> QED BY <2>1 DEF IInv, Counted, Lives, RefCountExact
  <1> QED BY <1>1, Invariance, PTL

\* The debug_assert!s of enqueue_node, update and poll never fire.
THEOREM AssertsHold ==
    Spec => []DebugAsserts
  <1>1. IInv => DebugAsserts
    <2> SUFFICES ASSUME IInv PROVE DebugAsserts
      OBVIOUS
    <2> USE NodeAssumption DEF Thread
    <2>i. Types /\ Lives /\ Association /\ OneOwner /\ Slots /\ Counted
      BY DEF IInv
    <2>1. ASSUME NEW t \in Thread, pc[t] = "enqueue", closed, assoc
          PROVE  ref >= 2
      <3>1. held
        BY <2>i, <2>1 DEF OneOwner, Owned, Pushing, Lives, NotBorrowed, Counting
      <3>2. t \notin Updater /\ t # "poll"
        BY <2>i, <2>1 DEF Lives, NotBorrowed
      <3>3. CASE t = "reg"
        BY <2>i, <2>1, <3>1, <3>3, SetterCount DEF Counted
      <3>4. CASE t \in Setter
        <4>1. t \in alive \cap Setter
          BY <2>i, <2>1, <3>4 DEF Lives
        <4>2. Cardinality(alive \cap Setter) \in Nat /\ Cardinality(alive \cap Setter) >= 1
          BY <2>i, <4>1, SetterCount
        <4> QED BY <2>i, <3>1, <4>2 DEF Counted
      <3> QED BY <3>2, <3>3, <3>4
    <2>2. ASSUME NEW u \in Updater, pc[u] = "update"
          PROVE  ~state.dropped /\ ~st[u].dropped /\ state.wr = st[u].wr
      BY <2>i, <2>2 DEF Lives, NotBorrowed, Slots
    <2>3. pc["poll"] = "word" => st["poll"].queued
      BY <2>i DEF OneOwner, PollHas
    <2> QED BY <2>1, <2>2, <2>3 DEF DebugAsserts
  <1> QED BY <1>1, Invariance, PTL

-----------------------------------------------------------------------------
(* The state word, bit by bit: every change poll.rs makes to the word is   *)
(* the change ReadinessNode makes to the record the word stands for.       *)

\* What the word says besides the three flag fields.
Control(w) == <<is_queued(w), is_dropped(w), token_read_pos(w), token_write_pos(w)>>

\* ReadinessState::set, bit by bit.
LEMMA SetBit ==
    ASSUME NEW w, NEW v \in SUBSET Nat, NEW mask \in SUBSET Nat, NEW shift \in Nat, NEW b \in Nat
    PROVE  b \in set(w, v, mask, shift) <=>
               (b \in w /\ b - shift \notin mask) \/ b - shift \in v
<1>1. \A u \in SUBSET Nat : b \in Shl(u, shift) <=> b - shift \in u
  BY DEF Shl
<1>2. QED
  BY <1>1 DEF set

\* ReadinessState::get, bit by bit.
LEMMA GetBit ==
    ASSUME NEW w, NEW mask, NEW shift, NEW b
    PROVE  b \in get(w, mask, shift) <=> b \in mask /\ b + shift \in w
BY DEF get

\* A set of a word's flag field leaves every bit of another field, and, if the
\* value fits the field (ReadinessState::set does not mask it), reads back.
LEMMA FieldOfSet ==
    ASSUME NEW w, NEW v \in SUBSET MASK_4, NEW s \in {0, 4, 8}, NEW mask \in {MASK_2, MASK_4},
           NEW t \in {0, 4, 8, 12, 14}
    PROVE  /\ s # t => get(set(w, v, MASK_4, s), mask, t) = get(w, mask, t)
           /\ get(set(w, v, MASK_4, s), MASK_4, s) = v
<1> DEFINE n == set(w, v, MASK_4, s)
<1>1. \A b \in Nat : b \in n <=> (b \in w /\ b - s \notin MASK_4) \/ b - s \in v
  BY SetBit DEF MASK_4
<1> HIDE DEF n
<1>2. s # t => \A b \in mask : b + t \in n <=> b + t \in w
  BY <1>1 DEF MASK_2, MASK_4
<1>3. \A b \in MASK_4 : b + s \in n <=> b \in v
  BY <1>1 DEF MASK_4
<1>4. s # t => get(n, mask, t) = get(w, mask, t)
  BY <1>2 DEF get
<1>5. get(n, MASK_4, s) = v
  BY <1>3 DEF get
<1>6. QED
  BY <1>4, <1>5 DEF n

\* set_readiness, set_interest and set_poll_opt write their own field of the
\* word and no other, when the flags fit in four bits.
LEMMA FlagFields ==
    ASSUME NEW w, NEW v \in SUBSET MASK_4
    PROVE  /\ readiness(set_readiness(w, v)) = v
           /\ interest(set_readiness(w, v)) = interest(w)
           /\ poll_opt(set_readiness(w, v)) = poll_opt(w)
           /\ readiness(set_interest(w, v)) = readiness(w)
           /\ interest(set_interest(w, v)) = v
           /\ poll_opt(set_interest(w, v)) = poll_opt(w)
           /\ readiness(set_poll_opt(w, v)) = readiness(w)
           /\ interest(set_poll_opt(w, v)) = interest(w)
           /\ poll_opt(set_poll_opt(w, v)) = v
BY FieldOfSet DEF set_readiness, set_interest, set_poll_opt, readiness, interest, poll_opt,
                  READINESS_SHIFT, INTEREST_SHIFT, POLL_OPT_SHIFT

\* The bits of the word above its flag fields.
LEMMA HighBits ==
    ASSUME NEW w, NEW u, \A b \in 12..17 : b \in u <=> b \in w
    PROVE  Control(u) = Control(w)
<1>1. get(u, MASK_2, 12) = get(w, MASK_2, 12) /\ get(u, MASK_2, 14) = get(w, MASK_2, 14)
  BY DEF get, MASK_2
<1>2. is_queued(u) = is_queued(w) /\ is_dropped(u) = is_dropped(w)
  BY DEF is_queued, is_dropped, QUEUED_SHIFT, DROPPED_SHIFT
<1>3. QED
  BY <1>1, <1>2 DEF Control, token_read_pos, token_write_pos, TOKEN_RD_SHIFT, TOKEN_WR_SHIFT

\* ReadinessState::set does not mask its value, and Ready::all() is wider than
\* the field it is stored in.  Whatever flags a caller hands to set_readiness,
\* update or poll's disarm, the QUEUED and DROPPED bits and the two token
\* positions stay as they were: what spills over, spills into a flag field.
THEOREM FlagsKeepControl ==
    ASSUME NEW w, NEW ready \in SUBSET Ready_all, NEW opt \in SUBSET MASK_4
    PROVE  /\ Control(set_readiness(w, ready)) = Control(w)
           /\ Control(set_interest(w, ready)) = Control(w)
           /\ Control(set_poll_opt(w, opt)) = Control(w)
<1>1. ready \in SUBSET (0..6) /\ opt \in SUBSET (0..3)
  BY DEF Ready_all, Ready_readable, Ready_writable, MASK_4
<1>2. \A b \in 12..17 : b \in set_readiness(w, ready) <=> b \in w
  BY <1>1, SetBit DEF set_readiness, READINESS_SHIFT, MASK_4
<1>3. \A b \in 12..17 : b \in set_interest(w, ready) <=> b \in w
  BY <1>1, SetBit DEF set_interest, INTEREST_SHIFT, MASK_4
<1>4. \A b \in 12..17 : b \in set_poll_opt(w, opt) <=> b \in w
  BY <1>1, SetBit DEF set_poll_opt, POLL_OPT_SHIFT, MASK_4
<1>5. QED
  BY <1>2, <1>3, <1>4, HighBits

\* A slot number of two bits is read back as it was written.
LEMMA NumberOfBits ==
    /\ \A n \in 0..3 : Bits(n) \in SUBSET MASK_2 /\ Number(Bits(n)) = n
    /\ \A x \in SUBSET MASK_2 : Number(x) \in 0..3 /\ Bits(Number(x)) = x
<1>1. \A n \in 0..3 : Bits(n) \in SUBSET MASK_2 /\ Number(Bits(n)) = n
  BY DEF Bits, Number, MASK_2
<1>2. ASSUME NEW x \in SUBSET MASK_2 PROVE Number(x) \in 0..3
  BY DEF Number
<1>3. ASSUME NEW x \in SUBSET MASK_2 PROVE Bits(Number(x)) = x
  <2>1. 0 \in Bits(Number(x)) <=> 0 \in x
    BY DEF Bits, Number
  <2>2. 1 \in Bits(Number(x)) <=> 1 \in x
    BY DEF Bits, Number
  <2>3. Bits(Number(x)) \in SUBSET MASK_2
    BY <1>1, <1>2
  <2>4. \A b \in MASK_2 : b = 0 \/ b = 1
    BY DEF MASK_2
  <2>5. \A b : b \in Bits(Number(x)) <=> b \in x
    BY <2>1, <2>2, <2>3, <2>4
  <2>6. QED
    BY <2>5
<1>4. QED
  BY <1>1, <1>2, <1>3

\* set_token_write_pos and update_token_read_pos write their own field.
LEMMA TokenFields ==
    ASSUME NEW w, NEW pos \in 0..3, NEW s \in {12, 14},
           NEW u, u = set(w, Bits(pos), MASK_2, s)
    PROVE  /\ Number(get(u, MASK_2, s)) = pos
           /\ \A b \in 0..17 : b \notin {s, s + 1} => (b \in u <=> b \in w)
<1>0. Bits(pos) \in SUBSET MASK_2
  BY NumberOfBits
<1>1. \A b \in Nat : b \in u <=> (b \in w /\ b - s \notin MASK_2) \/ b - s \in Bits(pos)
  BY <1>0, SetBit DEF MASK_2
<1>2. \A b \in MASK_2 : b + s \in u <=> b \in Bits(pos)
  BY <1>1 DEF MASK_2
<1>3. get(u, MASK_2, s) = Bits(pos)
  BY <1>0, <1>2 DEF get
<1>4. \A b \in 0..17 : b \notin {s, s + 1} => (b \in u <=> b \in w)
  BY <1>0, <1>1 DEF MASK_2
<1>5. QED
  BY <1>3, <1>4, NumberOfBits
\* Words that agree on the bits below QUEUED agree on the fields there.
LEMMA SameFields ==
    ASSUME NEW w, NEW u, \A b \in 0..15 : b \in u <=> b \in w
    PROVE  /\ readiness(u) = readiness(w) /\ interest(u) = interest(w)
           /\ poll_opt(u) = poll_opt(w)
           /\ token_read_pos(u) = token_read_pos(w) /\ token_write_pos(u) = token_write_pos(w)
<1>1. \A s \in {0, 4, 8, 12} : get(u, MASK_4, s) = get(w, MASK_4, s)
  BY DEF get, MASK_4
<1>2. \A s \in {12, 14} : get(u, MASK_2, s) = get(w, MASK_2, s)
  BY DEF get, MASK_2
<1>3. QED
  BY <1>1, <1>2 DEF readiness, interest, poll_opt, token_read_pos, token_write_pos,
     READINESS_SHIFT, INTEREST_SHIFT, POLL_OPT_SHIFT, TOKEN_RD_SHIFT, TOKEN_WR_SHIFT

\* Two words that differ only in the QUEUED bit stand for records that differ
\* only in the queued field.
LEMMA OnlyQueuedDiffers ==
    ASSUME NEW w, NEW u, \A b \in 0..15 : b \in u <=> b \in w,
           NEW q, is_queued(u) = q, is_dropped(u) = is_dropped(w)
    PROVE  StateOf(u) = [StateOf(w) EXCEPT !.queued = q]
<1>1. /\ readiness(u) = readiness(w) /\ interest(u) = interest(w) /\ poll_opt(u) = poll_opt(w)
      /\ token_read_pos(u) = token_read_pos(w) /\ token_write_pos(u) = token_write_pos(w)
  BY SameFields
<1>2. QED
  BY <1>1 DEF StateOf

\* set_queued and set_dequeued change the queued field of the record.
LEMMA QueuedField ==
    ASSUME NEW w
    PROVE  /\ StateOf(set_queued(w)) = [StateOf(w) EXCEPT !.queued = TRUE]
           /\ StateOf(set_dequeued(w)) = [StateOf(w) EXCEPT !.queued = FALSE]
<1>1. \A b \in 0..15 : (b \in set_queued(w) <=> b \in w) /\ (b \in set_dequeued(w) <=> b \in w)
  BY DEF set_queued, set_dequeued, QUEUED_SHIFT
<1>2. /\ is_queued(set_queued(w)) = TRUE /\ is_queued(set_dequeued(w)) = FALSE
      /\ is_dropped(set_queued(w)) = is_dropped(w) /\ is_dropped(set_dequeued(w)) = is_dropped(w)
  BY DEF set_queued, set_dequeued, is_queued, is_dropped, QUEUED_SHIFT, DROPPED_SHIFT
<1>3. StateOf(set_queued(w)) = [StateOf(w) EXCEPT !.queued = TRUE]
  BY <1>1, <1>2, OnlyQueuedDiffers
<1>4. StateOf(set_dequeued(w)) = [StateOf(w) EXCEPT !.queued = FALSE]
  BY <1>1, <1>2, OnlyQueuedDiffers
<1>5. QED
  BY <1>3, <1>4

\* The queue_if_ready of the two swaps is ReadinessNode's.
LEMMA QueueIfReadySimulates ==
    ASSUME NEW w
    PROVE  StateOf(queue_if_ready(w)) = QueueIfReady(StateOf(w))
<1>1. Effective(StateOf(w)) = effective_readiness(w)
  BY DEF Effective, StateOf, effective_readiness
<1>2. CASE effective_readiness(w) = {}
  BY <1>1, <1>2 DEF queue_if_ready, QueueIfReady
<1>3. CASE effective_readiness(w) # {}
  BY <1>1, <1>3, QueuedField DEF queue_if_ready, QueueIfReady
<1>4. QED
  BY <1>2, <1>3

\* RegistrationInner::set_readiness stores the word that WithReadiness says.
THEOREM SetReadinessSimulates ==
    ASSUME NEW w, NEW ready \in SUBSET MASK_4
    PROVE  StateOf(SetReadinessNext(w, ready)) = WithReadiness(StateOf(w), ready)
<1> DEFINE n == set_readiness(w, ready)
<1>1. ready \in SUBSET Ready_all
  BY DEF MASK_4, Ready_all, Ready_readable, Ready_writable
<1>2. Control(n) = Control(w)
  BY <1>1, FlagsKeepControl DEF MASK_4
<1>3. readiness(n) = ready /\ interest(n) = interest(w) /\ poll_opt(n) = poll_opt(w)
  BY FlagFields
<1>4. StateOf(n) = [StateOf(w) EXCEPT !.readiness = ready]
  BY <1>2, <1>3 DEF StateOf, Control
<1>5. QED
  BY <1>4, QueueIfReadySimulates DEF SetReadinessNext, WithReadiness
\* set_token_write_pos changes the write position of the record.
LEMMA WritePosField ==
    ASSUME NEW w, NEW pos \in Slot
    PROVE  StateOf(set_token_write_pos(w, pos)) = [StateOf(w) EXCEPT !.wr = pos]
<1> DEFINE u == set_token_write_pos(w, pos)
<1>1. /\ token_write_pos(u) = pos
      /\ \A b \in 0..17 : b \notin {14, 15} => (b \in u <=> b \in w)
  BY TokenFields DEF set_token_write_pos, token_write_pos, TOKEN_WR_SHIFT, Slot
<1> HIDE DEF u
<1>2. \A s \in {0, 4, 8} : get(u, MASK_4, s) = get(w, MASK_4, s)
  BY <1>1 DEF get, MASK_4
<1>3. get(u, MASK_2, 12) = get(w, MASK_2, 12)
  BY <1>1 DEF get, MASK_2
<1>4. is_queued(u) = is_queued(w) /\ is_dropped(u) = is_dropped(w)
  BY <1>1 DEF is_queued, is_dropped, QUEUED_SHIFT, DROPPED_SHIFT
<1>5. /\ readiness(u) = readiness(w) /\ interest(u) = interest(w) /\ poll_opt(u) = poll_opt(w)
      /\ token_read_pos(u) = token_read_pos(w)
  BY <1>2, <1>3 DEF readiness, interest, poll_opt, token_read_pos,
     READINESS_SHIFT, INTEREST_SHIFT, POLL_OPT_SHIFT, TOKEN_RD_SHIFT
<1>6. StateOf(u) = [StateOf(w) EXCEPT !.wr = pos]
  BY <1>1, <1>4, <1>5 DEF StateOf
<1>7. QED
  BY <1>6 DEF u

\* update_token_read_pos copies the write position of the record.
LEMMA ReadPosField ==
    ASSUME NEW w
    PROVE  StateOf(update_token_read_pos(w)) = [StateOf(w) EXCEPT !.rd = StateOf(w).wr]
<1> DEFINE u == update_token_read_pos(w)
<1>0. token_write_pos(w) \in 0..3
  BY NumberOfBits DEF token_write_pos, get
<1>1. /\ token_read_pos(u) = token_write_pos(w)
      /\ \A b \in 0..17 : b \notin {12, 13} => (b \in u <=> b \in w)
  BY <1>0, TokenFields DEF update_token_read_pos, token_read_pos, TOKEN_RD_SHIFT
<1> HIDE DEF u
<1>2. \A s \in {0, 4, 8} : get(u, MASK_4, s) = get(w, MASK_4, s)
  BY <1>1 DEF get, MASK_4
<1>3. get(u, MASK_2, 14) = get(w, MASK_2, 14)
  BY <1>1 DEF get, MASK_2
<1>4. is_queued(u) = is_queued(w) /\ is_dropped(u) = is_dropped(w)
  BY <1>1 DEF is_queued, is_dropped, QUEUED_SHIFT, DROPPED_SHIFT
<1>5. /\ readiness(u) = readiness(w) /\ interest(u) = interest(w) /\ poll_opt(u) = poll_opt(w)
      /\ token_write_pos(u) = token_write_pos(w)
  BY <1>2, <1>3 DEF readiness, interest, poll_opt, token_write_pos,
     READINESS_SHIFT, INTEREST_SHIFT, POLL_OPT_SHIFT, TOKEN_WR_SHIFT
<1>6. StateOf(u) = [StateOf(w) EXCEPT !.rd = StateOf(w).wr]
  BY <1>1, <1>4, <1>5 DEF StateOf
<1>7. QED
  BY <1>6 DEF u

\* set_interest changes the interest of the record.
LEMMA InterestField ==
    ASSUME NEW w, NEW int \in SUBSET MASK_4
    PROVE  StateOf(set_interest(w, int)) = [StateOf(w) EXCEPT !.interest = int]
<1>1. int \in SUBSET Ready_all
  BY DEF MASK_4, Ready_all, Ready_readable, Ready_writable
<1>2. Control(set_interest(w, int)) = Control(w)
  BY <1>1, FlagsKeepControl DEF MASK_4
<1>3. QED
  BY <1>2, FlagFields DEF StateOf, Control

\* set_poll_opt changes the option of the record.
LEMMA OptField ==
    ASSUME NEW w, NEW opt \in SUBSET MASK_4
    PROVE  StateOf(set_poll_opt(w, opt)) = [StateOf(w) EXCEPT !.opt = OptOf(opt)]
<1>1. {} \in SUBSET Ready_all
  OBVIOUS
<1>2. Control(set_poll_opt(w, opt)) = Control(w)
  BY <1>1, FlagsKeepControl
<1>3. QED
  BY <1>2, FlagFields DEF StateOf, Control

Registered(s, i, o) == [s EXCEPT !.interest = i, !.opt = o]

\* Two words with the same control fields and readiness.
LEMMA InterestAndOptDiffer ==
    ASSUME NEW w, NEW u, Control(u) = Control(w), readiness(u) = readiness(w),
           NEW i, interest(u) = i, NEW o, OptOf(poll_opt(u)) = o
    PROVE  StateOf(u) = Registered(StateOf(w), i, o)
<1>1. /\ is_queued(u) = is_queued(w) /\ is_dropped(u) = is_dropped(w)
      /\ token_read_pos(u) = token_read_pos(w) /\ token_write_pos(u) = token_write_pos(w)
  BY DEF Control
<1> DEFINE r == [StateOf(w) EXCEPT !.interest = i]
<1>2. r = [readiness |-> readiness(w), interest |-> i, opt |-> OptOf(poll_opt(w)),
           queued |-> is_queued(w), dropped |-> is_dropped(w),
           rd |-> token_read_pos(w), wr |-> token_write_pos(w)]
  BY DEF StateOf
<1>3. StateOf(u) = [readiness |-> readiness(w), interest |-> i, opt |-> o,
                    queued |-> is_queued(w), dropped |-> is_dropped(w),
                    rd |-> token_read_pos(w), wr |-> token_write_pos(w)]
  BY <1>1 DEF StateOf
<1> HIDE DEF r
<1>4. StateOf(u) = [r EXCEPT !.opt = o]
  BY <1>2, <1>3
<1>5. QED
  BY <1>4 DEF r, Registered

\* set_interest puts the bits that do not fit into the options; set_poll_opt,
\* which update calls next, writes over them.
LEMMA InterestThenOpt ==
    ASSUME NEW w, NEW int \in SUBSET Ready_all, NEW opt \in SUBSET MASK_4,
           NEW kept, kept = int \cap MASK_4
    PROVE  StateOf(set_poll_opt(set_interest(w, int), opt)) =
               Registered(StateOf(w), kept, OptOf(opt))
<1> DEFINE n == set_interest(w, int)
<1>1. int \in SUBSET (0..6)
  BY DEF Ready_all, Ready_readable, Ready_writable
<1>2. \A b \in Nat : b \in n <=> (b \in w /\ b - 4 \notin MASK_4) \/ b - 4 \in int
  BY <1>1, SetBit DEF MASK_4, set_interest, INTEREST_SHIFT
<1>3. Control(n) = Control(w)
  BY FlagsKeepControl
<1> HIDE DEF n
<1>4. \A b \in MASK_4 : (b + 0 \in n <=> b + 0 \in w) /\ (b + 4 \in n <=> b \in int)
  BY <1>1, <1>2 DEF MASK_4
<1>5. readiness(n) = readiness(w)
  BY <1>4 DEF readiness, get, READINESS_SHIFT
<1>6. interest(n) = kept
  BY <1>4 DEF interest, get, INTEREST_SHIFT
<1>7. /\ Control(set_poll_opt(n, opt)) = Control(n)
      /\ readiness(set_poll_opt(n, opt)) = readiness(n)
      /\ interest(set_poll_opt(n, opt)) = interest(n)
      /\ poll_opt(set_poll_opt(n, opt)) = opt
  BY FlagFields, FlagsKeepControl
<1>8. StateOf(set_poll_opt(n, opt)) =
          Registered(StateOf(w), kept, OptOf(opt))
  <2> DEFINE u == set_poll_opt(n, opt)
  <2>1. Control(u) = Control(w) /\ readiness(u) = readiness(w) /\ interest(u) = kept
    BY <1>3, <1>5, <1>6, <1>7
  <2>2. OptOf(poll_opt(u)) = OptOf(opt)
    BY <1>7
  <2> HIDE DEF u
  <2>3. StateOf(u) = Registered(StateOf(w), kept, OptOf(opt))
    BY <2>1, <2>2, InterestAndOptDiffer
  <2>4. QED
    BY <2>3 DEF u
<1>9. QED
  BY <1>8 DEF n

\* RegistrationInner::update stores the word that WithRegistration says, for
\* every interest up to Ready::all(), of which four bits are kept.
THEOREM UpdateSimulates ==
    ASSUME NEW w, NEW pos \in Slot, NEW int \in SUBSET Ready_all, NEW opt \in SUBSET MASK_4
    PROVE  StateOf(UpdateNext(w, pos, int, opt)) =
               WithRegistration(StateOf(w),
                   [pos |-> pos, interest |-> int \cap MASK_4, opt |-> OptOf(opt)])
<1> DEFINE kept == int \cap MASK_4
           w1 == set_token_write_pos(w, pos)
           w3 == set_poll_opt(set_interest(w1, int), opt)
<1>1. StateOf(w1) = [StateOf(w) EXCEPT !.wr = pos]
  BY WritePosField
<1>0. kept = int \cap MASK_4
  OBVIOUS
<1> HIDE DEF w1, kept
<1>2. StateOf(w3) = Registered(StateOf(w1), kept, OptOf(opt))
  BY <1>0, InterestThenOpt
<1>3. StateOf(w3) =
          [StateOf(w) EXCEPT !.wr = pos, !.interest = kept, !.opt = OptOf(opt)]
  BY <1>1, <1>2 DEF Registered
<1>4. StateOf(queue_if_ready(w3)) = QueueIfReady(StateOf(w3))
  BY QueueIfReadySimulates
<1>5. QED
  BY <1>3, <1>4 DEF UpdateNext, WithRegistration, w1, kept

\* ReadinessQueue::poll stores the word that Polled says.
THEOREM PollSimulates ==
    ASSUME NEW w
    PROVE  StateOf(PollNext(w)) = Polled(StateOf(w))
<1> DEFINE s == StateOf(w)
           ready == effective_readiness(w)
           d == set_dequeued(w)
<1>1. Effective(s) = ready
  BY DEF Effective, StateOf, effective_readiness
<1>2. s.opt = OptOf(poll_opt(w))
  BY DEF StateOf
<1>3. StateOf(d) = [s EXCEPT !.queued = FALSE]
  BY QueuedField
<1>4. StateOf(disarm(d)) = [s EXCEPT !.queued = FALSE, !.interest = {}]
  <2>1. StateOf(disarm(d)) = [StateOf(d) EXCEPT !.interest = {}]
    BY InterestField DEF disarm
  <2>2. QED
    BY <1>3, <2>1
<1>5. StateOf(update_token_read_pos(w)) = [s EXCEPT !.rd = s.wr]
  BY ReadPosField
<1>6. StateOf(update_token_read_pos(d)) = [s EXCEPT !.queued = FALSE, !.rd = s.wr]
  <2>1. StateOf(update_token_read_pos(d)) = [StateOf(d) EXCEPT !.rd = StateOf(d).wr]
    BY ReadPosField
  <2>2. StateOf(d).wr = s.wr
    BY <1>3 DEF StateOf
  <2>3. QED
    BY <1>3, <2>1, <2>2
<1>7. StateOf(update_token_read_pos(disarm(d))) =
          [s EXCEPT !.queued = FALSE, !.interest = {}, !.rd = s.wr]
  <2>1. StateOf(update_token_read_pos(disarm(d))) =
            [StateOf(disarm(d)) EXCEPT !.rd = StateOf(disarm(d)).wr]
    BY ReadPosField
  <2>2. StateOf(disarm(d)).wr = s.wr
    BY <1>4 DEF StateOf
  <2>3. QED
    BY <1>4, <2>1, <2>2
<1>8. CASE is_edge(poll_opt(w)) /\ is_oneshot(poll_opt(w)) /\ ready # {}
  BY <1>1, <1>2, <1>7, <1>8 DEF PollNext, Polled, OptOf
<1>9. CASE is_edge(poll_opt(w)) /\ ~(is_oneshot(poll_opt(w)) /\ ready # {})
  BY <1>1, <1>2, <1>6, <1>9 DEF PollNext, Polled, OptOf
<1>10. CASE ~is_edge(poll_opt(w)) /\ ready = {}
  BY <1>1, <1>2, <1>6, <1>10 DEF PollNext, Polled, OptOf
<1>11. CASE ~is_edge(poll_opt(w)) /\ ready # {}
  BY <1>1, <1>2, <1>5, <1>11 DEF PollNext, Polled, OptOf
<1>12. QED
  BY <1>8, <1>9, <1>10, <1>11

\* A wider readiness is different: nothing is written over what set_readiness
\* puts into the interest, and the node is registered from then on for more
\* than its owner asked for (bit 1, writable, and bit 2, error).
THEOREM WideReadinessArms ==
    ASSUME NEW w, NEW ready \in SUBSET Ready_all
    PROVE  interest(SetReadinessNext(w, ready)) =
               interest(w) \cup {b \in MASK_4 : b + 4 \in ready}
<1> DEFINE n == set_readiness(w, ready)
<1>1. ready \in SUBSET (0..6)
  BY DEF Ready_all, Ready_readable, Ready_writable
<1>2. \A b \in Nat : b \in n <=> (b \in w /\ b \notin MASK_4) \/ b \in ready
  BY <1>1, SetBit DEF MASK_4, set_readiness, READINESS_SHIFT
<1> HIDE DEF n
<1>3. \A b \in MASK_4 : b + 4 \in n <=> b + 4 \in w \/ b + 4 \in ready
  BY <1>2 DEF MASK_4
<1>4. interest(n) = interest(w) \cup {b \in MASK_4 : b + 4 \in ready}
  BY <1>3 DEF interest, get, INTEREST_SHIFT
<1>5. \A b \in 0..15 : b \in queue_if_ready(n) <=> b \in n
  BY DEF queue_if_ready, set_queued, QUEUED_SHIFT
<1>6. interest(queue_if_ready(n)) = interest(n)
  BY <1>5, SameFields
<1>7. QED
  BY <1>4, <1>6 DEF SetReadinessNext, n

=============================================================================
