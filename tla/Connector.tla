------------------------------ MODULE Connector ------------------------------
(***************************************************************************)
(* Connector and TcpClient: connect on one thread, the answer and the      *)
(* connect timeout on the loop's thread, and the Mutex between them.       *)
(*                                                                         *)
(* The calls of connect share one Connector.  The one conn_job of the      *)
(* repository, that of TcpClient::start_connect, is used with and without  *)
(* a timeout (start_connect passes none, callers of connect may).  What    *)
(* happens under the Mutex is one step, except for the handler's callback, *)
(* which runs with the Mutex held.  The timer's clock is not modelled: a   *)
(* timeout may run at any time after it was set.                           *)
(***************************************************************************)
EXTENDS Naturals, FiniteSets

CONSTANTS
    Call,       \* the calls of connect, each with its socket and its handler
    Key, Tick,  \* keys of the timer's slab, and ticks
    Other,      \* owner of the timeouts that other code sets
    None

Handle == [key : Key, tick : Tick]      \* Timeout
Entry == [owner : Call \cup {Other}, tick : Tick]    \* of the timer's slab

\* None is the None of an Option, and none of the values it may hold.
ASSUME ConnectorAssumption ==
    Other \notin Call /\ None \notin Call \cup {Other} \cup Handle \cup Entry

VARIABLES
    stream, timer, connJob, \* Connector: tcp_stream, timer, on_conn_job
    poisoned,   \* its Mutex: a thread panicked holding it
    pc,         \* per call, where it is
    timed,      \* the calls with a timeout
    handle,     \* per call, its Timeout before it is stored
    net,        \* per call, the socket
    reg,        \* per call, the socket's registration
    slab,       \* the entries of the timer
    lpc,        \* the loop's thread
    cur,        \* the call it is in, or whose timeout it runs
    batch,      \* the calls whose events it has still to handle
    told,       \* per call, the outcome
    cause,      \* auxiliary: uses of the Connector that it does not survive
    stray       \* auxiliary: a timeout of other code was cancelled

connVars == <<stream, timer, connJob, poisoned>>
callVars == <<pc, timed, handle>>
sockVars == <<net, reg>>
loopVars == <<lpc, cur, batch>>
auxVars == <<told, cause>>
vars == <<connVars, callVars, sockVars, slab, loopVars, auxVars, stray>>

Init ==
    /\ stream = None /\ timer = None /\ connJob = None /\ poisoned = FALSE
    /\ pc = [c \in Call |-> "idle"] /\ timed = {} /\ handle = [c \in Call |-> None]
    /\ net = [c \in Call |-> "none"] /\ reg = [c \in Call |-> "no"]
    /\ slab = [k \in Key |-> None]
    /\ lpc = "idle" /\ cur = None /\ batch = {}
    /\ told = [c \in Call |-> "no"] /\ cause = {} /\ stray = FALSE

\* The Mutex is free: only the callback keeps it over several steps.
Unlocked == lpc \notin {"callback", "stuck"}

\* Calls that were begun and have no outcome yet.
Pending == {c \in Call : pc[c] \notin {"idle", "panicked"} /\ told[c] = "no"}

Blame(why) == cause' = cause \cup why

\* The thread of call c may take its next step; on the loop's thread, no one
\* else's code runs meanwhile.
At(c, l) == pc[c] = l
Goto(c, l) ==
    /\ pc' = [pc EXCEPT ![c] = l]
    /\ IF lpc = "connect" /\ cur = c /\ l \in {"done", "panicked"}
       THEN /\ lpc' = IF l = "done" THEN "idle" ELSE "dead"
            /\ cur' = None /\ UNCHANGED batch
       ELSE UNCHANGED loopVars

-----------------------------------------------------------------------------
(* connect.                                                                *)

\* start_connect: set_conn_job, from any thread, the loop's included.
SetConnJob(c, withTimeout, onLoop) ==
    /\ At(c, "idle") /\ Unlocked /\ ~poisoned
    /\ connJob' = c
    /\ pc' = [pc EXCEPT ![c] = "begun"]
    /\ timed' = IF withTimeout THEN timed \cup {c} ELSE timed
    /\ IF onLoop THEN lpc = "idle" /\ lpc' = "connect" /\ cur' = c /\ UNCHANGED batch
                 ELSE UNCHANGED loopVars
    /\ Blame({w \in {"overlap", "mixed"} :
                \/ w = "overlap" /\ Pending # {}
                \/ w = "mixed" /\ ~withTimeout /\ timer # None})
    /\ UNCHANGED <<stream, timer, poisoned, handle, sockVars, slab, told, stray>>

\* lock().unwrap() of a poisoned Mutex.
MeetsPoison(c) ==
    /\ pc[c] \in {"begun", "armed", "stored", "kept"} /\ poisoned
    /\ Goto(c, "panicked")
    /\ UNCHANGED <<connVars, timed, handle, sockVars, slab, auxVars, stray>>

\* The same in start_connect, on either thread.
StartMeetsPoison(c) ==
    /\ At(c, "idle") /\ Unlocked /\ poisoned
    /\ pc' = [pc EXCEPT ![c] = "panicked"]
    /\ lpc' \in {lpc} \cup (IF lpc = "idle" THEN {"dead"} ELSE {})
    /\ UNCHANGED <<connVars, timed, handle, sockVars, slab, cur, batch, auxVars, stray>>

\* TcpStream::connect; the stream that was there is closed.
Store(c) ==
    /\ At(c, "begun") /\ Unlocked /\ ~poisoned
    /\ stream' = c
    /\ net' = [d \in Call |-> IF d = c THEN "pending" ELSE IF d = stream THEN "closed" ELSE net[d]]
    /\ reg' = [d \in Call |-> IF d = stream THEN "no" ELSE reg[d]]
    /\ Goto(c, IF c \in timed THEN "stored" ELSE "kept")
    /\ UNCHANGED <<timer, connJob, poisoned, timed, handle, slab, auxVars, stray>>

\* An error of socket or connect other than EINPROGRESS is unwrapped.
StreamFails(c) ==
    /\ At(c, "begun")
    /\ Goto(c, "panicked")
    /\ Blame(IF lpc = "connect" /\ cur = c THEN {"syscall"} ELSE {})
    /\ UNCHANGED <<connVars, timed, handle, sockVars, slab, told, stray>>

\* event_loop.timeout, which does not fail.
SetTimeout(c, h) ==
    /\ At(c, "stored") /\ slab[h.key] = None
    /\ slab' = [slab EXCEPT ![h.key] = [owner |-> c, tick |-> h.tick]]
    /\ handle' = [handle EXCEPT ![c] = h]
    /\ Goto(c, "armed")
    /\ UNCHANGED <<connVars, timed, sockVars, auxVars, stray>>

\* Mutant: only the first handle is kept.
KeepTimerOnce(c) ==
    /\ At(c, "armed") /\ Unlocked /\ ~poisoned
    /\ timer' = IF timer = None THEN handle[c] ELSE timer
    /\ handle' = [handle EXCEPT ![c] = None]
    /\ Goto(c, "kept")
    /\ UNCHANGED <<stream, connJob, poisoned, timed, sockVars, slab, auxVars, stray>>

KeepTimer(c) ==
    /\ At(c, "armed") /\ Unlocked /\ ~poisoned
    /\ timer' = handle[c]
    /\ handle' = [handle EXCEPT ![c] = None]
    /\ Goto(c, "kept")
    /\ UNCHANGED <<stream, connJob, poisoned, timed, sockVars, slab, auxVars, stray>>

\* register, edge and oneshot, whatever stream is there ...
Register(c) ==
    /\ At(c, "kept") /\ Unlocked /\ ~poisoned
    /\ stream # None /\ reg[stream] = "no"
    /\ reg' = [reg EXCEPT ![stream] = "armed"]
    /\ Goto(c, "done")
    /\ UNCHANGED <<connVars, timed, handle, net, slab, auxVars, stray>>

\* ... or none, or one that is registered, or epoll_ctl fails: a panic under the lock.
RegisterFails(c) ==
    /\ At(c, "kept") /\ Unlocked /\ ~poisoned
    /\ poisoned' = TRUE
    /\ Blame(IF stream # None /\ reg[stream] = "no" THEN {"syscall"} ELSE {})
    /\ Goto(c, "panicked")
    /\ UNCHANGED <<stream, timer, connJob, timed, handle, sockVars, slab, told, stray>>

\* handle_close, by a user who gives up.
HandleClose ==
    /\ Unlocked /\ ~poisoned /\ stream # None
    /\ Blame({"closed"})
    /\ IF reg[stream] = "no" THEN poisoned' = TRUE /\ UNCHANGED reg
       ELSE reg' = [reg EXCEPT ![stream] = "no"] /\ UNCHANGED poisoned
    /\ UNCHANGED <<stream, timer, connJob, callVars, net, slab, loopVars, told, stray>>

-----------------------------------------------------------------------------
(* The kernel, and other code that sets timeouts on the loop's thread.     *)

\* Connected, refused, or given up by TCP.
Resolve(c) ==
    /\ net[c] = "pending"
    /\ \E r \in {"connected", "refused"} : net' = [net EXCEPT ![c] = r]
    /\ UNCHANGED <<connVars, callVars, reg, slab, loopVars, auxVars, stray>>

OtherTimeout(h) ==
    /\ lpc = "idle" /\ slab[h.key] = None
    /\ slab' = [slab EXCEPT ![h.key] = [owner |-> Other, tick |-> h.tick]]
    /\ UNCHANGED <<connVars, callVars, sockVars, loopVars, auxVars, stray>>

OtherRuns(k) ==
    /\ lpc = "idle" /\ slab[k] # None /\ slab[k].owner = Other
    /\ slab' = [slab EXCEPT ![k] = None]
    /\ UNCHANGED <<connVars, callVars, sockVars, loopVars, auxVars, stray>>

-----------------------------------------------------------------------------
(* The loop's thread.                                                      *)

\* Mutant: nothing is cancelled.
ClearTimeoutNot(h) == UNCHANGED <<slab, stray>>

\* clear_timeout: the entry of this key and tick, whoever set it.
ClearTimeout(h) ==
    IF h # None /\ slab[h.key] # None /\ slab[h.key].tick = h.tick
    THEN /\ slab' = [slab EXCEPT ![h.key] = None]
         /\ stray' = (stray \/ slab[h.key].owner = Other)
    ELSE UNCHANGED <<slab, stray>>

\* A panic of the loop's thread, with the Mutex held.
Dies == lpc' = "dead" /\ poisoned' = TRUE

\* The sockets that are writable; oneshot disarms them.
Select ==
    /\ lpc = "idle"
    /\ batch' = {c \in Call : reg[c] = "armed" /\ net[c] \in {"connected", "refused"}}
    /\ batch' # {}
    /\ reg' = [c \in Call |-> IF c \in batch' THEN "spent" ELSE reg[c]]
    /\ lpc' = "events"
    /\ UNCHANGED <<connVars, callVars, net, slab, cur, auxVars, stray>>

\* handle_event: the timeout is cancelled, then the stream is taken ...
TakesStream(c) ==
    /\ lpc = "events" /\ c \in batch /\ ~poisoned /\ stream # None
    /\ batch' = batch \ {c}
    /\ ClearTimeout(timer)
    /\ stream' = None

\* Mutant: the handler is not told.
ConnectFailsSilently(c) ==
    /\ TakesStream(c) /\ net[stream] = "refused"
    /\ net' = [net EXCEPT ![stream] = "closed"]
    /\ reg' = [reg EXCEPT ![stream] = "no"]
    /\ lpc' = "callback"
    /\ UNCHANGED <<timer, connJob, poisoned, callVars, cur, told, cause>>

\* ... conn_job: take_error, on_error; the stream is dropped
ConnectFails(c) ==
    /\ TakesStream(c) /\ net[stream] = "refused"
    /\ net' = [net EXCEPT ![stream] = "closed"]
    /\ reg' = [reg EXCEPT ![stream] = "no"]
    /\ told' = [told EXCEPT ![connJob] = "error"]
    /\ lpc' = "callback"
    /\ UNCHANGED <<timer, connJob, poisoned, callVars, cur, cause>>

\* Mutant: take_error is not asked.
ConnectedUnchecked(c) ==
    /\ TakesStream(c) /\ reg[stream] # "no"
    /\ reg' = [reg EXCEPT ![stream] = "conn"]
    /\ told' = [told EXCEPT ![connJob] = "connected"]
    /\ lpc' = "callback"
    /\ UNCHANGED <<timer, connJob, poisoned, callVars, net, cur, cause>>

\* ... or deregister, register for the connection, on_connect
Connected(c) ==
    /\ TakesStream(c) /\ net[stream] # "refused" /\ reg[stream] # "no"
    /\ reg' = [reg EXCEPT ![stream] = "conn"]
    /\ told' = [told EXCEPT ![connJob] = "connected"]
    /\ lpc' = "callback"
    /\ UNCHANGED <<timer, connJob, poisoned, callVars, net, cur, cause>>

\* Poison, no stream (assert_eq!(0, 1)), or a deregister that fails.
HandleEventPanics(c) ==
    /\ lpc = "events" /\ c \in batch
    /\ poisoned \/ stream = None \/ (net[stream] # "refused" /\ reg[stream] = "no")
    /\ Dies
    /\ batch' = {}
    /\ UNCHANGED <<stream, timer, connJob, callVars, sockVars, slab, cur, auxVars, stray>>

CallbackReturns ==
    /\ lpc = "callback"
    /\ lpc' = "events"
    /\ UNCHANGED <<connVars, callVars, sockVars, slab, cur, batch, auxVars, stray>>

\* The handler calls start_connect: the thread waits for the Mutex it holds.
CallbackReconnects ==
    /\ lpc = "callback"
    /\ lpc' = "stuck"
    /\ Blame({"retry"})
    /\ UNCHANGED <<connVars, callVars, sockVars, slab, cur, batch, told, stray>>

\* The timer's event comes after those of the descriptors.
EventsDone ==
    /\ lpc = "events" /\ batch = {}
    /\ lpc' = "idle"
    /\ UNCHANGED <<connVars, callVars, sockVars, slab, cur, batch, auxVars, stray>>

\* A connect timeout: poll takes the entry and runs the callback ...
Expire(k) ==
    /\ lpc = "idle" /\ slab[k] # None /\ slab[k].owner # Other
    /\ slab' = [slab EXCEPT ![k] = None]
    /\ lpc' = "timeout" /\ cur' = slab[k].owner
    /\ Blame(IF pc[slab[k].owner] # "done" THEN {"early"} ELSE {})
    /\ UNCHANGED <<connVars, callVars, sockVars, batch, told, stray>>

\* ... which unwraps timer,
TimeoutClears ==
    /\ lpc = "timeout"
    /\ IF poisoned \/ timer = None THEN Dies /\ UNCHANGED <<slab, stray>>
       ELSE ClearTimeout(timer) /\ lpc' = "deregister" /\ UNCHANGED poisoned
    /\ UNCHANGED <<stream, timer, connJob, callVars, sockVars, cur, batch, auxVars>>

\* Mutant: the socket stays registered.
TimeoutKeepsSocket ==
    /\ lpc = "deregister"
    /\ told' = [told EXCEPT ![cur] = IF @ = "no" THEN "timeout" ELSE @]
    /\ lpc' = "idle" /\ cur' = None
    /\ UNCHANGED <<connVars, callVars, sockVars, slab, batch, cause, stray>>

\* and the stream and its deregister.  No handler is told.
TimeoutDeregisters ==
    /\ lpc = "deregister"
    /\ cur' = None
    /\ IF poisoned \/ stream = None \/ reg[stream] = "no"
       THEN Dies /\ UNCHANGED <<reg, told>>
       ELSE /\ reg' = [reg EXCEPT ![stream] = "no"]
            /\ told' = [told EXCEPT ![cur] = IF @ = "no" THEN "timeout" ELSE @]
            /\ lpc' = "idle" /\ UNCHANGED poisoned
    /\ UNCHANGED <<stream, timer, connJob, callVars, net, slab, batch, cause, stray>>

-----------------------------------------------------------------------------
CallStep(c) ==
    \/ MeetsPoison(c) \/ Store(c) \/ StreamFails(c)
    \/ (\E h \in Handle : SetTimeout(c, h))
    \/ KeepTimer(c) \/ Register(c) \/ RegisterFails(c)

LoopStep ==
    \/ Select \/ CallbackReturns \/ EventsDone \/ TimeoutClears \/ TimeoutDeregisters
    \/ \E c \in Call : ConnectFails(c) \/ Connected(c) \/ HandleEventPanics(c)

Next ==
    \/ LoopStep \/ CallbackReconnects \/ HandleClose
    \/ \E c \in Call : \/ CallStep(c) \/ Resolve(c) \/ StartMeetsPoison(c)
                       \/ \E t, l \in BOOLEAN : SetConnJob(c, t, l)
    \/ \E h \in Handle : OtherTimeout(h)
    \/ \E k \in Key : OtherRuns(k) \/ Expire(k)

Spec == Init /\ [][Next]_vars

\* The threads run, handlers return, and TCP gives every connect an answer.
LiveSpec ==
    /\ Spec
    /\ WF_vars(LoopStep)
    /\ \A c \in Call : WF_vars(CallStep(c)) /\ WF_vars(Resolve(c))

-----------------------------------------------------------------------------
(* Properties.                                                             *)

\* Every variable has its type.
TypeOK ==
    /\ stream \in Call \cup {None} /\ timer \in Handle \cup {None}
    /\ connJob \in Call \cup {None} /\ poisoned \in BOOLEAN
    /\ pc \in [Call -> {"idle", "begun", "stored", "armed", "kept", "done", "panicked"}]
    /\ timed \subseteq Call /\ handle \in [Call -> Handle \cup {None}]
    /\ net \in [Call -> {"none", "pending", "connected", "refused", "closed"}]
    /\ reg \in [Call -> {"no", "armed", "spent", "conn"}]
    /\ slab \in [Key -> Entry \cup {None}]
    /\ lpc \in {"idle", "connect", "events", "callback", "stuck", "timeout", "deregister", "dead"}
    /\ cur \in Call \cup {None} /\ batch \subseteq Call
    /\ told \in [Call -> {"no", "connected", "error", "timeout"}]

\* The loop's thread outlives every answer and every timeout, unless: a system
\* call failed; the timeout came before connect was through (connector.rs:123);
\* calls overlapped; a handler called start_connect from its callback; somebody
\* called handle_close.
LoopSurvives ==
    lpc \in {"dead", "stuck"} =>
        cause \cap {"syscall", "early", "overlap", "retry", "closed"} # {}

\* A handler gets on_connect only for its own socket, connected, and
\* registered for the connection (tcp_server.rs:171-239).
OnConnectMeansConnected ==
    \A c \in Call : told[c] = "connected" /\ "overlap" \notin cause
        => net[c] = "connected" /\ reg[c] = "conn"

\* The variables keep their types, and on_connect is never called for nothing.
OnConnectSound == TypeOK /\ OnConnectMeansConnected

\* The handle that is never reset (connector.rs:67) cancels somebody else's
\* timeout, whose key and tick agree, only if a connect without a timeout
\* follows one with, or the timeout came early, or calls overlapped.
OnlyOwnTimeouts == stray => cause \cap {"mixed", "early", "overlap"} # {}

\* One outcome per call: after on_connect, on_error or the timeout nothing
\* more is heard of it, whatever events were under way.
OneOutcome ==
    [][\A c \in Call : told[c] # "no" => told'[c] = told[c] \/ "overlap" \in cause']_vars

\* A call that has returned gets its outcome, as long as the loop lives and
\* nobody takes its place or closes it.
Answered ==
    \A c \in Call :
        pc[c] = "done" ~> \/ told[c] # "no" \/ lpc \in {"dead", "stuck"}
                          \/ cause \cap {"overlap", "closed"} # {}

=============================================================================
