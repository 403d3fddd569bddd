------------------------------ MODULE Acceptor ------------------------------
(***************************************************************************)
(* Acceptor and TcpServer: threads that start a server, the loop's thread  *)
(* that accepts until the backlog of the edge-triggered listener is empty, *)
(* and the two Mutexes they take in opposite orders: start_internal the    *)
(* server's and then the acceptor's, handle_read the acceptor's and then,  *)
(* in the accept job, the server's.                                        *)
(*                                                                         *)
(* The listener listens from TcpServer::new on.  What a session does with  *)
(* its connection is TcpConnection.  Names that are Connector's, too, are  *)
(* not used here: the client and the server are two ends of one program.   *)
(***************************************************************************)
EXTENDS Naturals

CONSTANTS
    Peer,       \* clients that connect
    Starter,    \* threads that start the server
    NoPeer

ASSUME AcceptorAssumption == NoPeer \notin Peer

VARIABLES
    sessionAlloc,       \* TcpServer: session_alloc is set
    acceptorJob,        \* Acceptor: the accept job, "default" or "server"
    poisonedLocks,      \* the Mutexes a thread panicked with
    starterPc,          \* per starter, where it is
    registered, edge,   \* the listener is in epoll; it has an event to report
    conn,               \* per peer, its connection
    acceptPc, accepted, \* the loop's thread, and the connection it has accepted
    failed,     \* auxiliary: the last round of accept ended with an error
    late,       \* auxiliary: peers that came when the server was started
    misuse      \* auxiliary: uses of the server that it does not survive

startVars == <<sessionAlloc, acceptorJob, starterPc>>
kernelVars == <<registered, edge, conn>>
acceptorVars == <<acceptPc, accepted>>
serverVars == <<startVars, poisonedLocks, kernelVars, acceptorVars, failed, late, misuse>>

ServerInit ==
    /\ sessionAlloc = FALSE /\ acceptorJob = "default" /\ poisonedLocks = {}
    /\ starterPc = [a \in Starter |-> "new"]
    /\ registered = FALSE /\ edge = FALSE /\ conn = [p \in Peer |-> "none"]
    /\ acceptPc = "idle" /\ accepted = NoPeer
    /\ failed = FALSE /\ late = {} /\ misuse = {}

Backlog == {p \in Peer : conn[p] = "waiting"}

\* Who has a Mutex between two steps: a starter that waits for the acceptor has
\* the server, the loop's thread in handle_read has the acceptor.
ServerHeld == \E a \in Starter : starterPc[a] \in {"binding", "setting"}
AcceptorHeld == acceptPc \in {"accept", "job"}

StarterAt(a, l) == starterPc[a] = l
StarterGoto(a, l) == starterPc' = [starterPc EXCEPT ![a] = l]

-----------------------------------------------------------------------------
(* The starters.                                                           *)

\* Mutant: the allocator is not kept.
StartForgets(a) ==
    /\ StarterAt(a, "new") /\ ~ServerHeld /\ "server" \notin poisonedLocks
    /\ StarterGoto(a, "started")
    /\ UNCHANGED <<sessionAlloc, acceptorJob, poisonedLocks, kernelVars, acceptorVars, failed, late, misuse>>

\* start::<H>
Start(a) ==
    /\ StarterAt(a, "new") /\ ~ServerHeld /\ "server" \notin poisonedLocks
    /\ sessionAlloc' = TRUE
    /\ StarterGoto(a, "started")
    /\ UNCHANGED <<acceptorJob, poisonedLocks, kernelVars, acceptorVars, failed, late, misuse>>

\* start_internal locks the server, for bind and again for set_accept_job.
LockServer(a) ==
    /\ starterPc[a] \in {"new", "started", "bound"} /\ ~ServerHeld /\ "server" \notin poisonedLocks
    /\ StarterGoto(a, IF StarterAt(a, "bound") THEN "setting" ELSE "binding")
    /\ misuse' = misuse \cup {w \in {"noStart", "twice"} :
                    \/ w = "noStart" /\ StarterAt(a, "new")
                    \/ w = "twice" /\ \E b \in Starter \ {a} : starterPc[b] \notin {"new", "started"}}
    /\ UNCHANGED <<sessionAlloc, acceptorJob, poisonedLocks, kernelVars, acceptorVars, failed, late>>

\* It meets a poisoned Mutex, with the server locked or not.
StarterMeetsPoison(a) ==
    /\ \/ starterPc[a] \in {"new", "started", "bound"} /\ ~ServerHeld /\ "server" \in poisonedLocks
          /\ UNCHANGED poisonedLocks
       \/ starterPc[a] \in {"binding", "setting"} /\ ~AcceptorHeld /\ "acceptor" \in poisonedLocks
          /\ poisonedLocks' = poisonedLocks \cup {"server"}
    /\ StarterGoto(a, "panicked")
    /\ UNCHANGED <<sessionAlloc, acceptorJob, kernelVars, acceptorVars, failed, late, misuse>>

\* bind: register, readable and edge.  A listener that is registered already
\* makes it panic with both Mutexes.
Bind(a) ==
    /\ StarterAt(a, "binding") /\ ~AcceptorHeld /\ "acceptor" \notin poisonedLocks
    /\ IF registered
       THEN /\ poisonedLocks' = {"server", "acceptor"} /\ StarterGoto(a, "panicked")
            /\ UNCHANGED <<registered, edge>>
       ELSE /\ registered' = TRUE /\ edge' = (Backlog # {}) /\ StarterGoto(a, "bound")
            /\ UNCHANGED poisonedLocks
    /\ UNCHANGED <<sessionAlloc, acceptorJob, conn, acceptorVars, failed, late, misuse>>

\* Mutant: the default job stays.
SetAcceptJobForgets(a) ==
    /\ StarterAt(a, "setting") /\ ~AcceptorHeld /\ "acceptor" \notin poisonedLocks
    /\ StarterGoto(a, "done")
    /\ UNCHANGED <<sessionAlloc, acceptorJob, poisonedLocks, kernelVars, acceptorVars, failed, late, misuse>>

SetAcceptJob(a) ==
    /\ StarterAt(a, "setting") /\ ~AcceptorHeld /\ "acceptor" \notin poisonedLocks
    /\ acceptorJob' = "server"
    /\ StarterGoto(a, "done")
    /\ UNCHANGED <<sessionAlloc, poisonedLocks, kernelVars, acceptorVars, failed, late, misuse>>

-----------------------------------------------------------------------------
(* The kernel: every new connection is an edge.                            *)

Arrive(p) ==
    /\ conn[p] = "none"
    /\ conn' = [conn EXCEPT ![p] = "waiting"]
    /\ edge' = registered
    /\ late' = IF \E a \in Starter : StarterAt(a, "done") THEN late \cup {p} ELSE late
    /\ UNCHANGED <<startVars, poisonedLocks, registered, acceptorVars, failed, misuse>>

-----------------------------------------------------------------------------
(* The loop's thread: handle_read, with the acceptor's Mutex.              *)

HandleRead ==
    /\ acceptPc = "idle" /\ edge
    /\ edge' = FALSE
    /\ failed' = FALSE
    /\ acceptPc' = IF "acceptor" \in poisonedLocks THEN "dead" ELSE "accept"
    /\ UNCHANGED <<startVars, poisonedLocks, registered, conn, accepted, late, misuse>>

\* Mutant: one connection per event.
AcceptOnce(p) ==
    /\ acceptPc = "accept" /\ p \in Backlog
    /\ conn' = [conn EXCEPT ![p] = IF acceptorJob = "default" THEN "dropped" ELSE "accepted"]
    /\ IF acceptorJob = "default" THEN acceptPc' = "idle" /\ UNCHANGED accepted
                                  ELSE acceptPc' = "job" /\ accepted' = p
    /\ UNCHANGED <<startVars, poisonedLocks, registered, edge, failed, late, misuse>>

\* Ok: the default job drops the stream, the server's makes a session of it.
\* (Interrupted changes nothing: accept is called again.)
Accept(p) ==
    /\ acceptPc = "accept" /\ p \in Backlog
    /\ conn' = [conn EXCEPT ![p] = IF acceptorJob = "default" THEN "dropped" ELSE "accepted"]
    /\ IF acceptorJob = "default" THEN UNCHANGED acceptorVars
                                  ELSE acceptPc' = "job" /\ accepted' = p
    /\ UNCHANGED <<startVars, poisonedLocks, registered, edge, failed, late, misuse>>

AcceptWouldBlock ==
    /\ acceptPc = "accept" /\ Backlog = {}
    /\ acceptPc' = "idle"
    /\ UNCHANGED <<startVars, poisonedLocks, kernelVars, accepted, failed, late, misuse>>

\* Any other error (no descriptor left, a connection aborted, from_stream) ends
\* the round; it may have cost one connection.
AcceptFails ==
    /\ acceptPc = "accept"
    /\ conn' \in {conn} \cup {[conn EXCEPT ![p] = "failed"] : p \in Backlog}
    /\ failed' = TRUE
    /\ acceptPc' = "idle"
    /\ UNCHANGED <<startVars, poisonedLocks, registered, edge, accepted, late, misuse>>

\* on_accept_connection: the session is set up and registered ...
OnAccept ==
    /\ acceptPc = "job" /\ ~ServerHeld /\ "server" \notin poisonedLocks /\ sessionAlloc
    /\ conn' = [conn EXCEPT ![accepted] = "session"]
    /\ acceptPc' = "accept" /\ accepted' = NoPeer
    /\ UNCHANGED <<startVars, poisonedLocks, registered, edge, failed, late, misuse>>

\* ... or an unwrap panics: of the lock, of session_alloc, of register.
OnAcceptPanics ==
    /\ acceptPc = "job" /\ ~ServerHeld
    /\ acceptPc' = "dead" /\ accepted' = NoPeer
    /\ poisonedLocks' = {"server", "acceptor"}
    /\ misuse' = IF sessionAlloc /\ "server" \notin poisonedLocks
                THEN misuse \cup {"syscall"} ELSE misuse
    /\ UNCHANGED <<startVars, kernelVars, failed, late>>

-----------------------------------------------------------------------------
StartStep(a) == LockServer(a) \/ StarterMeetsPoison(a) \/ Bind(a) \/ SetAcceptJob(a)

AcceptorStep ==
    \/ HandleRead \/ AcceptWouldBlock \/ AcceptFails \/ OnAccept \/ OnAcceptPanics
    \/ \E p \in Peer : Accept(p)

ServerNext ==
    \/ AcceptorStep
    \/ \E a \in Starter : Start(a) \/ StartStep(a)
    \/ \E p \in Peer : Arrive(p)

ServerSpec == ServerInit /\ [][ServerNext]_serverVars

\* The loop's thread runs, and so does a thread in start_internal.
ServerLiveSpec ==
    /\ ServerSpec
    /\ WF_serverVars(AcceptorStep)
    /\ \A a \in Starter : WF_serverVars(starterPc[a] \notin {"new", "started"} /\ StartStep(a))

-----------------------------------------------------------------------------
(* Properties.                                                             *)

\* Every variable has its type, and an accepted connection that is not yet a
\* session is the one the loop's thread has in its hands.
ServerTypeOK ==
    /\ sessionAlloc \in BOOLEAN /\ acceptorJob \in {"default", "server"}
    /\ poisonedLocks \subseteq {"server", "acceptor"}
    /\ starterPc \in [Starter -> {"new", "started", "binding", "bound", "setting", "done", "panicked"}]
    /\ registered \in BOOLEAN /\ edge \in BOOLEAN /\ failed \in BOOLEAN
    /\ conn \in [Peer -> {"none", "waiting", "dropped", "accepted", "failed", "session"}]
    /\ acceptPc \in {"idle", "accept", "job", "dead"}
    /\ accepted \in Peer \cup {NoPeer} /\ late \subseteq Peer
    /\ acceptPc # "dead" => \A p \in Peer : conn[p] = "accepted" <=> accepted = p

\* The loop's thread does not panic, and the two lock orders do not meet, if
\* start came before start_internal, start_internal ran once, and no
\* registration of a session failed (tcp_server.rs:51, 108, 120).
NoDeadlockNoPanic ==
    acceptPc = "dead" \/ (acceptPc = "job" /\ ServerHeld) => misuse # {}

\* The listener is edge-triggered: while the loop's thread is elsewhere and no
\* event is to come, nobody waits in the backlog, unless accept failed
\* (acceptor.rs:46) in the round of the last event.
NoStuckBacklog ==
    registered /\ acceptPc = "idle" /\ ~edge /\ Backlog # {} => failed

\* The variables keep their types, an accepted connection is in nobody's hands
\* but the loop's, and no connection is left behind without an edge.
BacklogSound == ServerTypeOK /\ NoStuckBacklog

\* A connection is given to the default job, which drops it, only if it came
\* before start_internal returned (tcp_server.rs:108-124).
StartedMeansServed == \A p \in late : conn[p] # "dropped"

\* Whoever connects to a registered listener is accepted, or accept failed, or
\* the thread has panicked or is stuck.
Served ==
    \A p \in Peer :
        (registered /\ conn[p] = "waiting")
            ~> conn[p] # "waiting" \/ failed \/ acceptPc = "dead" \/ misuse # {}

=============================================================================
