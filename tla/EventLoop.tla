----------------------------- MODULE EventLoop ------------------------------
(***************************************************************************)
(* Descriptors from registration to callback: Selector (events_map and the *)
(* kernel's interest list), Events, and EventLoop's run, run_once and      *)
(* io_process, with the threads that register and deregister streams while *)
(* the loop is anywhere in a turn.                                         *)
(*                                                                         *)
(* A File is a socket, a Fd the number it has while it is open; numbers    *)
(* are used again.  The job registered for a file owns the file (the       *)
(* closures of TcpServer, TcpClient and Acceptor hold an Arc of it), so it *)
(* is named after it, and the file is closed when the last holder is gone: *)
(* events_map, the clones in the batch, a call in progress, user code.     *)
(* Calls on one file are serialised by the Mutex around its owner.  The    *)
(* wakeup pipe and the readiness queue are in ReadinessQueue, the timer's  *)
(* entries of a batch in Timer.                                            *)
(***************************************************************************)
EXTENDS Naturals, FiniteSets, Sequences

CONSTANTS
    Fd,         \* descriptor numbers
    Token,      \* the tokens reregister may be given; Token(n) is the number n
    File,       \* sockets; each is opened at most once
    Remote,     \* threads other than the loop's
    Loop,       \* the thread in EventLoop::run
    None,
    MaxEvents   \* capacity of the Events of run_once

\* An entry of the kernel's interest list.  byToken is auxiliary: reregister has
\* given the event other data than the descriptor.
Interest == [file : File, key : Fd \cup Token, oneshot : BOOLEAN, armed : BOOLEAN,
             byToken : BOOLEAN]

ASSUME LoopAssumption ==
    /\ IsFiniteSet(Fd)
    /\ MaxEvents \in Nat \ {0}
    /\ None \notin Fd \cup File \cup Interest
    /\ Loop \notin Remote

VARIABLES
    fdOf,       \* the number of an open file
    opened,     \* the files that have been opened
    interest,   \* the kernel's interest list, per descriptor
    pending,    \* the kernel's ready list
    eventsMap,  \* events_map: descriptor -> job
    raw,        \* evts.events: what epoll_wait returned and select has not looked up
    entries,    \* evts.entries: the batch
    at,         \* how many entries io_process has begun
    handles,    \* files user code holds
    call,       \* per thread, the register or deregister it is inside
    run,        \* EventLoop::run (the flag)
    pc          \* where the loop thread is

kernelVars == <<fdOf, opened, interest, pending>>
batchVars == <<raw, entries, at>>
vars == <<kernelVars, eventsMap, batchVars, handles, call, run, pc>>

Thread == Remote \cup {Loop}

NoCall == [op |-> "none", file |-> None]

Init ==
    /\ fdOf = [f \in File |-> None]
    /\ opened = {}
    /\ interest = [d \in Fd |-> None]
    /\ pending = {}
    /\ eventsMap = [d \in Fd |-> None]
    /\ raw = {} /\ entries = <<>> /\ at = 0
    /\ handles = {}
    /\ call = [t \in Thread |-> NoCall]
    /\ run = FALSE
    /\ pc = "new"

-----------------------------------------------------------------------------
(* Who keeps a file open.                                                  *)

InMap(f) == \E d \in Fd : eventsMap[d] = f
InBatch(f) == \E i \in DOMAIN entries : entries[i].job = f
InCall(f) == \E t \in Thread : call[t].file = f

Referenced(f) == f \in handles \/ InMap(f) \/ InCall(f) \/ InBatch(f)

\* The last holder closes the file; the kernel then forgets it.
CloseUnreferenced ==
    LET gone == {f \in File : fdOf[f] # None /\ ~Referenced(f)'}
    IN  /\ fdOf' = [f \in File |-> IF f \in gone THEN None ELSE fdOf[f]]
        /\ interest' = [d \in Fd |-> IF interest[d] # None /\ interest[d].file \in gone
                                     THEN None ELSE interest[d]]
        /\ pending' = pending \ gone

\* Code that runs on t: on the loop thread, only a job calls back into the loop.
Active(t) == call[t] = NoCall /\ (t = Loop => pc = "job")

\* t can call something on f: f is alive (user code reaches it with a Weak), and
\* nobody else has its Mutex, which the job of f holds while it runs.
MayCall(t, f) ==
    /\ Active(t)
    /\ fdOf[f] # None /\ ~InCall(f)
    /\ pc = "job" /\ entries[at].job = f => t = Loop

Begin(t, o, f) == call' = [call EXCEPT ![t] = [op |-> o, file |-> f]]
End(t) == call' = [call EXCEPT ![t] = NoCall]

-----------------------------------------------------------------------------
(* User code and the Selector's operations.                                *)

Open(t, f) ==
    /\ Active(t)
    /\ f \notin opened
    /\ \E d \in Fd \ {fdOf[g] : g \in File} : fdOf' = [fdOf EXCEPT ![f] = d]
    /\ opened' = opened \cup {f}
    /\ handles' = handles \cup {f}
    /\ UNCHANGED <<interest, pending, eventsMap, batchVars, call, run, pc>>

DropHandle(f) ==
    /\ f \in handles
    /\ handles' = handles \ {f}
    /\ UNCHANGED <<opened, eventsMap, batchVars, call, run, pc>>
    /\ CloseUnreferenced

\* The kernel's side of EPOLL_CTL_ADD and MOD; a socket may be ready already.
Add(f, key, oneshot, byToken) ==
    /\ interest' = [interest EXCEPT ![fdOf[f]] =
                       [file |-> f, key |-> key, oneshot |-> oneshot, armed |-> TRUE,
                        byToken |-> byToken]]
    /\ pending' \in {pending, pending \cup {f}}

\* Mutant: the kernel is told before the job is in the map.
RegisterAddsFirst(t, f) ==
    /\ MayCall(t, f)
    /\ interest[fdOf[f]] = None
    /\ Begin(t, "add", f)
    /\ Add(f, fdOf[f], FALSE, FALSE)
    /\ UNCHANGED <<fdOf, opened, eventsMap, batchVars, handles, run, pc>>

\* register: the job goes into the map first ...
Register(t, f) ==
    /\ MayCall(t, f)
    /\ eventsMap' = [eventsMap EXCEPT ![fdOf[f]] = f]
    /\ Begin(t, "add", f)
    /\ UNCHANGED <<kernelVars, batchVars, handles, run, pc>>

\* Mutant: register stores the token, as reregister does.
RegisterAddToken(t) ==
    /\ call[t].op = "add"
    /\ LET f == call[t].file
       IN  /\ interest[fdOf[f]] = None
           /\ \E key \in Token, oneshot \in BOOLEAN : Add(f, key, oneshot, FALSE)
    /\ End(t)
    /\ UNCHANGED <<fdOf, opened, eventsMap, batchVars, handles, run, pc>>

\* ... and then the descriptor into the kernel, with itself as the event's data.
RegisterAdd(t) ==
    /\ call[t].op = "add"
    /\ LET f == call[t].file
       IN  /\ interest[fdOf[f]] = None
           /\ \E oneshot \in BOOLEAN : Add(f, fdOf[f], oneshot, FALSE)
    /\ End(t)
    /\ UNCHANGED <<fdOf, opened, eventsMap, batchVars, handles, run, pc>>

\* epoll_ctl fails (the descriptor is there already, or the kernel is out of
\* space): the error is returned and the job stays in the map.
RegisterFails(t) ==
    /\ call[t].op = "add"
    /\ End(t)
    /\ UNCHANGED <<kernelVars, eventsMap, batchVars, handles, run, pc>>

\* reregister: the data of the event becomes the token.
Reregister(t, f) ==
    /\ MayCall(t, f)
    /\ interest[fdOf[f]] # None
    /\ \E key \in Token, oneshot \in BOOLEAN : Add(f, key, oneshot, key # fdOf[f])
    /\ UNCHANGED <<fdOf, opened, eventsMap, batchVars, handles, call, run, pc>>

\* deregister: first out of the kernel (an unregistered descriptor is an error) ...
Deregister(t, f) ==
    /\ MayCall(t, f)
    /\ interest[fdOf[f]] # None
    /\ interest' = [interest EXCEPT ![fdOf[f]] = None]
    /\ pending' = pending \ {f}
    /\ Begin(t, "remove", f)
    /\ UNCHANGED <<fdOf, opened, eventsMap, batchVars, handles, run, pc>>

\* ... then out of the map.
DeregisterRemove(t) ==
    /\ call[t].op = "remove"
    /\ eventsMap' = [eventsMap EXCEPT ![fdOf[call[t].file]] = None]
    /\ End(t)
    /\ UNCHANGED <<opened, batchVars, handles, run, pc>>
    /\ CloseUnreferenced

\* Something happens on a registered socket.
Event(f) ==
    /\ fdOf[f] # None
    /\ interest[fdOf[f]] # None /\ interest[fdOf[f]].armed
    /\ pending' = pending \cup {f}
    /\ UNCHANGED <<fdOf, opened, interest, eventsMap, batchVars, handles, call, run, pc>>

-----------------------------------------------------------------------------
(* The loop.                                                               *)

Goto(l) == pc' = l

\* run: the flag is set, whatever it was.
Run ==
    /\ pc = "new"
    /\ run' = TRUE
    /\ Goto("loop")
    /\ UNCHANGED <<kernelVars, eventsMap, batchVars, handles, call>>

CheckRun ==
    /\ pc = "loop"
    /\ Goto(IF run THEN "wait" ELSE "done")
    /\ UNCHANGED <<kernelVars, eventsMap, batchVars, handles, call, run>>

Shutdown(t) ==
    /\ Active(t)
    /\ run
    /\ run' = FALSE
    /\ UNCHANGED <<kernelVars, eventsMap, batchVars, handles, call, pc>>

\* epoll_wait returns the events that fit: an empty list when it was woken for
\* the readiness queue.  A oneshot descriptor is disarmed by its event.
EpollWait ==
    /\ pc = "wait"
    /\ \E S \in SUBSET pending :
          /\ S = pending \/ Cardinality(S) = MaxEvents
          /\ Cardinality(S) <= MaxEvents
          /\ raw' = {[key |-> interest[fdOf[f]].key, file |-> f,
                     byToken |-> interest[fdOf[f]].byToken] : f \in S}
          /\ pending' = pending \ S
          /\ interest' = [d \in Fd |->
                            IF interest[d] # None /\ interest[d].file \in S /\ interest[d].oneshot
                            THEN [interest[d] EXCEPT !.armed = FALSE] ELSE interest[d]]
    /\ Goto("select")
    /\ UNCHANGED <<fdOf, opened, eventsMap, entries, at, handles, call, run>>

\* Mutant: an event without an entry ends the loop over the events.
LookupBreaks(r) ==
    /\ pc = "select"
    /\ r \in raw
    /\ IF r.key \in Fd /\ eventsMap[r.key] # None
       THEN /\ raw' = raw \ {r}
            /\ entries' = Append(entries, [job |-> eventsMap[r.key], file |-> r.file,
                                           byToken |-> r.byToken])
       ELSE raw' = {} /\ UNCHANGED entries
    /\ UNCHANGED <<kernelVars, eventsMap, at, handles, call, run, pc>>

\* select looks the data up as a descriptor and clones the entry it finds;
\* an event without an entry is dropped.
Lookup(r) ==
    /\ pc = "select"
    /\ r \in raw
    /\ raw' = raw \ {r}
    /\ entries' = IF r.key \in Fd /\ eventsMap[r.key] # None
                  THEN Append(entries, [job |-> eventsMap[r.key], file |-> r.file,
                                        byToken |-> r.byToken])
                  ELSE entries
    /\ UNCHANGED <<kernelVars, eventsMap, at, handles, call, run, pc>>

Selected ==
    /\ pc = "select" /\ raw = {}
    /\ Goto("process")
    /\ UNCHANGED <<kernelVars, eventsMap, batchVars, handles, call, run>>

\* io_process runs the jobs of the batch in order ...
BeginJob ==
    /\ pc = "process" /\ at < Len(entries)
    /\ at' = at + 1
    /\ Goto("job")
    /\ UNCHANGED <<kernelVars, eventsMap, raw, entries, handles, call, run>>

EndJob ==
    /\ pc = "job" /\ call[Loop] = NoCall
    /\ Goto("process")
    /\ UNCHANGED <<kernelVars, eventsMap, batchVars, handles, call, run>>

\* ... and then drops its clones.
Clear ==
    /\ pc = "process" /\ at = Len(entries)
    /\ entries' = <<>> /\ at' = 0
    /\ Goto("loop")
    /\ UNCHANGED <<opened, eventsMap, raw, handles, call, run>>
    /\ CloseUnreferenced

-----------------------------------------------------------------------------
CallStep(t) == RegisterAdd(t) \/ RegisterFails(t) \/ DeregisterRemove(t)

LoopStep ==
    \/ Run \/ CheckRun \/ EpollWait \/ Selected \/ BeginJob \/ EndJob \/ Clear
    \/ \E r \in raw : Lookup(r)

Next ==
    \/ LoopStep
    \/ \E t \in Thread : CallStep(t) \/ Shutdown(t)
    \/ \E t \in Thread, f \in File :
          Open(t, f) \/ Register(t, f) \/ Reregister(t, f) \/ Deregister(t, f)
    \/ \E f \in File : DropHandle(f) \/ Event(f)

Spec == Init /\ [][Next]_vars

\* The loop's thread runs; a job returns, however many calls it makes; a thread
\* inside register or deregister returns.
LiveSpec ==
    /\ Spec
    /\ WF_vars(LoopStep) /\ SF_vars(EndJob)
    /\ \A t \in Thread : WF_vars(CallStep(t))

-----------------------------------------------------------------------------
(* Properties.                                                             *)

\* Every variable keeps its type; the index of io_process stays inside the
\* batch, and only the loop's own turn has a batch.
TypeOK ==
    /\ fdOf \in [File -> Fd \cup {None}]
    /\ opened \subseteq File /\ handles \subseteq opened /\ pending \subseteq opened
    /\ \A d \in Fd : interest[d] \in Interest \cup {None}
    /\ eventsMap \in [Fd -> File \cup {None}]
    /\ raw \subseteq [key : Fd \cup Token, file : File, byToken : BOOLEAN]
    /\ entries \in Seq([job : File, file : File, byToken : BOOLEAN])
    /\ at \in 0..Len(entries)
    /\ pc \in {"new", "loop", "wait", "select", "process", "job", "done"}
    /\ run \in BOOLEAN
    /\ \A t \in Thread : call[t] = NoCall \/ call[t] \in [op : {"add", "remove"}, file : File]
    /\ pc \in {"new", "loop", "wait", "done"} => raw = {} /\ entries = <<>>

\* Whatever descriptor the kernel can report has a job, its own, in
\* events_map, also in the middle of register and deregister: otherwise
\* select would drop the event (epoll.rs:87), and an edge is not repeated.
KernelImpliesMap ==
    \A d \in Fd : interest[d] # None =>
        /\ eventsMap[d] = interest[d].file
        /\ fdOf[interest[d].file] = d

\* events_map, well typed, is never behind the kernel's list.
MapSound == TypeOK /\ KernelImpliesMap

\* A job runs for an event of its own file.  The two exceptions are a
\* descriptor that was reregistered (the event carries the token) and a file
\* that was closed after epoll_wait had reported it, whose number another
\* file has now.
EventReachesOwner ==
    \A i \in DOMAIN entries :
        LET e == entries[i]
        IN  e.job = e.file \/ e.byToken \/ fdOf[e.file] = None

\* The jobs of a batch run on open files: a job earlier in the batch, or
\* another thread, may deregister and drop a file, but its number cannot be
\* taken by another file before the batch is cleared (event_loop.rs:148).
BatchStaysOpen == \A i \in DOMAIN entries : fdOf[entries[i].job] # None

\* The jobs io_process calls are those of the files the events are about, and
\* these files are open.
JobMeetsItsFile == EventReachesOwner /\ BatchStaysOpen

\* An event on a registered descriptor reaches its job, unless the descriptor
\* is deregistered or reregistered first, or the loop is shut down.
EventDispatched ==
    \A f \in File :
        f \in pending ~>
            \/ pc = "job" /\ entries[at].job = f
            \/ pc = "done"
            \/ fdOf[f] = None
            \/ interest[fdOf[f]] = None
            \/ interest[fdOf[f]].key # fdOf[f]

=============================================================================
