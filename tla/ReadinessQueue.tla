--------------------------- MODULE ReadinessQueue ---------------------------
(***************************************************************************)
(* The intrusive multi-producer single-consumer queue of poll.rs           *)
(* (ReadinessQueueInner), instruction by instruction, with the sleep       *)
(* protocol of Poll::poll2 and the wakeup pipe (awakener.rs) around it.    *)
(*                                                                         *)
(* Any thread that turns the QUEUED bit of a node on pushes the node at    *)
(* the head (enqueue_node); the thread that holds the poll lock takes      *)
(* nodes from the tail (dequeue_node), and publishes its intention to      *)
(* sleep by swapping the end marker for the sleep marker                   *)
(* (prepare_for_sleep).  A producer that pushes behind the sleep marker    *)
(* must write the pipe.  Dropping the queue pushes the closed marker.      *)
(*                                                                         *)
(* Every load, store and compare_exchange on shared memory is a step of    *)
(* its own; tail_readiness is touched by the poller only and moves with    *)
(* the step that computes it.  Memory is sequentially consistent.          *)
(*                                                                         *)
(* The state word of a node is reduced to its QUEUED and DROPPED bits; the *)
(* full word is the business of module ReadinessNode.                      *)
(***************************************************************************)
EXTENDS Naturals, Sequences

CONSTANTS
    Node,           \* the readiness nodes (Registration / SetReadiness pairs)
    Producer,       \* threads that call set_readiness, update or drop
    Poller,         \* the thread inside poll2, and the one that drops the Poll
    EndMarker, SleepMarker, ClosedMarker, Null,
    Cap,            \* Events::capacity()
    PipeCap,        \* bytes the wakeup pipe holds before a write would block
    ReadBuf,        \* bytes one read of Awakener::cleanup takes
    Interruptible   \* poll_interruptible rather than poll

Marker == {EndMarker, SleepMarker, ClosedMarker}
Ptr == Node \cup Marker
Thread == Producer \cup {Poller}

ASSUME MarkersDistinct ==
    /\ EndMarker # SleepMarker /\ EndMarker # ClosedMarker
    /\ SleepMarker # ClosedMarker
    /\ Null \notin Ptr /\ Marker \cap Node = {}

ASSUME PollerIsNoProducer == Poller \notin Producer

ASSUME BoundsAssumption ==
    /\ Cap \in Nat \ {0} /\ PipeCap \in Nat \ {0} /\ ReadBuf \in Nat \ {0}
    /\ Interruptible \in BOOLEAN

VARIABLES
    head, tail, next,   \* head_readiness, tail_readiness, next_readiness
    chain,              \* auxiliary: the pointers from tail to head, in the
                        \* order in which they were swapped into head
    queued, dropped,    \* nodes whose state word has the bit
    released,           \* auxiliary: how often the queue gave a node's ref back
    pc, enq, prev,      \* enqueue_node, per thread: position, node_ptr, prev
    ppc,                \* position of the poller in poll2 / dequeue_node / drop
    got,                \* the node of Dequeue::Data
    until,              \* ReadinessQueue::poll's until
    room,               \* dst.capacity() - dst.len()
    block,              \* the timeout left for epoll_wait is not zero
    dropping,           \* the Drop of ReadinessQueue has begun
    pipe, edge          \* bytes in the wakeup pipe; its edge-triggered event

listVars == <<head, tail, next, chain>>
nodeVars == <<queued, dropped, released>>
enqVars  == <<pc, enq, prev>>
pollVars == <<ppc, got, until, room, block, dropping>>
pipeVars == <<pipe, edge>>
vars == <<listVars, nodeVars, enqVars, pollVars, pipeVars>>

-----------------------------------------------------------------------------
(* ReadinessQueue::new: the end marker alone.                              *)

Init ==
    /\ head = EndMarker /\ tail = EndMarker
    /\ next = [p \in Ptr |-> Null]
    /\ chain = <<EndMarker>>
    /\ queued = {} /\ dropped = {} /\ released = [n \in Node |-> 0]
    /\ pc = [t \in Thread |-> "idle"]
    /\ enq = [t \in Thread |-> Null] /\ prev = [t \in Thread |-> Null]
    /\ ppc = "idle" /\ got = Null /\ until = Null /\ room = Cap
    /\ block = FALSE /\ dropping = FALSE
    /\ pipe = 0 /\ edge = FALSE

-----------------------------------------------------------------------------
(* enqueue_node, run by the producers and, for requeued nodes and markers, *)
(* by the poller.                                                          *)

Call(t, n) ==
    /\ pc' = [pc EXCEPT ![t] = "store"]
    /\ enq' = [enq EXCEPT ![t] = n]
    /\ prev' = [prev EXCEPT ![t] = Null]

Return(t) ==
    /\ pc' = [pc EXCEPT ![t] = "idle"]
    /\ enq' = [enq EXCEPT ![t] = Null]
    /\ prev' = [prev EXCEPT ![t] = Null]

\* release_node, the queue's own reference
Release(n) == released' = [released EXCEPT ![n] = @ + 1]

\* Mutant: the node keeps the next pointer of its last stay in the list.
EnqStoreKeepsNext(t) ==
    /\ pc[t] = "store"
    /\ pc' = [pc EXCEPT ![t] = "load"]
    /\ UNCHANGED <<enq, prev, listVars, nodeVars, pollVars, pipeVars>>

EnqStore(t) ==
    /\ pc[t] = "store"
    /\ next' = [next EXCEPT ![enq[t]] = Null]
    /\ pc' = [pc EXCEPT ![t] = "load"]
    /\ UNCHANGED <<head, tail, chain, enq, prev, nodeVars, pollVars, pipeVars>>

EnqLoad(t) ==
    /\ pc[t] = "load"
    /\ prev' = [prev EXCEPT ![t] = head]
    /\ pc' = [pc EXCEPT ![t] = "cas"]
    /\ UNCHANGED <<enq, listVars, nodeVars, pollVars, pipeVars>>

\* The queue is closed: its reference to the node is given back.
EnqClosed(t) ==
    /\ pc[t] = "cas" /\ prev[t] = ClosedMarker
    /\ IF enq[t] = EndMarker THEN UNCHANGED released ELSE Release(enq[t])
    /\ Return(t)
    /\ UNCHANGED <<queued, dropped, listVars, pollVars, pipeVars>>

EnqSwap(t) ==
    /\ pc[t] = "cas" /\ prev[t] # ClosedMarker
    /\ head = prev[t]
    /\ head' = enq[t]
    /\ chain' = Append(chain, enq[t])
    /\ pc' = [pc EXCEPT ![t] = "link"]
    /\ UNCHANGED <<tail, next, enq, prev, nodeVars, pollVars, pipeVars>>

EnqSwapFails(t) ==
    /\ pc[t] = "cas" /\ prev[t] # ClosedMarker
    /\ head # prev[t]
    /\ prev' = [prev EXCEPT ![t] = head]
    /\ UNCHANGED <<pc, enq, listVars, nodeVars, pollVars, pipeVars>>

\* Mutant: enqueue_node compares prev with the wrong marker.
MustWakeAtEnd(t, p) == t # Poller /\ p = EndMarker

\* enqueue_node returns true, and enqueue_node_with_wakeup acts on it; the
\* poller's own calls ignore the result.
MustWake(t, p) == t # Poller /\ p = SleepMarker

EnqLink(t) ==
    /\ pc[t] = "link"
    /\ next' = [next EXCEPT ![prev[t]] = enq[t]]
    /\ IF MustWake(t, prev[t])
       THEN pc' = [pc EXCEPT ![t] = "wake"] /\ UNCHANGED <<enq, prev>>
       ELSE Return(t)
    /\ UNCHANGED <<head, tail, chain, nodeVars, pollVars, pipeVars>>

\* Awakener::wakeup: a full pipe (WouldBlock) is not an error.
Wake(t) ==
    /\ pc[t] = "wake"
    /\ IF pipe < PipeCap THEN pipe' = pipe + 1 /\ edge' = TRUE
                         ELSE UNCHANGED pipeVars
    /\ Return(t)
    /\ UNCHANGED <<listVars, nodeVars, pollVars>>

-----------------------------------------------------------------------------
(* What the callers do to a node before they enqueue it: set_readiness and *)
(* update turn QUEUED on, and enqueue only if it was off; the drop of a    *)
(* Registration sets DROPPED and QUEUED together (flag_as_dropped).        *)

BeginEnqueue(t, n) ==
    /\ pc[t] = "idle"
    /\ n \notin queued
    /\ queued' = queued \cup {n}
    /\ Call(t, n)
    /\ UNCHANGED <<dropped, released, listVars, pollVars, pipeVars>>

\* Mutant: the result of flag_as_dropped is ignored.
BeginDropAnyway(t, n) ==
    /\ pc[t] = "idle"
    /\ n \notin dropped
    /\ dropped' = dropped \cup {n}
    /\ queued' = queued \cup {n}
    /\ Call(t, n)
    /\ UNCHANGED <<released, listVars, pollVars, pipeVars>>

BeginDrop(t, n) ==
    /\ pc[t] = "idle"
    /\ n \notin dropped
    /\ dropped' = dropped \cup {n}
    /\ queued' = queued \cup {n}
    /\ IF n \in queued THEN UNCHANGED enqVars ELSE Call(t, n)
    /\ UNCHANGED <<released, listVars, pollVars, pipeVars>>

ProducerStep(t) ==
    \/ EnqStore(t) \/ EnqLoad(t) \/ EnqClosed(t) \/ EnqSwap(t)
    \/ EnqSwapFails(t) \/ EnqLink(t) \/ Wake(t)

-----------------------------------------------------------------------------
(* Poll::poll2 up to the return of Selector::select.                       *)

PollerAt(l) == ppc = l /\ pc[Poller] = "idle"

Goto(l) == ppc' = l

\* A timeout of zero skips prepare_for_sleep.
BeginPoll(zero) ==
    /\ PollerAt("idle") /\ ~dropping
    /\ Goto(IF zero THEN "select" ELSE "prepare")
    /\ UNCHANGED <<got, until, room, block, dropping, listVars, nodeVars,
                   enqVars, pipeVars>>

\* prepare_for_sleep: the sleep marker may still be there from an earlier
\* poll; behind a node or another marker there is no sleeping.
PrepareKeeps ==
    /\ PollerAt("prepare") /\ tail # EndMarker
    /\ block' = (tail = SleepMarker /\ head = SleepMarker)
    /\ Goto("select")
    /\ UNCHANGED <<got, until, room, dropping, listVars, nodeVars, enqVars,
                   pipeVars>>

PrepareStore ==
    /\ PollerAt("prepare") /\ tail = EndMarker
    /\ next' = [next EXCEPT ![SleepMarker] = Null]
    /\ Goto("prepareSwap")
    /\ UNCHANGED <<head, tail, chain, got, until, room, block, dropping,
                   nodeVars, enqVars, pipeVars>>

\* The compare_exchange of head from one marker to the other and, when it
\* succeeds, the move of tail.
SwapMarker(from, to) ==
    IF head = from
    THEN /\ head' = to /\ tail' = to
         /\ chain' = [chain EXCEPT ![Len(chain)] = to]
    ELSE UNCHANGED <<head, tail, chain>>

PrepareSwap ==
    /\ PollerAt("prepareSwap")
    /\ SwapMarker(EndMarker, SleepMarker)
    /\ block' = (head = EndMarker)
    /\ Goto("select")
    /\ UNCHANGED <<next, got, until, room, dropping, nodeVars, enqVars,
                   pipeVars>>

NotifyReady == edge /\ pipe > 0

\* epoll_wait reports the pipe, and n other descriptors with it.
SelectNotify(n) ==
    /\ PollerAt("select") /\ NotifyReady
    /\ n < Cap
    /\ room' = Cap - n /\ block' = FALSE
    /\ edge' = FALSE
    /\ Goto("cleanup")
    /\ UNCHANGED <<got, until, dropping, pipe, listVars, nodeVars, enqVars>>

\* epoll_wait reports n other descriptors, or none when the timeout ends it;
\* a pending notification stays out only when the others fill the batch.
SelectOther(n) ==
    /\ PollerAt("select")
    /\ NotifyReady => n = Cap
    /\ room' = Cap - n /\ block' = FALSE
    /\ Goto("poll")
    /\ UNCHANGED <<got, until, dropping, listVars, nodeVars, enqVars, pipeVars>>

\* EINTR under poll_interruptible: poll2 returns without polling the queue.
SelectInterrupted ==
    /\ Interruptible
    /\ PollerAt("select")
    /\ block' = FALSE
    /\ Goto("idle")
    /\ UNCHANGED <<got, until, room, dropping, listVars, nodeVars, enqVars,
                   pipeVars>>

\* EINTR under poll, with no time left: on to the queue with an empty batch,
\* whether or not the pipe was written meanwhile.
SelectElapsed ==
    /\ ~Interruptible
    /\ PollerAt("select")
    /\ room' = Cap /\ block' = FALSE
    /\ Goto("poll")
    /\ UNCHANGED <<got, until, dropping, listVars, nodeVars, enqVars, pipeVars>>

\* Awakener::cleanup: read until there is nothing to read.
Cleanup ==
    /\ PollerAt("cleanup")
    /\ IF pipe > 0
       THEN pipe' = (IF pipe > ReadBuf THEN pipe - ReadBuf ELSE 0)
            /\ UNCHANGED ppc
       ELSE Goto("poll") /\ UNCHANGED pipe
    /\ UNCHANGED <<got, until, room, block, dropping, edge, listVars, nodeVars,
                   enqVars>>

-----------------------------------------------------------------------------
(* ReadinessQueue::poll and dequeue_node.                                  *)

\* Mutant: until is not reset from one poll to the next.
EnterPollKeepsUntil ==
    /\ PollerAt("poll")
    /\ Goto(IF room = 0 THEN "clear" ELSE "dequeue")
    /\ UNCHANGED <<got, until, room, block, dropping, listVars, nodeVars,
                   enqVars, pipeVars>>

EnterPoll ==
    /\ PollerAt("poll")
    /\ until' = Null
    /\ Goto(IF room = 0 THEN "clear" ELSE "dequeue")
    /\ UNCHANGED <<got, room, block, dropping, listVars, nodeVars, enqVars,
                   pipeVars>>

\* Dequeue::Empty ends both loops, Dequeue::Inconsistent only the one of poll.
Empty == Goto(IF dropping THEN "gone" ELSE "idle")
\* Mutant: the drop gives up at Dequeue::Inconsistent.
InconsistentEnds == Empty

Inconsistent == Goto(IF dropping THEN "dequeue" ELSE "idle")

\* A marker with nothing behind it.
DequeueMarkerOnly ==
    /\ PollerAt("dequeue")
    /\ tail \in Marker /\ next[tail] = Null
    /\ Goto("clear")
    /\ UNCHANGED <<got, until, room, block, dropping, listVars, nodeVars,
                   enqVars, pipeVars>>

DequeueSkipMarker ==
    /\ PollerAt("dequeue")
    /\ tail \in Marker /\ next[tail] # Null
    /\ tail' = next[tail] /\ chain' = Tail(chain)
    /\ Goto("dequeueNode")
    /\ UNCHANGED <<head, next, got, until, room, block, dropping, nodeVars,
                   enqVars, pipeVars>>

AtNode == \/ PollerAt("dequeueNode")
          \/ PollerAt("dequeue") /\ tail \notin Marker

\* The scan is back at the first node it requeued itself.
DequeueUntil ==
    /\ AtNode /\ tail = until
    /\ Empty
    /\ UNCHANGED <<got, until, room, block, dropping, listVars, nodeVars,
                   enqVars, pipeVars>>

\* Dequeue::Data
TakeTail ==
    /\ next[tail] # Null
    /\ got' = tail
    /\ tail' = next[tail] /\ chain' = Tail(chain)
    /\ Goto("node")
    /\ UNCHANGED <<head, next, until, room, block, dropping, nodeVars, enqVars,
                   pipeVars>>

DequeueData == AtNode /\ tail # until /\ TakeTail

DequeueNoNext ==
    /\ AtNode /\ tail # until /\ next[tail] = Null
    /\ Goto("checkHead")
    /\ UNCHANGED <<got, until, room, block, dropping, listVars, nodeVars,
                   enqVars, pipeVars>>

\* Another producer is between its swap and its link.
DequeueBusy ==
    /\ PollerAt("checkHead") /\ head # tail
    /\ Inconsistent
    /\ UNCHANGED <<got, until, room, block, dropping, listVars, nodeVars,
                   enqVars, pipeVars>>

DequeueLast ==
    /\ PollerAt("checkHead") /\ head = tail
    /\ Call(Poller, EndMarker)
    /\ Goto("afterEnd")
    /\ UNCHANGED <<got, until, room, block, dropping, listVars, nodeVars,
                   pipeVars>>

DequeueAfterEnd == PollerAt("afterEnd") /\ TakeTail

DequeueStillBusy ==
    /\ PollerAt("afterEnd") /\ next[tail] = Null
    /\ Inconsistent
    /\ UNCHANGED <<got, until, room, block, dropping, listVars, nodeVars,
                   enqVars, pipeVars>>

\* clear_sleep_marker, after an empty queue or a batch without room.
ClearNothing ==
    /\ PollerAt("clear") /\ tail # SleepMarker
    /\ Empty
    /\ UNCHANGED <<got, until, room, block, dropping, listVars, nodeVars,
                   enqVars, pipeVars>>

ClearStore ==
    /\ PollerAt("clear") /\ tail = SleepMarker
    /\ next' = [next EXCEPT ![EndMarker] = Null]
    /\ Goto("clearSwap")
    /\ UNCHANGED <<head, tail, chain, got, until, room, block, dropping,
                   nodeVars, enqVars, pipeVars>>

ClearSwap ==
    /\ PollerAt("clearSwap")
    /\ SwapMarker(SleepMarker, EndMarker)
    /\ Empty
    /\ UNCHANGED <<next, got, until, room, block, dropping, nodeVars, enqVars,
                   pipeVars>>

-----------------------------------------------------------------------------
(* What ReadinessQueue::poll does with a node it took.                     *)

AfterNode(r) == Goto(IF dropping \/ r > 0 THEN "dequeue" ELSE "idle")

NodeDropped ==
    /\ PollerAt("node") /\ ~dropping /\ got \in dropped
    /\ Release(got)
    /\ got' = Null
    /\ AfterNode(room)
    /\ UNCHANGED <<queued, dropped, until, room, block, dropping, listVars,
                   enqVars, pipeVars>>

\* Edge-triggered, or nothing is ready: QUEUED is turned off; an event is
\* pushed when something was ready.
NodeDequeued(ev) ==
    /\ PollerAt("node") /\ ~dropping /\ got \notin dropped
    /\ queued' = queued \ {got}
    /\ room' = room - ev
    /\ got' = Null
    /\ AfterNode(room - ev)
    /\ UNCHANGED <<dropped, released, until, block, dropping, listVars, enqVars,
                   pipeVars>>

\* Level-triggered and ready: the node stays queued and goes to the back.
NodeRequeued ==
    /\ PollerAt("node") /\ ~dropping /\ got \notin dropped
    /\ until' = (IF until = Null THEN got ELSE until)
    /\ Call(Poller, got)
    /\ room' = room - 1
    /\ got' = Null
    /\ AfterNode(room - 1)
    /\ UNCHANGED <<block, dropping, listVars, nodeVars, pipeVars>>

-----------------------------------------------------------------------------
(* Drop for ReadinessQueue.                                                *)

BeginClose ==
    /\ PollerAt("idle") /\ ~dropping
    /\ dropping' = TRUE
    /\ until' = Null
    /\ Call(Poller, ClosedMarker)
    /\ Goto("dequeue")
    /\ UNCHANGED <<got, room, block, listVars, nodeVars, pipeVars>>

NodeClosed ==
    /\ PollerAt("node") /\ dropping
    /\ Release(got)
    /\ got' = Null
    /\ AfterNode(room)
    /\ UNCHANGED <<queued, dropped, until, room, block, dropping, listVars,
                   enqVars, pipeVars>>

-----------------------------------------------------------------------------

PollerEnqueue ==
    \/ EnqStore(Poller) \/ EnqLoad(Poller) \/ EnqClosed(Poller)
    \/ EnqSwap(Poller) \/ EnqSwapFails(Poller) \/ EnqLink(Poller)

Dequeue ==
    \/ DequeueMarkerOnly \/ DequeueSkipMarker \/ DequeueUntil \/ DequeueData
    \/ DequeueNoNext \/ DequeueBusy \/ DequeueLast \/ DequeueAfterEnd
    \/ DequeueStillBusy \/ ClearNothing \/ ClearStore \/ ClearSwap

HandleNode ==
    NodeDropped \/ NodeRequeued \/ NodeClosed \/ \E ev \in 0..1 : NodeDequeued(ev)

Prepare ==
    PrepareKeeps \/ PrepareStore \/ PrepareSwap

Select == \E n \in 0..Cap : SelectNotify(n) \/ SelectOther(n)

PollerStep ==
    \/ PollerEnqueue \/ Dequeue \/ HandleNode \/ Prepare \/ Select
    \/ SelectInterrupted \/ SelectElapsed \/ Cleanup \/ EnterPoll \/ BeginClose
    \/ \E zero \in BOOLEAN : BeginPoll(zero)

Next ==
    \/ \E t \in Producer : \/ ProducerStep(t)
                           \/ \E n \in Node : BeginEnqueue(t, n) \/ BeginDrop(t, n)
    \/ PollerStep

Spec == Init /\ [][Next]_vars

\* The loop that calls poll runs, every thread runs on, and epoll_wait with a
\* zero timeout or a pending notification returns.  Nothing is assumed of
\* time-outs, of other descriptors, of signals, or of who drops what.
PollerRuns ==
    \/ PollerEnqueue \/ Dequeue \/ HandleNode \/ Prepare \/ Cleanup
    \/ EnterPoll
    \/ (~block \/ NotifyReady) /\ Select
    \/ \E zero \in BOOLEAN : BeginPoll(zero)

Fairness ==
    /\ \A t \in Producer : WF_vars(ProducerStep(t))
    /\ WF_vars(PollerRuns)

LiveSpec == Spec /\ Fairness

-----------------------------------------------------------------------------
(* Properties.                                                             *)

EnqLabel == {"idle", "store", "load", "cas", "link", "wake"}
PollLabel == {"idle", "prepare", "prepareSwap", "select", "cleanup", "poll",
              "clear", "clearSwap", "dequeue", "dequeueNode", "checkHead",
              "afterEnd", "node", "gone"}

\* Every variable has the type its Rust counterpart has; a thread inside
\* enqueue_node carries a pointer, and one about to link has a predecessor.
TypeOK ==
    /\ head \in Ptr /\ tail \in Ptr
    /\ next \in [Ptr -> Ptr \cup {Null}]
    /\ chain \in Seq(Ptr)
    /\ queued \in SUBSET Node /\ dropped \in SUBSET Node
    /\ released \in [Node -> Nat]
    /\ pc \in [Thread -> EnqLabel]
    /\ enq \in [Thread -> Ptr \cup {Null}]
    /\ prev \in [Thread -> Ptr \cup {Null}]
    /\ ppc \in PollLabel
    /\ got \in Node \cup {Null} /\ until \in Node \cup {Null}
    /\ room \in 0..Cap
    /\ block \in BOOLEAN /\ dropping \in BOOLEAN
    /\ pipe \in 0..PipeCap /\ edge \in BOOLEAN

Blocked == ppc = "select" /\ block

InChain(p) == \E i \in 1..Len(chain) : chain[i] = p
HasNodes == \E n \in Node : InChain(n)
Queue == SelectSeq(chain, LAMBDA p : p \in Node)

\* A thread whose enqueue_node has swapped behind the sleep marker and has not
\* written the pipe yet.
OwesWakeup(t) == t # Poller /\ pc[t] \in {"link", "wake"} /\ prev[t] = SleepMarker

\* No lost wakeup, seen from the caller of set_readiness: while the poller is
\* in epoll_wait with a timeout and a node waits in its queue, the producer
\* that pushed behind the sleep marker is on its way to the pipe, or the
\* pipe's event is pending (prepare_for_sleep, enqueue_node:350, Awakener).
NoSleepOnWork ==
    Blocked /\ HasNodes => NotifyReady \/ \E t \in Thread : OwesWakeup(t)

\* The list of poll.rs is the chain: it starts at tail, ends at head, holds no
\* pointer twice, each link but the ones some enqueue_node still owes is in
\* place, and a link is owed by one thread only.
ChainLinked ==
    /\ Len(chain) > 0 /\ tail = chain[1] /\ head = chain[Len(chain)]
    /\ \A i, j \in 1..Len(chain) : chain[i] = chain[j] => i = j
    /\ next[head] = Null
    /\ \A i \in 1..(Len(chain) - 1) :
          \/ next[chain[i]] = chain[i + 1]
          \/ /\ next[chain[i]] = Null
             /\ \E t \in Thread :
                  pc[t] = "link" /\ prev[t] = chain[i] /\ enq[t] = chain[i + 1]
    /\ \A t \in Thread : pc[t] = "link" =>
          \E i \in 1..(Len(chain) - 1) :
             prev[t] = chain[i] /\ enq[t] = chain[i + 1]

Carries(t, n) == pc[t] \in {"store", "load", "cas"} /\ enq[t] = n

\* Conservation.  A node whose QUEUED bit is on is in exactly one place: in
\* the list, in the hands of one enqueue_node, in the hands of poll, or given
\* back; a node whose bit is off is in none.  So no push is lost and no node
\* is pushed twice, which would tie the list into a knot.
QueuedInOnePlace ==
    \A n \in Node :
       LET places == {<<"enqueue", t>> : t \in {u \in Thread : Carries(u, n)}}
                       \cup (IF InChain(n) THEN {<<"list", n>>} ELSE {})
                       \cup (IF got = n THEN {<<"poll", n>>} ELSE {})
                       \cup (IF released[n] > 0 THEN {<<"released", n>>} ELSE {})
       IN IF n \in queued THEN \E pl \in places : places = {pl}
                           ELSE places = {}

\* The queue gives its reference to a node back at most once, whichever of
\* poll, a late enqueue_node and the drop of the queue does it, and no thread
\* dereferences a node that was given back.
ReleasedOnce ==
    /\ \A n \in Node : released[n] <= 1
    /\ \A t \in Thread : \A n \in Node :
          pc[t] \in {"store", "load", "cas", "link"} /\ n \in {enq[t], prev[t]}
             => released[n] = 0 \/ (pc[t] = "cas" /\ n = prev[t])
    /\ tail \in Node => released[tail] = 0
    /\ got \in Node => released[got] = 0

\* The debug_assert!s of poll.rs, each at the step that evaluates it.
DebugAsserts ==
    /\ \A t \in Thread :
         /\ pc[t] = "link" => next[prev[t]] = Null
         /\ pc[t] = "cas" /\ prev[t] = ClosedMarker
              => enq[t] \notin {ClosedMarker, SleepMarker}
    /\ ppc = "clearSwap" => head # EndMarker
    /\ ppc = "prepareSwap" => /\ head # SleepMarker
                              /\ tail = EndMarker
                              /\ head = EndMarker => next[EndMarker] = Null
    /\ ppc = "node" => got \in queued

\* The list as the rest of poll.rs relies on it: well typed, linked from tail to
\* head, with every queued node in one place and no debug_assert! of poll.rs
\* failing, at every point of every enqueue_node, poll and drop.
ListSound == TypeOK /\ ChainLinked /\ QueuedInOnePlace /\ DebugAsserts

\* The drop of the queue leaves the list to its own fate only at a marker, and
\* leaves nodes in it only if a producer was between its swap and its link when
\* the drop looked behind that marker: any other node is given back.  (The
\* nodes that stay are never freed: enqueue_node:349 against drop:545.)
DropDrains ==
    [][/\ (dropping /\ ppc = "dequeue" /\ ppc' = "clear" /\ HasNodes)
            => \E t \in Producer : pc[t] = "link" /\ prev[t] = tail
       /\ (ppc # "gone" /\ ppc' = "gone")
            => tail' \in Marker /\ (tail' = ClosedMarker => ~HasNodes')]_vars

Fifo == INSTANCE FifoQueue
          WITH q <- Queue, sleeping <- Blocked, closed <- InChain(ClosedMarker)

\* The queue is first in, first out whatever the interleaving of swaps and
\* links, accepts nothing once it is closed, and its consumer blocks in
\* epoll_wait only when it is empty.
FifoOrder == Fifo!Safety

\* With several producers: nodes leave the list in the order of their swaps, and
\* the drop of the queue finds all of them but those behind a link it cannot see.
OrderedAndDrained == FifoOrder /\ DropDrains

\* The same order, and a consumer blocked on a queue that is no longer empty is woken.
RefinesFifo == Fifo!Spec

\* A node in the list reaches the poll loop, provided the batches of other
\* descriptors do not fill Events for ever (poll:453 skips the queue then) and
\* the queue is not dropped.
Delivered ==
    <>[](ppc = "poll" => room > 0)
       => \A n \in Node : InChain(n) ~> got = n \/ dropping

=============================================================================
