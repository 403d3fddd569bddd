------------------------ MODULE ReadinessQueueProofs ------------------------
(***************************************************************************)
(* Proofs about ReadinessQueue, for any nodes and producers, any capacity  *)
(* of Events and any size of the pipe.                                     *)
(*                                                                         *)
(* The inductive invariant says of the list where its markers can be, of   *)
(* each enqueue_node what it carries and what it has stored, of the poller *)
(* what it knows at each of its positions, of each node where it is, and   *)
(* of a poller that sleeps who will wake it.                               *)
(***************************************************************************)
EXTENDS ReadinessQueue, TLAPS

Pushing == {"store", "load", "cas"}
Working == {"store", "load", "cas", "link"}

\* Where the markers are.  The closed marker is the last entry, the sleep
\* marker the first, and the end marker is never with the sleep marker.
MarkersPlaced ==
    /\ \A i \in 1..Len(chain) : chain[i] = ClosedMarker => i = Len(chain) /\ dropping
    /\ \A i \in 1..Len(chain) : chain[i] = SleepMarker => i = 1
    /\ \A i, j \in 1..Len(chain) : ~(chain[i] = SleepMarker /\ chain[j] = EndMarker)

\* What a thread inside enqueue_node carries: a pointer that is not in the list
\* yet and in no other thread's hands, and whose next is reset by its store.
Pushes ==
    /\ \A t \in Thread :
         /\ pc[t] # "idle" => enq[t] \in Node \cup {EndMarker, ClosedMarker}
         /\ pc[t] # "idle" /\ t # Poller => enq[t] \in Node
         /\ pc[t] \in {"store", "load"} => prev[t] = Null
         /\ pc[t] \in {"cas", "link"} => prev[t] \in Ptr
         /\ pc[t] \in {"load", "cas"} => next[enq[t]] = Null
         /\ pc[t] = "link" => next[prev[t]] = Null
         /\ pc[t] = "cas" /\ prev[t] = ClosedMarker => head = ClosedMarker
         /\ pc[t] \in Pushing => ~InChain(enq[t])
    /\ \A t, u \in Thread :
         pc[t] \in Working /\ pc[u] \in Working /\ enq[t] = enq[u] => t = u

\* The poller's own pushes, and what it relies on at its positions.
Turn ==
    /\ pc[Poller] # "wake"
    /\ pc[Poller] # "idle" =>
         \/ ppc = "afterEnd" /\ enq[Poller] = EndMarker
         \/ ppc = "dequeue" /\ dropping /\ enq[Poller] = ClosedMarker
         \/ ppc \in {"dequeue", "idle"} /\ ~dropping /\ enq[Poller] \in Node
    /\ ppc = "node" <=> got # Null
    /\ ppc \in {"dequeueNode", "checkHead", "afterEnd"} => tail \in Node \cup {ClosedMarker}
    /\ ppc \in {"dequeue", "dequeueNode", "checkHead", "afterEnd", "node"} => dropping \/ room > 0
    /\ ppc = "prepareSwap" => tail = EndMarker /\ next[SleepMarker] = Null
    /\ ppc = "clearSwap" => tail = SleepMarker /\ next[EndMarker] = Null

Carried(n) == \E t \in Thread : Carries(t, n)

\* A queued node is somewhere, and nowhere else; another one is nowhere.
Places ==
    /\ \A n \in Node : n \in queued <=> Carried(n) \/ InChain(n) \/ got = n \/ released[n] = 1
    /\ \A n \in Node : released[n] \in {0, 1}
    /\ \A n \in Node : Carried(n) => got # n /\ released[n] = 0
    /\ \A n \in Node : InChain(n) => got # n /\ released[n] = 0
    /\ \A n \in Node : got = n => released[n] = 0

\* The poller blocks behind the sleep marker only, and whoever pushed first
\* behind that marker owes the pipe a byte or has written it; a byte in the
\* pipe keeps its edge until cleanup.
Sleeps ==
    /\ block => ppc = "select" /\ tail = SleepMarker
    /\ pipe > 0 => edge \/ ppc = "cleanup"
    /\ block /\ Len(chain) > 1 => NotifyReady \/ \E t \in Thread : OwesWakeup(t)

IInv == TypeOK /\ ChainLinked /\ MarkersPlaced /\ Pushes /\ Turn /\ Places /\ Sleeps

-----------------------------------------------------------------------------
(* The list.                                                               *)

\* The chain is a sequence with a first and a last entry.
LEMMA ChainIs ==
    ASSUME TypeOK, ChainLinked
    PROVE  /\ Len(chain) \in Nat /\ Len(chain) > 0
           /\ \A i \in 1..Len(chain) : chain[i] \in Ptr
           /\ InChain(head) /\ InChain(tail)
           /\ head = tail => Len(chain) = 1
  <1>1. chain \in Seq(Ptr)
    BY DEF TypeOK
  <1>2. Len(chain) \in Nat /\ \A i \in 1..Len(chain) : chain[i] \in Ptr
    BY <1>1
  <1>3. Len(chain) > 0 /\ tail = chain[1] /\ head = chain[Len(chain)]
    BY DEF ChainLinked
  <1>4. \A i, j \in 1..Len(chain) : chain[i] = chain[j] => i = j
    BY DEF ChainLinked
  <1>5. InChain(head) /\ InChain(tail)
    BY <1>2, <1>3 DEF InChain
  <1>6. 1 \in 1..Len(chain) /\ Len(chain) \in 1..Len(chain)
    BY <1>2, <1>3
  <1>7. head = tail => Len(chain) = 1
    BY <1>3, <1>4, <1>6
  <1> QED BY <1>2, <1>3, <1>5, <1>7

\* A link that is owed is not in place, and what it leads from and to is in the list.
LEMMA OwedLink ==
    ASSUME IInv, NEW t \in Thread, pc[t] = "link"
    PROVE  /\ next[prev[t]] = Null /\ InChain(prev[t]) /\ InChain(enq[t])
           /\ prev[t] # head /\ prev[t] # ClosedMarker
           /\ \A u \in Thread : pc[u] = "link" /\ prev[u] = prev[t] => u = t
  <1>i. TypeOK /\ ChainLinked /\ MarkersPlaced /\ Pushes
    BY DEF IInv
  <1>1. PICK i \in 1..(Len(chain) - 1) : prev[t] = chain[i] /\ enq[t] = chain[i + 1]
    BY <1>i DEF ChainLinked
  <1>2. /\ Len(chain) \in Nat /\ i \in 1..Len(chain) /\ i + 1 \in 1..Len(chain) /\ i # Len(chain)
        /\ Len(chain) \in 1..Len(chain)
    BY <1>i, <1>1, ChainIs
  <1>3. InChain(prev[t]) /\ InChain(enq[t])
    BY <1>1, <1>2 DEF InChain
  <1>4. \A j, k \in 1..Len(chain) : chain[j] = chain[k] => j = k
    BY <1>i DEF ChainLinked
  <1>5. prev[t] # head
    BY <1>i, <1>1, <1>2, <1>4 DEF ChainLinked
  <1>6. prev[t] # ClosedMarker
    BY <1>i, <1>1, <1>2 DEF MarkersPlaced
  <1>7. ASSUME NEW u \in Thread, pc[u] = "link", prev[u] = prev[t]
        PROVE  u = t
    <2>1. PICK j \in 1..(Len(chain) - 1) : prev[u] = chain[j] /\ enq[u] = chain[j + 1]
      BY <1>i, <1>7 DEF ChainLinked
    <2>2. j \in 1..Len(chain)
      BY <1>2, <2>1
    <2>3. j = i
      BY <1>1, <1>2, <1>4, <1>7, <2>1, <2>2
    <2> QED BY <1>i, <1>1, <1>7, <2>1, <2>3 DEF Pushes, Working
  <1> QED BY <1>i, <1>3, <1>5, <1>6, <1>7 DEF Pushes

-----------------------------------------------------------------------------
(* Steps that leave the list, the nodes and the pushes alone.              *)

\* A step of the poller's own position keeps everything that is not about it.
LEMMA ControlKeeps ==
    ASSUME IInv, UNCHANGED <<listVars, nodeVars, enqVars, got>>,
           dropping' = dropping, until' \in Node \cup {Null}, room' \in 0..Cap,
           ppc' \in PollLabel, block' \in BOOLEAN, edge' \in BOOLEAN,
           pipe' \in 0..PipeCap,
           Turn', Sleeps'
    PROVE  IInv'
  <1>i. TypeOK /\ ChainLinked /\ MarkersPlaced /\ Pushes /\ Turn /\ Places
    BY DEF IInv
  <1>1. /\ UNCHANGED <<head, tail, next, chain, queued, dropped, released, pc, enq, prev, got>>
    BY DEF listVars, nodeVars, enqVars
  <1>2. TypeOK'
    BY <1>i, <1>1 DEF TypeOK
  <1>3. ChainLinked'
    BY <1>i, <1>1 DEF ChainLinked
  <1>4. MarkersPlaced'
    BY <1>i, <1>1 DEF MarkersPlaced
  <1>5. Pushes'
    BY <1>i, <1>1 DEF Pushes, InChain
  <1>6. Places'
    BY <1>i, <1>1 DEF Places, InChain, Carried, Carries
  <1> QED BY <1>2, <1>3, <1>4, <1>5, <1>6 DEF IInv

\* poll2 up to the return of epoll_wait.
LEMMA SelectKeeps ==
    ASSUME IInv,
           \/ \E zero \in BOOLEAN : BeginPoll(zero)
           \/ PrepareKeeps
           \/ Select
           \/ SelectInterrupted
           \/ SelectElapsed
           \/ Cleanup
           \/ EnterPoll
    PROVE  IInv'
  <1>i. TypeOK /\ ChainLinked /\ MarkersPlaced /\ Pushes /\ Turn /\ Places /\ Sleeps
    BY DEF IInv
  <1>c. /\ Len(chain) \in Nat /\ Len(chain) > 0
        /\ head = tail => Len(chain) = 1
    BY <1>i, ChainIs
  <1>1. CASE \E zero \in BOOLEAN : BeginPoll(zero)
    <2>1. /\ ppc = "idle" /\ ~dropping /\ ppc' \in {"select", "prepare"} /\ pc[Poller] = "idle"
          /\ UNCHANGED <<listVars, nodeVars, enqVars, got, until, room, block, dropping, pipe, edge>>
      BY <1>1 DEF BeginPoll, PollerAt, Goto, pipeVars
    <2>2. Turn'
      BY <1>i, <2>1 DEF Turn, listVars, nodeVars, enqVars
    <2>3. Sleeps'
      BY <1>i, <2>1 DEF Sleeps, listVars, nodeVars, enqVars
    <2> QED BY <1>i, <2>1, <2>2, <2>3, ControlKeeps DEF TypeOK, PollLabel
  <1>2. CASE PrepareKeeps
    <2>1. /\ ppc = "prepare" /\ ppc' = "select" /\ pc[Poller] = "idle"
          /\ block' = (tail = SleepMarker /\ head = SleepMarker)
          /\ UNCHANGED <<listVars, nodeVars, enqVars, got, until, room, dropping, pipe, edge>>
      BY <1>2 DEF PrepareKeeps, PollerAt, Goto, pipeVars
    <2>2. Turn'
      BY <1>i, <2>1 DEF Turn, listVars, nodeVars, enqVars
    <2>3. Sleeps'
      <3>1. UNCHANGED <<chain, tail>>
        BY <2>1 DEF listVars
      <3>2. block' => tail' = SleepMarker /\ ~(Len(chain') > 1)
        <4>1. block' => tail = SleepMarker /\ head = SleepMarker
          BY <2>1
        <4>2. head = tail => Len(chain) = 1
          BY <1>c
        <4>3. ~(1 > 1)
          OBVIOUS
        <4> QED BY <3>1, <4>1, <4>2, <4>3, Zenon
      <3>3. pipe' > 0 => edge' \/ ppc' = "cleanup"
        BY <1>i, <2>1 DEF Sleeps
      <3> QED BY <2>1, <3>2, <3>3 DEF Sleeps
    <2> QED BY <1>i, <2>1, <2>2, <2>3, ControlKeeps DEF TypeOK, PollLabel
  <1>3. CASE Select \/ SelectInterrupted \/ SelectElapsed
    <2>1. /\ ppc = "select" /\ ppc' \in {"cleanup", "poll", "idle"} /\ pc[Poller] = "idle"
          /\ block' = FALSE /\ room' \in 0..Cap
          /\ edge' = edge \/ (edge' = FALSE /\ ppc' = "cleanup")
          /\ UNCHANGED <<listVars, nodeVars, enqVars, got, until, dropping, pipe>>
      <3>1. CASE \E n \in 0..Cap : SelectNotify(n)
        BY <3>1, BoundsAssumption DEF SelectNotify, PollerAt, Goto, pipeVars
      <3>2. CASE \E n \in 0..Cap : SelectOther(n)
        BY <3>2, BoundsAssumption DEF SelectOther, PollerAt, Goto, pipeVars
      <3>3. CASE SelectInterrupted
        BY <3>3, <1>i DEF SelectInterrupted, PollerAt, Goto, pipeVars, TypeOK
      <3>4. CASE SelectElapsed
        BY <3>4, BoundsAssumption DEF SelectElapsed, PollerAt, Goto, pipeVars
      <3> QED BY <1>3, <3>1, <3>2, <3>3, <3>4 DEF Select
    <2>2. Turn'
      BY <1>i, <2>1 DEF Turn, listVars, nodeVars, enqVars
    <2>3. Sleeps'
      BY <1>i, <2>1 DEF Sleeps, listVars, nodeVars, enqVars
    <2>4. edge' \in BOOLEAN
      BY <1>i, <2>1 DEF TypeOK
    <2> QED BY <1>i, <2>1, <2>2, <2>3, <2>4, ControlKeeps DEF TypeOK, PollLabel
  <1>4. CASE Cleanup
    <2>1. /\ ppc = "cleanup" /\ pc[Poller] = "idle"
          /\ \/ ppc' = "cleanup" /\ pipe' \in 0..PipeCap
             \/ ppc' = "poll" /\ pipe' = 0
          /\ UNCHANGED <<listVars, nodeVars, enqVars, got, until, room, block, dropping, edge>>
      BY <1>i, <1>4, BoundsAssumption DEF Cleanup, PollerAt, Goto, TypeOK
    <2>2. Turn'
      BY <1>i, <2>1 DEF Turn, listVars, nodeVars, enqVars
    <2>3. Sleeps'
      BY <1>i, <2>1 DEF Sleeps, listVars, nodeVars, enqVars
    <2>4. pipe' \in 0..PipeCap
      BY <2>1, BoundsAssumption
    <2> QED BY <1>i, <2>1, <2>2, <2>3, <2>4, ControlKeeps DEF TypeOK, PollLabel
  <1>5. CASE EnterPoll
    <2>1. /\ ppc = "poll" /\ pc[Poller] = "idle"
          /\ ppc' = IF room = 0 THEN "clear" ELSE "dequeue"
          /\ until' = Null
          /\ UNCHANGED <<listVars, nodeVars, enqVars, got, room, block, dropping, pipe, edge>>
      BY <1>5 DEF EnterPoll, PollerAt, Goto, pipeVars
    <2>2. Turn'
      BY <1>i, <2>1 DEF Turn, listVars, nodeVars, enqVars, TypeOK
    <2>3. Sleeps'
      BY <1>i, <2>1 DEF Sleeps, listVars, nodeVars, enqVars
    <2> QED BY <1>i, <2>1, <2>2, <2>3, ControlKeeps DEF TypeOK, PollLabel
  <1> QED BY <1>1, <1>2, <1>3, <1>4, <1>5

\* The turns of dequeue_node and clear_sleep_marker that find nothing to do.
LEMMA LookKeeps ==
    ASSUME IInv,
           \/ DequeueMarkerOnly
           \/ DequeueUntil
           \/ DequeueNoNext
           \/ DequeueBusy
           \/ DequeueStillBusy
           \/ ClearNothing
    PROVE  IInv'
  <1>i. TypeOK /\ ChainLinked /\ MarkersPlaced /\ Pushes /\ Turn /\ Places /\ Sleeps
    BY DEF IInv
  <1>1. /\ ppc \in {"dequeue", "dequeueNode", "checkHead", "afterEnd", "clear"} /\ pc[Poller] = "idle"
        /\ \/ ppc' \in {"clear", "gone", "idle"}
           \/ ppc' = "checkHead" /\ AtNode
           \/ ppc' = "dequeue" /\ dropping
        /\ UNCHANGED <<listVars, nodeVars, enqVars, got, until, room, block, dropping, pipe, edge>>
    <2>1. CASE DequeueMarkerOnly
      BY <2>1 DEF DequeueMarkerOnly, PollerAt, Goto, pipeVars
    <2>2. CASE DequeueUntil
      BY <2>2 DEF DequeueUntil, AtNode, PollerAt, Goto, pipeVars, Empty
    <2>3. CASE DequeueNoNext
      BY <2>3 DEF DequeueNoNext, AtNode, PollerAt, Goto, pipeVars
    <2>4. CASE DequeueBusy
      BY <2>4 DEF DequeueBusy, Inconsistent, PollerAt, Goto, pipeVars
    <2>5. CASE DequeueStillBusy
      BY <2>5 DEF DequeueStillBusy, Inconsistent, PollerAt, Goto, pipeVars
    <2>6. CASE ClearNothing
      BY <2>6 DEF ClearNothing, Empty, PollerAt, Goto, pipeVars
    <2> QED BY <2>1, <2>2, <2>3, <2>4, <2>5, <2>6
  <1>2. AtNode => tail \in Node \cup {ClosedMarker} /\ (dropping \/ room > 0)
    BY <1>i DEF AtNode, PollerAt, Turn, TypeOK, Ptr
  <1>3. Turn'
    BY <1>i, <1>1, <1>2 DEF Turn, listVars, nodeVars, enqVars
  <1>4. Sleeps'
    BY <1>i, <1>1 DEF Sleeps, listVars, nodeVars, enqVars
  <1> QED BY <1>i, <1>1, <1>3, <1>4, ControlKeeps DEF TypeOK, PollLabel

-----------------------------------------------------------------------------
(* enqueue_node.                                                           *)

\* The store and the loads: a thread that moves on inside enqueue_node, with
\* the same pointer.
LEMMA StoreKeeps ==
    ASSUME IInv, NEW t \in Thread, EnqStore(t)
    PROVE  IInv'
  <1>i. TypeOK /\ ChainLinked /\ MarkersPlaced /\ Pushes /\ Turn /\ Places /\ Sleeps
    BY DEF IInv
  <1>1. /\ pc[t] = "store" /\ pc' = [pc EXCEPT ![t] = "load"]
        /\ next' = [next EXCEPT ![enq[t]] = Null]
        /\ UNCHANGED <<head, tail, chain, queued, dropped, released, enq, prev, ppc, got, until, room,
                       block, dropping, pipe, edge>>
    BY DEF EnqStore, nodeVars, pollVars, pipeVars
  <1>2. enq[t] \in Ptr /\ ~InChain(enq[t])
    BY <1>i, <1>1 DEF Pushes, Pushing, Ptr, Marker
  <1>3. /\ \A u \in Thread : pc'[u] = IF u = t THEN "load" ELSE pc[u]
        /\ \A p \in Ptr : next'[p] = IF p = enq[t] THEN Null ELSE next[p]
    BY <1>i, <1>1, <1>2 DEF TypeOK
  <1>4. TypeOK'
    BY <1>i, <1>1, <1>2 DEF TypeOK, EnqLabel
  <1>5. \A i \in 1..Len(chain) : chain[i] \in Ptr /\ next'[chain[i]] = next[chain[i]]
    BY <1>i, <1>2, <1>3, ChainIs DEF InChain
  <1>6. ChainLinked'
    <2>1. Len(chain') \in Nat /\ Len(chain') > 0 /\ tail' = chain'[1] /\ head' = chain'[Len(chain')]
      BY <1>i, <1>1, ChainIs DEF ChainLinked
    <2>2. \A i, j \in 1..Len(chain') : chain'[i] = chain'[j] => i = j
      BY <1>i, <1>1 DEF ChainLinked
    <2>3. next'[head'] = Null
      BY <1>i, <1>1, <1>3 DEF ChainLinked, TypeOK
    <2>4. ASSUME NEW i \in 1..(Len(chain') - 1)
          PROVE  \/ next'[chain'[i]] = chain'[i + 1]
                 \/ /\ next'[chain'[i]] = Null
                    /\ \E u \in Thread :
                         pc'[u] = "link" /\ prev'[u] = chain'[i] /\ enq'[u] = chain'[i + 1]
      <3>1. i \in 1..Len(chain) /\ i \in 1..(Len(chain) - 1)
        BY <1>1, <2>1
      <3>2. \/ next[chain[i]] = chain[i + 1]
            \/ /\ next[chain[i]] = Null
               /\ \E u \in Thread : pc[u] = "link" /\ prev[u] = chain[i] /\ enq[u] = chain[i + 1]
        BY <1>i, <3>1 DEF ChainLinked
      <3>3. next'[chain[i]] = next[chain[i]]
        BY <1>5, <3>1
      <3>4. \A u \in Thread : pc[u] = "link" => pc'[u] = "link"
        BY <1>1, <1>3
      <3> QED BY <1>1, <3>2, <3>3, <3>4
    <2>5. \A u \in Thread : pc'[u] = "link" =>
            \E i \in 1..(Len(chain') - 1) : prev'[u] = chain'[i] /\ enq'[u] = chain'[i + 1]
      BY <1>i, <1>1, <1>3 DEF ChainLinked
    <2> QED BY <2>1, <2>2, <2>3, <2>4, <2>5 DEF ChainLinked
  <1>7. MarkersPlaced'
    BY <1>i, <1>1 DEF MarkersPlaced
  <1>8. Pushes'
    <2>1. \A u \in Thread : pc[u] = "link" => prev[u] # enq[t] /\ prev[u] \in Ptr
      BY <1>i, <1>2, OwedLink DEF Pushes
    <2>2. \A u \in Thread : pc[u] # "idle" => enq[u] \in Ptr
      BY <1>i DEF Pushes, Ptr, Marker
    <2> QED BY <1>i, <1>1, <1>2, <1>3, <2>1, <2>2 DEF Pushes, InChain, Pushing, Working
  <1>9. Turn'
    BY <1>i, <1>1, <1>3 DEF Turn, Thread, Ptr, Marker
  <1>10. Places'
    BY <1>i, <1>1, <1>3 DEF Places, InChain, Carried, Carries
  <1>11. Sleeps'
    BY <1>i, <1>1, <1>3 DEF Sleeps, NotifyReady, OwesWakeup
  <1> QED BY <1>4, <1>6, <1>7, <1>8, <1>9, <1>10, <1>11 DEF IInv

\* The list is as sound as before when nobody swaps or links.
LEMMA ListStays ==
    ASSUME ChainLinked, UNCHANGED <<head, tail, next, chain>>,
           \A u \in Thread : pc'[u] = "link" <=> pc[u] = "link",
           \A u \in Thread : pc[u] = "link" => prev'[u] = prev[u] /\ enq'[u] = enq[u]
    PROVE  ChainLinked'
  <1>1. /\ Len(chain') > 0 /\ tail' = chain'[1] /\ head' = chain'[Len(chain')]
        /\ \A i, j \in 1..Len(chain') : chain'[i] = chain'[j] => i = j
        /\ next'[head'] = Null
    BY DEF ChainLinked
  <1>2. ASSUME NEW i \in 1..(Len(chain') - 1)
        PROVE  \/ next'[chain'[i]] = chain'[i + 1]
               \/ /\ next'[chain'[i]] = Null
                  /\ \E u \in Thread :
                       pc'[u] = "link" /\ prev'[u] = chain'[i] /\ enq'[u] = chain'[i + 1]
    BY DEF ChainLinked
  <1>3. \A u \in Thread : pc'[u] = "link" =>
          \E i \in 1..(Len(chain') - 1) : prev'[u] = chain'[i] /\ enq'[u] = chain'[i + 1]
    BY DEF ChainLinked
  <1> QED BY <1>1, <1>2, <1>3 DEF ChainLinked

\* A pusher looks at the head, once more when its swap has failed.
LEMMA LoadKeeps ==
    ASSUME IInv, NEW t \in Thread, EnqLoad(t) \/ EnqSwapFails(t)
    PROVE  IInv'
  <1>i. TypeOK /\ ChainLinked /\ MarkersPlaced /\ Pushes /\ Turn /\ Places /\ Sleeps
    BY DEF IInv
  <1>1. /\ pc[t] \in {"load", "cas"} /\ pc' = [pc EXCEPT ![t] = "cas"]
        /\ prev' = [prev EXCEPT ![t] = head]
        /\ UNCHANGED <<head, tail, next, chain, queued, dropped, released, enq, ppc, got, until, room,
                       block, dropping, pipe, edge>>
    BY <1>i DEF EnqLoad, EnqSwapFails, nodeVars, pollVars, pipeVars, listVars, TypeOK
  <1>2. /\ \A u \in Thread : pc'[u] = IF u = t THEN "cas" ELSE pc[u]
        /\ \A u \in Thread : prev'[u] = IF u = t THEN head ELSE prev[u]
    BY <1>i, <1>1 DEF TypeOK
  <1>3. TypeOK'
    BY <1>i, <1>1 DEF TypeOK, EnqLabel
  <1>4. ChainLinked'
    BY <1>i, <1>1, <1>2, ListStays
  <1>5. MarkersPlaced'
    BY <1>i, <1>1 DEF MarkersPlaced
  <1>6. Pushes'
    BY <1>i, <1>1, <1>2 DEF Pushes, InChain, Pushing, Working, TypeOK
  <1>7. Turn'
    BY <1>i, <1>1, <1>2 DEF Turn, Thread
  <1>8. Places'
    BY <1>i, <1>1, <1>2 DEF Places, InChain, Carried, Carries
  <1>9. Sleeps'
    BY <1>i, <1>1, <1>2 DEF Sleeps, NotifyReady, OwesWakeup
  <1> QED BY <1>3, <1>4, <1>5, <1>6, <1>7, <1>8, <1>9 DEF IInv

\* The queue is closed: what comes too late is given back, once.
LEMMA ClosedKeeps ==
    ASSUME IInv, NEW t \in Thread, EnqClosed(t)
    PROVE  IInv'
  <1>i. TypeOK /\ ChainLinked /\ MarkersPlaced /\ Pushes /\ Turn /\ Places /\ Sleeps
    BY DEF IInv
  <1>1. /\ pc[t] = "cas" /\ prev[t] = ClosedMarker /\ pc' = [pc EXCEPT ![t] = "idle"]
        /\ enq' = [enq EXCEPT ![t] = Null] /\ prev' = [prev EXCEPT ![t] = Null]
        /\ released' = IF enq[t] = EndMarker THEN released
                       ELSE [released EXCEPT ![enq[t]] = @ + 1]
        /\ UNCHANGED <<head, tail, next, chain, queued, dropped, ppc, got, until, room,
                       block, dropping, pipe, edge>>
    BY DEF EnqClosed, Return, Release, pollVars, pipeVars, listVars
  <1>2. /\ \A u \in Thread : pc'[u] = IF u = t THEN "idle" ELSE pc[u]
        /\ \A u \in Thread : prev'[u] = IF u = t THEN Null ELSE prev[u]
        /\ \A u \in Thread : enq'[u] = IF u = t THEN Null ELSE enq[u]
    BY <1>i, <1>1 DEF TypeOK
  <1>3. enq[t] \in Node \/ enq[t] = EndMarker
    <2>1. InChain(ClosedMarker)
      BY <1>i, <1>1, ChainIs DEF Pushes
    <2>2. enq[t] # ClosedMarker
      BY <1>i, <1>1, <2>1 DEF Pushes, Pushing
    <2> QED BY <1>i, <1>1, <2>2 DEF Pushes
  <1>4. EndMarker \notin Node
    BY MarkersDistinct DEF Marker
  <1>5. \A n \in Node : released'[n] = IF n = enq[t] THEN 1 ELSE released[n]
    <2>1. \A n \in Node : n = enq[t] => released[n] = 0
      BY <1>i, <1>1 DEF Places, Carried, Carries
    <2>2. CASE enq[t] = EndMarker
      BY <1>1, <1>4, <2>2
    <2>3. CASE enq[t] \in Node
      BY <1>i, <1>1, <1>4, <2>1, <2>3 DEF TypeOK
    <2> QED BY <1>3, <2>2, <2>3
  <1>6. TypeOK'
    <2>1. released' \in [Node -> Nat]
      BY <1>i, <1>1, <1>3 DEF TypeOK
    <2> QED BY <1>i, <1>1, <2>1 DEF TypeOK, EnqLabel
  <1>7. ChainLinked'
    BY <1>i, <1>1, <1>2, ListStays
  <1>8. MarkersPlaced'
    BY <1>i, <1>1 DEF MarkersPlaced
  <1>9. Pushes'
    BY <1>i, <1>1, <1>2 DEF Pushes, InChain, Pushing, Working
  <1>10. Turn'
    BY <1>i, <1>1, <1>2 DEF Turn, Thread
  <1>11. Places'
    <2>1. \A n \in Node : Carried(n)' <=> Carried(n) /\ n # enq[t]
      BY <1>i, <1>1, <1>2 DEF Carried, Carries, Pushes, Working
    <2>2. \A n \in Node : n = enq[t] => Carried(n) /\ ~InChain(n) /\ got # n
      BY <1>i, <1>1 DEF Carried, Carries, Pushes, Pushing, Places
    <2>3. \A n \in Node : InChain(n)' <=> InChain(n)
      BY <1>1 DEF InChain
    <2> QED BY <1>i, <1>1, <1>5, <2>1, <2>2, <2>3 DEF Places
  <1>12. Sleeps'
    BY <1>i, <1>1, <1>2 DEF Sleeps, NotifyReady, OwesWakeup
  <1> QED BY <1>6, <1>7, <1>8, <1>9, <1>10, <1>11, <1>12 DEF IInv

\* Awakener::wakeup.
LEMMA WakeKeeps ==
    ASSUME IInv, NEW t \in Thread, Wake(t)
    PROVE  IInv'
  <1>i. TypeOK /\ ChainLinked /\ MarkersPlaced /\ Pushes /\ Turn /\ Places /\ Sleeps
    BY DEF IInv
  <1>1. /\ pc[t] = "wake" /\ pc' = [pc EXCEPT ![t] = "idle"]
        /\ enq' = [enq EXCEPT ![t] = Null] /\ prev' = [prev EXCEPT ![t] = Null]
        /\ \/ pipe < PipeCap /\ pipe' = pipe + 1 /\ edge' = TRUE
           \/ ~(pipe < PipeCap) /\ pipe' = pipe /\ edge' = edge
        /\ UNCHANGED <<head, tail, next, chain, queued, dropped, released, ppc, got, until, room,
                       block, dropping>>
    BY DEF Wake, Return, nodeVars, pollVars, pipeVars, listVars
  <1>2. /\ \A u \in Thread : pc'[u] = IF u = t THEN "idle" ELSE pc[u]
        /\ \A u \in Thread : prev'[u] = IF u = t THEN Null ELSE prev[u]
        /\ \A u \in Thread : enq'[u] = IF u = t THEN Null ELSE enq[u]
    BY <1>i, <1>1 DEF TypeOK
  <1>3. TypeOK'
    <2>1. pipe' \in 0..PipeCap
      BY <1>i, <1>1, BoundsAssumption DEF TypeOK
    <2>2. edge' \in BOOLEAN
      BY <1>i, <1>1 DEF TypeOK
    <2> QED BY <1>i, <1>1, <2>1, <2>2 DEF TypeOK, EnqLabel
  <1>4. ChainLinked'
    BY <1>i, <1>1, <1>2, ListStays
  <1>5. MarkersPlaced'
    BY <1>i, <1>1 DEF MarkersPlaced
  <1>6. Pushes'
    BY <1>i, <1>1, <1>2 DEF Pushes, InChain, Pushing, Working
  <1>7. Turn'
    BY <1>i, <1>1, <1>2 DEF Turn, Thread
  <1>8. Places'
    <2>1. \A n \in Node : Carried(n)' <=> Carried(n)
      BY <1>i, <1>1, <1>2 DEF Carried, Carries
    <2> QED BY <1>i, <1>1, <2>1 DEF Places, InChain
  <1>9. Sleeps'
    <2>1. pipe' > 0 /\ (edge' \/ ppc' = "cleanup")
      BY <1>i, <1>1, BoundsAssumption DEF Sleeps, TypeOK
    <2> QED BY <1>i, <1>1, <2>1 DEF Sleeps, NotifyReady
  <1> QED BY <1>3, <1>4, <1>5, <1>6, <1>7, <1>8, <1>9 DEF IInv

-----------------------------------------------------------------------------
(* The calls of enqueue_node.                                              *)

\* Whoever calls enqueue_node with a pointer that is nowhere.
LEMMA CallKeeps ==
    ASSUME IInv, NEW t \in Thread, NEW p, pc[t] = "idle", Call(t, p),
           UNCHANGED <<head, tail, next, chain>>, dropping => dropping',
           p \in Node \cup {EndMarker, ClosedMarker}, t # Poller => p \in Node,
           ~InChain(p), \A u \in Thread : pc[u] \in Pushing => enq[u] # p
    PROVE  /\ ChainLinked' /\ MarkersPlaced' /\ Pushes'
           /\ pc' \in [Thread -> EnqLabel]
           /\ enq' \in [Thread -> Ptr \cup {Null}] /\ prev' \in [Thread -> Ptr \cup {Null}]
           /\ pc'[t] = "store" /\ enq'[t] = p
           /\ \A u \in Thread : u # t => pc'[u] = pc[u] /\ enq'[u] = enq[u] /\ prev'[u] = prev[u]
           /\ \A n \in Node : Carried(n)' <=> Carried(n) \/ n = p
           /\ \A n \in Node : InChain(n)' <=> InChain(n)
           /\ (\E u \in Thread : OwesWakeup(u)) => \E u \in Thread : OwesWakeup(u)'
  <1>i. TypeOK /\ ChainLinked /\ MarkersPlaced /\ Pushes
    BY DEF IInv
  <1>1. /\ pc' = [pc EXCEPT ![t] = "store"] /\ enq' = [enq EXCEPT ![t] = p]
        /\ prev' = [prev EXCEPT ![t] = Null]
    BY DEF Call
  <1>2. /\ \A u \in Thread : pc'[u] = IF u = t THEN "store" ELSE pc[u]
        /\ \A u \in Thread : prev'[u] = IF u = t THEN Null ELSE prev[u]
        /\ \A u \in Thread : enq'[u] = IF u = t THEN p ELSE enq[u]
    BY <1>i, <1>1 DEF TypeOK
  <1>3. /\ pc' \in [Thread -> EnqLabel]
        /\ enq' \in [Thread -> Ptr \cup {Null}] /\ prev' \in [Thread -> Ptr \cup {Null}]
    BY <1>i, <1>1 DEF TypeOK, EnqLabel, Ptr, Marker
  <1>4. ChainLinked'
    BY <1>i, <1>1, <1>2, ListStays
  <1>5. MarkersPlaced'
    BY <1>i DEF MarkersPlaced
  <1>6. Pushes'
    <2>1. \A u \in Thread : pc[u] \in Working => enq[u] # p
      BY OwedLink DEF Working, Pushing
    <2> QED BY <1>i, <1>2, <2>1 DEF Pushes, InChain, Pushing, Working
  <1>7. \A n \in Node : Carried(n)' <=> Carried(n) \/ n = p
    BY <1>2 DEF Carried, Carries
  <1>8. \A n \in Node : InChain(n)' <=> InChain(n)
    BY DEF InChain
  <1>9. (\E u \in Thread : OwesWakeup(u)) => \E u \in Thread : OwesWakeup(u)'
    BY <1>2 DEF OwesWakeup
  <1> QED BY <1>2, <1>3, <1>4, <1>5, <1>6, <1>7, <1>8, <1>9

\* set_readiness, update and the drop of a Registration.
LEMMA BeginKeeps ==
    ASSUME IInv, NEW t \in Producer, NEW n \in Node, BeginEnqueue(t, n) \/ BeginDrop(t, n)
    PROVE  IInv'
  <1>i. TypeOK /\ ChainLinked /\ MarkersPlaced /\ Pushes /\ Turn /\ Places /\ Sleeps
    BY DEF IInv
  <1>1. /\ pc[t] = "idle" /\ queued' = queued \cup {n} /\ dropped' \in {dropped, dropped \cup {n}}
        /\ \/ n \in queued /\ UNCHANGED <<pc, enq, prev>>
           \/ n \notin queued /\ Call(t, n)
        /\ UNCHANGED <<head, tail, next, chain, released, ppc, got, until, room,
                       block, dropping, pipe, edge>>
    BY DEF BeginEnqueue, BeginDrop, pollVars, pipeVars, listVars, enqVars
  <1>2. t \in Thread /\ t # Poller /\ Poller \in Thread
    BY PollerIsNoProducer DEF Thread
  <1>3. CASE n \in queued /\ UNCHANGED <<pc, enq, prev>>
    <2>1. TypeOK'
      BY <1>i, <1>1, <1>3 DEF TypeOK
    <2>2. ChainLinked'
      BY <1>i, <1>1, <1>3, ListStays
    <2>3. MarkersPlaced' /\ Pushes'
      BY <1>i, <1>1, <1>3 DEF MarkersPlaced, Pushes, InChain
    <2>4. Turn' /\ Sleeps'
      BY <1>i, <1>1, <1>3 DEF Turn, Sleeps, NotifyReady, OwesWakeup
    <2>5. queued' = queued
      BY <1>1, <1>3
    <2>6. Places'
      BY <1>i, <1>1, <1>3, <2>5 DEF Places, InChain, Carried, Carries
    <2> QED BY <2>1, <2>2, <2>3, <2>4, <2>6 DEF IInv
  <1>4. CASE n \notin queued /\ Call(t, n)
    <2>1. ~Carried(n) /\ ~InChain(n) /\ got # n /\ released[n] # 1
      BY <1>i, <1>4 DEF Places
    <2>2. \A u \in Thread : pc[u] \in Pushing => enq[u] # n
      BY <2>1 DEF Carried, Carries, Pushing
    <2>3. /\ ChainLinked' /\ MarkersPlaced' /\ Pushes'
          /\ pc' \in [Thread -> EnqLabel]
          /\ enq' \in [Thread -> Ptr \cup {Null}] /\ prev' \in [Thread -> Ptr \cup {Null}]
          /\ \A u \in Thread : u # t => pc'[u] = pc[u] /\ enq'[u] = enq[u] /\ prev'[u] = prev[u]
          /\ \A m \in Node : Carried(m)' <=> Carried(m) \/ m = n
          /\ \A m \in Node : InChain(m)' <=> InChain(m)
          /\ (\E u \in Thread : OwesWakeup(u)) => \E u \in Thread : OwesWakeup(u)'
      BY <1>1, <1>2, <1>4, <2>1, <2>2, CallKeeps
    <2>4. TypeOK'
      BY <1>i, <1>1, <2>3 DEF TypeOK
    <2>5. Turn'
      BY <1>i, <1>1, <1>2, <2>3 DEF Turn
    <2>6. Places'
      BY <1>i, <1>1, <2>1, <2>3 DEF Places
    <2>7. Sleeps'
      BY <1>i, <1>1, <2>3 DEF Sleeps, NotifyReady
    <2> QED BY <2>3, <2>4, <2>5, <2>6, <2>7 DEF IInv
  <1> QED BY <1>1, <1>3, <1>4

\* The last node of the list: the end marker goes behind it.
LEMMA LastKeeps ==
    ASSUME IInv, DequeueLast
    PROVE  IInv'
  <1>i. TypeOK /\ ChainLinked /\ MarkersPlaced /\ Pushes /\ Turn /\ Places /\ Sleeps
    BY DEF IInv
  <1>1. /\ ppc = "checkHead" /\ pc[Poller] = "idle" /\ head = tail /\ ppc' = "afterEnd"
        /\ Call(Poller, EndMarker)
        /\ UNCHANGED <<head, tail, next, chain, queued, dropped, released, got, until, room,
                       block, dropping, pipe, edge>>
    BY DEF DequeueLast, PollerAt, Goto, nodeVars, pipeVars, listVars
  <1>2. Poller \in Thread /\ EndMarker \notin Node /\ EndMarker # ClosedMarker
    BY MarkersDistinct DEF Thread, Marker
  <1>3. ~InChain(EndMarker)
    <2>1. Len(chain) = 1 /\ tail = chain[1] /\ tail \in Node \cup {ClosedMarker}
      BY <1>i, <1>1, ChainIs DEF Turn, ChainLinked
    <2> QED BY <1>2, <2>1 DEF InChain
  <1>4. \A u \in Thread : pc[u] \in Pushing => enq[u] # EndMarker
    BY <1>i, <1>1, <1>2 DEF Pushes, Pushing
  <1>5. /\ ChainLinked' /\ MarkersPlaced' /\ Pushes'
        /\ pc' \in [Thread -> EnqLabel]
        /\ enq' \in [Thread -> Ptr \cup {Null}] /\ prev' \in [Thread -> Ptr \cup {Null}]
        /\ pc'[Poller] = "store" /\ enq'[Poller] = EndMarker
        /\ \A m \in Node : Carried(m)' <=> Carried(m) \/ m = EndMarker
        /\ \A m \in Node : InChain(m)' <=> InChain(m)
        /\ (\E u \in Thread : OwesWakeup(u)) => \E u \in Thread : OwesWakeup(u)'
    BY <1>1, <1>2, <1>3, <1>4, CallKeeps
  <1>6. TypeOK'
    BY <1>i, <1>1, <1>5 DEF TypeOK, PollLabel
  <1>7. Turn'
    BY <1>i, <1>1, <1>5 DEF Turn
  <1>8. Places'
    BY <1>i, <1>1, <1>2, <1>5 DEF Places
  <1>9. Sleeps'
    BY <1>i, <1>1, <1>5 DEF Sleeps, NotifyReady
  <1> QED BY <1>5, <1>6, <1>7, <1>8, <1>9 DEF IInv

\* The drop of the queue begins.
LEMMA BeginCloseKeeps ==
    ASSUME IInv, BeginClose
    PROVE  IInv'
  <1>i. TypeOK /\ ChainLinked /\ MarkersPlaced /\ Pushes /\ Turn /\ Places /\ Sleeps
    BY DEF IInv
  <1>1. /\ ppc = "idle" /\ pc[Poller] = "idle" /\ ~dropping /\ ppc' = "dequeue"
        /\ dropping' = TRUE /\ until' = Null
        /\ Call(Poller, ClosedMarker)
        /\ UNCHANGED <<head, tail, next, chain, queued, dropped, released, got, room,
                       block, pipe, edge>>
    BY DEF BeginClose, PollerAt, Goto, nodeVars, pipeVars, listVars
  <1>2. Poller \in Thread /\ ClosedMarker \notin Node /\ EndMarker # ClosedMarker
    BY MarkersDistinct DEF Thread, Marker
  <1>3. ~InChain(ClosedMarker)
    BY <1>i, <1>1 DEF InChain, MarkersPlaced
  <1>4. \A u \in Thread : pc[u] \in Pushing => enq[u] # ClosedMarker
    BY <1>i, <1>1, <1>2 DEF Pushes, Pushing
  <1>5. /\ ChainLinked' /\ MarkersPlaced' /\ Pushes'
        /\ pc' \in [Thread -> EnqLabel]
        /\ enq' \in [Thread -> Ptr \cup {Null}] /\ prev' \in [Thread -> Ptr \cup {Null}]
        /\ pc'[Poller] = "store" /\ enq'[Poller] = ClosedMarker
        /\ \A m \in Node : Carried(m)' <=> Carried(m) \/ m = ClosedMarker
        /\ \A m \in Node : InChain(m)' <=> InChain(m)
        /\ (\E u \in Thread : OwesWakeup(u)) => \E u \in Thread : OwesWakeup(u)'
    BY <1>1, <1>2, <1>3, <1>4, CallKeeps
  <1>6. TypeOK'
    BY <1>i, <1>1, <1>5 DEF TypeOK, PollLabel
  <1>7. Turn'
    BY <1>i, <1>1, <1>5 DEF Turn
  <1>8. Places'
    BY <1>i, <1>1, <1>2, <1>5 DEF Places
  <1>9. Sleeps'
    BY <1>i, <1>1, <1>5 DEF Sleeps, NotifyReady
  <1> QED BY <1>5, <1>6, <1>7, <1>8, <1>9 DEF IInv

\* A level-triggered node goes to the back.
LEMMA RequeueKeeps ==
    ASSUME IInv, NodeRequeued
    PROVE  IInv'
  <1>i. TypeOK /\ ChainLinked /\ MarkersPlaced /\ Pushes /\ Turn /\ Places /\ Sleeps
    BY DEF IInv
  <1>1. /\ ppc = "node" /\ pc[Poller] = "idle" /\ ~dropping
        /\ ppc' = IF room - 1 > 0 THEN "dequeue" ELSE "idle"
        /\ until' \in {got, until} /\ room' = room - 1 /\ got' = Null
        /\ Call(Poller, got)
        /\ UNCHANGED <<head, tail, next, chain, queued, dropped, released,
                       block, dropping, pipe, edge>>
    BY DEF NodeRequeued, PollerAt, AfterNode, Goto, nodeVars, pipeVars, listVars
  <1>2. Poller \in Thread /\ got \in Node /\ Null \notin Node /\ room - 1 \in 0..Cap
    BY <1>i, <1>1, MarkersDistinct, BoundsAssumption DEF Thread, Ptr, Turn, TypeOK
  <1>3. ~InChain(got) /\ ~Carried(got) /\ got \in queued
    BY <1>i, <1>2 DEF Places
  <1>4. \A u \in Thread : pc[u] \in Pushing => enq[u] # got
    BY <1>3 DEF Carried, Carries, Pushing
  <1>5. /\ ChainLinked' /\ MarkersPlaced' /\ Pushes'
        /\ pc' \in [Thread -> EnqLabel]
        /\ enq' \in [Thread -> Ptr \cup {Null}] /\ prev' \in [Thread -> Ptr \cup {Null}]
        /\ pc'[Poller] = "store" /\ enq'[Poller] = got
        /\ \A m \in Node : Carried(m)' <=> Carried(m) \/ m = got
        /\ \A m \in Node : InChain(m)' <=> InChain(m)
        /\ (\E u \in Thread : OwesWakeup(u)) => \E u \in Thread : OwesWakeup(u)'
    BY <1>1, <1>2, <1>3, <1>4, CallKeeps
  <1>6. TypeOK'
    BY <1>i, <1>1, <1>2, <1>5 DEF TypeOK, PollLabel
  <1>7. Turn'
    BY <1>i, <1>1, <1>2, <1>5 DEF Turn
  <1>8. Places'
    BY <1>i, <1>1, <1>2, <1>3, <1>5 DEF Places
  <1>9. Sleeps'
    BY <1>i, <1>1, <1>5 DEF Sleeps, NotifyReady
  <1> QED BY <1>5, <1>6, <1>7, <1>8, <1>9 DEF IInv

-----------------------------------------------------------------------------
(* What the poller does with the node it took.                             *)

\* The node that was taken is given back, or is free to be pushed again.
LEMMA NodeKeeps ==
    ASSUME IInv,
           \/ NodeDropped
           \/ NodeClosed
           \/ \E ev \in 0..1 : NodeDequeued(ev)
    PROVE  IInv'
  <1>i. TypeOK /\ ChainLinked /\ MarkersPlaced /\ Pushes /\ Turn /\ Places /\ Sleeps
    BY DEF IInv
  <1>1. /\ ppc = "node" /\ pc[Poller] = "idle" /\ got' = Null
        /\ ppc' \in {"dequeue", "idle"} /\ room' \in {room, room - 1}
        /\ ppc' = "dequeue" => dropping \/ room' > 0
        /\ room' = room \/ ~dropping
        /\ \/ queued' = queued /\ released' = [released EXCEPT ![got] = @ + 1]
           \/ queued' = queued \ {got} /\ released' = released
        /\ UNCHANGED <<head, tail, next, chain, dropped, pc, enq, prev, until,
                       block, dropping, pipe, edge>>
    <2>1. CASE NodeDropped \/ NodeClosed
      BY <2>1 DEF NodeDropped, NodeClosed, PollerAt, AfterNode, Goto, Release, enqVars, pipeVars, listVars
    <2>2. CASE \E ev \in 0..1 : NodeDequeued(ev)
      <3>1. PICK ev \in 0..1 : NodeDequeued(ev)
        BY <2>2
      <3>2. room \in Nat /\ (ev = 0 \/ ev = 1)
        BY <1>i, BoundsAssumption DEF TypeOK
      <3> QED
        BY <3>1, <3>2 DEF NodeDequeued, PollerAt, AfterNode, Goto, nodeVars, enqVars, pipeVars, listVars
    <2> QED BY <2>1, <2>2
  <1>2. Poller \in Thread /\ got \in Node /\ Null \notin Node /\ room \in 0..Cap
    BY <1>i, <1>1, MarkersDistinct DEF Thread, Ptr, Turn, TypeOK
  <1>3. ~InChain(got) /\ ~Carried(got) /\ got \in queued /\ released[got] = 0
    BY <1>i, <1>2 DEF Places
  <1>4. \/ /\ queued' = queued
           /\ \A n \in Node : released'[n] = IF n = got THEN 1 ELSE released[n]
        \/ queued' = queued \ {got} /\ \A n \in Node : released'[n] = released[n]
    BY <1>i, <1>1, <1>2, <1>3 DEF TypeOK
  <1>5. TypeOK'
    <2>1. room' \in 0..Cap
      BY <1>i, <1>1, <1>2, BoundsAssumption DEF Turn
    <2>2. released' \in [Node -> Nat]
      <3>1. released \in [Node -> Nat]
        BY <1>i DEF TypeOK
      <3>2. released' = released \/ released' = [released EXCEPT ![got] = @ + 1]
        BY <1>1
      <3> QED BY <1>2, <3>1, <3>2
    <2>3. queued' \in SUBSET Node
      BY <1>i, <1>1 DEF TypeOK
    <2> QED BY <1>i, <1>1, <2>1, <2>2, <2>3 DEF TypeOK, PollLabel
  <1>6. ChainLinked'
    BY <1>i, <1>1, ListStays
  <1>7. MarkersPlaced' /\ Pushes'
    BY <1>i, <1>1 DEF MarkersPlaced, Pushes, InChain
  <1>8. Turn'
    BY <1>i, <1>1 DEF Turn
  <1>9. Places'
    <2>1. \A n \in Node : (Carried(n)' <=> Carried(n)) /\ (InChain(n)' <=> InChain(n))
      BY <1>1 DEF Carried, Carries, InChain
    <2> QED BY <1>i, <1>1, <1>2, <1>3, <1>4, <2>1 DEF Places
  <1>10. Sleeps'
    BY <1>i, <1>1 DEF Sleeps, NotifyReady, OwesWakeup
  <1> QED BY <1>5, <1>6, <1>7, <1>8, <1>9, <1>10 DEF IInv

-----------------------------------------------------------------------------
(* The markers change places.                                              *)

\* The store before the swap: the marker it writes is not in the list.
LEMMA MarkerStoreKeeps ==
    ASSUME IInv, PrepareStore \/ ClearStore
    PROVE  IInv'
  <1>i. TypeOK /\ ChainLinked /\ MarkersPlaced /\ Pushes /\ Turn /\ Places /\ Sleeps
    BY DEF IInv
  <1>1. PICK p \in {EndMarker, SleepMarker} :
        /\ next' = [next EXCEPT ![p] = Null] /\ pc[Poller] = "idle"
        /\ ppc \in {"prepare", "clear"}
        /\ \/ p = SleepMarker /\ tail = EndMarker /\ ppc' = "prepareSwap"
           \/ p = EndMarker /\ tail = SleepMarker /\ ppc' = "clearSwap"
        /\ UNCHANGED <<head, tail, chain, queued, dropped, released, pc, enq, prev, got, until, room,
                       block, dropping, pipe, edge>>
    <2>1. CASE PrepareStore
      BY <2>1 DEF PrepareStore, PollerAt, Goto, nodeVars, enqVars, pipeVars
    <2>2. CASE ClearStore
      BY <2>2 DEF ClearStore, PollerAt, Goto, nodeVars, enqVars, pipeVars
    <2> QED BY <2>1, <2>2
  <1>2. /\ p \in Ptr /\ EndMarker \in Ptr /\ SleepMarker \in Ptr
        /\ p \notin Node /\ p # ClosedMarker /\ SleepMarker # EndMarker
        /\ Poller \in Thread
    BY MarkersDistinct DEF Ptr, Marker, Thread
  <1>3. ~InChain(p)
    <2>1. Len(chain) \in Nat /\ 1 \in 1..Len(chain) /\ tail = chain[1]
      BY <1>i, ChainIs DEF ChainLinked
    <2> QED BY <1>i, <1>1, <1>2, <2>1 DEF InChain, MarkersPlaced
  <1>4. \A r \in Ptr : next'[r] = IF r = p THEN Null ELSE next[r]
    BY <1>i, <1>1, <1>2 DEF TypeOK
  <1>5. TypeOK'
    BY <1>i, <1>1, <1>2 DEF TypeOK, PollLabel
  <1>6. \A i \in 1..Len(chain) : chain[i] \in Ptr /\ next'[chain[i]] = next[chain[i]]
    BY <1>i, <1>3, <1>4, ChainIs DEF InChain
  <1>7. ChainLinked'
    <2>1. Len(chain') \in Nat /\ Len(chain') > 0 /\ tail' = chain'[1] /\ head' = chain'[Len(chain')]
      BY <1>i, <1>1, ChainIs DEF ChainLinked
    <2>2. \A i, j \in 1..Len(chain') : chain'[i] = chain'[j] => i = j
      BY <1>i, <1>1 DEF ChainLinked
    <2>3. next'[head'] = Null
      BY <1>i, <1>1, <1>4 DEF ChainLinked, TypeOK
    <2>4. ASSUME NEW i \in 1..(Len(chain') - 1)
          PROVE  \/ next'[chain'[i]] = chain'[i + 1]
                 \/ /\ next'[chain'[i]] = Null
                    /\ \E u \in Thread :
                         pc'[u] = "link" /\ prev'[u] = chain'[i] /\ enq'[u] = chain'[i + 1]
      <3>1. i \in 1..Len(chain) /\ i \in 1..(Len(chain) - 1)
        BY <1>1, <2>1
      <3>2. \/ next[chain[i]] = chain[i + 1]
            \/ /\ next[chain[i]] = Null
               /\ \E u \in Thread : pc[u] = "link" /\ prev[u] = chain[i] /\ enq[u] = chain[i + 1]
        BY <1>i, <3>1 DEF ChainLinked
      <3>3. next'[chain[i]] = next[chain[i]]
        BY <1>6, <3>1
      <3> QED BY <1>1, <3>2, <3>3
    <2>5. \A u \in Thread : pc'[u] = "link" =>
            \E i \in 1..(Len(chain') - 1) : prev'[u] = chain'[i] /\ enq'[u] = chain'[i + 1]
      BY <1>i, <1>1 DEF ChainLinked
    <2> QED BY <2>1, <2>2, <2>3, <2>4, <2>5 DEF ChainLinked
  <1>8. MarkersPlaced'
    BY <1>i, <1>1 DEF MarkersPlaced
  <1>9. Pushes'
    <2>1. \A u \in Thread : pc[u] = "link" => prev[u] # p /\ prev[u] \in Ptr
      BY <1>i, <1>3, OwedLink DEF Pushes
    <2>2. \A u \in Thread : pc[u] # "idle" => enq[u] \in Ptr
      BY <1>i DEF Pushes, Ptr, Marker
    <2> QED BY <1>i, <1>1, <1>4, <2>1, <2>2 DEF Pushes, InChain
  <1>10. Turn'
    BY <1>i, <1>1, <1>2, <1>4 DEF Turn
  <1>11. Places'
    BY <1>i, <1>1 DEF Places, InChain, Carried, Carries
  <1>12. Sleeps'
    BY <1>i, <1>1 DEF Sleeps, NotifyReady, OwesWakeup
  <1> QED BY <1>5, <1>7, <1>8, <1>9, <1>10, <1>11, <1>12 DEF IInv

\* prepare_for_sleep and clear_sleep_marker, when their swap succeeds: one
\* marker alone becomes the other.
LEMMA SwapMarkerKeeps ==
    ASSUME IInv, PrepareSwap \/ ClearSwap
    PROVE  IInv'
  <1>i. TypeOK /\ ChainLinked /\ MarkersPlaced /\ Pushes /\ Turn /\ Places /\ Sleeps
    BY DEF IInv
  <1>1. PICK from, to \in {EndMarker, SleepMarker} :
        /\ tail = from /\ next[to] = Null /\ from # to /\ pc[Poller] = "idle"
        /\ SwapMarker(from, to)
        /\ \/ ppc = "prepareSwap" /\ to = SleepMarker /\ ppc' = "select" /\ block' = (head = from)
           \/ ppc = "clearSwap" /\ to = EndMarker /\ ppc' \in {"gone", "idle"} /\ block' = block
        /\ UNCHANGED <<next, queued, dropped, released, pc, enq, prev, got, until, room,
                       dropping, pipe, edge>>
    <2>1. CASE PrepareSwap
      BY <1>i, <2>1, MarkersDistinct
         DEF PrepareSwap, PollerAt, Goto, nodeVars, enqVars, pipeVars, Turn
    <2>2. CASE ClearSwap
      BY <1>i, <2>2, MarkersDistinct
         DEF ClearSwap, PollerAt, Goto, Empty, nodeVars, enqVars, pipeVars, Turn
    <2> QED BY <2>1, <2>2
  <1>2. /\ from \in Ptr /\ to \in Ptr /\ to \notin Node /\ from \notin Node
        /\ to # ClosedMarker /\ from # ClosedMarker
        /\ EndMarker # SleepMarker /\ Poller \in Thread
    BY MarkersDistinct DEF Ptr, Marker, Thread
  <1>3. CASE head # from
    <2>1. UNCHANGED <<head, tail, chain>>
      BY <1>1, <1>3 DEF SwapMarker
    <2>2. /\ ppc' \in {"select", "gone", "idle"} /\ block' = FALSE
      BY <1>i, <1>1, <1>3 DEF Sleeps, TypeOK
    <2>3. Turn'
      BY <1>i, <1>1, <2>1, <2>2 DEF Turn
    <2>4. Sleeps'
      BY <1>i, <1>1, <2>1, <2>2 DEF Sleeps, NotifyReady, OwesWakeup
    <2>5. UNCHANGED <<listVars, nodeVars, enqVars, got>>
      BY <1>1, <2>1 DEF listVars, nodeVars, enqVars
    <2> QED BY <1>i, <1>1, <2>2, <2>3, <2>4, <2>5, ControlKeeps DEF TypeOK, PollLabel
  <1>4. CASE head = from
    <2>1. /\ Len(chain) = 1 /\ chain[1] = from
      BY <1>i, <1>1, <1>4, ChainIs DEF ChainLinked
    <2>2. /\ head' = to /\ tail' = to /\ chain' = [chain EXCEPT ![Len(chain)] = to]
      BY <1>1, <1>4 DEF SwapMarker
    <2>3. chain' \in Seq(Ptr) /\ Len(chain') = 1 /\ chain'[1] = to
      <3>1. chain \in Seq(Ptr)
        BY <1>i DEF TypeOK
      <3> QED BY <1>2, <2>1, <2>2, <3>1
    <2>4. 1..Len(chain') = {1} /\ 1..Len(chain) = {1} /\ 1..(Len(chain') - 1) = {}
      BY <2>1, <2>3
    <2>5. \A p : (InChain(p)' <=> p = to) /\ (InChain(p) <=> p = from)
      BY <2>1, <2>3, <2>4 DEF InChain
    <2>6. \A u \in Thread : pc[u] # "link"
      BY <1>i, <2>1 DEF ChainLinked
    <2>7. TypeOK'
      <3>1. block' \in BOOLEAN
        BY <1>i, <1>1 DEF TypeOK
      <3> QED BY <1>i, <1>1, <1>2, <2>2, <2>3, <3>1 DEF TypeOK, PollLabel
    <2>8. ChainLinked'
      BY <1>1, <2>2, <2>3, <2>4, <2>6 DEF ChainLinked
    <2>9. MarkersPlaced'
      BY <1>2, <2>3, <2>4 DEF MarkersPlaced
    <2>10. Pushes'
      <3>1. \A u \in Thread : pc[u] \in Pushing => enq[u] # to
        BY <1>i, <1>1, <1>2 DEF Pushes, Pushing, Turn
      <3>2. \A u \in Thread : ~(pc[u] = "cas" /\ prev[u] = ClosedMarker)
        BY <1>i, <1>2, <1>4 DEF Pushes
      <3> QED BY <1>i, <1>1, <2>5, <3>1, <3>2 DEF Pushes
    <2>11. Turn'
      BY <1>i, <1>1, <2>2 DEF Turn
    <2>12. Places'
      BY <1>i, <1>1, <1>2, <2>5 DEF Places, Carried, Carries
    <2>13. Sleeps'
      <3>1. ~(Len(chain') > 1)
        BY <2>3
      <3>2. block' => ppc' = "select" /\ tail' = SleepMarker
        BY <1>i, <1>1, <2>2 DEF Sleeps
      <3>3. pipe' > 0 => edge' \/ ppc' = "cleanup"
        BY <1>i, <1>1 DEF Sleeps
      <3> QED BY <3>1, <3>2, <3>3 DEF Sleeps
    <2> QED BY <2>7, <2>8, <2>9, <2>10, <2>11, <2>12, <2>13 DEF IInv
  <1> QED BY <1>3, <1>4

-----------------------------------------------------------------------------
(* dequeue_node takes the tail.                                            *)

\* The list without its first entry, whose link is in place.
LEMMA TailMoves ==
    ASSUME IInv, next[tail] # Null, tail' = next[tail], chain' = Tail(chain),
           UNCHANGED <<head, next, pc, enq, prev, dropping>>
    PROVE  /\ chain' \in Seq(Ptr) /\ tail' \in Ptr
           /\ ChainLinked' /\ MarkersPlaced' /\ Pushes'
           /\ Len(chain) > 1 /\ tail' = chain[2] /\ tail # head
           /\ \A p : InChain(p)' <=> InChain(p) /\ p # tail
  <1>i. TypeOK /\ ChainLinked /\ MarkersPlaced /\ Pushes
    BY DEF IInv
  <1>1. /\ Len(chain) \in Nat /\ Len(chain) > 0 /\ \A i \in 1..Len(chain) : chain[i] \in Ptr
        /\ tail = chain[1] /\ head = chain[Len(chain)] /\ next[head] = Null
        /\ \A i, j \in 1..Len(chain) : chain[i] = chain[j] => i = j
    BY <1>i, ChainIs DEF ChainLinked
  <1>2. Len(chain) > 1 /\ tail # head
    BY <1>1
  <1>3. next[chain[1]] = chain[2]
    <2>1. 1 \in 1..(Len(chain) - 1)
      BY <1>1, <1>2
    <2>2. \/ next[chain[1]] = chain[1 + 1]
          \/ next[chain[1]] = Null
      BY <1>i, <2>1 DEF ChainLinked
    <2> QED BY <1>1, <2>2
  <1>4. /\ chain' \in Seq(Ptr) /\ Len(chain') = Len(chain) - 1
        /\ \A i \in 1..(Len(chain) - 1) : chain'[i] = chain[i + 1]
    <2>1. chain \in Seq(Ptr) /\ chain # <<>>
      BY <1>i, <1>2 DEF TypeOK
    <2> QED BY <1>1, <2>1
  <1>5. tail' = chain[2] /\ tail' \in Ptr
    <2>1. 2 \in 1..Len(chain)
      BY <1>1, <1>2
    <2> QED BY <1>1, <1>3, <2>1
  <1>6. \A p : InChain(p)' <=> InChain(p) /\ p # tail
    <2>1. ASSUME NEW p, InChain(p)' PROVE InChain(p) /\ p # tail
      <3>1. PICK i \in 1..Len(chain') : chain'[i] = p
        BY <2>1 DEF InChain
      <3>2. i + 1 \in 1..Len(chain) /\ i + 1 # 1 /\ 1 \in 1..Len(chain) /\ chain[i + 1] = p
        BY <1>1, <1>4, <3>1
      <3> QED BY <1>1, <3>2 DEF InChain
    <2>2. ASSUME NEW p, InChain(p), p # tail PROVE InChain(p)'
      <3>1. PICK i \in 1..Len(chain) : chain[i] = p
        BY <2>2 DEF InChain
      <3>2. i # 1
        BY <1>1, <2>2, <3>1
      <3>3. i - 1 \in 1..Len(chain') /\ chain'[i - 1] = p
        <4>1. i - 1 \in 1..(Len(chain) - 1) /\ (i - 1) + 1 = i
          BY <1>1, <3>1, <3>2
        <4> QED BY <1>4, <3>1, <4>1
      <3> QED BY <3>3 DEF InChain
    <2> QED BY <2>1, <2>2
  <1>7. ChainLinked'
    <2>1. Len(chain') > 0 /\ tail' = chain'[1] /\ head' = chain'[Len(chain')]
      <3>1. 1 \in 1..(Len(chain) - 1) /\ Len(chain) - 1 \in 1..(Len(chain) - 1)
            /\ (Len(chain) - 1) + 1 = Len(chain) /\ 1 + 1 = 2
        BY <1>1, <1>2
      <3>2. chain'[1] = chain[2] /\ chain'[Len(chain) - 1] = chain[Len(chain)]
        BY <1>4, <3>1
      <3> QED BY <1>1, <1>2, <1>4, <1>5, <3>2
    <2>2. ASSUME NEW i \in 1..Len(chain'), NEW j \in 1..Len(chain'), chain'[i] = chain'[j]
          PROVE  i = j
      <3>1. i + 1 \in 1..Len(chain) /\ j + 1 \in 1..Len(chain) /\ chain[i + 1] = chain[j + 1]
        BY <1>1, <1>4, <2>2
      <3>2. i + 1 = j + 1
        BY <1>1, <3>1
      <3> QED BY <1>1, <1>4, <3>2
    <2>3. next'[head'] = Null
      BY <1>1
    <2>4. ASSUME NEW i \in 1..(Len(chain') - 1)
          PROVE  \/ next'[chain'[i]] = chain'[i + 1]
                 \/ /\ next'[chain'[i]] = Null
                    /\ \E u \in Thread :
                         pc'[u] = "link" /\ prev'[u] = chain'[i] /\ enq'[u] = chain'[i + 1]
      <3>1. /\ i + 1 \in 1..(Len(chain) - 1) /\ i \in 1..(Len(chain) - 1)
            /\ chain'[i] = chain[i + 1] /\ chain'[i + 1] = chain[(i + 1) + 1]
        BY <1>1, <1>4
      <3>2. \/ next[chain[i + 1]] = chain[(i + 1) + 1]
            \/ /\ next[chain[i + 1]] = Null
               /\ \E u \in Thread :
                    pc[u] = "link" /\ prev[u] = chain[i + 1] /\ enq[u] = chain[(i + 1) + 1]
        BY <1>i, <3>1 DEF ChainLinked
      <3> QED BY <3>1, <3>2
    <2>5. ASSUME NEW u \in Thread, pc'[u] = "link"
          PROVE  \E i \in 1..(Len(chain') - 1) : prev'[u] = chain'[i] /\ enq'[u] = chain'[i + 1]
      <3>1. PICK i \in 1..(Len(chain) - 1) : prev[u] = chain[i] /\ enq[u] = chain[i + 1]
        BY <1>i, <2>5 DEF ChainLinked
      <3>2. i # 1
        BY <1>1, <2>5, <3>1, OwedLink
      <3>3. /\ i - 1 \in 1..(Len(chain') - 1)
            /\ i - 1 \in 1..(Len(chain) - 1) /\ (i - 1) + 1 = i
        BY <1>1, <1>4, <3>1, <3>2
      <3>4. chain'[i - 1] = chain[i] /\ chain'[(i - 1) + 1] = chain[i + 1]
        BY <1>4, <3>1, <3>3
      <3> QED BY <3>1, <3>3, <3>4
    <2> QED BY <2>1, <2>2, <2>3, <2>4, <2>5 DEF ChainLinked
  <1>8. MarkersPlaced'
    <2>1. \A i \in 1..Len(chain') : i + 1 \in 1..Len(chain) /\ chain'[i] = chain[i + 1] /\ i + 1 # 1
      BY <1>1, <1>4
    <2>2. ASSUME NEW i \in 1..Len(chain'), i + 1 = Len(chain) PROVE i = Len(chain')
      <3>1. Len(chain) \in Nat /\ Len(chain') = Len(chain) - 1
        BY <1>1, <1>4
      <3> QED BY <2>2, <3>1
    <2> QED BY <1>i, <2>1, <2>2 DEF MarkersPlaced
  <1>9. Pushes'
    BY <1>i, <1>6 DEF Pushes
  <1> QED BY <1>2, <1>4, <1>5, <1>6, <1>7, <1>8, <1>9

\* The marker at the tail is skipped: what is behind it is a node or the
\* closed marker.
LEMMA SkipKeeps ==
    ASSUME IInv, DequeueSkipMarker
    PROVE  IInv'
  <1>i. TypeOK /\ ChainLinked /\ MarkersPlaced /\ Pushes /\ Turn /\ Places /\ Sleeps
    BY DEF IInv
  <1>1. /\ ppc = "dequeue" /\ pc[Poller] = "idle" /\ tail \in Marker /\ next[tail] # Null
        /\ tail' = next[tail] /\ chain' = Tail(chain) /\ ppc' = "dequeueNode"
        /\ UNCHANGED <<head, next, queued, dropped, released, pc, enq, prev, got, until, room,
                       block, dropping, pipe, edge>>
    BY DEF DequeueSkipMarker, PollerAt, Goto, nodeVars, enqVars, pipeVars
  <1>2. /\ chain' \in Seq(Ptr) /\ tail' \in Ptr
        /\ ChainLinked' /\ MarkersPlaced' /\ Pushes'
        /\ Len(chain) > 1 /\ tail' = chain[2] /\ tail # head
        /\ \A p : InChain(p)' <=> InChain(p) /\ p # tail
    BY <1>1, TailMoves
  <1>3. tail \notin Node
    BY <1>1, MarkersDistinct
  <1>4. tail' \in Node \cup {ClosedMarker}
    <2>1. /\ Len(chain) \in Nat /\ 1 \in 1..Len(chain) /\ 2 \in 1..Len(chain)
          /\ tail = chain[1] /\ \A i, j \in 1..Len(chain) : chain[i] = chain[j] => i = j
      BY <1>i, <1>2, ChainIs DEF ChainLinked
    <2>2. chain[2] # SleepMarker
      BY <1>i, <2>1 DEF MarkersPlaced
    <2>3. chain[1] # ClosedMarker
      BY <1>i, <1>2, <2>1 DEF MarkersPlaced
    <2>4. chain[2] # EndMarker
      BY <1>i, <1>1, <2>1, <2>3 DEF MarkersPlaced, Marker
    <2> QED BY <1>2, <2>2, <2>4 DEF Ptr, Marker
  <1>5. TypeOK'
    BY <1>i, <1>1, <1>2 DEF TypeOK, PollLabel
  <1>6. Turn'
    BY <1>i, <1>1, <1>4 DEF Turn
  <1>7. Places'
    <2>1. \A n \in Node : (InChain(n)' <=> InChain(n)) /\ (Carried(n)' <=> Carried(n))
      BY <1>1, <1>2, <1>3 DEF Carried, Carries
    <2> QED BY <1>i, <1>1, <2>1 DEF Places
  <1>8. Sleeps'
    BY <1>i, <1>1 DEF Sleeps
  <1> QED BY <1>2, <1>5, <1>6, <1>7, <1>8 DEF IInv

\* Dequeue::Data
LEMMA TakeKeeps ==
    ASSUME IInv, DequeueData \/ DequeueAfterEnd
    PROVE  IInv'
  <1>i. TypeOK /\ ChainLinked /\ MarkersPlaced /\ Pushes /\ Turn /\ Places /\ Sleeps
    BY DEF IInv
  <1>1. /\ ppc \in {"dequeue", "dequeueNode", "afterEnd"} /\ pc[Poller] = "idle" /\ next[tail] # Null
        /\ ppc = "dequeue" => tail \notin Marker
        /\ tail' = next[tail] /\ chain' = Tail(chain) /\ ppc' = "node" /\ got' = tail
        /\ UNCHANGED <<head, next, queued, dropped, released, pc, enq, prev, until, room,
                       block, dropping, pipe, edge>>
    BY DEF DequeueData, DequeueAfterEnd, AtNode, TakeTail, PollerAt, Goto, nodeVars, enqVars, pipeVars
  <1>2. /\ chain' \in Seq(Ptr) /\ tail' \in Ptr
        /\ ChainLinked' /\ MarkersPlaced' /\ Pushes'
        /\ Len(chain) > 1 /\ tail' = chain[2] /\ tail # head
        /\ \A p : InChain(p)' <=> InChain(p) /\ p # tail
    BY <1>1, TailMoves
  <1>3. tail \in Node
    <2>1. tail \in Node \cup {ClosedMarker}
      BY <1>i, <1>1 DEF Turn, TypeOK, Ptr
    <2>2. tail # ClosedMarker
      <3>1. Len(chain) \in Nat /\ 1 \in 1..Len(chain) /\ tail = chain[1]
        BY <1>i, ChainIs DEF ChainLinked
      <3> QED BY <1>i, <1>2, <3>1 DEF MarkersPlaced
    <2> QED BY <2>1, <2>2
  <1>4. InChain(tail) /\ Null \notin Node /\ got = Null
    BY <1>i, <1>1, ChainIs, MarkersDistinct DEF Turn, Ptr
  <1>5. TypeOK'
    BY <1>i, <1>1, <1>2, <1>3 DEF TypeOK, PollLabel
  <1>6. Turn'
    BY <1>i, <1>1, <1>3, <1>4 DEF Turn
  <1>7. Places'
    <2>1. \A n \in Node : Carried(n)' <=> Carried(n)
      BY <1>1 DEF Carried, Carries
    <2>2. ~Carried(tail)
      BY <1>i, <1>4 DEF Carried, Carries, Pushes, Pushing
    <2> QED BY <1>i, <1>1, <1>2, <1>3, <1>4, <2>1, <2>2 DEF Places
  <1>8. Sleeps'
    BY <1>i, <1>1 DEF Sleeps
  <1> QED BY <1>2, <1>5, <1>6, <1>7, <1>8 DEF IInv

-----------------------------------------------------------------------------
(* The swap and the link of enqueue_node.                                  *)

\* The swap appends to the chain; who swapped owes the link.
LEMMA SwapKeeps ==
    ASSUME IInv, NEW t \in Thread, EnqSwap(t)
    PROVE  IInv'
  <1>i. TypeOK /\ ChainLinked /\ MarkersPlaced /\ Pushes /\ Turn /\ Places /\ Sleeps
    BY DEF IInv
  <1> DEFINE x == enq[t]
             m == Len(chain)
  <1>1. /\ pc[t] = "cas" /\ prev[t] # ClosedMarker /\ head = prev[t] /\ head' = x
        /\ chain' = Append(chain, x) /\ pc' = [pc EXCEPT ![t] = "link"]
        /\ UNCHANGED <<tail, next, queued, dropped, released, enq, prev, ppc, got, until, room,
                       block, dropping, pipe, edge>>
    BY DEF EnqSwap, nodeVars, pollVars, pipeVars
  <1>2. /\ \A u \in Thread : pc'[u] = IF u = t THEN "link" ELSE pc[u]
    BY <1>i, <1>1 DEF TypeOK
  <1>3. /\ x \in Ptr /\ x \in Node \cup {EndMarker, ClosedMarker} /\ ~InChain(x) /\ next[x] = Null
        /\ x # SleepMarker
    BY <1>i, <1>1, MarkersDistinct DEF Pushes, Pushing, Ptr, Marker
  <1>4. /\ m \in Nat /\ m > 0 /\ \A i \in 1..m : chain[i] \in Ptr
        /\ tail = chain[1] /\ head = chain[m] /\ next[head] = Null
        /\ \A i, j \in 1..m : chain[i] = chain[j] => i = j
    BY <1>i, ChainIs DEF ChainLinked
  <1>5. /\ chain' \in Seq(Ptr) /\ Len(chain') = m + 1
        /\ \A i \in 1..m : chain'[i] = chain[i]
        /\ chain'[m + 1] = x
    <2>1. chain \in Seq(Ptr)
      BY <1>i DEF TypeOK
    <2> QED BY <1>1, <1>3, <2>1
  <1>6. \A i \in 1..Len(chain') : i \in 1..m \/ i = m + 1
    BY <1>4, <1>5
  <1>7. /\ \A i \in 1..m : i \in 1..Len(chain')
        /\ m + 1 \in 1..Len(chain')
    BY <1>4, <1>5
  <1>8. \A i \in 1..m : chain[i] # x
    BY <1>3 DEF InChain
  <1>9. \A p : InChain(p)' <=> InChain(p) \/ p = x
    BY <1>5, <1>6, <1>7 DEF InChain
  <1>10. TypeOK'
    BY <1>i, <1>1, <1>3, <1>5 DEF TypeOK, EnqLabel
  <1>11. ChainLinked'
    <2>1. Len(chain') > 0 /\ tail' = chain'[1] /\ head' = chain'[Len(chain')]
      <3>1. 1 \in 1..m
        BY <1>4
      <3>2. Len(chain') > 0
        BY <1>4, <1>5
      <3> QED BY <1>1, <1>4, <1>5, <3>1, <3>2
    <2>2. \A i, j \in 1..Len(chain') : chain'[i] = chain'[j] => i = j
      BY <1>4, <1>5, <1>6, <1>8
    <2>3. next'[head'] = Null
      BY <1>1, <1>3
    <2>4. ASSUME NEW i \in 1..(Len(chain') - 1)
          PROVE  \/ next'[chain'[i]] = chain'[i + 1]
                 \/ /\ next'[chain'[i]] = Null
                    /\ \E u \in Thread :
                         pc'[u] = "link" /\ prev'[u] = chain'[i] /\ enq'[u] = chain'[i + 1]
      <3>1. CASE i = m
        <4>1. m \in 1..m
          BY <1>4
        <4>2. chain'[i] = head /\ chain'[i + 1] = x
          BY <1>4, <1>5, <3>1, <4>1
        <4> QED BY <1>1, <1>2, <1>4, <4>2
      <3>2. CASE i # m
        <4>1. i \in 1..(m - 1) /\ i \in 1..m /\ i + 1 \in 1..m
          BY <1>4, <1>5, <3>2
        <4>2. chain'[i] = chain[i] /\ chain'[i + 1] = chain[i + 1]
          BY <1>5, <4>1
        <4>3. \/ next[chain[i]] = chain[i + 1]
              \/ /\ next[chain[i]] = Null
                 /\ \E u \in Thread : pc[u] = "link" /\ prev[u] = chain[i] /\ enq[u] = chain[i + 1]
          BY <1>i, <4>1 DEF ChainLinked
        <4>4. \A u \in Thread : pc[u] = "link" => pc'[u] = "link"
          BY <1>2
        <4> QED BY <1>1, <4>2, <4>3, <4>4
      <3> QED BY <3>1, <3>2
    <2>5. ASSUME NEW u \in Thread, pc'[u] = "link"
          PROVE  \E i \in 1..(Len(chain') - 1) : prev'[u] = chain'[i] /\ enq'[u] = chain'[i + 1]
      <3>1. CASE u = t
        <4>1. m \in 1..m /\ m \in 1..(Len(chain') - 1)
          BY <1>4, <1>5
        <4>2. chain'[m] = prev[u] /\ chain'[m + 1] = enq[u]
          BY <1>1, <1>4, <1>5, <3>1, <4>1
        <4> QED BY <1>1, <4>1, <4>2
      <3>2. CASE u # t
        <4>1. pc[u] = "link"
          BY <1>2, <2>5, <3>2
        <4>2. PICK i \in 1..(m - 1) : prev[u] = chain[i] /\ enq[u] = chain[i + 1]
          BY <1>i, <4>1 DEF ChainLinked
        <4>3. i \in 1..m /\ i + 1 \in 1..m /\ i \in 1..(Len(chain') - 1)
          BY <1>4, <1>5, <4>2
        <4>4. chain'[i] = chain[i] /\ chain'[i + 1] = chain[i + 1]
          BY <1>5, <4>3
        <4> QED BY <1>1, <4>2, <4>3, <4>4
      <3> QED BY <3>1, <3>2
    <2> QED BY <2>1, <2>2, <2>3, <2>4, <2>5 DEF ChainLinked
  <1>12. MarkersPlaced'
    <2>1. \A i \in 1..m : chain[i] # ClosedMarker
      <3>1. m \in 1..m
        BY <1>4
      <3> QED BY <1>i, <1>1, <1>4, <3>1 DEF MarkersPlaced
    <2>2. x = ClosedMarker => dropping
      BY <1>i, <1>1, PollerIsNoProducer, MarkersDistinct DEF Pushes, Turn, Thread, Marker
    <2>3. x = EndMarker => \A i \in 1..m : chain[i] # SleepMarker
      <3>1. x = EndMarker => tail \in Node \cup {ClosedMarker}
        BY <1>i, <1>1, PollerIsNoProducer, MarkersDistinct DEF Pushes, Turn, Thread, Marker
      <3> QED BY <1>i, <1>4, <3>1, MarkersDistinct DEF MarkersPlaced, Marker
    <2>4. \A i \in 1..Len(chain') : chain'[i] = ClosedMarker => i = Len(chain') /\ dropping'
      BY <1>1, <1>5, <1>6, <2>1, <2>2
    <2>5. \A i \in 1..Len(chain') : chain'[i] = SleepMarker => i = 1
      BY <1>i, <1>3, <1>5, <1>6 DEF MarkersPlaced
    <2>6. \A i, j \in 1..Len(chain') : ~(chain'[i] = SleepMarker /\ chain'[j] = EndMarker)
      BY <1>i, <1>3, <1>5, <1>6, <2>3 DEF MarkersPlaced
    <2> QED BY <2>4, <2>5, <2>6 DEF MarkersPlaced
  <1>13. Pushes'
    <2>1. \A u \in Thread : pc[u] \in Working /\ u # t => enq[u] # x
      BY <1>i, <1>1 DEF Pushes, Working
    <2>2. \A u \in Thread : ~(pc[u] = "cas" /\ prev[u] = ClosedMarker)
      BY <1>i, <1>1 DEF Pushes
    <2>3. ASSUME NEW u \in Thread, u # t
          PROVE  /\ pc'[u] = pc[u]
                 /\ pc[u] \in Pushing => ~InChain(enq[u])'
      BY <1>i, <1>1, <1>2, <1>9, <2>1, <2>3 DEF Pushes, Working, Pushing
    <2>4. ASSUME NEW u \in Thread
          PROVE  /\ pc'[u] # "idle" => enq'[u] \in Node \cup {EndMarker, ClosedMarker}
                 /\ pc'[u] # "idle" /\ u # Poller => enq'[u] \in Node
                 /\ pc'[u] \in {"store", "load"} => prev'[u] = Null
                 /\ pc'[u] \in {"cas", "link"} => prev'[u] \in Ptr
                 /\ pc'[u] \in {"load", "cas"} => next'[enq'[u]] = Null
                 /\ pc'[u] = "link" => next'[prev'[u]] = Null
                 /\ pc'[u] = "cas" /\ prev'[u] = ClosedMarker => head' = ClosedMarker
                 /\ pc'[u] \in Pushing => ~InChain(enq[u])'
      <3>1. CASE u = t
        <4>1. /\ pc'[t] = "link" /\ next'[prev'[t]] = Null
              /\ enq'[t] = enq[t] /\ prev'[t] = prev[t]
          BY <1>1, <1>2, <1>4
        <4>2. /\ prev[t] \in Ptr /\ enq[t] \in Node \cup {EndMarker, ClosedMarker}
              /\ t # Poller => enq[t] \in Node
          BY <1>i, <1>1 DEF Pushes
        <4>3. "link" \notin Pushing
          BY DEF Pushing
        <4> QED BY <3>1, <4>1, <4>2, <4>3
      <3>2. CASE u # t
        BY <1>i, <1>1, <2>2, <2>3, <3>2 DEF Pushes
      <3> QED BY <3>1, <3>2
    <2>5. \A u, v \in Thread : pc'[u] \in Working /\ pc'[v] \in Working /\ enq'[u] = enq'[v] => u = v
      BY <1>i, <1>1, <1>2, <2>1 DEF Pushes, Working
    <2> QED BY <1>1, <2>4, <2>5 DEF Pushes
  <1>14. Turn'
    BY <1>i, <1>1, <1>2 DEF Turn, Thread
  <1>15. Places'
    <2>1. \A n \in Node : Carried(n)' <=> Carried(n) /\ n # x
      BY <1>i, <1>1, <1>2 DEF Carried, Carries, Pushes, Working
    <2>2. \A n \in Node : n = x => Carried(n)
      BY <1>1 DEF Carried, Carries
    <2> QED BY <1>i, <1>1, <1>9, <2>1, <2>2 DEF Places
  <1>16. Sleeps'
    <2>1. CASE ~block
      BY <1>i, <1>1, <2>1 DEF Sleeps, TypeOK
    <2>2. CASE block /\ m > 1
      <3>1. NotifyReady \/ \E u \in Thread : OwesWakeup(u)
        BY <1>i, <2>2 DEF Sleeps
      <3>2. ASSUME NEW u \in Thread, OwesWakeup(u) PROVE OwesWakeup(u)'
        BY <1>1, <1>2, <3>2 DEF OwesWakeup
      <3>3. NotifyReady => NotifyReady'
        BY <1>1 DEF NotifyReady
      <3> QED BY <1>i, <1>1, <3>1, <3>2, <3>3 DEF Sleeps
    <2>3. CASE block /\ m = 1
      <3>1. prev[t] = SleepMarker /\ t # Poller
        BY <1>i, <1>1, <1>4, <2>3 DEF Sleeps, Turn
      <3>2. OwesWakeup(t)'
        BY <1>1, <1>2, <3>1 DEF OwesWakeup
      <3> QED BY <1>i, <1>1, <3>2 DEF Sleeps
    <2> QED BY <1>4, <2>1, <2>2, <2>3
  <1> QED BY <1>10, <1>11, <1>12, <1>13, <1>14, <1>15, <1>16 DEF IInv

\* The link makes good the one next pointer that was owed.
LEMMA LinkKeeps ==
    ASSUME IInv, NEW t \in Thread, EnqLink(t)
    PROVE  IInv'
  <1>i. TypeOK /\ ChainLinked /\ MarkersPlaced /\ Pushes /\ Turn /\ Places /\ Sleeps
    BY DEF IInv
  <1>1. /\ pc[t] = "link" /\ next' = [next EXCEPT ![prev[t]] = enq[t]]
        /\ \/ t # Poller /\ prev[t] = SleepMarker /\ pc' = [pc EXCEPT ![t] = "wake"] /\ UNCHANGED <<enq, prev>>
           \/ /\ t = Poller \/ prev[t] # SleepMarker
              /\ pc' = [pc EXCEPT ![t] = "idle"]
              /\ enq' = [enq EXCEPT ![t] = Null] /\ prev' = [prev EXCEPT ![t] = Null]
        /\ UNCHANGED <<head, tail, chain, queued, dropped, released, ppc, got, until, room,
                       block, dropping, pipe, edge>>
    BY DEF EnqLink, MustWake, Return, nodeVars, pollVars, pipeVars
  <1>2. /\ pc'[t] \in {"idle", "wake"}
        /\ t = Poller => pc'[t] = "idle"
        /\ pc'[t] = "wake" => enq'[t] = enq[t]
        /\ \A u \in Thread : u # t => pc'[u] = pc[u] /\ enq'[u] = enq[u] /\ prev'[u] = prev[u]
    BY <1>i, <1>1 DEF TypeOK
  <1>3. /\ next[prev[t]] = Null /\ InChain(prev[t]) /\ InChain(enq[t])
        /\ prev[t] # head /\ prev[t] \in Ptr /\ enq[t] \in Ptr
        /\ \A u \in Thread : pc[u] = "link" /\ prev[u] = prev[t] => u = t
    BY <1>i, <1>1, OwedLink DEF Pushes, Ptr, Marker
  <1>4. \A p \in Ptr : next'[p] = IF p = prev[t] THEN enq[t] ELSE next[p]
    BY <1>i, <1>1, <1>3 DEF TypeOK
  <1>5. TypeOK'
    BY <1>i, <1>1, <1>3 DEF TypeOK, EnqLabel
  <1>6. ChainLinked'
    <2>1. Len(chain') \in Nat /\ Len(chain') > 0 /\ tail' = chain'[1] /\ head' = chain'[Len(chain')]
      BY <1>i, <1>1, ChainIs DEF ChainLinked
    <2>2. \A i, j \in 1..Len(chain') : chain'[i] = chain'[j] => i = j
      BY <1>i, <1>1 DEF ChainLinked
    <2>3. next'[head'] = Null
      BY <1>i, <1>1, <1>3, <1>4 DEF ChainLinked, TypeOK
    <2>4. ASSUME NEW i \in 1..(Len(chain') - 1)
          PROVE  \/ next'[chain'[i]] = chain'[i + 1]
                 \/ /\ next'[chain'[i]] = Null
                    /\ \E u \in Thread :
                         pc'[u] = "link" /\ prev'[u] = chain'[i] /\ enq'[u] = chain'[i + 1]
      <3>1. i \in 1..Len(chain) /\ i \in 1..(Len(chain) - 1) /\ chain[i] \in Ptr
        BY <1>i, <1>1, <2>1, ChainIs
      <3>2. \/ next[chain[i]] = chain[i + 1]
            \/ /\ next[chain[i]] = Null
               /\ \E u \in Thread : pc[u] = "link" /\ prev[u] = chain[i] /\ enq[u] = chain[i + 1]
        BY <1>i, <3>1 DEF ChainLinked
      <3>3. CASE chain[i] = prev[t]
        <4>1. PICK j \in 1..(Len(chain) - 1) : prev[t] = chain[j] /\ enq[t] = chain[j + 1]
          BY <1>i, <1>1 DEF ChainLinked
        <4>2. j \in 1..Len(chain)
          BY <1>1, <2>1, <4>1
        <4>3. j = i
          BY <1>1, <2>2, <3>1, <3>3, <4>1, <4>2
        <4> QED BY <1>1, <1>4, <3>1, <3>3, <4>1, <4>3
      <3>4. CASE chain[i] # prev[t]
        <4>1. next'[chain[i]] = next[chain[i]]
          BY <1>4, <3>1, <3>4
        <4>2. \A u \in Thread : prev[u] = chain[i] => u # t
          BY <3>4
        <4> QED BY <1>1, <1>2, <3>2, <4>1, <4>2
      <3> QED BY <3>3, <3>4
    <2>5. ASSUME NEW u \in Thread, pc'[u] = "link"
          PROVE  \E i \in 1..(Len(chain') - 1) : prev'[u] = chain'[i] /\ enq'[u] = chain'[i + 1]
      <3>1. u # t
        BY <1>2, <2>5
      <3>2. pc[u] = "link" /\ prev'[u] = prev[u] /\ enq'[u] = enq[u]
        BY <1>2, <2>5, <3>1
      <3>3. \E i \in 1..(Len(chain) - 1) : prev[u] = chain[i] /\ enq[u] = chain[i + 1]
        BY <1>i, <3>2 DEF ChainLinked
      <3> QED BY <1>1, <3>2, <3>3
    <2> QED BY <2>1, <2>2, <2>3, <2>4, <2>5 DEF ChainLinked
  <1>7. MarkersPlaced'
    BY <1>i, <1>1 DEF MarkersPlaced
  <1>8. Pushes'
    <2>1. \A u \in Thread : pc[u] \in Pushing => enq[u] # prev[t] /\ enq[u] \in Ptr
      BY <1>i, <1>3 DEF Pushes, Pushing, Ptr, Marker
    <2>2. \A u \in Thread : u # t /\ pc[u] = "link" => prev[u] # prev[t] /\ prev[u] \in Ptr
      BY <1>i, <1>3 DEF Pushes
    <2>3. \A p : InChain(p)' <=> InChain(p)
      BY <1>1 DEF InChain
    <2> QED BY <1>i, <1>1, <1>2, <1>4, <2>1, <2>2, <2>3 DEF Pushes, Working, Pushing
  <1>9. Turn'
    <2>1. ppc = "prepareSwap" => prev[t] # SleepMarker
      <3>1. InChain(SleepMarker) => tail = SleepMarker
        BY <1>i DEF InChain, MarkersPlaced, ChainLinked
      <3> QED BY <1>i, <1>3, <3>1, MarkersDistinct DEF Turn
    <2>2. ppc = "clearSwap" => prev[t] # EndMarker
      <3>1. InChain(tail)
        BY <1>i, ChainIs
      <3>2. ~(InChain(SleepMarker) /\ InChain(EndMarker))
        BY <1>i DEF InChain, MarkersPlaced
      <3> QED BY <1>i, <1>3, <3>1, <3>2 DEF Turn
    <2>3. EndMarker \in Ptr /\ SleepMarker \in Ptr
      BY DEF Ptr, Marker
    <2> QED BY <1>i, <1>1, <1>2, <1>4, <2>1, <2>2, <2>3 DEF Turn, Thread
  <1>10. Places'
    <2>1. \A n \in Node : (Carried(n)' <=> Carried(n)) /\ (InChain(n)' <=> InChain(n))
      BY <1>1, <1>2 DEF Carried, Carries, InChain
    <2> QED BY <1>i, <1>1, <2>1 DEF Places
  <1>11. Sleeps'
    <2>1. ASSUME NEW u \in Thread, OwesWakeup(u) PROVE OwesWakeup(u)'
      <3>1. CASE u = t
        BY <1>i, <1>1, <2>1, <3>1 DEF OwesWakeup, TypeOK
      <3>2. CASE u # t
        BY <1>2, <2>1, <3>2 DEF OwesWakeup
      <3> QED BY <3>1, <3>2
    <2>2. NotifyReady => NotifyReady'
      BY <1>1 DEF NotifyReady
    <2> QED BY <1>i, <1>1, <2>1, <2>2 DEF Sleeps
  <1> QED BY <1>5, <1>6, <1>7, <1>8, <1>9, <1>10, <1>11 DEF IInv

-----------------------------------------------------------------------------
(* The invariant, and what follows from it.                                *)

\* The initial states satisfy the invariant.
LEMMA InitIInv ==
    ASSUME Init
    PROVE  IInv
  <1>1. /\ head = EndMarker /\ tail = EndMarker /\ chain = <<EndMarker>>
        /\ queued = {} /\ dropped = {} /\ ppc = "idle" /\ got = Null /\ until = Null /\ room = Cap
        /\ block = FALSE /\ dropping = FALSE /\ pipe = 0 /\ edge = FALSE
        /\ \A t \in Thread : pc[t] = "idle"
        /\ \A p \in Ptr : next[p] = Null
        /\ \A n \in Node : released[n] = 0
    BY DEF Init
  <1>2. /\ EndMarker \in Ptr /\ EndMarker \notin Node /\ EndMarker # SleepMarker
        /\ EndMarker # ClosedMarker /\ Null \notin Node /\ Poller \in Thread
    BY MarkersDistinct DEF Ptr, Marker, Thread
  <1>3. TypeOK
    <2>1. chain \in Seq(Ptr)
      BY <1>1, <1>2
    <2>2. /\ next \in [Ptr -> Ptr \cup {Null}] /\ released \in [Node -> Nat]
          /\ pc \in [Thread -> EnqLabel]
          /\ enq \in [Thread -> Ptr \cup {Null}] /\ prev \in [Thread -> Ptr \cup {Null}]
      BY DEF Init, EnqLabel
    <2>3. room \in 0..Cap /\ pipe \in 0..PipeCap
      BY <1>1, BoundsAssumption
    <2> QED BY <1>1, <1>2, <2>1, <2>2, <2>3 DEF TypeOK, PollLabel
  <1>4. Len(chain) = 1 /\ chain[1] = EndMarker /\ 1..Len(chain) = {1} /\ 1..(Len(chain) - 1) = {}
    BY <1>1
  <1>5. ChainLinked
    BY <1>1, <1>2, <1>4 DEF ChainLinked
  <1>6. MarkersPlaced
    BY <1>2, <1>4 DEF MarkersPlaced
  <1>7. Pushes
    BY <1>1 DEF Pushes, Pushing, Working
  <1>8. Turn
    BY <1>1, <1>2 DEF Turn
  <1>9. Places
    BY <1>1, <1>2, <1>4 DEF Places, Carried, Carries, InChain
  <1>10. Sleeps
    BY <1>1 DEF Sleeps
  <1> QED BY <1>3, <1>5, <1>6, <1>7, <1>8, <1>9, <1>10 DEF IInv

\* Every step preserves the invariant.
LEMMA NextIInv ==
    ASSUME IInv, [Next]_vars
    PROVE  IInv'
  <1>1. ASSUME NEW t \in Thread,
               \/ EnqStore(t) \/ EnqLoad(t) \/ EnqClosed(t) \/ EnqSwap(t)
               \/ EnqSwapFails(t) \/ EnqLink(t) \/ Wake(t)
        PROVE  IInv'
    BY <1>1, StoreKeeps, LoadKeeps, ClosedKeeps, SwapKeeps, LinkKeeps, WakeKeeps
  <1>2. CASE \E t \in Producer : ProducerStep(t)
    BY <1>1, <1>2 DEF ProducerStep, Thread
  <1>3. CASE \E t \in Producer : \E n \in Node : BeginEnqueue(t, n) \/ BeginDrop(t, n)
    BY <1>3, BeginKeeps
  <1>4. CASE PollerEnqueue
    BY <1>1, <1>4 DEF PollerEnqueue, Thread
  <1>5. CASE Dequeue
    <2>1. CASE DequeueSkipMarker
      BY <2>1, SkipKeeps
    <2>2. CASE DequeueData \/ DequeueAfterEnd
      BY <2>2, TakeKeeps
    <2>3. CASE DequeueLast
      BY <2>3, LastKeeps
    <2>4. CASE ClearStore
      BY <2>4, MarkerStoreKeeps
    <2>5. CASE ClearSwap
      BY <2>5, SwapMarkerKeeps
    <2>6. CASE \/ DequeueMarkerOnly \/ DequeueUntil \/ DequeueNoNext \/ DequeueBusy
               \/ DequeueStillBusy \/ ClearNothing
      BY <2>6, LookKeeps
    <2> QED BY <1>5, <2>1, <2>2, <2>3, <2>4, <2>5, <2>6 DEF Dequeue
  <1>6. CASE HandleNode
    BY <1>6, RequeueKeeps, NodeKeeps DEF HandleNode
  <1>7. CASE Prepare
    <2>1. CASE PrepareKeeps
      BY <2>1, SelectKeeps
    <2>2. CASE PrepareStore
      BY <2>2, MarkerStoreKeeps
    <2>3. CASE PrepareSwap
      BY <2>3, SwapMarkerKeeps
    <2> QED BY <1>7, <2>1, <2>2, <2>3 DEF Prepare
  <1>8. CASE \/ Select \/ SelectInterrupted \/ SelectElapsed \/ Cleanup \/ EnterPoll
             \/ \E zero \in BOOLEAN : BeginPoll(zero)
    BY <1>8, SelectKeeps
  <1>9. CASE BeginClose
    BY <1>9, BeginCloseKeeps
  <1>10. CASE UNCHANGED vars
    <2>1. UNCHANGED <<listVars, nodeVars, enqVars, ppc, got, until, room, block, dropping, pipe, edge>>
      BY <1>10 DEF vars, pollVars, pipeVars
    <2>2. TypeOK /\ Turn /\ Sleeps
      BY DEF IInv
    <2>3. Turn' /\ Sleeps'
      BY <2>1, <2>2 DEF Turn, Sleeps, NotifyReady, OwesWakeup, listVars, enqVars
    <2> QED BY <2>1, <2>2, <2>3, ControlKeeps DEF TypeOK
  <1> QED
    BY <1>2, <1>3, <1>4, <1>5, <1>6, <1>7, <1>8, <1>9, <1>10 DEF Next, PollerStep

\* The invariant holds of every behaviour.
LEMMA Invariance ==
    Spec => []IInv
  BY InitIInv, NextIInv, PTL DEF Spec

\* Each queued node has one place, as a set of places.
LEMMA OnePlace ==
    ASSUME IInv
    PROVE  QueuedInOnePlace
  <1>i. Pushes /\ Places
    BY DEF IInv
  <1> SUFFICES ASSUME NEW n \in Node
               PROVE  LET places == {<<"enqueue", t>> : t \in {u \in Thread : Carries(u, n)}}
                              \cup (IF InChain(n) THEN {<<"list", n>>} ELSE {})
                              \cup (IF got = n THEN {<<"poll", n>>} ELSE {})
                              \cup (IF released[n] > 0 THEN {<<"released", n>>} ELSE {})
                      IN IF n \in queued THEN \E pl \in places : places = {pl}
                                         ELSE places = {}
    BY DEF QueuedInOnePlace
  <1> DEFINE carriers == {u \in Thread : Carries(u, n)}
             held == {<<"enqueue", t>> : t \in carriers}
             places == held \cup (IF InChain(n) THEN {<<"list", n>>} ELSE {})
                            \cup (IF got = n THEN {<<"poll", n>>} ELSE {})
                            \cup (IF released[n] > 0 THEN {<<"released", n>>} ELSE {})
  <1>1. /\ n \in queued <=> Carried(n) \/ InChain(n) \/ got = n \/ released[n] = 1
        /\ released[n] = 0 \/ released[n] = 1
        /\ Carried(n) => got # n /\ released[n] = 0 /\ ~InChain(n)
        /\ InChain(n) => got # n /\ released[n] = 0
        /\ got = n => released[n] = 0
    BY <1>i DEF Places, Pushes, Carried, Carries, Pushing
  <1>2. released[n] > 0 <=> released[n] = 1
    BY <1>1
  <1>3. CASE Carried(n)
    <2>1. PICK t \in Thread : Carries(t, n)
      BY <1>3 DEF Carried
    <2>2. carriers = {t}
      BY <1>i, <2>1 DEF Pushes, Carries, Working
    <2>3. held = {<<"enqueue", t>>}
      BY <2>2
    <2>4. places = {<<"enqueue", t>>}
      BY <1>1, <1>2, <1>3, <2>3
    <2> QED BY <1>1, <1>3, <2>4
  <1>4. CASE ~Carried(n)
    <2>1. held = {}
      BY <1>4 DEF Carried
    <2>2. CASE InChain(n)
      <3>1. places = {<<"list", n>>}
        BY <1>1, <1>2, <2>1, <2>2
      <3> QED BY <1>1, <2>2, <3>1
    <2>3. CASE got = n
      <3>1. places = {<<"poll", n>>}
        BY <1>1, <1>2, <2>1, <2>3
      <3> QED BY <1>1, <2>3, <3>1
    <2>4. CASE released[n] = 1
      <3>1. places = {<<"released", n>>}
        BY <1>1, <1>2, <2>1, <2>4
      <3> QED BY <1>1, <2>4, <3>1
    <2>5. CASE ~InChain(n) /\ got # n /\ released[n] # 1
      <3>1. places = {}
        BY <1>1, <1>2, <2>1, <2>5
      <3> QED BY <1>1, <1>4, <2>5, <3>1
    <2> QED BY <2>2, <2>3, <2>4, <2>5
  <1> QED BY <1>3, <1>4

\* The intrusive list is a list at every step of every enqueue_node, poll and
\* drop: linked from tail to head but for the links that are owed, without a
\* node twice, with every queued node in one place; no debug_assert! fails.
THEOREM ListIsSound ==
    Spec => []ListSound
  <1>1. IInv => ListSound
    <2> SUFFICES ASSUME IInv PROVE ListSound
      OBVIOUS
    <2>i. TypeOK /\ ChainLinked /\ MarkersPlaced /\ Pushes /\ Turn /\ Places
      BY DEF IInv
    <2>1. QueuedInOnePlace
      BY OnePlace
    <2>2. ASSUME NEW t \in Thread
          PROVE  /\ pc[t] = "link" => next[prev[t]] = Null
                 /\ pc[t] = "cas" /\ prev[t] = ClosedMarker
                      => enq[t] \notin {ClosedMarker, SleepMarker}
      <3>1. pc[t] = "cas" /\ prev[t] = ClosedMarker => InChain(ClosedMarker)
        BY <2>i, ChainIs DEF Pushes
      <3>2. pc[t] = "cas" => ~InChain(enq[t]) /\ enq[t] # SleepMarker
        BY <2>i, MarkersDistinct DEF Pushes, Pushing, Marker
      <3> QED BY <2>i, <3>1, <3>2 DEF Pushes
    <2>3. InChain(head) /\ InChain(tail)
      BY <2>i, ChainIs
    <2>4. ppc = "clearSwap" => head # EndMarker
      BY <2>i, <2>3 DEF Turn, MarkersPlaced, InChain
    <2>5. ppc = "prepareSwap" => /\ head # SleepMarker
                                 /\ tail = EndMarker
                                 /\ head = EndMarker => next[EndMarker] = Null
      BY <2>i, <2>3 DEF Turn, MarkersPlaced, InChain, ChainLinked
    <2>6. ppc = "node" => got \in queued
      BY <2>i DEF Turn, Places, TypeOK
    <2>7. DebugAsserts
      <3>1. \A t \in Thread : pc[t] = "link" => next[prev[t]] = Null
        BY <2>2
      <3>2. \A t \in Thread : pc[t] = "cas" /\ prev[t] = ClosedMarker
              => enq[t] \notin {ClosedMarker, SleepMarker}
        BY <2>2
      <3> QED BY <2>4, <2>5, <2>6, <3>1, <3>2 DEF DebugAsserts
    <2> QED BY <2>i, <2>1, <2>7 DEF ListSound
  <1> QED BY <1>1, Invariance, PTL

\* No lost wakeup: a poller that blocks in epoll_wait while a node waits has
\* the pipe's event coming, whatever the producers, the pipe's size and the
\* interleaving.
THEOREM WakeupsAreNotLost ==
    Spec => []NoSleepOnWork
  <1>1. IInv => NoSleepOnWork
    <2> SUFFICES ASSUME IInv, Blocked, NEW n \in Node, InChain(n)
                 PROVE  NotifyReady \/ \E t \in Thread : OwesWakeup(t)
      BY DEF NoSleepOnWork, HasNodes
    <2>i. TypeOK /\ ChainLinked /\ Sleeps
      BY DEF IInv
    <2>1. block /\ tail = SleepMarker
      BY <2>i DEF Blocked, Sleeps
    <2>2. PICK i \in 1..Len(chain) : chain[i] = n
      BY DEF InChain
    <2>3. Len(chain) \in Nat /\ tail = chain[1] /\ SleepMarker \notin Node
      BY <2>i, ChainIs, MarkersDistinct DEF ChainLinked, Marker
    <2>4. i # 1
      BY <2>1, <2>2, <2>3
    <2>5. Len(chain) > 1
      BY <2>2, <2>3, <2>4
    <2> QED BY <2>i, <2>1, <2>5 DEF Sleeps
  <1> QED BY <1>1, Invariance, PTL

\* The queue's reference to a node is given back at most once, by poll, by a
\* push that comes too late or by the drop, and nobody touches the node later.
THEOREM GivenBackOnce ==
    Spec => []ReleasedOnce
  <1>1. IInv => ReleasedOnce
    <2> SUFFICES ASSUME IInv PROVE ReleasedOnce
      OBVIOUS
    <2>i. TypeOK /\ ChainLinked /\ Pushes /\ Places
      BY DEF IInv
    <2>1. ASSUME NEW n \in Node PROVE released[n] <= 1
      <3>1. released[n] = 0 \/ released[n] = 1
        BY <2>i DEF Places
      <3> QED BY <3>1
    <2>2. ASSUME NEW t \in Thread, NEW n \in Node, pc[t] \in Working, n \in {enq[t], prev[t]}
          PROVE  released[n] = 0 \/ (pc[t] = "cas" /\ n = prev[t])
      <3>1. CASE pc[t] = "link"
        BY <2>i, <2>2, <3>1, OwedLink DEF Places
      <3>2. CASE pc[t] \in Pushing /\ n = enq[t]
        BY <2>i, <3>2 DEF Places, Carried, Carries, Pushing
      <3>3. CASE pc[t] \in {"store", "load"} /\ n = prev[t]
        BY <2>i, <3>3, MarkersDistinct DEF Pushes, Ptr
      <3> QED BY <2>2, <3>1, <3>2, <3>3 DEF Working, Pushing
    <2>3. tail \in Node => released[tail] = 0
      BY <2>i, ChainIs DEF Places
    <2>4. got \in Node => released[got] = 0
      BY <2>i DEF Places
    <2> QED BY <2>1, <2>2, <2>3, <2>4 DEF ReleasedOnce, Working
  <1> QED BY <1>1, Invariance, PTL

-----------------------------------------------------------------------------
(* The drop of the queue.                                                  *)

\* Where the drop can be: in dequeue_node, without an until.
Dropping ==
    dropping =>
        /\ until = Null
        /\ ppc \in {"dequeue", "dequeueNode", "checkHead", "afterEnd", "node", "clear", "clearSwap",
                    "gone"}
        /\ ppc \in {"clear", "clearSwap"} => tail \in Marker

\* Where the drop of the queue can be is preserved by every step.
LEMMA NextDropping ==
    ASSUME IInv, Dropping, [Next]_vars
    PROVE  Dropping'
  <1>m. EndMarker \in Marker /\ SleepMarker \in Marker
    BY DEF Marker
  <1>1. ASSUME UNCHANGED <<dropping, until, ppc, tail>>
        PROVE  Dropping'
    BY <1>1 DEF Dropping
  <1>2. CASE \E t \in Thread :
                \/ EnqStore(t) \/ EnqLoad(t) \/ EnqClosed(t) \/ EnqSwap(t)
                \/ EnqSwapFails(t) \/ EnqLink(t) \/ Wake(t)
    BY <1>1, <1>2 DEF EnqStore, EnqLoad, EnqClosed, EnqSwap, EnqSwapFails, EnqLink, Wake,
                      listVars, pollVars
  <1>3. CASE \E t \in Producer : \E n \in Node : BeginEnqueue(t, n) \/ BeginDrop(t, n)
    BY <1>1, <1>3 DEF BeginEnqueue, BeginDrop, listVars, pollVars
  <1>4. CASE Dequeue
    <2>1. CASE DequeueMarkerOnly
      BY <2>1 DEF DequeueMarkerOnly, Dropping, Goto, listVars
    <2>2. CASE DequeueSkipMarker
      BY <2>2 DEF DequeueSkipMarker, Dropping, Goto
    <2>3. CASE DequeueUntil \/ DequeueNoNext
      BY <2>3 DEF DequeueUntil, DequeueNoNext, Dropping, Empty, Goto, listVars
    <2>4. CASE DequeueData \/ DequeueAfterEnd
      BY <2>4 DEF DequeueData, DequeueAfterEnd, TakeTail, Dropping, Goto
    <2>5. CASE DequeueBusy \/ DequeueStillBusy
      BY <2>5 DEF DequeueBusy, DequeueStillBusy, Inconsistent, Dropping, Goto, listVars
    <2>6. CASE DequeueLast
      BY <2>6 DEF DequeueLast, Dropping, Goto, listVars
    <2>7. CASE ClearNothing
      BY <2>7 DEF ClearNothing, Empty, Dropping, Goto, listVars
    <2>8. CASE ClearStore
      BY <1>m, <2>8 DEF ClearStore, Dropping, Goto
    <2>9. CASE ClearSwap
      BY <2>9 DEF ClearSwap, Empty, Dropping, Goto
    <2> QED BY <1>4, <2>1, <2>2, <2>3, <2>4, <2>5, <2>6, <2>7, <2>8, <2>9 DEF Dequeue
  <1>5. CASE HandleNode
    <2>1. CASE NodeDropped \/ NodeClosed
      BY <2>1 DEF NodeDropped, NodeClosed, AfterNode, Dropping, Goto, listVars
    <2>2. CASE NodeRequeued
      BY <2>2 DEF NodeRequeued, Dropping
    <2>3. CASE \E ev \in 0..1 : NodeDequeued(ev)
      BY <2>3 DEF NodeDequeued, Dropping
    <2> QED BY <1>5, <2>1, <2>2, <2>3 DEF HandleNode
  <1>6. CASE Prepare
    BY <1>6 DEF Prepare, PrepareKeeps, PrepareStore, PrepareSwap, PollerAt, Dropping
  <1>7. CASE Select
    BY <1>7 DEF Select, SelectNotify, SelectOther, PollerAt, Dropping
  <1>8. CASE SelectInterrupted \/ SelectElapsed \/ Cleanup \/ EnterPoll
    BY <1>8 DEF SelectInterrupted, SelectElapsed, Cleanup, EnterPoll, PollerAt, Dropping
  <1>9. CASE BeginClose
    BY <1>9 DEF BeginClose, Dropping, Goto
  <1>10. CASE \E zero \in BOOLEAN : BeginPoll(zero)
    BY <1>10 DEF BeginPoll, Dropping
  <1>11. CASE UNCHANGED vars
    BY <1>1, <1>11 DEF vars, pollVars, listVars
  <1> QED
    BY <1>2, <1>3, <1>4, <1>5, <1>6, <1>7, <1>8, <1>9, <1>10, <1>11
       DEF Next, PollerStep, ProducerStep, PollerEnqueue, Thread

\* Where the loop of the drop ends.
LEMMA DropSteps ==
    ASSUME [Next]_vars
    PROVE  /\ ppc = "dequeue" /\ ppc' = "clear" => DequeueMarkerOnly
           /\ ppc # "gone" /\ ppc' = "gone"
                => dropping /\ (DequeueUntil \/ ClearNothing \/ ClearSwap)
  <1>1. ASSUME ppc' = ppc \/ ppc' \notin {"clear", "gone"}
        PROVE  /\ ppc = "dequeue" /\ ppc' = "clear" => DequeueMarkerOnly
               /\ ppc # "gone" /\ ppc' = "gone"
                    => dropping /\ (DequeueUntil \/ ClearNothing \/ ClearSwap)
    BY <1>1
  <1>2. CASE \E t \in Thread :
                \/ EnqStore(t) \/ EnqLoad(t) \/ EnqClosed(t) \/ EnqSwap(t)
                \/ EnqSwapFails(t) \/ EnqLink(t) \/ Wake(t)
    BY <1>1, <1>2 DEF EnqStore, EnqLoad, EnqClosed, EnqSwap, EnqSwapFails, EnqLink, Wake, pollVars
  <1>3. CASE \E t \in Producer : \E n \in Node : BeginEnqueue(t, n) \/ BeginDrop(t, n)
    BY <1>1, <1>3 DEF BeginEnqueue, BeginDrop, pollVars
  <1>4. CASE Dequeue
    <2>1. CASE DequeueMarkerOnly
      BY <2>1 DEF DequeueMarkerOnly, Goto
    <2>2. CASE DequeueUntil
      BY <2>2 DEF DequeueUntil, Empty, Goto
    <2>3. CASE ClearNothing
      BY <2>3 DEF ClearNothing, Empty, Goto
    <2>4. CASE ClearSwap
      BY <2>4 DEF ClearSwap, Empty, Goto
    <2>5. CASE DequeueSkipMarker \/ DequeueData \/ DequeueAfterEnd \/ DequeueNoNext
      BY <1>1, <2>5 DEF DequeueSkipMarker, DequeueData, DequeueAfterEnd, TakeTail, DequeueNoNext, Goto
    <2>6. CASE DequeueBusy \/ DequeueStillBusy \/ DequeueLast \/ ClearStore
      BY <1>1, <2>6 DEF DequeueBusy, DequeueStillBusy, Inconsistent, DequeueLast, ClearStore, Goto
    <2> QED BY <1>4, <2>1, <2>2, <2>3, <2>4, <2>5, <2>6 DEF Dequeue
  <1>5. CASE HandleNode
    BY <1>1, <1>5 DEF HandleNode, NodeDropped, NodeClosed, NodeRequeued, NodeDequeued, AfterNode, Goto
  <1>6. CASE Prepare
    BY <1>1, <1>6 DEF Prepare, PrepareKeeps, PrepareStore, PrepareSwap, Goto
  <1>7. CASE Select
    BY <1>1, <1>7 DEF Select, SelectNotify, SelectOther, Goto
  <1>8. CASE SelectInterrupted \/ SelectElapsed \/ Cleanup \/ BeginClose
    BY <1>1, <1>8 DEF SelectInterrupted, SelectElapsed, Cleanup, BeginClose, Goto
  <1>9. CASE EnterPoll
    BY <1>9 DEF EnterPoll, PollerAt, Goto
  <1>10. CASE \E zero \in BOOLEAN : BeginPoll(zero)
    BY <1>1, <1>10 DEF BeginPoll, Goto
  <1>11. CASE UNCHANGED vars
    BY <1>1, <1>11 DEF vars, pollVars
  <1> QED
    BY <1>2, <1>3, <1>4, <1>5, <1>6, <1>7, <1>8, <1>9, <1>10, <1>11
       DEF Next, PollerStep, ProducerStep, PollerEnqueue, Thread

\* The drop gives up at a marker only, and leaves a node in the list only if a
\* producer stood between its swap and its link right behind that marker.
THEOREM DropLeavesOnlyOwed ==
    Spec => DropDrains
  <1> DEFINE Drained ==
        /\ (dropping /\ ppc = "dequeue" /\ ppc' = "clear" /\ HasNodes)
             => \E t \in Producer : pc[t] = "link" /\ prev[t] = tail
        /\ (ppc # "gone" /\ ppc' = "gone")
             => tail' \in Marker /\ (tail' = ClosedMarker => ~HasNodes')
  <1>1. Init => Dropping
    BY DEF Init, Dropping
  <1>2. ASSUME IInv, Dropping, [Next]_vars
        PROVE  Drained
    <2>i. TypeOK /\ ChainLinked /\ MarkersPlaced
      BY <1>2 DEF IInv
    <2>1. ASSUME dropping, ppc = "dequeue", ppc' = "clear", HasNodes
          PROVE  \E t \in Producer : pc[t] = "link" /\ prev[t] = tail
      <3>1. tail \in Marker /\ next[tail] = Null /\ pc[Poller] = "idle"
        BY <1>2, <2>1, DropSteps DEF DequeueMarkerOnly, PollerAt
      <3>2. PICK n \in Node : InChain(n)
        BY <2>1 DEF HasNodes
      <3>3. PICK i \in 1..Len(chain) : chain[i] = n
        BY <3>2 DEF InChain
      <3>4. Len(chain) \in Nat /\ tail = chain[1] /\ tail \notin Node
        BY <2>i, <3>1, ChainIs, MarkersDistinct DEF ChainLinked
      <3>5. i # 1
        BY <3>3, <3>4
      <3>6. 1 \in 1..(Len(chain) - 1) /\ 2 \in 1..Len(chain)
        BY <3>3, <3>4, <3>5
      <3>7. chain[2] # Null
        BY <2>i, <3>6, ChainIs, MarkersDistinct
      <3>8. \/ next[chain[1]] = chain[1 + 1]
            \/ \E t \in Thread : pc[t] = "link" /\ prev[t] = chain[1]
        BY <2>i, <3>6 DEF ChainLinked
      <3>9. PICK t \in Thread : pc[t] = "link" /\ prev[t] = tail
        BY <3>1, <3>4, <3>7, <3>8
      <3> QED BY <3>1, <3>9 DEF Thread
    <2>2. ASSUME ppc # "gone", ppc' = "gone"
          PROVE  tail' \in Marker /\ (tail' = ClosedMarker => ~HasNodes')
      <3>1. dropping /\ (DequeueUntil \/ ClearNothing \/ ClearSwap)
        BY <1>2, <2>2, DropSteps
      <3>2. tail' \in Marker
        <4>1. CASE DequeueUntil
          BY <1>2, <2>i, <3>1, <4>1, MarkersDistinct DEF DequeueUntil, Dropping, TypeOK
        <4>2. CASE ClearNothing
          BY <1>2, <3>1, <4>2 DEF ClearNothing, PollerAt, Dropping, listVars
        <4>3. CASE ClearSwap
          BY <1>2, <3>1, <4>3 DEF ClearSwap, SwapMarker, PollerAt, Dropping, Marker
        <4> QED BY <3>1, <4>1, <4>2, <4>3
      <3>3. ASSUME tail' = ClosedMarker, NEW n \in Node, InChain(n)'
            PROVE  FALSE
        <4>1. TypeOK' /\ ChainLinked' /\ MarkersPlaced'
          BY <1>2, NextIInv DEF IInv
        <4>2. PICK i \in 1..Len(chain') : chain'[i] = n
          BY <3>3 DEF InChain
        <4>3. Len(chain') \in Nat /\ Len(chain') > 0
          <5>1. chain' \in Seq(Ptr)
            BY <4>1 DEF TypeOK
          <5> QED BY <4>1, <5>1 DEF ChainLinked
        <4>4. 1 \in 1..Len(chain') /\ chain'[1] = ClosedMarker
          BY <3>3, <4>1, <4>3 DEF ChainLinked
        <4>5. 1 = Len(chain')
          BY <4>1, <4>4 DEF MarkersPlaced
        <4>6. i = 1
          BY <4>2, <4>5
        <4> QED BY <4>2, <4>4, <4>6, MarkersDistinct DEF Marker
      <3> QED BY <3>2, <3>3 DEF HasNodes
    <2> QED BY <2>1, <2>2
  <1>3. IInv /\ Dropping /\ [Next]_vars => Dropping'
    BY NextDropping
  <1>4. IInv /\ Dropping /\ [Next]_vars => [Drained]_vars
    BY <1>2
  <1> QED BY <1>1, <1>3, <1>4, Invariance, PTL DEF Spec, DropDrains

-----------------------------------------------------------------------------
(* First in, first out.                                                    *)

\* m was swapped in before n, and both are in the list.
Before(m, n) ==
    \E i, j \in 1..Len(chain) : i < j /\ chain[i] = m /\ chain[j] = n

\* Nodes that stay keep their order, one that comes goes behind all others, and
\* one that leaves leaves nobody who was before it.
OrderKept ==
    \A m, n \in Node :
        /\ Before(m, n) /\ InChain(m)' => Before(m, n)'
        /\ InChain(m) /\ InChain(m)' /\ ~InChain(n) /\ InChain(n)' => Before(m, n)'

\* What the steps do to the list.
LEMMA ChainSteps ==
    ASSUME IInv, [Next]_vars
    PROVE  \/ chain' = chain
           \/ \E x : chain' = Append(chain, x) /\ x \in Ptr /\ ~InChain(x)
           \/ chain' = Tail(chain)
           \/ /\ Len(chain) = 1 /\ chain[1] \in Marker
              /\ Len(chain') = 1 /\ chain'[1] \in Marker
  <1>i. TypeOK /\ ChainLinked /\ Pushes /\ Turn
    BY DEF IInv
  <1>1. CASE \E t \in Thread : EnqSwap(t)
    BY <1>i, <1>1 DEF EnqSwap, Pushes, Pushing, Ptr, Marker
  <1>2. CASE \E t \in Thread :
                \/ EnqStore(t) \/ EnqLoad(t) \/ EnqClosed(t)
                \/ EnqSwapFails(t) \/ EnqLink(t) \/ Wake(t)
    BY <1>2 DEF EnqStore, EnqLoad, EnqClosed, EnqSwapFails, EnqLink, Wake, listVars
  <1>3. CASE \E t \in Producer : \E n \in Node : BeginEnqueue(t, n) \/ BeginDrop(t, n)
    BY <1>3 DEF BeginEnqueue, BeginDrop, listVars
  <1>4. CASE PrepareSwap \/ ClearSwap
    <2>1. PICK from, to \in {EndMarker, SleepMarker} : tail = from /\ SwapMarker(from, to)
      BY <1>i, <1>4 DEF PrepareSwap, ClearSwap, PollerAt, Turn
    <2>2. CASE head # from
      BY <2>1, <2>2 DEF SwapMarker
    <2>3. CASE head = from
      <3>1. Len(chain) = 1 /\ chain[1] = from /\ from \in Marker /\ to \in Marker
        BY <1>i, <2>1, <2>3, ChainIs DEF ChainLinked, Marker
      <3>2. chain' = [chain EXCEPT ![Len(chain)] = to]
        BY <2>1, <2>3 DEF SwapMarker
      <3>3. Len(chain') = 1 /\ chain'[1] = to
        <4>1. chain \in Seq(Ptr) /\ to \in Ptr
          BY <1>i, <3>1 DEF TypeOK, Ptr
        <4> QED BY <3>1, <3>2, <4>1
      <3> QED BY <3>1, <3>3
    <2> QED BY <2>2, <2>3
  <1>5. CASE DequeueSkipMarker \/ DequeueData \/ DequeueAfterEnd
    BY <1>5 DEF DequeueSkipMarker, DequeueData, DequeueAfterEnd, TakeTail
  <1>6. CASE \/ DequeueMarkerOnly \/ DequeueUntil \/ DequeueNoNext \/ DequeueBusy
             \/ DequeueLast \/ DequeueStillBusy \/ ClearNothing \/ ClearStore
    BY <1>6 DEF DequeueMarkerOnly, DequeueUntil, DequeueNoNext, DequeueBusy, DequeueLast,
                DequeueStillBusy, ClearNothing, ClearStore, listVars
  <1>7. CASE HandleNode
    BY <1>7 DEF HandleNode, NodeDropped, NodeClosed, NodeRequeued, NodeDequeued, listVars
  <1>8. CASE PrepareKeeps \/ PrepareStore \/ Select \/ SelectInterrupted \/ SelectElapsed \/ Cleanup
    BY <1>8 DEF PrepareKeeps, PrepareStore, Select, SelectNotify, SelectOther, SelectInterrupted,
                SelectElapsed, Cleanup, listVars
  <1>9. CASE EnterPoll \/ BeginClose \/ \E zero \in BOOLEAN : BeginPoll(zero)
    BY <1>9 DEF EnterPoll, BeginClose, BeginPoll, listVars
  <1>10. CASE UNCHANGED vars
    BY <1>10 DEF vars, listVars
  <1>11. CASE PollerEnqueue
    BY <1>1, <1>2, <1>11 DEF PollerEnqueue, Thread
  <1>12. CASE \E t \in Producer : ProducerStep(t)
    BY <1>1, <1>2, <1>12 DEF ProducerStep, Thread
  <1>13. CASE Dequeue
    BY <1>4, <1>5, <1>6, <1>13 DEF Dequeue
  <1>14. CASE Prepare
    BY <1>4, <1>8, <1>14 DEF Prepare
  <1> QED
    BY <1>3, <1>7, <1>8, <1>9, <1>10, <1>11, <1>12, <1>13, <1>14 DEF Next, PollerStep

\* The queue is first in, first out, in the order of the swaps, for any number
\* of producers: no interleaving of swaps, links, markers and requeued nodes
\* lets one node overtake another.
THEOREM FirstInFirstOut ==
    Spec => [][OrderKept]_vars
  <1>1. ASSUME IInv, [Next]_vars
        PROVE  OrderKept
    <2>i. TypeOK /\ ChainLinked
      BY <1>1 DEF IInv
    <2> SUFFICES ASSUME NEW m \in Node, NEW n \in Node
                 PROVE  /\ Before(m, n) /\ InChain(m)' => Before(m, n)'
                        /\ InChain(m) /\ InChain(m)' /\ ~InChain(n) /\ InChain(n)' => Before(m, n)'
      BY DEF OrderKept
    <2> DEFINE k == Len(chain)
    <2>1. /\ k \in Nat /\ k > 0 /\ chain \in Seq(Ptr)
          /\ \A i, j \in 1..k : chain[i] = chain[j] => i = j
      BY <2>i, ChainIs DEF ChainLinked, TypeOK
    <2>2. CASE chain' = chain
      BY <2>2 DEF Before, InChain
    <2>3. CASE \E x : chain' = Append(chain, x) /\ x \in Ptr /\ ~InChain(x)
      <3>1. PICK x : chain' = Append(chain, x) /\ x \in Ptr /\ ~InChain(x)
        BY <2>3
      <3>2. /\ Len(chain') = k + 1
            /\ \A i \in 1..k : chain'[i] = chain[i]
            /\ chain'[k + 1] = x
        BY <2>1, <3>1
      <3>3. /\ \A i \in 1..k : i \in 1..Len(chain') /\ i < k + 1
            /\ k + 1 \in 1..Len(chain')
            /\ \A i \in 1..Len(chain') : i \in 1..k \/ i = k + 1
        BY <2>1, <3>2
      <3>4. Before(m, n) => Before(m, n)'
        BY <3>2, <3>3 DEF Before
      <3>5. ASSUME InChain(m), ~InChain(n), InChain(n)'
            PROVE  Before(m, n)'
        <4>1. PICK i \in 1..k : chain[i] = m
          BY <3>5 DEF InChain
        <4>2. n = x
          BY <3>2, <3>3, <3>5 DEF InChain
        <4> QED BY <3>2, <3>3, <4>1, <4>2 DEF Before
      <3> QED BY <3>4, <3>5
    <2>4. CASE chain' = Tail(chain)
      <3>1. /\ Len(chain') = k - 1
            /\ \A i \in 1..(k - 1) : chain'[i] = chain[i + 1]
        BY <2>1, <2>4
      <3>2. \A i \in 1..Len(chain') : i + 1 \in 1..k /\ i + 1 # 1 /\ chain'[i] = chain[i + 1]
        BY <2>1, <3>1
      <3>3. \A p : InChain(p)' => InChain(p)
        BY <3>2 DEF InChain
      <3>4. ASSUME Before(m, n), InChain(m)'
            PROVE  Before(m, n)'
        <4>1. PICK i \in 1..k, j \in 1..k : i < j /\ chain[i] = m /\ chain[j] = n
          BY <3>4 DEF Before
        <4>2. PICK h \in 1..Len(chain') : chain'[h] = m
          BY <3>4 DEF InChain
        <4>3. i = h + 1
          BY <2>1, <3>2, <4>1, <4>2
        <4>4. /\ i - 1 \in 1..(k - 1) /\ j - 1 \in 1..(k - 1) /\ i - 1 < j - 1
              /\ (i - 1) + 1 = i /\ (j - 1) + 1 = j
          BY <2>1, <3>1, <4>1, <4>2, <4>3
        <4>5. chain'[i - 1] = m /\ chain'[j - 1] = n
          BY <3>1, <4>1, <4>4
        <4>6. i - 1 \in 1..Len(chain') /\ j - 1 \in 1..Len(chain')
          BY <3>1, <4>4
        <4> QED BY <4>4, <4>5, <4>6 DEF Before
      <3> QED BY <3>3, <3>4
    <2>5. CASE /\ Len(chain) = 1 /\ chain[1] \in Marker
               /\ Len(chain') = 1 /\ chain'[1] \in Marker
      <3>1. ~InChain(m)'
        BY <2>5, MarkersDistinct DEF InChain
      <3> QED BY <3>1
    <2> QED BY <1>1, <2>2, <2>3, <2>4, <2>5, ChainSteps
  <1> QED BY <1>1, Invariance, PTL DEF Spec


=============================================================================
