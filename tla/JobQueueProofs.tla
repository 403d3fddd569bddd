--------------------------- MODULE JobQueueProofs ---------------------------
(***************************************************************************)
(* Proofs about JobQueue, for any jobs, threads and capacity of Events.    *)
(*                                                                         *)
(* The inductive invariant follows the owners.  A node has three kinds of  *)
(* references (the handles s, the handles r, the queue's), r and s are     *)
(* held by the caller and by the closure, and the closure is in the node,  *)
(* in the batch or being dropped: each is tied to the position of the      *)
(* thread that will let go of it.                                          *)
(***************************************************************************)
EXTENDS JobQueue, TLAPS

\* t is at one of the positions ps of enqueue_job or of a drop, for j.
Busy(t, j, ps) == mine[t] = j /\ pc[t] \in ps

Calling(j, ps) == \E t \in Thread : ByCaller(t) /\ Busy(t, j, ps)
Clearing(j, ps) == ~ByCaller(Loop) /\ Busy(Loop, j, ps)
Leaving(j) == \E t \in Thread : Busy(t, j, {"pushDropped", "releaseReg"})
Repushing(j) == \E t \in Thread : Busy(t, j, {"pushDropped"})

\* Where the threads can be.
Threads ==
    /\ \A t \in Thread : IF pc[t] = "idle" THEN mine[t] = NoJob ELSE mine[t] \in made
    /\ pc[Loop] # "idle" => lpc \in {"job", "clear"}
    /\ lpc = "clear" => pc[Loop] # "push"
    /\ closed => lpc = "done" /\ \A t \in Thread : pc[t] = "idle"
    /\ \A t, u \in Thread :
         ByCaller(t) /\ ByCaller(u) /\ mine[t] = mine[u] /\ pc[t] # "idle" => t = u
    /\ \A t, u \in Thread : \A j \in Job :
         Busy(t, j, {"pushDropped", "releaseReg"}) /\ Busy(u, j, {"pushDropped", "releaseReg"}) => t = u

\* j has been begun.
HasRun(j) == \E i \in DOMAIN ran : ran[i] = j

\* Who has r and s.
Handles(j) ==
    /\ "caller" \in regs[j] <=> Calling(j, {"push", "dropSet", "dropReg"})
    /\ "caller" \in sets[j] <=> Calling(j, {"push", "dropSet"})
    /\ "closure" \in regs[j] <=> j \in stored \/ j \in InBatch \/ Clearing(j, {"dropReg"})
    /\ "closure" \in sets[j] <=>
         "closure" \in regs[j] \/ Clearing(j, {"pushDropped", "releaseReg", "dropSet"})
    /\ Clearing(j, {"dropSet"}) => "closure" \notin regs[j]
    /\ j \in dropped <=> j \in made /\ regs[j] = {}
    /\ Leaving(j) => regs[j] = {}

\* Where the closure and the node are.
Places(j) ==
    /\ j \in stored => /\ j \notin InBatch /\ ~Clearing(j, {"dropReg"}) /\ ~HasRun(j)
                       /\ j \in InQueue \/ Calling(j, {"push"}) \/ closed
    /\ j \in InBatch => ~Clearing(j, {"dropReg"})
    /\ j \in InQueue => j \in queued /\ (j \in stored \/ j \in dropped) /\ ~Repushing(j)
    /\ Calling(j, {"push"}) => j \in stored /\ j \in queued /\ j \notin InQueue
    /\ Repushing(j) => j \in queued
    /\ regs[j] # {} /\ j \notin stored => j \notin queued

\* A job that was not enqueued is nowhere.
Unmade(j) ==
    j \notin made => /\ ref[j] = 0 /\ regs[j] = {} /\ sets[j] = {}
                    /\ j \notin InQueue /\ j \notin InBatch /\ ~HasRun(j)

One(b) == IF b THEN 1 ELSE 0

SetRef(j) == sets[j] # {}
RegRef(j) == regs[j] # {} \/ Leaving(j)
QueueRef(j) == j \in InQueue \/ Repushing(j) \/ (regs[j] # {} /\ ~closed)

\* ref_count is the number of references that exist.
RefExact(j) == ref[j] = One(SetRef(j)) + One(RegRef(j)) + One(QueueRef(j))

JobInv(j) == Handles(j) /\ Places(j) /\ Unmade(j) /\ RefExact(j)

\* The queue and the batch, along the loop's turn.
Batches ==
    /\ \A i, k \in DOMAIN q : q[i] = q[k] => i = k
    /\ \A i, k \in DOMAIN batch : batch[i] = batch[k] => i = k
    /\ lpc \in {"spawned", "sent", "check", "poll", "asleep", "done"} => batch = <<>>
    /\ lpc = "clear" => at = Len(batch)

IInv == TypeOK /\ Threads /\ Batches /\ \A j \in Job : JobInv(j)

-----------------------------------------------------------------------------
(* The two sequences.                                                      *)

\* A push of a node that is not in the queue adds this one and keeps them distinct.
LEMMA QueueGrows ==
    ASSUME q \in Seq(Job), NEW j \in Job, q' = Append(q, j), j \notin InQueue,
           \A i, k \in DOMAIN q : q[i] = q[k] => i = k
    PROVE  /\ q' \in Seq(Job) /\ InQueue' = InQueue \cup {j}
           /\ \A i, k \in DOMAIN q' : q'[i] = q'[k] => i = k
  <1>1. DOMAIN q = 1..Len(q) /\ Len(q) \in Nat
    OBVIOUS
  <1>2. /\ q' \in Seq(Job) /\ DOMAIN q' = 1..(Len(q) + 1)
        /\ \A i \in 1..Len(q) : q'[i] = q[i]
        /\ q'[Len(q) + 1] = j
    OBVIOUS
  <1>3. \A i \in 1..(Len(q) + 1) : i \in 1..Len(q) \/ i = Len(q) + 1
    BY <1>1
  <1>4. \A i \in 1..Len(q) : i \in 1..(Len(q) + 1)
    BY <1>1
  <1>5. Len(q) + 1 \in 1..(Len(q) + 1)
    BY <1>1
  <1>6. \A x : x \in InQueue <=> \E i \in 1..Len(q) : q[i] = x
    BY <1>1 DEF InQueue, Q!Contents
  <1>7. \A x : x \in InQueue' <=> \E i \in 1..(Len(q) + 1) : q'[i] = x
    BY <1>2 DEF InQueue, Q!Contents
  <1>8. \A x : x \in InQueue' <=> x \in InQueue \/ x = j
    BY <1>2, <1>3, <1>4, <1>5, <1>6, <1>7
  <1>9. \A i, k \in DOMAIN q' : q'[i] = q'[k] => i = k
    BY <1>1, <1>2, <1>3, <1>6
  <1> QED BY <1>2, <1>8, <1>9

\* A pop takes the head out and nothing else.
LEMMA QueueShrinks ==
    ASSUME q \in Seq(Job), q # <<>>, q' = Tail(q),
           \A i, k \in DOMAIN q : q[i] = q[k] => i = k
    PROVE  /\ q' \in Seq(Job) /\ Head(q) \in InQueue /\ Head(q) \in Job
           /\ InQueue' = InQueue \ {Head(q)}
           /\ \A i, k \in DOMAIN q' : q'[i] = q'[k] => i = k
  <1>1. /\ DOMAIN q = 1..Len(q) /\ Len(q) \in Nat /\ Len(q) > 0
        /\ Head(q) = q[1] /\ Head(q) \in Job
    OBVIOUS
  <1>2. /\ q' \in Seq(Job) /\ DOMAIN q' = 1..(Len(q) - 1)
        /\ \A i \in 1..(Len(q) - 1) : q'[i] = q[i + 1]
    OBVIOUS
  <1>3. \A i \in 1..(Len(q) - 1) : i + 1 \in 1..Len(q) /\ i + 1 # 1
    BY <1>1
  <1>4. \A i \in 1..Len(q) : i = 1 \/ (i - 1 \in 1..(Len(q) - 1) /\ (i - 1) + 1 = i)
    BY <1>1
  <1>5. 1 \in 1..Len(q)
    BY <1>1
  <1>6. \A x : x \in InQueue <=> \E i \in 1..Len(q) : q[i] = x
    BY <1>1 DEF InQueue, Q!Contents
  <1>7. \A x : x \in InQueue' <=> \E i \in 1..(Len(q) - 1) : q'[i] = x
    BY <1>2 DEF InQueue, Q!Contents
  <1>8. ASSUME NEW x, x \in InQueue' PROVE x \in InQueue /\ x # Head(q)
    <2>1. PICK i \in 1..(Len(q) - 1) : q'[i] = x
      BY <1>7, <1>8
    <2>2. q[i + 1] = x /\ i + 1 \in 1..Len(q) /\ i + 1 # 1
      BY <1>2, <1>3, <2>1
    <2> QED BY <1>1, <1>5, <1>6, <2>2
  <1>9. ASSUME NEW x, x \in InQueue, x # Head(q) PROVE x \in InQueue'
    <2>1. PICK i \in 1..Len(q) : q[i] = x
      BY <1>6, <1>9
    <2>2. i - 1 \in 1..(Len(q) - 1) /\ (i - 1) + 1 = i
      BY <1>1, <1>4, <1>9, <2>1
    <2>3. q'[i - 1] = x
      BY <1>2, <2>1, <2>2
    <2> QED BY <1>7, <2>2, <2>3
  <1>10. ASSUME NEW i \in DOMAIN q', NEW k \in DOMAIN q', q'[i] = q'[k] PROVE i = k
    <2>1. i \in 1..(Len(q) - 1) /\ k \in 1..(Len(q) - 1)
      BY <1>2
    <2>2. i + 1 = k + 1
      BY <1>1, <1>2, <1>3, <1>10, <2>1
    <2> QED BY <2>1, <2>2, <1>1
  <1> QED BY <1>1, <1>2, <1>5, <1>6, <1>8, <1>9, <1>10

\* The same of a closure that goes into the batch ...
LEMMA BatchGrows ==
    ASSUME batch \in Seq(Job), NEW j \in Job, batch' = Append(batch, j), j \notin InBatch,
           \A i, k \in DOMAIN batch : batch[i] = batch[k] => i = k
    PROVE  /\ batch' \in Seq(Job) /\ InBatch' = InBatch \cup {j} /\ Len(batch') = Len(batch) + 1
           /\ \A i, k \in DOMAIN batch' : batch'[i] = batch'[k] => i = k
  <1>1. DOMAIN batch = 1..Len(batch) /\ Len(batch) \in Nat
    OBVIOUS
  <1>2. /\ batch' \in Seq(Job) /\ DOMAIN batch' = 1..(Len(batch) + 1) /\ Len(batch') = Len(batch) + 1
        /\ \A i \in 1..Len(batch) : batch'[i] = batch[i]
        /\ batch'[Len(batch) + 1] = j
    OBVIOUS
  <1>3. \A i \in 1..(Len(batch) + 1) : i \in 1..Len(batch) \/ i = Len(batch) + 1
    BY <1>1
  <1>4. \A i \in 1..Len(batch) : i \in 1..(Len(batch) + 1)
    BY <1>1
  <1>5. Len(batch) + 1 \in 1..(Len(batch) + 1)
    BY <1>1
  <1>6. \A x : x \in InBatch <=> \E i \in 1..Len(batch) : batch[i] = x
    BY <1>1 DEF InBatch
  <1>7. \A x : x \in InBatch' <=> \E i \in 1..(Len(batch) + 1) : batch'[i] = x
    BY <1>2 DEF InBatch
  <1>8. \A x : x \in InBatch' <=> x \in InBatch \/ x = j
    BY <1>2, <1>3, <1>4, <1>5, <1>6, <1>7
  <1>9. \A i, k \in DOMAIN batch' : batch'[i] = batch'[k] => i = k
    BY <1>1, <1>2, <1>3, <1>6
  <1> QED BY <1>2, <1>8, <1>9

\* ... and of one that is cleared from it.
LEMMA BatchShrinks ==
    ASSUME batch \in Seq(Job), batch # <<>>, batch' = Tail(batch),
           \A i, k \in DOMAIN batch : batch[i] = batch[k] => i = k
    PROVE  /\ batch' \in Seq(Job) /\ Head(batch) \in InBatch /\ Head(batch) \in Job
           /\ Len(batch) \in Nat /\ Len(batch) > 0 /\ Len(batch') = Len(batch) - 1
           /\ InBatch' = InBatch \ {Head(batch)}
           /\ \A i, k \in DOMAIN batch' : batch'[i] = batch'[k] => i = k
  <1>1. /\ DOMAIN batch = 1..Len(batch) /\ Len(batch) \in Nat /\ Len(batch) > 0
        /\ Head(batch) = batch[1] /\ Head(batch) \in Job
    OBVIOUS
  <1>2. /\ batch' \in Seq(Job) /\ DOMAIN batch' = 1..(Len(batch) - 1) /\ Len(batch') = Len(batch) - 1
        /\ \A i \in 1..(Len(batch) - 1) : batch'[i] = batch[i + 1]
    OBVIOUS
  <1>3. \A i \in 1..(Len(batch) - 1) : i + 1 \in 1..Len(batch) /\ i + 1 # 1
    BY <1>1
  <1>4. \A i \in 1..Len(batch) : i = 1 \/ (i - 1 \in 1..(Len(batch) - 1) /\ (i - 1) + 1 = i)
    BY <1>1
  <1>5. 1 \in 1..Len(batch)
    BY <1>1
  <1>6. \A x : x \in InBatch <=> \E i \in 1..Len(batch) : batch[i] = x
    BY <1>1 DEF InBatch
  <1>7. \A x : x \in InBatch' <=> \E i \in 1..(Len(batch) - 1) : batch'[i] = x
    BY <1>2 DEF InBatch
  <1>8. ASSUME NEW x, x \in InBatch' PROVE x \in InBatch /\ x # Head(batch)
    <2>1. PICK i \in 1..(Len(batch) - 1) : batch'[i] = x
      BY <1>7, <1>8
    <2>2. batch[i + 1] = x /\ i + 1 \in 1..Len(batch) /\ i + 1 # 1
      BY <1>2, <1>3, <2>1
    <2> QED BY <1>1, <1>5, <1>6, <2>2
  <1>9. ASSUME NEW x, x \in InBatch, x # Head(batch) PROVE x \in InBatch'
    <2>1. PICK i \in 1..Len(batch) : batch[i] = x
      BY <1>6, <1>9
    <2>2. i - 1 \in 1..(Len(batch) - 1) /\ (i - 1) + 1 = i
      BY <1>1, <1>4, <1>9, <2>1
    <2>3. batch'[i - 1] = x
      BY <1>2, <2>1, <2>2
    <2> QED BY <1>7, <2>2, <2>3
  <1>10. ASSUME NEW i \in DOMAIN batch', NEW k \in DOMAIN batch', batch'[i] = batch'[k] PROVE i = k
    <2>1. i \in 1..(Len(batch) - 1) /\ k \in 1..(Len(batch) - 1)
      BY <1>2
    <2>2. i + 1 = k + 1
      BY <1>1, <1>2, <1>3, <1>10, <2>1
    <2> QED BY <2>1, <2>2, <1>1
  <1> QED BY <1>1, <1>2, <1>5, <1>6, <1>8, <1>9, <1>10


-----------------------------------------------------------------------------
(* What a step leaves alone.                                               *)

\* No thread at j moves, begins or ends.
PlacesKept(j) ==
    \A u \in Thread : mine[u] = j \/ mine'[u] = j =>
        /\ mine'[u] = mine[u] /\ pc'[u] = pc[u]
        /\ ByCaller(u)' <=> ByCaller(u)

\* Nothing that JobInv says of j changes.
Kept(j) ==
    /\ PlacesKept(j)
    /\ ref'[j] = ref[j] /\ regs'[j] = regs[j] /\ sets'[j] = sets[j]
    /\ j \in made' <=> j \in made
    /\ j \in queued' <=> j \in queued
    /\ j \in dropped' <=> j \in dropped
    /\ j \in stored' <=> j \in stored
    /\ j \in InQueue' <=> j \in InQueue
    /\ j \in InBatch' <=> j \in InBatch
    /\ HasRun(j)' <=> HasRun(j)

\* When no thread at j moves, who calls, clears and leaves j stays the same.
LEMMA SamePlaces ==
    ASSUME NEW j \in Job, NEW ps, PlacesKept(j)
    PROVE  /\ Calling(j, ps)' <=> Calling(j, ps)
           /\ Clearing(j, ps)' <=> Clearing(j, ps)
           /\ Leaving(j)' <=> Leaving(j)
           /\ Repushing(j)' <=> Repushing(j)
  <1>1. Loop \in Thread
    BY DEF Thread
  <1>2. ASSUME NEW u \in Thread, NEW qs
        PROVE  /\ Busy(u, j, qs)' <=> Busy(u, j, qs)
               /\ Busy(u, j, qs) => (ByCaller(u)' <=> ByCaller(u))
    BY DEF PlacesKept, Busy
  <1>3. Calling(j, ps)' <=> Calling(j, ps)
    BY <1>2 DEF Calling
  <1>4. Clearing(j, ps)' <=> Clearing(j, ps)
    BY <1>1, <1>2 DEF Clearing
  <1>5. Leaving(j)' <=> Leaving(j)
    BY <1>2 DEF Leaving
  <1>6. Repushing(j)' <=> Repushing(j)
    BY <1>2 DEF Repushing
  <1> QED BY <1>3, <1>4, <1>5, <1>6

\* A step that is about other jobs preserves the invariant of j.
LEMMA OtherJob ==
    ASSUME NEW j \in Job, Kept(j), closed' = closed, JobInv(j)
    PROVE  JobInv(j)'
  <1>1. PlacesKept(j)
    BY DEF Kept
  <1>2. \A ps : /\ Calling(j, ps)' <=> Calling(j, ps)
                /\ Clearing(j, ps)' <=> Clearing(j, ps)
    BY <1>1, SamePlaces
  <1>3. /\ Leaving(j)' <=> Leaving(j)
        /\ Repushing(j)' <=> Repushing(j)
    BY <1>1, SamePlaces
  <1>4. Handles(j)'
    BY <1>2, <1>3 DEF Kept, JobInv, Handles
  <1>5. Places(j)'
    BY <1>2, <1>3 DEF Kept, JobInv, Places
  <1>6. Unmade(j)'
    BY DEF Kept, JobInv, Unmade
  <1>7. RefExact(j)'
    <2>1. SetRef(j)' <=> SetRef(j)
      BY DEF Kept, SetRef
    <2>2. RegRef(j)' <=> RegRef(j)
      BY <1>3 DEF Kept, RegRef
    <2>3. QueueRef(j)' <=> QueueRef(j)
      BY <1>3 DEF Kept, QueueRef
    <2> QED BY <2>1, <2>2, <2>3 DEF Kept, JobInv, RefExact, One
  <1> QED BY <1>4, <1>5, <1>6, <1>7 DEF JobInv

-----------------------------------------------------------------------------
(* A step of one thread.                                                   *)

\* Only t moves.
Moves(t) ==
    /\ lpc' = lpc
    /\ \A u \in Thread : u # t => pc'[u] = pc[u] /\ mine'[u] = mine[u]

\* A step of t is about no other job than its own.
LEMMA MovesKeeps ==
    ASSUME NEW t \in Thread, NEW j \in Job, Moves(t), mine[t] # j, mine'[t] # j
    PROVE  PlacesKept(j)
  BY DEF Moves, PlacesKept, ByCaller

\* The positions of j when its caller t moves.
LEMMA CallerMoves ==
    ASSUME NEW t \in Thread, NEW j \in Job, NEW ps, Threads, Moves(t),
           ByCaller(t), mine[t] = j, pc[t] # "idle"
    PROVE  /\ Calling(j, ps) <=> pc[t] \in ps
           /\ Calling(j, ps)' <=> mine'[t] = j /\ pc'[t] \in ps
           /\ Clearing(j, ps)' <=> Clearing(j, ps)
  <1>1. \A u \in Thread : ByCaller(u)' <=> ByCaller(u)
    BY DEF Moves, ByCaller
  <1>2. \A u \in Thread : ByCaller(u) /\ mine[u] = j => u = t
    BY DEF Threads
  <1>3. Calling(j, ps) <=> pc[t] \in ps
    BY <1>2 DEF Calling, Busy
  <1>4. Calling(j, ps)' <=> mine'[t] = j /\ pc'[t] \in ps
    BY <1>1, <1>2 DEF Calling, Busy, Moves
  <1>5. Clearing(j, ps)' <=> Clearing(j, ps)
    <2>1. Loop \in Thread
      BY DEF Thread
    <2>2. CASE t = Loop
      BY <1>1, <2>1, <2>2 DEF Clearing
    <2>3. CASE t # Loop
      BY <1>1, <2>1, <2>3 DEF Clearing, Busy, Moves
    <2> QED BY <2>2, <2>3
  <1> QED BY <1>3, <1>4, <1>5

\* The same when the loop's thread drops the closure of j.
LEMMA ClosureMoves ==
    ASSUME NEW j \in Job, NEW ps, Moves(Loop), ~ByCaller(Loop), mine[Loop] = j
    PROVE  /\ Clearing(j, ps) <=> pc[Loop] \in ps
           /\ Clearing(j, ps)' <=> mine'[Loop] = j /\ pc'[Loop] \in ps
           /\ Calling(j, ps)' <=> Calling(j, ps)
  <1>1. \A u \in Thread : ByCaller(u)' <=> ByCaller(u)
    BY DEF Moves, ByCaller
  <1>2. Loop \in Thread
    BY DEF Thread
  <1>3. Clearing(j, ps) <=> pc[Loop] \in ps
    BY DEF Clearing, Busy
  <1>4. Clearing(j, ps)' <=> mine'[Loop] = j /\ pc'[Loop] \in ps
    BY <1>1, <1>2 DEF Clearing, Busy
  <1>5. Calling(j, ps)' <=> Calling(j, ps)
    BY <1>1 DEF Calling, Busy, Moves
  <1> QED BY <1>3, <1>4, <1>5

\* The last holder of r is the only one to leave.
LEMMA OneLeaves ==
    ASSUME TypeOK, Threads, NEW t \in Thread, NEW j \in Job, JobInv(j), mine[t] = j,
           \/ pc[t] \in {"pushDropped", "releaseReg"}
           \/ regs[j] # {}
    PROVE  \A u \in Thread : Busy(u, j, {"pushDropped", "releaseReg"}) => u = t
  <1>1. CASE pc[t] \in {"pushDropped", "releaseReg"}
    BY <1>1 DEF Threads, Busy
  <1>2. CASE regs[j] # {}
    BY <1>2 DEF JobInv, Handles, Leaving
  <1> QED BY <1>1, <1>2

\* Whether j is being left depends on t alone, before and after its step.
LEMMA LeavingMoves ==
    ASSUME NEW t \in Thread, NEW j \in Job, Moves(t), mine[t] = j,
           \A u \in Thread : Busy(u, j, {"pushDropped", "releaseReg"}) => u = t
    PROVE  /\ Leaving(j) <=> pc[t] \in {"pushDropped", "releaseReg"}
           /\ Repushing(j) <=> pc[t] = "pushDropped"
           /\ Leaving(j)' <=> mine'[t] = j /\ pc'[t] \in {"pushDropped", "releaseReg"}
           /\ Repushing(j)' <=> mine'[t] = j /\ pc'[t] = "pushDropped"
  <1>1. \A u \in Thread : Busy(u, j, {"pushDropped"}) => u = t
    BY DEF Busy
  <1>2. \A u \in Thread : Busy(u, j, {"pushDropped", "releaseReg"})' => u = t
    BY DEF Busy, Moves
  <1>3. \A u \in Thread : Busy(u, j, {"pushDropped"})' => u = t
    BY <1>1 DEF Busy, Moves
  <1>4. /\ Leaving(j) <=> pc[t] \in {"pushDropped", "releaseReg"}
        /\ Leaving(j)' <=> mine'[t] = j /\ pc'[t] \in {"pushDropped", "releaseReg"}
    BY <1>2 DEF Leaving, Busy
  <1>5. /\ Repushing(j) <=> pc[t] = "pushDropped"
        /\ Repushing(j)' <=> mine'[t] = j /\ pc'[t] = "pushDropped"
    BY <1>1, <1>3 DEF Repushing, Busy
  <1> QED BY <1>4, <1>5

\* t goes on, or is done.
LEMMA MovesThreads ==
    ASSUME TypeOK, Threads, NEW t \in Thread, NEW j \in Job, Moves(t),
           mine[t] = j, pc[t] # "idle", made' = made, closed' = closed,
           \/ pc'[t] = "idle" /\ mine'[t] = NoJob
           \/ pc'[t] \in {"dropSet", "dropReg", "pushDropped", "releaseReg"} /\ mine'[t] = j,
           pc'[t] \in {"pushDropped", "releaseReg"} =>
             \A u \in Thread : Busy(u, j, {"pushDropped", "releaseReg"}) => u = t
    PROVE  Threads'
  <1> USE JobAssumption
  <1>1. \A u \in Thread : ByCaller(u)' <=> ByCaller(u)
    BY DEF Moves, ByCaller
  <1>2. \A u \in Thread : IF pc'[u] = "idle" THEN mine'[u] = NoJob ELSE mine'[u] \in made'
    BY DEF Moves, Threads
  <1>3. /\ pc'[Loop] # "idle" => lpc' \in {"job", "clear"}
        /\ lpc' = "clear" => pc'[Loop] # "push"
    BY DEF Moves, Threads, Thread
  <1>4. ~closed'
    BY DEF Threads
  <1>5. ASSUME NEW u \in Thread, NEW v \in Thread,
               ByCaller(u), ByCaller(v), mine'[u] = mine'[v], pc'[u] # "idle"
        PROVE  u = v
    <2>1. mine'[u] # NoJob
      BY <1>5, <1>2 DEF TypeOK
    <2>2. mine[u] = mine[v] /\ pc[u] # "idle"
      BY <1>5, <2>1 DEF Moves
    <2> QED BY <1>5, <2>2 DEF Threads
  <1>6. ASSUME NEW u \in Thread, NEW v \in Thread, NEW i \in Job,
               Busy(u, i, {"pushDropped", "releaseReg"})', Busy(v, i, {"pushDropped", "releaseReg"})'
        PROVE  u = v
    <2>1. CASE u # t /\ v # t
      BY <1>6, <2>1 DEF Moves, Busy, Threads
    <2>2. CASE u = t
      BY <1>6, <2>2 DEF Moves, Busy
    <2>3. CASE v = t
      BY <1>6, <2>3 DEF Moves, Busy
    <2> QED BY <2>1, <2>2, <2>3
  <1> QED BY <1>1, <1>2, <1>3, <1>4, <1>5, <1>6 DEF Threads

\* There are three kinds of references, so that an exact ref_count is at most 3.
LEMMA RefInRange ==
    ASSUME DOMAIN ref' = Job, ref' = [j \in Job |-> ref'[j]], \A j \in Job : JobInv(j)'
    PROVE  ref' \in [Job -> 0..3]
  <1>1. \A j \in Job : One(SetRef(j)') \in 0..1 /\ One(RegRef(j)') \in 0..1 /\ One(QueueRef(j)') \in 0..1
    BY DEF One
  <1>2. \A j \in Job : ref'[j] = One(SetRef(j)') + One(RegRef(j)') + One(QueueRef(j)')
    BY DEF JobInv, RefExact, One
  <1>3. \A j \in Job : ref'[j] \in 0..3
    BY <1>1, <1>2
  <1> QED BY <1>3

-----------------------------------------------------------------------------
(* enqueue_job and the drops.                                              *)

\* A new node, known to its caller only, with all its three references.
LEMMA EnqueueJobKeeps ==
    ASSUME IInv, NEW t \in Thread, NEW j \in Job, EnqueueJob(t, j)
    PROVE  IInv'
  <1> USE JobAssumption
  <1>1. /\ TypeOK /\ Threads /\ Batches /\ \A i \in Job : JobInv(i)
        /\ pc[t] = "idle" /\ mine[t] = NoJob /\ j \notin made /\ ~closed /\ ByCaller(t)
        /\ j # NoJob
    BY DEF IInv, EnqueueJob, Active, At, ByCaller, Threads
  <1>2. /\ pc' = [pc EXCEPT ![t] = "push"] /\ mine' = [mine EXCEPT ![t] = j]
        /\ q' = q /\ closed' = closed /\ sleeping' = sleeping /\ lpc' = lpc /\ run' = run
        /\ batch' = batch /\ at' = at /\ ran' = ran /\ dropped' = dropped
        /\ made' = made \cup {j} /\ queued' = queued \cup {j} /\ stored' = stored \cup {j}
        /\ ref' = [ref EXCEPT ![j] = 3]
        /\ regs' = [regs EXCEPT ![j] = {"caller", "closure"}]
        /\ sets' = [sets EXCEPT ![j] = {"caller", "closure"}]
    BY DEF EnqueueJob, queueVars, batchVars
  <1>3. /\ pc \in [Thread -> {"idle", "push", "dropSet", "dropReg", "pushDropped", "releaseReg"}]
        /\ mine \in [Thread -> Job \cup {NoJob}]
    BY <1>1 DEF TypeOK
  <1>4. /\ Moves(t) /\ pc'[t] = "push" /\ mine'[t] = j
        /\ pc' \in [Thread -> {"idle", "push", "dropSet", "dropReg", "pushDropped", "releaseReg"}]
        /\ mine' \in [Thread -> Job \cup {NoJob}]
    BY <1>2, <1>3 DEF Moves
  <1>5. /\ InQueue' = InQueue /\ InBatch' = InBatch
        /\ \A i \in Job : HasRun(i)' <=> HasRun(i)
    BY <1>2 DEF InQueue, Q!Contents, InBatch, HasRun
  <1>6. \A u \in Thread : mine[u] # j
    BY <1>1 DEF Threads
  <1>7. TypeOK'
    <2>1. ref' \in [Job -> 0..3]
      BY <1>1, <1>2 DEF TypeOK
    <2>2. /\ regs' \in [Job -> SUBSET {"caller", "closure"}]
          /\ sets' \in [Job -> SUBSET {"caller", "closure"}]
      BY <1>1, <1>2 DEF TypeOK
    <2> QED BY <1>1, <1>2, <1>4, <2>1, <2>2 DEF TypeOK
  <1>8. Threads'
    <2>1. \A u \in Thread : ByCaller(u)' <=> ByCaller(u)
      BY <1>2 DEF ByCaller
    <2>2. \A u \in Thread : IF pc'[u] = "idle" THEN mine'[u] = NoJob ELSE mine'[u] \in made'
      BY <1>1, <1>2, <1>4 DEF Threads, Moves
    <2>3. /\ pc'[Loop] # "idle" => lpc' \in {"job", "clear"}
          /\ lpc' = "clear" => pc'[Loop] # "push"
      BY <1>1, <1>4 DEF Threads, Moves, Thread, ByCaller
    <2>4. ASSUME NEW u \in Thread, NEW v \in Thread,
                 ByCaller(u), ByCaller(v), mine'[u] = mine'[v], pc'[u] # "idle"
          PROVE  u = v
      BY <1>1, <1>4, <1>6, <2>4 DEF Threads, Moves
    <2>5. ASSUME NEW u \in Thread, NEW v \in Thread, NEW i \in Job,
                 Busy(u, i, {"pushDropped", "releaseReg"})', Busy(v, i, {"pushDropped", "releaseReg"})'
          PROVE  u = v
      BY <1>1, <1>4, <1>6, <2>5 DEF Threads, Moves, Busy
    <2> QED BY <1>1, <1>2, <2>1, <2>2, <2>3, <2>4, <2>5 DEF Threads
  <1>9. Batches'
    BY <1>1, <1>2 DEF Batches
  <1>10. ASSUME NEW i \in Job, i # j PROVE JobInv(i)'
    <2>1. PlacesKept(i)
      BY <1>1, <1>4, <1>10, MovesKeeps
    <2>2. /\ ref'[i] = ref[i] /\ regs'[i] = regs[i] /\ sets'[i] = sets[i]
      BY <1>1, <1>2, <1>10 DEF TypeOK
    <2>3. Kept(i)
      BY <1>2, <1>5, <1>10, <2>1, <2>2 DEF Kept
    <2> QED BY <1>1, <1>2, <2>3, OtherJob
  <1>11. JobInv(j)'
    <2>1. \A ps : /\ Calling(j, ps)' <=> "push" \in ps
                  /\ ~Clearing(j, ps)'
      BY <1>1, <1>4, <1>6 DEF Calling, Clearing, Busy, Moves, Thread, ByCaller
    <2>2. ~Leaving(j)' /\ ~Repushing(j)'
      BY <1>4, <1>6 DEF Leaving, Repushing, Busy, Moves
    <2>3. /\ ref'[j] = 3 /\ regs'[j] = {"caller", "closure"} /\ sets'[j] = {"caller", "closure"}
      BY <1>1, <1>2 DEF TypeOK
    <2>4. /\ j \notin InQueue /\ j \notin InBatch /\ ~HasRun(j)
          /\ j \notin dropped
      BY <1>1 DEF JobInv, Unmade, TypeOK
    <2>5. Handles(j)'
      BY <1>2, <1>5, <2>1, <2>2, <2>3, <2>4 DEF Handles
    <2>6. Places(j)'
      BY <1>2, <1>5, <2>1, <2>2, <2>3, <2>4 DEF Places
    <2>7. Unmade(j)'
      BY <1>2 DEF Unmade
    <2>8. RefExact(j)'
      BY <1>1, <1>2, <2>3 DEF RefExact, One, SetRef, RegRef, QueueRef
    <2> QED BY <2>5, <2>6, <2>7, <2>8 DEF JobInv
  <1> QED BY <1>7, <1>8, <1>9, <1>10, <1>11 DEF IInv

\* The push of enqueue_job: the node was not in the queue.
LEMMA PushKeeps ==
    ASSUME IInv, NEW t \in Thread, Push(t)
    PROVE  IInv'
  <1> USE JobAssumption
  <1> DEFINE j == mine[t]
  <1>1. /\ TypeOK /\ Threads /\ Batches /\ \A i \in Job : JobInv(i)
        /\ pc[t] = "push" /\ j \in made /\ j \in Job
        /\ pc[t] # "idle"
    BY DEF IInv, Push, At, Threads, TypeOK
  <1>2. /\ pc' = [pc EXCEPT ![t] = "dropSet"] /\ mine' = mine
        /\ q' = Append(q, j) /\ j \notin InQueue /\ closed' = closed /\ sleeping' = sleeping
        /\ made' = made /\ ref' = ref /\ queued' = queued /\ dropped' = dropped
        /\ stored' = stored /\ regs' = regs /\ sets' = sets
        /\ batch' = batch /\ at' = at /\ ran' = ran /\ run' = run /\ lpc' = lpc
    BY DEF Push, Q!Push, Goto, nodeVars, batchVars, InQueue
  <1>3. /\ Moves(t) /\ pc'[t] = "dropSet" /\ mine'[t] = j
        /\ pc' \in [Thread -> {"idle", "push", "dropSet", "dropReg", "pushDropped", "releaseReg"}]
    BY <1>1, <1>2 DEF Moves, TypeOK
  <1>4. ByCaller(t)
    BY <1>1 DEF Threads, ByCaller
  <1>5. /\ q' \in Seq(Job) /\ InQueue' = InQueue \cup {j}
        /\ \A i, k \in DOMAIN q' : q'[i] = q'[k] => i = k
    <2>1. /\ q \in Seq(Job)
          /\ \A i, k \in DOMAIN q : q[i] = q[k] => i = k
      BY <1>1 DEF TypeOK, Batches
    <2> HIDE DEF j
    <2> QED BY <1>1, <1>2, <2>1, QueueGrows
  <1>6. /\ InBatch' = InBatch
        /\ \A i \in Job : HasRun(i)' <=> HasRun(i)
    BY <1>2 DEF InBatch, HasRun
  <1>7. TypeOK'
    BY <1>1, <1>2, <1>3, <1>5 DEF TypeOK
  <1>8. Threads'
    BY <1>1, <1>2, <1>3, MovesThreads
  <1>9. Batches'
    BY <1>1, <1>2, <1>5 DEF Batches
  <1>10. ASSUME NEW i \in Job, i # j PROVE JobInv(i)'
    <2>1. PlacesKept(i)
      BY <1>1, <1>3, <1>10, MovesKeeps
    <2>3. Kept(i)
      BY <1>2, <1>5, <1>6, <1>10, <2>1 DEF Kept
    <2> QED BY <1>1, <1>2, <2>3, OtherJob
  <1>11. ASSUME NEW i \in Job, i = j PROVE JobInv(i)'
    <2>1. \A ps : /\ Calling(i, ps) <=> "push" \in ps
                  /\ Calling(i, ps)' <=> "dropSet" \in ps
                  /\ Clearing(i, ps)' <=> Clearing(i, ps)
      BY <1>1, <1>3, <1>4, <1>11, CallerMoves
    <2>2. JobInv(i) /\ "caller" \in regs[i]
      BY <1>1, <2>1 DEF JobInv, Handles
    <2>3. /\ ~Leaving(i) /\ ~Repushing(i) /\ ~Leaving(i)' /\ ~Repushing(i)'
      <3>1. \A u \in Thread : Busy(u, i, {"pushDropped", "releaseReg"}) => u = t
        BY <1>1, <1>11, <2>2, OneLeaves
      <3> QED BY <1>1, <1>3, <1>11, <3>1, LeavingMoves
    <2>5. Handles(i)'
      BY <1>2, <1>6, <2>1, <2>2, <2>3 DEF Handles, JobInv
    <2>6. Places(i)'
      BY <1>2, <1>5, <1>6, <1>11, <2>1, <2>2, <2>3 DEF Places, JobInv
    <2>7. Unmade(i)'
      BY <1>1, <1>2, <1>11 DEF Unmade
    <2>8. RefExact(i)'
      <3>1. ~closed
        BY <1>1 DEF Threads
      <3>2. (SetRef(i)' <=> SetRef(i)) /\ (RegRef(i)' <=> RegRef(i)) /\ (QueueRef(i)' <=> QueueRef(i))
        BY <1>2, <2>2, <2>3, <3>1 DEF SetRef, RegRef, QueueRef
      <3> QED BY <1>2, <2>2, <3>2 DEF RefExact, One, JobInv
    <2> QED BY <2>5, <2>6, <2>7, <2>8 DEF JobInv
  <1> QED BY <1>7, <1>8, <1>9, <1>10, <1>11 DEF IInv

\* The drop of s, by the caller or by the closure.
LEMMA DropSetKeeps ==
    ASSUME IInv, NEW t \in Thread, DropSet(t)
    PROVE  IInv'
  <1> USE JobAssumption
  <1> DEFINE j == mine[t]
  <1>1. /\ TypeOK /\ Threads /\ Batches /\ \A i \in Job : JobInv(i)
        /\ pc[t] = "dropSet" /\ j \in made /\ j \in Job /\ j # NoJob
        /\ pc[t] # "idle"
    BY DEF IInv, DropSet, At, Threads, TypeOK
  <1>2. /\ sets' = [sets EXCEPT ![j] = @ \ {Holder(t)}]
        /\ IF sets'[j] = {} THEN ref' = [ref EXCEPT ![j] = @ - 1] ELSE ref' = ref
        /\ q' = q /\ closed' = closed /\ sleeping' = sleeping
        /\ made' = made /\ queued' = queued /\ dropped' = dropped
        /\ stored' = stored /\ regs' = regs
        /\ batch' = batch /\ at' = at /\ ran' = ran /\ run' = run /\ lpc' = lpc
    BY DEF DropSet, queueVars, batchVars, Release
  <1>3. /\ Moves(t)
        /\ pc' \in [Thread -> {"idle", "push", "dropSet", "dropReg", "pushDropped", "releaseReg"}]
        /\ mine' \in [Thread -> Job \cup {NoJob}]
        /\ IF ByCaller(t) THEN pc'[t] = "dropReg" /\ mine'[t] = j
                          ELSE pc'[t] = "idle" /\ mine'[t] = NoJob
    BY <1>1, <1>2 DEF Moves, TypeOK, DropSet, Goto
  <1>4. /\ InQueue' = InQueue /\ InBatch' = InBatch
        /\ \A i \in Job : HasRun(i)' <=> HasRun(i)
    BY <1>2 DEF InQueue, Q!Contents, InBatch, HasRun
  <1>5. /\ sets' \in [Job -> SUBSET {"caller", "closure"}]
        /\ sets'[j] = sets[j] \ {Holder(t)}
        /\ \A i \in Job : i # j => sets'[i] = sets[i] /\ ref'[i] = ref[i]
        /\ ref'[j] = IF sets'[j] = {} THEN ref[j] - 1 ELSE ref[j]
        /\ DOMAIN ref' = Job /\ ref' = [i \in Job |-> ref'[i]]
    BY <1>1, <1>2 DEF TypeOK
  <1>8. Threads'
    BY <1>1, <1>2, <1>3, MovesThreads
  <1>9. Batches'
    BY <1>1, <1>2 DEF Batches
  <1>10. ASSUME NEW i \in Job, i # j PROVE JobInv(i)'
    <2>1. PlacesKept(i)
      BY <1>1, <1>3, <1>10, MovesKeeps
    <2>3. Kept(i)
      BY <1>2, <1>4, <1>5, <1>10, <2>1 DEF Kept
    <2> QED BY <1>1, <1>2, <2>3, OtherJob
  <1>11. ASSUME NEW i \in Job, i = j PROVE JobInv(i)'
    <2>0. JobInv(i) /\ regs'[i] = regs[i] /\ regs[i] \subseteq {"caller", "closure"}
      BY <1>1, <1>2 DEF TypeOK
    <2>1. /\ Leaving(i)' <=> Leaving(i)
          /\ Repushing(i)' <=> Repushing(i)
      BY <1>1, <1>3, <1>11 DEF Leaving, Repushing, Busy, Moves
    <2>2. ASSUME ByCaller(t) PROVE Handles(i)' /\ Places(i)' /\ sets[i] # {}
      <3>1. \A ps : /\ Calling(i, ps) <=> "dropSet" \in ps
                    /\ Calling(i, ps)' <=> "dropReg" \in ps
                    /\ Clearing(i, ps)' <=> Clearing(i, ps)
        BY <1>1, <1>3, <1>11, <2>2, CallerMoves
      <3>2. /\ "caller" \in sets[i] /\ "caller" \in regs[i] /\ "caller" \notin sets'[i]
            /\ "closure" \in sets'[i] <=> "closure" \in sets[i]
        BY <1>5, <1>11, <2>0, <2>2, <3>1 DEF JobInv, Handles, Holder
      <3>3. Handles(i)'
        BY <1>2, <1>4, <2>0, <2>1, <3>1, <3>2 DEF Handles, JobInv
      <3>4. Places(i)'
        BY <1>2, <1>4, <2>0, <2>1, <3>1 DEF Places, JobInv
      <3> QED BY <3>2, <3>3, <3>4
    <2>3. ASSUME ~ByCaller(t) PROVE Handles(i)' /\ Places(i)' /\ sets[i] # {}
      <3>0. t = Loop
        BY <2>3 DEF ByCaller
      <3>1. \A ps : /\ Clearing(i, ps) <=> "dropSet" \in ps
                    /\ ~Clearing(i, ps)'
                    /\ Calling(i, ps)' <=> Calling(i, ps)
        BY <1>1, <1>3, <1>11, <2>3, <3>0, ClosureMoves
      <3>2. /\ "closure" \in sets[i] /\ "closure" \notin sets'[i] /\ "closure" \notin regs[i]
            /\ "caller" \in sets'[i] <=> "caller" \in sets[i]
        BY <1>5, <1>11, <2>0, <2>3, <3>1 DEF JobInv, Handles, Holder
      <3>3. Handles(i)'
        BY <1>2, <1>4, <2>0, <2>1, <3>1, <3>2 DEF Handles, JobInv
      <3>4. Places(i)'
        BY <1>2, <1>4, <2>0, <2>1, <3>1 DEF Places, JobInv
      <3> QED BY <3>2, <3>3, <3>4
    <2>4. Handles(i)' /\ Places(i)' /\ sets[i] # {}
      BY <2>2, <2>3
    <2>7. Unmade(i)'
      BY <1>1, <1>2, <1>11 DEF Unmade
    <2>8. RefExact(i)'
      <3>1. /\ RegRef(i)' <=> RegRef(i)
            /\ QueueRef(i)' <=> QueueRef(i)
        BY <1>2, <1>4, <2>1 DEF RegRef, QueueRef
      <3>2. SetRef(i) /\ (SetRef(i)' <=> sets'[i] # {})
        BY <2>4 DEF SetRef
      <3>3. ref[i] = One(SetRef(i)) + One(RegRef(i)) + One(QueueRef(i))
        BY <2>0 DEF RefExact, JobInv
      <3> QED BY <1>5, <1>11, <3>1, <3>2, <3>3 DEF RefExact, One
    <2> QED BY <2>4, <2>7, <2>8 DEF JobInv
  <1>12. \A i \in Job : JobInv(i)'
    BY <1>10, <1>11
  <1>13. TypeOK'
    <2>1. ref' \in [Job -> 0..3]
      BY <1>5, <1>12, RefInRange
    <2> QED BY <1>1, <1>2, <1>3, <1>5, <2>1 DEF TypeOK
  <1> QED BY <1>8, <1>9, <1>12, <1>13 DEF IInv

\* The drop of r: the last holder finds the node out of the queue and will push it.
LEMMA DropRegKeeps ==
    ASSUME IInv, NEW t \in Thread, DropReg(t)
    PROVE  IInv'
  <1> USE JobAssumption
  <1> DEFINE j == mine[t]
             last == regs[j] = {Holder(t)}
             next == IF last THEN "pushDropped" ELSE Dropped(t)
  <1>1. /\ TypeOK /\ Threads /\ Batches /\ \A i \in Job : JobInv(i)
        /\ pc[t] = "dropReg" /\ j \in made /\ j \in Job /\ j # NoJob
        /\ pc[t] # "idle"
    BY DEF IInv, DropReg, At, Threads, TypeOK
  <1>2. /\ regs' = [regs EXCEPT ![j] = @ \ {Holder(t)}]
        /\ dropped' = IF last THEN dropped \cup {j} ELSE dropped
        /\ queued' = IF last THEN queued \cup {j} ELSE queued
        /\ q' = q /\ closed' = closed /\ sleeping' = sleeping
        /\ made' = made /\ ref' = ref /\ stored' = stored /\ sets' = sets
        /\ batch' = batch /\ at' = at /\ ran' = ran /\ run' = run /\ lpc' = lpc
    BY DEF DropReg, queueVars, batchVars
  <1>3. /\ regs' \in [Job -> SUBSET {"caller", "closure"}]
        /\ regs'[j] = regs[j] \ {Holder(t)}
        /\ \A i \in Job : i # j => regs'[i] = regs[i]
    BY <1>1, <1>2 DEF TypeOK
  <1>4. /\ InQueue' = InQueue /\ InBatch' = InBatch
        /\ \A i \in Job : HasRun(i)' <=> HasRun(i)
    BY <1>2 DEF InQueue, Q!Contents, InBatch, HasRun
  \* Whoever has r has left the queue alone: only the stored job is in it.
  <1>5. /\ Holder(t) \in regs[j]
        /\ \A u \in Thread : Busy(u, j, {"pushDropped", "releaseReg"}) => u = t
        /\ last => j \notin queued /\ j \notin stored /\ j \notin InQueue /\ j \notin InBatch
    <2> SUFFICES ASSUME NEW i \in Job, i = j
                 PROVE  /\ Holder(t) \in regs[i]
                        /\ \A u \in Thread : Busy(u, i, {"pushDropped", "releaseReg"}) => u = t
                        /\ regs[i] = {Holder(t)} =>
                             i \notin queued /\ i \notin stored /\ i \notin InQueue /\ i \notin InBatch
      BY <1>1
    <2>0. JobInv(i)
      BY <1>1
    <2>1. CASE ByCaller(t)
      <3>1. Calling(i, {"push", "dropSet", "dropReg"}) /\ Holder(t) = "caller"
        BY <1>1, <2>1 DEF Calling, Busy, Holder
      <3> QED BY <2>0, <3>1 DEF JobInv, Handles, Places, Leaving
    <2>2. CASE ~ByCaller(t)
      <3>1. Clearing(i, {"dropReg"}) /\ Holder(t) = "closure"
        BY <1>1, <2>2 DEF Clearing, Busy, Holder, ByCaller
      <3> QED BY <2>0, <3>1 DEF JobInv, Handles, Places, Leaving
    <2> QED BY <2>1, <2>2
  <1>6. /\ Moves(t)
        /\ pc' \in [Thread -> {"idle", "push", "dropSet", "dropReg", "pushDropped", "releaseReg"}]
        /\ mine' \in [Thread -> Job \cup {NoJob}]
        /\ pc'[t] = next
        /\ mine'[t] = IF next = "idle" THEN NoJob ELSE j
    <2>1. Goto(t, next)
      BY <1>5 DEF DropReg
    <2>2. next \in {"idle", "dropSet", "pushDropped"}
      BY DEF Dropped
    <2> HIDE DEF next
    <2> QED BY <1>1, <1>2, <2>1, <2>2 DEF Moves, TypeOK, Goto
  <1>7. TypeOK'
    BY <1>1, <1>2, <1>3, <1>6 DEF TypeOK
  <1>8. Threads'
    BY <1>1, <1>2, <1>5, <1>6, MovesThreads DEF Dropped
  <1>9. Batches'
    BY <1>1, <1>2 DEF Batches
  <1>10. ASSUME NEW i \in Job, i # j PROVE JobInv(i)'
    <2>1. PlacesKept(i)
      BY <1>1, <1>6, <1>10, MovesKeeps
    <2>3. Kept(i)
      BY <1>2, <1>3, <1>4, <1>10, <2>1 DEF Kept
    <2> QED BY <1>1, <1>2, <2>3, OtherJob
  <1>11. ASSUME NEW i \in Job, i = j PROVE JobInv(i)'
    <2>0. /\ JobInv(i) /\ regs[i] \subseteq {"caller", "closure"} /\ ~closed
          /\ last <=> regs'[i] = {}
      BY <1>1, <1>3, <1>5, <1>11 DEF TypeOK, Threads
    <2>1. /\ ~Leaving(i) /\ ~Repushing(i)
          /\ Leaving(i)' <=> last
          /\ Repushing(i)' <=> last
      BY <1>1, <1>5, <1>6, <1>11, LeavingMoves DEF Dropped
    <2>2. ASSUME ByCaller(t) PROVE Handles(i)' /\ Places(i)'
      <3>0. Holder(t) = "caller" /\ next \in {"pushDropped", "idle"}
        BY <2>2 DEF Holder, Dropped
      <3>1. \A ps : /\ Calling(i, ps) <=> "dropReg" \in ps
                    /\ Clearing(i, ps)' <=> Clearing(i, ps)
        BY <1>1, <1>6, <1>11, <2>2, CallerMoves
      <3>2. \A ps : Calling(i, ps)' => pc'[t] \in ps
        BY <1>1, <1>6, <1>11, <2>2, CallerMoves
      <3>3. /\ ~Calling(i, {"push", "dropSet", "dropReg"})' /\ ~Calling(i, {"push", "dropSet"})'
            /\ ~Calling(i, {"push"})'
        BY <1>6, <3>0, <3>2
      <3>4. "caller" \notin regs'[i] /\ ("closure" \in regs'[i] <=> "closure" \in regs[i])
        BY <1>3, <1>11, <3>0
      <3>5. Handles(i)'
        BY <1>1, <1>2, <1>4, <1>5, <1>11, <2>0, <2>1, <3>1, <3>3, <3>4 DEF Handles, JobInv
      <3>6. Places(i)'
        BY <1>2, <1>4, <1>5, <1>11, <2>0, <2>1, <3>1, <3>3, <3>4 DEF Places, Handles, JobInv
      <3> QED BY <3>5, <3>6
    <2>3. ASSUME ~ByCaller(t) PROVE Handles(i)' /\ Places(i)'
      <3>0. t = Loop /\ Holder(t) = "closure" /\ next \in {"pushDropped", "dropSet"}
        BY <2>3 DEF ByCaller, Holder, Dropped
      <3>1. \A ps : /\ Clearing(i, ps) <=> "dropReg" \in ps
                    /\ Clearing(i, ps)' <=> next \in ps
                    /\ Calling(i, ps)' <=> Calling(i, ps)
        BY <1>1, <1>6, <1>11, <2>3, <3>0, ClosureMoves
      <3>4. "closure" \notin regs'[i] /\ ("caller" \in regs'[i] <=> "caller" \in regs[i])
        BY <1>3, <1>11, <3>0
      <3>5. Handles(i)'
        BY <1>1, <1>2, <1>4, <1>5, <1>11, <2>0, <2>1, <3>0, <3>1, <3>4 DEF Handles, JobInv, Places
      <3>6. Places(i)'
        BY <1>2, <1>4, <1>5, <1>11, <2>0, <2>1, <3>0, <3>1, <3>4 DEF Places, Handles, JobInv
      <3> QED BY <3>5, <3>6
    <2>7. Unmade(i)'
      BY <1>1, <1>2, <1>11 DEF Unmade
    <2>8. RefExact(i)'
      <3>1. /\ RegRef(i)' /\ RegRef(i)
            /\ QueueRef(i)' /\ QueueRef(i)
            /\ SetRef(i)' <=> SetRef(i)
        BY <1>2, <1>4, <1>5, <1>11, <2>0, <2>1 DEF RegRef, QueueRef, SetRef
      <3> QED BY <1>2, <2>0, <3>1 DEF RefExact, One, JobInv
    <2> QED BY <2>2, <2>3, <2>7, <2>8 DEF JobInv
  <1> QED BY <1>7, <1>8, <1>9, <1>10, <1>11 DEF IInv

\* The push of a dropped node, which nobody else pushes.
LEMMA PushDroppedKeeps ==
    ASSUME IInv, NEW t \in Thread, PushDropped(t)
    PROVE  IInv'
  <1> USE JobAssumption
  <1> DEFINE j == mine[t]
  <1>1. /\ TypeOK /\ Threads /\ Batches /\ \A i \in Job : JobInv(i)
        /\ pc[t] = "pushDropped" /\ j \in made /\ j \in Job
        /\ pc[t] # "idle" /\ ~closed
    BY DEF IInv, PushDropped, At, Threads, TypeOK
  <1>2. /\ pc' = [pc EXCEPT ![t] = "releaseReg"] /\ mine' = mine
        /\ q' = Append(q, j) /\ j \notin InQueue /\ closed' = closed /\ sleeping' = sleeping
        /\ made' = made /\ ref' = ref /\ queued' = queued /\ dropped' = dropped
        /\ stored' = stored /\ regs' = regs /\ sets' = sets
        /\ batch' = batch /\ at' = at /\ ran' = ran /\ run' = run /\ lpc' = lpc
    BY DEF PushDropped, Q!Push, Goto, nodeVars, batchVars, InQueue
  <1>3. /\ Moves(t) /\ pc'[t] = "releaseReg" /\ mine'[t] = j
        /\ pc' \in [Thread -> {"idle", "push", "dropSet", "dropReg", "pushDropped", "releaseReg"}]
    BY <1>1, <1>2 DEF Moves, TypeOK
  <1>4. \A u \in Thread : Busy(u, j, {"pushDropped", "releaseReg"}) => u = t
    BY <1>1, OneLeaves
  <1>5. /\ q' \in Seq(Job) /\ InQueue' = InQueue \cup {j}
        /\ \A i, k \in DOMAIN q' : q'[i] = q'[k] => i = k
    <2>1. /\ q \in Seq(Job)
          /\ \A i, k \in DOMAIN q : q[i] = q[k] => i = k
      BY <1>1 DEF TypeOK, Batches
    <2> HIDE DEF j
    <2> QED BY <1>1, <1>2, <2>1, QueueGrows
  <1>6. /\ InBatch' = InBatch
        /\ \A i \in Job : HasRun(i)' <=> HasRun(i)
    BY <1>2 DEF InBatch, HasRun
  <1>7. TypeOK'
    BY <1>1, <1>2, <1>3, <1>5 DEF TypeOK
  <1>8. Threads'
    BY <1>1, <1>2, <1>3, <1>4, MovesThreads
  <1>9. Batches'
    BY <1>1, <1>2, <1>5 DEF Batches
  <1>10. ASSUME NEW i \in Job, i # j PROVE JobInv(i)'
    <2>1. PlacesKept(i)
      BY <1>1, <1>3, <1>10, MovesKeeps
    <2>3. Kept(i)
      BY <1>2, <1>5, <1>6, <1>10, <2>1 DEF Kept
    <2> QED BY <1>1, <1>2, <2>3, OtherJob
  <1>11. ASSUME NEW i \in Job, i = j PROVE JobInv(i)'
    <2>0. JobInv(i)
      BY <1>1
    <2>1. /\ Leaving(i) /\ Repushing(i) /\ Leaving(i)' /\ ~Repushing(i)'
      BY <1>1, <1>3, <1>4, <1>11, LeavingMoves
    <2>2. /\ regs[i] = {} /\ i \in queued /\ i \in dropped /\ i \notin stored
      BY <1>1, <1>11, <2>0, <2>1 DEF JobInv, Handles, Places
    <2>3. ASSUME ByCaller(t) PROVE Handles(i)' /\ Places(i)'
      <3>1. \A ps : /\ Calling(i, ps) <=> "pushDropped" \in ps
                    /\ Calling(i, ps)' <=> "releaseReg" \in ps
                    /\ Clearing(i, ps)' <=> Clearing(i, ps)
        BY <1>1, <1>3, <1>11, <2>3, CallerMoves
      <3>2. Handles(i)'
        BY <1>2, <1>6, <2>0, <2>1, <3>1 DEF Handles, JobInv
      <3>3. Places(i)'
        BY <1>2, <1>5, <1>6, <1>11, <2>0, <2>1, <2>2, <3>1 DEF Places, JobInv
      <3> QED BY <3>2, <3>3
    <2>4. ASSUME ~ByCaller(t) PROVE Handles(i)' /\ Places(i)'
      <3>0. t = Loop
        BY <2>4 DEF ByCaller
      <3>1. \A ps : /\ Clearing(i, ps) <=> "pushDropped" \in ps
                    /\ Clearing(i, ps)' <=> "releaseReg" \in ps
                    /\ Calling(i, ps)' <=> Calling(i, ps)
        BY <1>1, <1>3, <1>11, <2>4, <3>0, ClosureMoves
      <3>2. Handles(i)'
        BY <1>2, <1>6, <2>0, <2>1, <3>1 DEF Handles, JobInv
      <3>3. Places(i)'
        BY <1>2, <1>5, <1>6, <1>11, <2>0, <2>1, <2>2, <3>1 DEF Places, JobInv
      <3> QED BY <3>2, <3>3
    <2>7. Unmade(i)'
      BY <1>1, <1>2, <1>11 DEF Unmade
    <2>8. RefExact(i)'
      <3>1. /\ RegRef(i) /\ RegRef(i)' /\ QueueRef(i) /\ QueueRef(i)'
            /\ SetRef(i)' <=> SetRef(i)
        BY <1>2, <1>5, <1>11, <2>1 DEF SetRef, RegRef, QueueRef
      <3> QED BY <1>2, <2>0, <3>1 DEF RefExact, One, JobInv
    <2> QED BY <2>3, <2>4, <2>7, <2>8 DEF JobInv
  <1> QED BY <1>7, <1>8, <1>9, <1>10, <1>11 DEF IInv

\* The reference of r is given back, after the push.
LEMMA ReleaseRegKeeps ==
    ASSUME IInv, NEW t \in Thread, ReleaseReg(t)
    PROVE  IInv'
  <1> USE JobAssumption
  <1> DEFINE j == mine[t]
  <1>1. /\ TypeOK /\ Threads /\ Batches /\ \A i \in Job : JobInv(i)
        /\ pc[t] = "releaseReg" /\ j \in made /\ j \in Job /\ j # NoJob
        /\ pc[t] # "idle"
    BY DEF IInv, ReleaseReg, At, Threads, TypeOK
  <1>2. /\ ref' = [ref EXCEPT ![j] = @ - 1]
        /\ q' = q /\ closed' = closed /\ sleeping' = sleeping
        /\ made' = made /\ queued' = queued /\ dropped' = dropped
        /\ stored' = stored /\ regs' = regs /\ sets' = sets
        /\ batch' = batch /\ at' = at /\ ran' = ran /\ run' = run /\ lpc' = lpc
    BY DEF ReleaseReg, queueVars, batchVars, Release
  <1>3. /\ Moves(t)
        /\ pc' \in [Thread -> {"idle", "push", "dropSet", "dropReg", "pushDropped", "releaseReg"}]
        /\ mine' \in [Thread -> Job \cup {NoJob}]
        /\ IF ByCaller(t) THEN pc'[t] = "idle" /\ mine'[t] = NoJob
                          ELSE pc'[t] = "dropSet" /\ mine'[t] = j
    BY <1>1, <1>2 DEF Moves, TypeOK, ReleaseReg, Goto, Dropped
  <1>4. /\ InQueue' = InQueue /\ InBatch' = InBatch
        /\ \A i \in Job : HasRun(i)' <=> HasRun(i)
    BY <1>2 DEF InQueue, Q!Contents, InBatch, HasRun
  <1>5. /\ ref'[j] = ref[j] - 1
        /\ \A i \in Job : i # j => ref'[i] = ref[i]
        /\ DOMAIN ref' = Job /\ ref' = [i \in Job |-> ref'[i]]
    BY <1>1, <1>2 DEF TypeOK
  <1>6. \A u \in Thread : Busy(u, j, {"pushDropped", "releaseReg"}) => u = t
    BY <1>1, OneLeaves
  <1>8. Threads'
    BY <1>1, <1>2, <1>3, MovesThreads
  <1>9. Batches'
    BY <1>1, <1>2 DEF Batches
  <1>10. ASSUME NEW i \in Job, i # j PROVE JobInv(i)'
    <2>1. PlacesKept(i)
      BY <1>1, <1>3, <1>10, MovesKeeps
    <2>3. Kept(i)
      BY <1>2, <1>4, <1>5, <1>10, <2>1 DEF Kept
    <2> QED BY <1>1, <1>2, <2>3, OtherJob
  <1>11. ASSUME NEW i \in Job, i = j PROVE JobInv(i)'
    <2>0. JobInv(i)
      BY <1>1
    <2>1. /\ Leaving(i) /\ ~Repushing(i) /\ ~Leaving(i)' /\ ~Repushing(i)'
      BY <1>1, <1>3, <1>6, <1>11, LeavingMoves
    <2>2. regs[i] = {}
      BY <2>0, <2>1 DEF JobInv, Handles
    <2>3. ASSUME ByCaller(t) PROVE Handles(i)' /\ Places(i)'
      <3>1. \A ps : /\ Calling(i, ps) <=> "releaseReg" \in ps
                    /\ ~Calling(i, ps)'
                    /\ Clearing(i, ps)' <=> Clearing(i, ps)
        BY <1>1, <1>3, <1>11, <2>3, CallerMoves
      <3>2. Handles(i)'
        BY <1>2, <1>4, <2>0, <2>1, <3>1 DEF Handles, JobInv
      <3>3. Places(i)'
        BY <1>2, <1>4, <2>0, <2>1, <3>1 DEF Places, JobInv
      <3> QED BY <3>2, <3>3
    <2>4. ASSUME ~ByCaller(t) PROVE Handles(i)' /\ Places(i)'
      <3>0. t = Loop
        BY <2>4 DEF ByCaller
      <3>1. \A ps : /\ Clearing(i, ps) <=> "releaseReg" \in ps
                    /\ Clearing(i, ps)' <=> "dropSet" \in ps
                    /\ Calling(i, ps)' <=> Calling(i, ps)
        BY <1>1, <1>3, <1>11, <2>4, <3>0, ClosureMoves
      <3>2. Handles(i)'
        BY <1>2, <1>4, <2>0, <2>1, <2>2, <3>1 DEF Handles, JobInv
      <3>3. Places(i)'
        BY <1>2, <1>4, <2>0, <2>1, <3>1 DEF Places, JobInv
      <3> QED BY <3>2, <3>3
    <2>7. Unmade(i)'
      BY <1>1, <1>2, <1>11 DEF Unmade
    <2>8. RefExact(i)'
      <3>1. /\ RegRef(i) /\ ~RegRef(i)'
            /\ SetRef(i)' <=> SetRef(i)
            /\ QueueRef(i)' <=> QueueRef(i)
        BY <1>2, <1>4, <2>1, <2>2 DEF SetRef, RegRef, QueueRef
      <3>2. ref[i] = One(SetRef(i)) + One(RegRef(i)) + One(QueueRef(i))
        BY <2>0 DEF RefExact, JobInv
      <3> QED BY <1>5, <1>11, <3>1, <3>2 DEF RefExact, One
    <2> QED BY <2>3, <2>4, <2>7, <2>8 DEF JobInv
  <1>12. \A i \in Job : JobInv(i)'
    BY <1>10, <1>11
  <1>13. TypeOK'
    <2>1. ref' \in [Job -> 0..3]
      BY <1>5, <1>12, RefInRange
    <2> QED BY <1>1, <1>2, <1>3, <2>1 DEF TypeOK
  <1> QED BY <1>8, <1>9, <1>12, <1>13 DEF IInv

-----------------------------------------------------------------------------
(* The loop's thread.                                                      *)

\* The steps of the turn itself, which move no thread and no job.
LEMMA TurnKeeps ==
    ASSUME IInv, UNCHANGED <<q, closed, nodeVars, batch, at, ran, threadVars>>,
           sleeping' \in BOOLEAN, run' \in BOOLEAN,
           \/ lpc' = lpc
           \/ pc[Loop] = "idle" /\ ~closed,
           lpc' \in {"spawned", "sent", "check", "poll", "asleep", "drain", "process", "job",
                     "clear", "done"},
           lpc' \in {"spawned", "sent", "check", "poll", "asleep", "done"} => batch = <<>>,
           lpc' = "clear" => at = Len(batch)
    PROVE  IInv'
  <1> USE JobAssumption
  <1>1. /\ TypeOK /\ Threads /\ Batches /\ \A i \in Job : JobInv(i)
    BY DEF IInv
  <1>2. /\ q' = q /\ closed' = closed /\ made' = made /\ ref' = ref /\ queued' = queued
        /\ dropped' = dropped /\ stored' = stored /\ regs' = regs /\ sets' = sets
        /\ batch' = batch /\ at' = at /\ ran' = ran /\ pc' = pc /\ mine' = mine
    BY DEF nodeVars, threadVars
  <1>3. \A u \in Thread : pc[u] # "idle" => (ByCaller(u)' <=> ByCaller(u))
    BY DEF ByCaller
  <1>4. TypeOK'
    BY <1>1, <1>2 DEF TypeOK
  <1>5. Threads'
    <2>1. \A u \in Thread : IF pc'[u] = "idle" THEN mine'[u] = NoJob ELSE mine'[u] \in made'
      BY <1>1, <1>2 DEF Threads
    <2>2. /\ pc'[Loop] # "idle" => lpc' \in {"job", "clear"}
          /\ lpc' = "clear" => pc'[Loop] # "push"
      BY <1>1, <1>2 DEF Threads
    <2>3. closed' => lpc' = "done" /\ \A t \in Thread : pc'[t] = "idle"
      BY <1>1, <1>2 DEF Threads
    <2>4. ASSUME NEW u \in Thread, NEW v \in Thread,
                 ByCaller(u)', ByCaller(v)', mine'[u] = mine'[v], pc'[u] # "idle"
          PROVE  u = v
      <3>1. pc[v] # "idle"
        BY <1>1, <1>2, <2>4 DEF Threads, TypeOK
      <3> QED BY <1>1, <1>2, <1>3, <2>4, <3>1 DEF Threads
    <2>5. ASSUME NEW u \in Thread, NEW v \in Thread, NEW i \in Job,
                 Busy(u, i, {"pushDropped", "releaseReg"})', Busy(v, i, {"pushDropped", "releaseReg"})'
          PROVE  u = v
      BY <1>1, <1>2, <2>5 DEF Threads, Busy
    <2> QED BY <2>1, <2>2, <2>3, <2>4, <2>5 DEF Threads
  <1>6. Batches'
    BY <1>1, <1>2 DEF Batches
  <1>7. ASSUME NEW i \in Job PROVE JobInv(i)'
    <2>1. PlacesKept(i)
      BY <1>1, <1>2, <1>3 DEF PlacesKept, Threads
    <2>2. InQueue' = InQueue /\ InBatch' = InBatch /\ (HasRun(i)' <=> HasRun(i))
      BY <1>2 DEF InQueue, Q!Contents, InBatch, HasRun
    <2>3. Kept(i)
      BY <1>2, <2>1, <2>2 DEF Kept
    <2> QED BY <1>1, <1>2, <2>3, OtherJob
  <1> QED BY <1>4, <1>5, <1>6, <1>7 DEF IInv

\* Every such step of the loop preserves the invariant.
LEMMA TurnsKeep ==
    ASSUME IInv,
           \/ Build \/ Run \/ CheckRun \/ PollSleeps \/ PollBusy \/ PollWakes
           \/ Drained \/ EndJob \/ BeginClear \/ Cleared
           \/ \E t \in Thread : Shutdown(t)
    PROVE  IInv'
  <1> USE DEF LoopGoto, queueVars, batchVars
  <1>1. /\ sleeping \in BOOLEAN /\ run \in BOOLEAN
        /\ lpc \in {"spawned", "sent", "check", "poll", "asleep", "drain", "process", "job",
                    "clear", "done"}
        /\ pc[Loop] # "idle" => lpc \in {"job", "clear"}
        /\ closed => lpc = "done"
        /\ lpc \in {"spawned", "sent", "check", "poll", "asleep", "done"} => batch = <<>>
        /\ lpc = "clear" => at = Len(batch)
    BY DEF IInv, TypeOK, Threads, Batches
  <1>2. CASE Build
    BY <1>1, <1>2, TurnKeeps DEF Build
  <1>3. CASE Run
    BY <1>1, <1>3, TurnKeeps DEF Run
  <1>4. CASE CheckRun
    BY <1>1, <1>4, TurnKeeps DEF CheckRun
  <1>5. CASE PollSleeps
    BY <1>1, <1>5, TurnKeeps DEF PollSleeps, Q!Sleep
  <1>6. CASE PollBusy
    BY <1>1, <1>6, TurnKeeps DEF PollBusy
  <1>7. CASE PollWakes
    BY <1>1, <1>7, TurnKeeps DEF PollWakes, Q!WakeUp
  <1>8. CASE Drained
    BY <1>1, <1>8, TurnKeeps DEF Drained
  <1>9. CASE EndJob
    BY <1>1, <1>9, TurnKeeps DEF EndJob, LoopQuiet, At
  <1>10. CASE BeginClear
    BY <1>1, <1>10, TurnKeeps DEF BeginClear
  <1>11. CASE Cleared
    BY <1>1, <1>11, TurnKeeps DEF Cleared, LoopQuiet, At
  <1>12. CASE \E t \in Thread : Shutdown(t)
    BY <1>1, <1>12, TurnKeeps DEF Shutdown
  <1> QED BY <1>2, <1>3, <1>4, <1>5, <1>6, <1>7, <1>8, <1>9, <1>10, <1>11, <1>12

\* A job that begins is in the batch, so that its node has no closure any more.
LEMMA BeginJobKeeps ==
    ASSUME IInv, BeginJob
    PROVE  IInv'
  <1> USE JobAssumption
  <1> DEFINE b == batch[at + 1]
  <1>1. /\ TypeOK /\ Threads /\ Batches /\ \A i \in Job : JobInv(i)
        /\ lpc = "process" /\ at < Len(batch) /\ pc[Loop] = "idle" /\ ~closed
    BY DEF IInv, BeginJob, Threads
  <1>2. /\ at' = at + 1 /\ ran' = Append(ran, b) /\ lpc' = "job" /\ sleeping' = sleeping
        /\ q' = q /\ closed' = closed /\ made' = made /\ ref' = ref /\ queued' = queued
        /\ dropped' = dropped /\ stored' = stored /\ regs' = regs /\ sets' = sets
        /\ batch' = batch /\ run' = run /\ pc' = pc /\ mine' = mine
    BY DEF BeginJob, LoopGoto, queueVars, nodeVars, threadVars
  <1>3. /\ at + 1 \in 1..Len(batch) /\ at' \in 0..Len(batch) /\ b \in Job /\ b \in InBatch
    BY <1>1, <1>2 DEF TypeOK, InBatch
  <1>4. ran' \in Seq(Job)
    BY <1>1, <1>2, <1>3 DEF TypeOK
  <1>5. \A i \in Job : HasRun(i)' <=> HasRun(i) \/ i = b
    <2>1. ran \in Seq(Job)
      BY <1>1 DEF TypeOK
    <2>2. /\ DOMAIN ran = 1..Len(ran) /\ Len(ran) \in Nat
          /\ DOMAIN ran' = 1..(Len(ran) + 1)
          /\ \A i \in 1..Len(ran) : ran'[i] = ran[i]
          /\ ran'[Len(ran) + 1] = b
      <3> HIDE DEF b
      <3> QED BY <1>2, <1>3, <2>1
    <2>3. \A i \in 1..(Len(ran) + 1) : i \in 1..Len(ran) \/ i = Len(ran) + 1
      BY <2>2
    <2>4. (\A i \in 1..Len(ran) : i \in 1..(Len(ran) + 1)) /\ Len(ran) + 1 \in 1..(Len(ran) + 1)
      BY <2>2
    <2> QED BY <2>2, <2>3, <2>4 DEF HasRun
  <1>6. b \notin stored /\ b \in made
    BY <1>1, <1>3 DEF JobInv, Places, Unmade
  <1>7. \A u \in Thread : pc[u] # "idle" => (ByCaller(u)' <=> ByCaller(u))
    BY <1>1, <1>2 DEF ByCaller
  <1>8. TypeOK'
    BY <1>1, <1>2, <1>3, <1>4 DEF TypeOK
  <1>9. Threads'
    <2>1. \A u \in Thread : IF pc'[u] = "idle" THEN mine'[u] = NoJob ELSE mine'[u] \in made'
      BY <1>1, <1>2 DEF Threads
    <2>4. ASSUME NEW u \in Thread, NEW v \in Thread,
                 ByCaller(u)', ByCaller(v)', mine'[u] = mine'[v], pc'[u] # "idle"
          PROVE  u = v
      <3>1. pc[v] # "idle"
        BY <1>1, <1>2, <2>4 DEF Threads, TypeOK
      <3> QED BY <1>1, <1>2, <1>7, <2>4, <3>1 DEF Threads
    <2>5. ASSUME NEW u \in Thread, NEW v \in Thread, NEW i \in Job,
                 Busy(u, i, {"pushDropped", "releaseReg"})', Busy(v, i, {"pushDropped", "releaseReg"})'
          PROVE  u = v
      BY <1>1, <1>2, <2>5 DEF Threads, Busy
    <2> QED BY <1>1, <1>2, <2>1, <2>4, <2>5 DEF Threads
  <1>10. Batches'
    BY <1>1, <1>2 DEF Batches
  <1>11. ASSUME NEW i \in Job PROVE JobInv(i)'
    <2>1. PlacesKept(i)
      BY <1>1, <1>2, <1>7 DEF PlacesKept, Threads
    <2>2. InQueue' = InQueue /\ InBatch' = InBatch
      BY <1>2 DEF InQueue, Q!Contents, InBatch
    <2>3. CASE i # b
      <3>1. Kept(i)
        BY <1>2, <1>5, <2>1, <2>2, <2>3 DEF Kept
      <3> QED BY <1>1, <1>2, <3>1, OtherJob
    <2>4. CASE i = b
      <3>1. \A ps : /\ Calling(i, ps)' <=> Calling(i, ps)
                    /\ Clearing(i, ps)' <=> Clearing(i, ps)
        BY <2>1, SamePlaces
      <3>2. (Leaving(i)' <=> Leaving(i)) /\ (Repushing(i)' <=> Repushing(i))
        BY <2>1, SamePlaces
      <3>3. JobInv(i)
        BY <1>1
      <3>4. Handles(i)'
        BY <1>2, <2>2, <3>1, <3>2, <3>3 DEF JobInv, Handles
      <3>5. Places(i)'
        BY <1>2, <1>6, <2>2, <2>4, <3>1, <3>2, <3>3 DEF JobInv, Places
      <3>6. Unmade(i)'
        BY <1>2, <1>6, <2>4 DEF Unmade
      <3>7. RefExact(i)'
        <4>1. (SetRef(i)' <=> SetRef(i)) /\ (RegRef(i)' <=> RegRef(i)) /\ (QueueRef(i)' <=> QueueRef(i))
          BY <1>2, <2>2, <3>2 DEF SetRef, RegRef, QueueRef
        <4> QED BY <1>2, <3>3, <4>1 DEF JobInv, RefExact, One
      <3> QED BY <3>4, <3>5, <3>6, <3>7 DEF JobInv
    <2> QED BY <2>3, <2>4
  <1> QED BY <1>8, <1>9, <1>10, <1>11 DEF IInv

\* A step that takes one node out of the queue and moves no thread.
LEMMA PopKeeps ==
    ASSUME IInv, Q!Pop, UNCHANGED <<made, dropped, regs, sets, run, lpc, threadVars>>
    PROVE  /\ TypeOK /\ \A i \in Job : JobInv(i)
           /\ q' \in Seq(Job) /\ sleeping' = sleeping /\ closed' = closed
           /\ Head(q) \in Job /\ Head(q) \in InQueue /\ InQueue' = InQueue \ {Head(q)}
           /\ \A i, k \in DOMAIN q' : q'[i] = q'[k] => i = k
           /\ \A i \in Job : PlacesKept(i)
           /\ Threads'
  <1>1. /\ TypeOK /\ Threads /\ Batches /\ \A i \in Job : JobInv(i)
        /\ q \in Seq(Job) /\ \A i, k \in DOMAIN q : q[i] = q[k] => i = k
    BY DEF IInv, TypeOK, Batches
  <1>2. q # <<>> /\ q' = Tail(q) /\ sleeping' = sleeping /\ closed' = closed
    BY DEF Q!Pop
  <1>3. /\ q' \in Seq(Job) /\ Head(q) \in InQueue /\ Head(q) \in Job
        /\ InQueue' = InQueue \ {Head(q)}
        /\ \A i, k \in DOMAIN q' : q'[i] = q'[k] => i = k
    BY <1>1, <1>2, QueueShrinks
  <1>4. pc' = pc /\ mine' = mine /\ lpc' = lpc /\ made' = made
    BY DEF threadVars
  <1>5. \A i \in Job : PlacesKept(i)
    BY <1>4 DEF PlacesKept, ByCaller
  <1>6. Threads'
    BY <1>1, <1>2, <1>4 DEF Threads, ByCaller, Busy
  <1> QED BY <1>1, <1>2, <1>3, <1>5, <1>6

\* A taken node is not dropped, so that its closure moves from the node to the batch.
LEMMA TakenJobKeeps ==
    ASSUME IInv, TakeJob
    PROVE  IInv'
  <1> USE JobAssumption
  <1> DEFINE x == Head(q)
  <1>1. /\ lpc = "drain" /\ Len(batch) < Cap /\ x \notin dropped /\ Q!Pop
        /\ queued' = queued \ {x} /\ stored' = stored \ {x} /\ batch' = Append(batch, x)
        /\ made' = made /\ ref' = ref /\ dropped' = dropped /\ regs' = regs /\ sets' = sets
        /\ at' = at /\ ran' = ran /\ run' = run /\ lpc' = lpc /\ pc' = pc /\ mine' = mine
    BY DEF TakeJob, threadVars
  <1>2. /\ TypeOK /\ \A i \in Job : JobInv(i)
        /\ q' \in Seq(Job) /\ sleeping' = sleeping /\ closed' = closed
        /\ x \in Job /\ x \in InQueue /\ InQueue' = InQueue \ {x}
        /\ \A i, k \in DOMAIN q' : q'[i] = q'[k] => i = k
        /\ \A i \in Job : PlacesKept(i)
        /\ Threads'
    BY <1>1, PopKeeps DEF threadVars
  <1>3. /\ x \in stored /\ x \notin InBatch /\ ~Repushing(x) /\ ~Calling(x, {"push"})
        /\ "closure" \in regs[x] /\ ~Clearing(x, {"dropReg"}) /\ x \in made /\ ~closed
    BY <1>1, <1>2 DEF JobInv, Places, Handles, Unmade, IInv, Threads
  <1>4. /\ batch' \in Seq(Job) /\ InBatch' = InBatch \cup {x} /\ Len(batch') = Len(batch) + 1
        /\ \A i, k \in DOMAIN batch' : batch'[i] = batch'[k] => i = k
    <2>1. batch \in Seq(Job) /\ \A i, k \in DOMAIN batch : batch[i] = batch[k] => i = k
      BY DEF IInv, TypeOK, Batches
    <2> HIDE DEF x
    <2> QED BY <1>1, <1>2, <1>3, <2>1, BatchGrows
  <1>5. \A i \in Job : HasRun(i)' <=> HasRun(i)
    BY <1>1 DEF HasRun
  <1>6. TypeOK'
    <2>1. Len(batch') <= Cap /\ at' \in 0..Len(batch')
      BY <1>1, <1>2, <1>4 DEF TypeOK
    <2> QED BY <1>1, <1>2, <1>4, <2>1 DEF TypeOK
  <1>7. Batches'
    BY <1>1, <1>2, <1>4 DEF Batches
  <1>8. ASSUME NEW i \in Job, i # x PROVE JobInv(i)'
    <2>1. Kept(i)
      BY <1>1, <1>2, <1>4, <1>5, <1>8 DEF Kept
    <2> QED BY <1>2, <2>1, OtherJob
  <1>9. ASSUME NEW i \in Job, i = x PROVE JobInv(i)'
    <2>1. \A ps : /\ Calling(i, ps)' <=> Calling(i, ps)
                  /\ Clearing(i, ps)' <=> Clearing(i, ps)
      BY <1>2, SamePlaces
    <2>2. (Leaving(i)' <=> Leaving(i)) /\ (Repushing(i)' <=> Repushing(i))
      BY <1>2, SamePlaces
    <2>3. JobInv(i)
      BY <1>2
    <2>4. Handles(i)'
      BY <1>1, <1>3, <1>4, <1>9, <2>1, <2>2, <2>3 DEF JobInv, Handles
    <2>5. Places(i)'
      BY <1>1, <1>2, <1>3, <1>9, <2>1, <2>2, <2>3 DEF JobInv, Places
    <2>6. Unmade(i)'
      BY <1>1, <1>3, <1>9 DEF Unmade
    <2>7. RefExact(i)'
      <3>1. /\ SetRef(i)' <=> SetRef(i)
            /\ RegRef(i)' <=> RegRef(i)
            /\ QueueRef(i) /\ QueueRef(i)'
        BY <1>1, <1>2, <1>3, <1>9, <2>2 DEF SetRef, RegRef, QueueRef
      <3> QED BY <1>1, <2>3, <3>1 DEF JobInv, RefExact, One
    <2> QED BY <2>4, <2>5, <2>6, <2>7 DEF JobInv
  <1> QED BY <1>2, <1>6, <1>7, <1>8, <1>9 DEF IInv

\* A node is given back when it is taken out for the last time: it was
\* dropped, or the queue is closed.
LEMMA GiveBackKeeps ==
    ASSUME IInv, Q!Pop, Release(Head(q)),
           UNCHANGED <<made, queued, dropped, stored, regs, sets, batchVars, run, lpc, threadVars>>,
           Head(q) \in dropped \/ closed
    PROVE  IInv'
  <1> USE JobAssumption
  <1> DEFINE x == Head(q)
  <1>1. /\ ref' = [ref EXCEPT ![x] = @ - 1]
        /\ made' = made /\ queued' = queued /\ dropped' = dropped /\ stored' = stored
        /\ regs' = regs /\ sets' = sets /\ batch' = batch
        /\ at' = at /\ ran' = ran /\ run' = run /\ lpc' = lpc /\ pc' = pc /\ mine' = mine
    BY DEF threadVars, batchVars, Release
  <1>2. /\ TypeOK /\ \A i \in Job : JobInv(i)
        /\ q' \in Seq(Job) /\ sleeping' = sleeping /\ closed' = closed
        /\ x \in Job /\ x \in InQueue /\ InQueue' = InQueue \ {x}
        /\ \A i, k \in DOMAIN q' : q'[i] = q'[k] => i = k
        /\ \A i \in Job : PlacesKept(i)
        /\ Threads'
    BY <1>1, PopKeeps DEF threadVars
  <1>3. /\ ~Repushing(x) /\ ~Calling(x, {"push"}) /\ x \in made /\ x \in queued
        /\ regs[x] = {} \/ closed
        /\ x \in stored => closed
    BY <1>2 DEF JobInv, Places, Handles, Unmade
  <1>4. /\ ref'[x] = ref[x] - 1
        /\ \A i \in Job : i # x => ref'[i] = ref[i]
        /\ DOMAIN ref' = Job /\ ref' = [i \in Job |-> ref'[i]]
    BY <1>1, <1>2 DEF TypeOK
  <1>5. InBatch' = InBatch /\ \A i \in Job : HasRun(i)' <=> HasRun(i)
    BY <1>1 DEF HasRun, InBatch
  <1>7. Batches'
    BY <1>1, <1>2 DEF IInv, Batches
  <1>8. ASSUME NEW i \in Job, i # x PROVE JobInv(i)'
    <2>1. Kept(i)
      BY <1>1, <1>2, <1>4, <1>5, <1>8 DEF Kept
    <2> QED BY <1>2, <2>1, OtherJob
  <1>9. ASSUME NEW i \in Job, i = x PROVE JobInv(i)'
    <2>1. \A ps : /\ Calling(i, ps)' <=> Calling(i, ps)
                  /\ Clearing(i, ps)' <=> Clearing(i, ps)
      BY <1>2, SamePlaces
    <2>2. (Leaving(i)' <=> Leaving(i)) /\ (Repushing(i)' <=> Repushing(i))
      BY <1>2, SamePlaces
    <2>3. JobInv(i)
      BY <1>2
    <2>4. Handles(i)'
      BY <1>1, <1>5, <2>1, <2>2, <2>3 DEF JobInv, Handles
    <2>5. Places(i)'
      BY <1>1, <1>2, <1>3, <1>5, <1>9, <2>1, <2>2, <2>3 DEF JobInv, Places
    <2>6. Unmade(i)'
      BY <1>1, <1>3, <1>9 DEF Unmade
    <2>7. RefExact(i)'
      <3>1. /\ SetRef(i)' <=> SetRef(i)
            /\ RegRef(i)' <=> RegRef(i)
            /\ QueueRef(i) /\ ~QueueRef(i)'
        BY <1>1, <1>2, <1>3, <1>9, <2>2 DEF SetRef, RegRef, QueueRef
      <3>2. ref[i] = One(SetRef(i)) + One(RegRef(i)) + One(QueueRef(i))
        BY <2>3 DEF RefExact, JobInv
      <3> QED BY <1>4, <1>9, <3>1, <3>2 DEF RefExact, One
    <2> QED BY <2>4, <2>5, <2>6, <2>7 DEF JobInv
  <1>10. \A i \in Job : JobInv(i)'
    BY <1>8, <1>9
  <1>11. TypeOK'
    <2>1. ref' \in [Job -> 0..3]
      BY <1>4, <1>10, RefInRange
    <2> QED BY <1>1, <1>2, <2>1 DEF TypeOK
  <1> QED BY <1>2, <1>7, <1>10, <1>11 DEF IInv

\* The batch's closure is the last clone: its handles are dropped next.
LEMMA ClearOneKeeps ==
    ASSUME IInv, ClearOne
    PROVE  IInv'
  <1> USE JobAssumption
  <1> DEFINE x == Head(batch)
  <1>1. /\ TypeOK /\ Threads /\ Batches /\ \A i \in Job : JobInv(i)
        /\ lpc = "clear" /\ pc[Loop] = "idle" /\ mine[Loop] = NoJob /\ batch # <<>>
        /\ batch' = Tail(batch) /\ at' = at - 1 /\ Loop \in Thread /\ ~closed
        /\ at = Len(batch)
    BY DEF IInv, ClearOne, LoopQuiet, At, Threads, Thread, Batches
  <1>2. /\ q' = q /\ closed' = closed /\ made' = made /\ ref' = ref /\ queued' = queued
        /\ dropped' = dropped /\ stored' = stored /\ regs' = regs /\ sets' = sets
        /\ sleeping' = sleeping /\ ran' = ran /\ run' = run /\ lpc' = lpc
    BY DEF ClearOne, queueVars, nodeVars
  <1>3. /\ batch' \in Seq(Job) /\ x \in InBatch /\ x \in Job
        /\ Len(batch) \in Nat /\ Len(batch) > 0 /\ Len(batch') = Len(batch) - 1
        /\ InBatch' = InBatch \ {x}
        /\ \A i, k \in DOMAIN batch' : batch'[i] = batch'[k] => i = k
    <2>1. batch \in Seq(Job) /\ \A i, k \in DOMAIN batch : batch[i] = batch[k] => i = k
      BY <1>1 DEF TypeOK, Batches
    <2> QED BY <1>1, <2>1, BatchShrinks
  <1>4. x \notin stored /\ x \in made /\ "closure" \in regs[x] /\ ~ByCaller(Loop) /\ x # NoJob
    BY <1>1, <1>3 DEF JobInv, Places, Unmade, Handles, ByCaller
  <1>5. pc' = [pc EXCEPT ![Loop] = "dropReg"] /\ mine' = [mine EXCEPT ![Loop] = x]
    BY <1>4 DEF ClearOne
  <1>6. /\ Moves(Loop) /\ pc'[Loop] = "dropReg" /\ mine'[Loop] = x
        /\ pc' \in [Thread -> {"idle", "push", "dropSet", "dropReg", "pushDropped", "releaseReg"}]
        /\ mine' \in [Thread -> Job \cup {NoJob}]
    BY <1>1, <1>2, <1>3, <1>5 DEF Moves, TypeOK
  <1>7. /\ InQueue' = InQueue
        /\ \A i \in Job : HasRun(i)' <=> HasRun(i)
        /\ \A u \in Thread : ByCaller(u)' <=> ByCaller(u)
    BY <1>2 DEF InQueue, Q!Contents, HasRun, ByCaller
  <1>8. TypeOK'
    <2>1. Len(batch') <= Cap /\ at' \in 0..Len(batch')
      BY <1>1, <1>3 DEF TypeOK
    <2> QED BY <1>1, <1>2, <1>3, <1>6, <2>1 DEF TypeOK
  <1>9. Threads'
    <2>1. \A u \in Thread : IF pc'[u] = "idle" THEN mine'[u] = NoJob ELSE mine'[u] \in made'
      BY <1>1, <1>2, <1>4, <1>6 DEF Threads, Moves
    <2>2. ASSUME NEW u \in Thread, NEW v \in Thread,
                 ByCaller(u), ByCaller(v), mine'[u] = mine'[v], pc'[u] # "idle"
          PROVE  u = v
      BY <1>1, <1>4, <1>6, <2>2 DEF Threads, Moves
    <2>3. ASSUME NEW u \in Thread, NEW v \in Thread, NEW i \in Job,
                 Busy(u, i, {"pushDropped", "releaseReg"})', Busy(v, i, {"pushDropped", "releaseReg"})'
          PROVE  u = v
      BY <1>1, <1>6, <2>3 DEF Threads, Moves, Busy
    <2> QED BY <1>1, <1>2, <1>6, <1>7, <2>1, <2>2, <2>3 DEF Threads
  <1>10. Batches'
    BY <1>1, <1>2, <1>3 DEF Batches
  <1>11. ASSUME NEW i \in Job, i # x PROVE JobInv(i)'
    <2>1. PlacesKept(i)
      BY <1>1, <1>6, <1>11, MovesKeeps
    <2>3. Kept(i)
      BY <1>2, <1>3, <1>7, <1>11, <2>1 DEF Kept
    <2> QED BY <1>1, <1>2, <2>3, OtherJob
  <1>12. ASSUME NEW i \in Job, i = x PROVE JobInv(i)'
    <2>0. JobInv(i)
      BY <1>1
    <2>1. \A ps : /\ ~Clearing(i, ps)
                  /\ Clearing(i, ps)' <=> "dropReg" \in ps
                  /\ Calling(i, ps)' <=> Calling(i, ps)
      BY <1>1, <1>4, <1>6, <1>7, <1>12 DEF Clearing, Calling, Busy, Moves
    <2>2. (Leaving(i)' <=> Leaving(i)) /\ (Repushing(i)' <=> Repushing(i))
      BY <1>1, <1>4, <1>6, <1>12 DEF Leaving, Repushing, Busy, Moves
    <2>3. Handles(i)'
      BY <1>2, <1>3, <1>4, <1>12, <2>0, <2>1, <2>2 DEF JobInv, Handles
    <2>4. Places(i)'
      BY <1>2, <1>3, <1>4, <1>7, <1>12, <2>0, <2>1, <2>2 DEF JobInv, Places
    <2>5. Unmade(i)'
      BY <1>2, <1>4, <1>12 DEF Unmade
    <2>6. RefExact(i)'
      <3>1. (SetRef(i)' <=> SetRef(i)) /\ (RegRef(i)' <=> RegRef(i)) /\ (QueueRef(i)' <=> QueueRef(i))
        BY <1>2, <1>7, <2>2 DEF SetRef, RegRef, QueueRef
      <3> QED BY <1>2, <2>0, <3>1 DEF JobInv, RefExact, One
    <2> QED BY <2>3, <2>4, <2>5, <2>6 DEF JobInv
  <1> QED BY <1>8, <1>9, <1>10, <1>11, <1>12 DEF IInv

\* Every job that has handles left is in the queue then.
LEMMA DropLoopKeeps ==
    ASSUME IInv, DropLoop
    PROVE  IInv'
  <1> USE JobAssumption
  <1>1. /\ TypeOK /\ Threads /\ Batches /\ \A i \in Job : JobInv(i)
        /\ lpc = "done" /\ ~closed /\ closed' = TRUE /\ batch = <<>>
        /\ \A t \in Thread : pc[t] = "idle" /\ mine[t] = NoJob
    BY DEF IInv, DropLoop, At, Threads, Batches, Q!Close
  <1>2. /\ q' = q /\ sleeping' = sleeping /\ made' = made /\ ref' = ref /\ queued' = queued
        /\ dropped' = dropped /\ stored' = stored /\ regs' = regs /\ sets' = sets
        /\ batch' = batch /\ at' = at /\ ran' = ran /\ run' = run /\ lpc' = lpc
        /\ pc' = pc /\ mine' = mine
    BY DEF DropLoop, Q!Close, nodeVars, batchVars, threadVars
  <1>3. TypeOK'
    BY <1>1, <1>2 DEF TypeOK
  <1>4. Threads'
    BY <1>1, <1>2 DEF Threads, ByCaller, Busy
  <1>5. Batches'
    BY <1>1, <1>2 DEF Batches
  <1>6. ASSUME NEW i \in Job PROVE JobInv(i)'
    <2>0. JobInv(i)
      BY <1>1
    <2>1. \A ps : /\ ~Calling(i, ps) /\ ~Calling(i, ps)' /\ ~Clearing(i, ps) /\ ~Clearing(i, ps)'
      BY <1>1, <1>2 DEF Calling, Clearing, Busy, Thread
    <2>2. ~Leaving(i) /\ ~Leaving(i)' /\ ~Repushing(i) /\ ~Repushing(i)'
      BY <1>1, <1>2 DEF Leaving, Repushing, Busy
    <2>3. InQueue' = InQueue /\ InBatch' = InBatch /\ (HasRun(i)' <=> HasRun(i))
      BY <1>2 DEF InQueue, Q!Contents, InBatch, HasRun
    <2>4. Handles(i)'
      BY <1>2, <2>0, <2>1, <2>2, <2>3 DEF JobInv, Handles
    <2>5. Places(i)'
      BY <1>1, <1>2, <2>0, <2>1, <2>2, <2>3 DEF JobInv, Places
    <2>6. Unmade(i)'
      BY <1>2, <2>0, <2>3 DEF JobInv, Unmade
    <2>7. RefExact(i)'
      <3>1. i \notin InBatch
        BY <1>1 DEF InBatch
      <3>2. regs[i] # {} => i \in InQueue
        BY <1>1, <2>0, <2>1, <3>1 DEF JobInv, Handles, Places, TypeOK
      <3>3. (SetRef(i)' <=> SetRef(i)) /\ (RegRef(i)' <=> RegRef(i)) /\ (QueueRef(i)' <=> QueueRef(i))
        BY <1>1, <1>2, <2>2, <2>3, <3>2 DEF SetRef, RegRef, QueueRef
      <3> QED BY <1>2, <2>0, <3>3 DEF JobInv, RefExact, One
    <2> QED BY <2>4, <2>5, <2>6, <2>7 DEF JobInv
  <1> QED BY <1>3, <1>4, <1>5, <1>6 DEF IInv

-----------------------------------------------------------------------------
(* The invariant, and what follows.                                        *)

\* The initial states satisfy the invariant.
LEMMA InitIInv == Init => IInv
  <1> SUFFICES ASSUME Init PROVE IInv
    OBVIOUS
  <1> USE JobAssumption DEF Init
  <1>1. /\ q = <<>> /\ batch = <<>> /\ ran = <<>> /\ sleeping = FALSE /\ closed = FALSE
        /\ InQueue = {} /\ InBatch = {}
    BY DEF Q!Init, InQueue, Q!Contents, InBatch
  <1>2. TypeOK
    <2>1. q \in Seq(Job) /\ batch \in Seq(Job) /\ ran \in Seq(Job) /\ Len(batch) = 0
      BY <1>1
    <2>2. Len(batch) <= Cap /\ at \in 0..Len(batch)
      BY <2>1
    <2>3. /\ made \subseteq Job /\ queued \subseteq made /\ dropped \subseteq made /\ stored \subseteq made
          /\ ref \in [Job -> 0..3]
      OBVIOUS
    <2>4. /\ regs \in [Job -> SUBSET {"caller", "closure"}]
          /\ sets \in [Job -> SUBSET {"caller", "closure"}]
      OBVIOUS
    <2>5. /\ pc \in [Thread -> {"idle", "push", "dropSet", "dropReg", "pushDropped", "releaseReg"}]
          /\ mine \in [Thread -> Job \cup {NoJob}]
      OBVIOUS
    <2> HIDE DEF Init
    <2>6. lpc = "spawned" /\ run = FALSE
      BY DEF Init
    <2> QED BY <1>1, <2>1, <2>2, <2>3, <2>4, <2>5, <2>6 DEF TypeOK
  <1>3. Threads
    BY <1>1 DEF Threads, Busy, Thread
  <1>4. Batches
    BY <1>1 DEF Batches
  <1>5. ASSUME NEW j \in Job PROVE JobInv(j)
    <2>1. /\ \A ps : ~Calling(j, ps) /\ ~Clearing(j, ps)
          /\ ~Leaving(j) /\ ~Repushing(j) /\ ~HasRun(j)
      BY <1>1 DEF Calling, Clearing, Leaving, Repushing, Busy, HasRun, Thread
    <2>2. Handles(j)
      BY <1>1, <2>1 DEF Handles
    <2>3. Places(j)
      BY <1>1, <2>1 DEF Places
    <2>4. Unmade(j)
      BY <1>1, <2>1 DEF Unmade
    <2>5. RefExact(j)
      BY <1>1, <2>1 DEF RefExact, One, SetRef, RegRef, QueueRef
    <2> QED BY <2>2, <2>3, <2>4, <2>5 DEF JobInv
  <1> QED BY <1>2, <1>3, <1>4, <1>5 DEF IInv

\* Every step preserves the invariant.
LEMMA NextIInv == IInv /\ [Next]_vars => IInv'
  <1> SUFFICES ASSUME IInv, [Next]_vars PROVE IInv'
    OBVIOUS
  <1>1. CASE TakeJob
    BY <1>1, TakenJobKeeps
  <1>2. CASE TakeDropped
    BY <1>2, GiveBackKeeps DEF TakeDropped
  <1>3. CASE BeginJob
    BY <1>3, BeginJobKeeps
  <1>4. CASE ClearOne
    BY <1>4, ClearOneKeeps
  <1>5. CASE DropLoop
    BY <1>5, DropLoopKeeps
  <1>6. CASE Drain
    BY <1>6, GiveBackKeeps DEF Drain
  <1>7. ASSUME NEW t \in Thread, NEW j \in Job, EnqueueJob(t, j) PROVE IInv'
    BY <1>7, EnqueueJobKeeps
  <1>8. ASSUME NEW t \in Thread, ThreadStep(t) PROVE IInv'
    BY <1>8, PushKeeps, DropSetKeeps, DropRegKeeps, PushDroppedKeeps, ReleaseRegKeeps DEF ThreadStep
  <1>9. CASE \/ Build \/ Run \/ CheckRun \/ PollSleeps \/ PollBusy \/ PollWakes
             \/ Drained \/ EndJob \/ BeginClear \/ Cleared
             \/ \E t \in Thread : Shutdown(t)
    BY <1>9, TurnsKeep
  <1>10. CASE UNCHANGED vars
    <2>1. /\ UNCHANGED <<q, closed, nodeVars, batch, at, ran, threadVars>>
          /\ sleeping' = sleeping /\ run' = run /\ lpc' = lpc
      BY <1>10 DEF vars, queueVars, batchVars
    <2> QED BY <2>1, TurnKeeps DEF IInv, TypeOK, Batches
  <1> QED BY <1>1, <1>2, <1>3, <1>4, <1>5, <1>6, <1>7, <1>8, <1>9, <1>10 DEF Next, LoopStep

\* The invariant holds of every behaviour of JobQueue.
THEOREM Invariance == Spec => []IInv
  BY InitIInv, NextIInv, PTL DEF Spec

\* No node is freed while the queue, the batch, its closure or a thread in
\* enqueue_job or in a drop can reach it, and ref_count stays in range
\* (event_loop.rs:296-323, poll.rs release_node).
THEOREM NodesOutliveTheirUse == Spec => []NodeLifetime
  <1>1. IInv => NodeLifetime
    <2> SUFFICES ASSUME IInv PROVE NoUseAfterFree
      BY DEF IInv, NodeLifetime
    <2> USE JobAssumption
    <2>1. TypeOK /\ Threads /\ \A j \in Job : JobInv(j)
      BY DEF IInv
    <2>2. ASSUME NEW j \in Job, SetRef(j) \/ RegRef(j) \/ QueueRef(j) PROVE ref[j] > 0
      <3>1. ref[j] = One(SetRef(j)) + One(RegRef(j)) + One(QueueRef(j))
        BY <2>1 DEF JobInv, RefExact
      <3> QED BY <2>2, <3>1 DEF One
    <2>3. ASSUME NEW j \in InQueue PROVE j \in Job /\ ref[j] > 0
      <3>1. j \in Job
        BY <2>1 DEF InQueue, Q!Contents, TypeOK
      <3> QED BY <2>2, <3>1 DEF QueueRef
    <2>4. ASSUME NEW j \in InBatch \cup stored PROVE j \in Job /\ ref[j] > 0
      <3>1. j \in Job
        BY <2>1 DEF InBatch, TypeOK
      <3>2. regs[j] # {}
        BY <2>1, <3>1 DEF JobInv, Handles
      <3> QED BY <2>2, <3>1, <3>2 DEF RegRef
    <2>5. ASSUME NEW t \in Thread, mine[t] # NoJob PROVE ref[mine[t]] > 0
      <3>1. /\ mine[t] \in Job /\ pc[t] # "idle"
            /\ pc[t] \in {"push", "dropSet", "dropReg", "pushDropped", "releaseReg"}
        BY <2>1, <2>5 DEF Threads, TypeOK
      <3> SUFFICES ASSUME NEW j \in Job, mine[t] = j
                   PROVE  SetRef(j) \/ RegRef(j)
        BY <2>2, <3>1
      <3>2. Handles(j)
        BY <2>1 DEF JobInv
      <3>3. CASE pc[t] \in {"pushDropped", "releaseReg"}
        BY <3>3 DEF RegRef, Leaving, Busy
      <3>4. CASE ByCaller(t) /\ pc[t] \in {"push", "dropSet", "dropReg"}
        <4>1. Calling(j, {"push", "dropSet", "dropReg"})
          BY <3>4 DEF Calling, Busy
        <4> QED BY <3>2, <4>1 DEF Handles, RegRef
      <3>5. CASE ~ByCaller(t) /\ pc[t] \in {"push", "dropSet", "dropReg"}
        <4>1. t = Loop /\ pc[t] # "push"
          BY <2>1, <3>1, <3>5 DEF Threads, ByCaller
        <4>2. Clearing(j, {"dropReg"}) \/ Clearing(j, {"pushDropped", "releaseReg", "dropSet"})
          BY <3>5, <4>1 DEF Clearing, Busy
        <4> QED BY <3>2, <4>2 DEF Handles, SetRef
      <3> QED BY <3>1, <3>3, <3>4, <3>5
    <2> QED BY <2>3, <2>4, <2>5 DEF NoUseAfterFree
  <1> QED BY <1>1, Invariance, PTL

\* The cycle of a node and its closure is undone for every job that ran:
\* when nothing is under way only jobs that a closed loop never ran are left.
THEOREM OnlyUnrunJobsLeak == Spec => []NothingLeaks
  <1>1. IInv => NothingLeaks
    <2> SUFFICES ASSUME IInv, q = <<>>, batch = <<>>, \A t \in Thread : At(t, "idle"),
                        NEW j \in made
                 PROVE  ref[j] = 0 \/ (closed /\ j \notin {ran[i] : i \in DOMAIN ran})
      BY DEF NothingLeaks
    <2> USE JobAssumption
    <2>1. j \in Job /\ JobInv(j) /\ Threads /\ TypeOK
      BY DEF IInv, TypeOK
    <2>2. \A t \in Thread : mine[t] # j
      BY <2>1 DEF Threads, At
    <2>3. /\ \A ps : ~Calling(j, ps) /\ ~Clearing(j, ps)
          /\ ~Leaving(j) /\ ~Repushing(j)
      BY <2>2 DEF Calling, Clearing, Leaving, Repushing, Busy, Thread
    <2>4. j \notin InQueue /\ j \notin InBatch
      BY DEF InQueue, Q!Contents, InBatch
    <2>5. CASE j \in stored
      BY <2>1, <2>3, <2>4, <2>5 DEF JobInv, Places, HasRun
    <2>6. CASE j \notin stored
      <3>1. regs[j] = {} /\ sets[j] = {}
        BY <2>1, <2>3, <2>4, <2>6 DEF JobInv, Handles, TypeOK
      <3>2. ~SetRef(j) /\ ~RegRef(j) /\ ~QueueRef(j)
        BY <2>3, <2>4, <3>1 DEF SetRef, RegRef, QueueRef
      <3> QED BY <2>1, <3>2 DEF JobInv, RefExact, One
    <2> QED BY <2>5, <2>6
  <1> QED BY <1>1, Invariance, PTL

-----------------------------------------------------------------------------
(* Once, and in order.                                                     *)

\* A job that is in the batch and not begun has not run, and none ran twice.
Fresh ==
    /\ \A i, k \in DOMAIN ran : ran[i] = ran[k] => i = k
    /\ \A i \in DOMAIN batch : i > at => ~HasRun(batch[i])

\* The steps other than these three leave Fresh alone.
LEMMA OtherStepsKeepBatch ==
    ASSUME [Next]_vars
    PROVE  \/ TakeJob \/ BeginJob \/ ClearOne
           \/ batch' = batch /\ at' = at /\ ran' = ran
  BY DEF Next, LoopStep, ThreadStep, vars, batchVars, Build, Run, CheckRun, PollSleeps, PollBusy,
         TakeDropped, Drained, EndJob, BeginClear, Cleared, PollWakes, DropLoop, Drain, Push,
         DropSet, DropReg, PushDropped, ReleaseReg, Shutdown, EnqueueJob

\* What BeginJob adds to ran.
LEMMA BeginJobRuns ==
    ASSUME TypeOK, BeginJob
    PROVE  /\ at + 1 \in DOMAIN batch /\ batch[at + 1] \in Job
           /\ DOMAIN ran = 1..Len(ran) /\ Len(ran) \in Nat /\ DOMAIN ran' = 1..(Len(ran) + 1)
           /\ \A i \in 1..Len(ran) : ran'[i] = ran[i]
           /\ ran'[Len(ran) + 1] = batch[at + 1]
           /\ \A j : HasRun(j)' <=> HasRun(j) \/ j = batch[at + 1]
  <1> DEFINE b == batch[at + 1]
  <1>1. at + 1 \in DOMAIN batch /\ b \in Job
    BY DEF TypeOK, BeginJob
  <1>2. ran \in Seq(Job) /\ ran' = Append(ran, b)
    BY DEF TypeOK, BeginJob
  <1>3. /\ DOMAIN ran = 1..Len(ran) /\ Len(ran) \in Nat
        /\ DOMAIN ran' = 1..(Len(ran) + 1)
        /\ \A i \in 1..Len(ran) : ran'[i] = ran[i]
        /\ ran'[Len(ran) + 1] = b
    <2> HIDE DEF b
    <2> QED BY <1>1, <1>2
  <1>4. \A i \in 1..(Len(ran) + 1) : i \in 1..Len(ran) \/ i = Len(ran) + 1
    BY <1>3
  <1>5. (\A i \in 1..Len(ran) : i \in 1..(Len(ran) + 1)) /\ Len(ran) + 1 \in 1..(Len(ran) + 1)
    BY <1>3
  <1>6. \A j : HasRun(j)' <=> HasRun(j) \/ j = b
    BY <1>3, <1>4, <1>5 DEF HasRun
  <1> QED BY <1>1, <1>3, <1>6

\* Fresh is preserved by every step.
LEMMA NextFresh == IInv /\ Fresh /\ [Next]_vars => Fresh'
  <1> SUFFICES ASSUME IInv, Fresh, [Next]_vars PROVE Fresh'
    OBVIOUS
  <1>1. TypeOK /\ Threads /\ Batches /\ \A j \in Job : JobInv(j)
    BY DEF IInv
  <1>2. /\ DOMAIN batch = 1..Len(batch) /\ Len(batch) \in Nat /\ at \in 0..Len(batch)
        /\ \A i \in 1..Len(batch) : batch[i] \in Job
    BY <1>1 DEF TypeOK
  <1>3. CASE TakeJob
    <2> DEFINE x == Head(q)
    <2>1. ran' = ran /\ at' = at /\ batch' = Append(batch, x)
      BY <1>3 DEF TakeJob
    <2>2. x \in Job /\ x \in stored
      <3>1. Q!Pop /\ UNCHANGED <<made, dropped, regs, sets, run, lpc, threadVars>> /\ x \notin dropped
        BY <1>3 DEF TakeJob
      <3>2. x \in Job /\ x \in InQueue
        BY <3>1, PopKeeps
      <3> QED BY <1>1, <3>1, <3>2 DEF JobInv, Places
    <2>3. ~HasRun(x)
      BY <1>1, <2>2 DEF JobInv, Places
    <2>4. batch \in Seq(Job)
      BY <1>1 DEF TypeOK
    <2>5. /\ DOMAIN batch' = 1..(Len(batch) + 1)
          /\ \A i \in 1..Len(batch) : batch'[i] = batch[i]
          /\ batch'[Len(batch) + 1] = x
      <3> HIDE DEF x
      <3> QED BY <2>1, <2>2, <2>4
    <2>6. \A i \in 1..(Len(batch) + 1) : i \in 1..Len(batch) \/ i = Len(batch) + 1
      BY <1>2
    <2>7. \A j : HasRun(j)' <=> HasRun(j)
      BY <2>1 DEF HasRun
    <2> QED BY <1>2, <2>1, <2>3, <2>5, <2>6, <2>7 DEF Fresh
  <1>4. CASE BeginJob
    <2> DEFINE b == batch[at + 1]
    <2>1. at' = at + 1 /\ batch' = batch
      BY <1>4 DEF BeginJob
    <2>2. /\ at + 1 \in DOMAIN batch
          /\ DOMAIN ran = 1..Len(ran) /\ Len(ran) \in Nat /\ DOMAIN ran' = 1..(Len(ran) + 1)
          /\ \A i \in 1..Len(ran) : ran'[i] = ran[i]
          /\ ran'[Len(ran) + 1] = b
          /\ \A j : HasRun(j)' <=> HasRun(j) \/ j = b
      BY <1>1, <1>4, BeginJobRuns
    <2>3. ~HasRun(b)
      BY <1>2, <2>2 DEF Fresh
    <2>4. \A i \in 1..(Len(ran) + 1) : i \in 1..Len(ran) \/ i = Len(ran) + 1
      BY <2>2
    <2>5. \A i, k \in DOMAIN ran' : ran'[i] = ran'[k] => i = k
      BY <2>2, <2>3, <2>4 DEF Fresh, HasRun
    <2>6. ASSUME NEW i \in DOMAIN batch', i > at' PROVE ~HasRun(batch[i])'
      <3>1. i \in DOMAIN batch /\ i > at /\ i # at + 1
        BY <1>2, <2>1, <2>6
      <3>2. batch[i] # b /\ ~HasRun(batch[i])
        BY <1>1, <2>2, <3>1 DEF Batches, Fresh
      <3> QED BY <2>1, <2>2, <3>2 DEF HasRun
    <2> QED BY <2>5, <2>6 DEF Fresh
  <1>5. CASE ClearOne
    <2>1. ran' = ran /\ at' = at - 1 /\ at = Len(batch) /\ batch' = Tail(batch) /\ batch # <<>>
      BY <1>1, <1>5 DEF ClearOne, Batches
    <2>2. batch \in Seq(Job)
      BY <1>1 DEF TypeOK
    <2>3. DOMAIN batch' = 1..(Len(batch) - 1)
      BY <2>1, <2>2
    <2>4. \A i \in DOMAIN batch' : ~(i > at')
      BY <1>2, <2>1, <2>3
    <2> QED BY <2>1, <2>4 DEF Fresh
  <1>6. CASE batch' = batch /\ at' = at /\ ran' = ran
    BY <1>6 DEF Fresh, HasRun
  <1> QED BY <1>3, <1>4, <1>5, <1>6, OtherStepsKeepBatch

\* No job that was handed to a loop is run twice, by any number of turns and
\* however the threads that enqueue, poll and drop it interleave.
THEOREM EachJobOnce == Spec => [](\A i, k \in DOMAIN ran : ran[i] = ran[k] => i = k)
  <1>1. Init => Fresh
    BY DEF Init, Fresh
  <1>2. Fresh => \A i, k \in DOMAIN ran : ran[i] = ran[k] => i = k
    BY DEF Fresh
  <1> QED BY <1>1, <1>2, Invariance, NextFresh, PTL DEF Spec

\* The closure of j waits in the queue, in its node.
Waits(j, i) == i \in DOMAIN q /\ q[i] = j /\ j \in stored

\* The closure of j is in the batch and will be begun.
Fetched(j, i) == i \in DOMAIN batch /\ i > at /\ batch[i] = j

\* Both jobs are still to be run, a before b.
Ahead(a, b) ==
    \/ \E i, k \in Nat : Waits(a, i) /\ Waits(b, k) /\ i < k
    \/ \E i, k \in Nat : Fetched(a, i) /\ Waits(b, k)
    \/ \E i, k \in Nat : Fetched(a, i) /\ Fetched(b, k) /\ i < k

\* Who is ahead stays ahead until it is run, unless the loop has ended.
OrderKept ==
    \A a, b \in Job :
        Ahead(a, b) => Ahead(a, b)' \/ (HasRun(a)' /\ ~HasRun(b)') \/ closed'

\* The steps that take nothing from the queue or the batch.
LEMMA QuietStepsKeepOrder ==
    ASSUME TypeOK, q' = q \/ (\E j \in Job : q' = Append(q, j)), stored \subseteq stored',
           batch' = batch, at' = at
    PROVE  OrderKept
  <1>1. q \in Seq(Job)
    BY DEF TypeOK
  <1>2. \A i \in DOMAIN q : i \in DOMAIN q' /\ q'[i] = q[i]
    <2>1. CASE q' = q
      BY <2>1
    <2>2. ASSUME NEW j \in Job, q' = Append(q, j)
          PROVE  \A i \in DOMAIN q : i \in DOMAIN q' /\ q'[i] = q[i]
      BY <1>1, <2>2
    <2> QED BY <2>1, <2>2
  <1>3. \A j \in Job, i \in Nat : /\ Waits(j, i) => Waits(j, i)'
                                  /\ Fetched(j, i) => Fetched(j, i)'
    BY <1>2 DEF Waits, Fetched
  <1> QED BY <1>3 DEF OrderKept, Ahead

\* Which steps these are.
LEMMA QuietSteps ==
    ASSUME IInv, [Next]_vars
    PROVE  \/ TakeJob \/ TakeDropped \/ BeginJob \/ ClearOne \/ DropLoop \/ Drain
           \/ /\ q' = q \/ (\E j \in Job : q' = Append(q, j))
              /\ stored \subseteq stored' /\ batch' = batch /\ at' = at
  <1>1. \A t \in Thread : pc[t] # "idle" => mine[t] \in Job
    BY DEF IInv, Threads, TypeOK
  <1>2. ASSUME NEW t \in Thread, Push(t) \/ PushDropped(t)
        PROVE  /\ \E j \in Job : q' = Append(q, j)
               /\ stored' = stored /\ batch' = batch /\ at' = at
    BY <1>1, <1>2 DEF Push, PushDropped, Q!Push, At, nodeVars, batchVars
  <1>3. ASSUME NEW t \in Thread, \/ DropSet(t) \/ DropReg(t) \/ ReleaseReg(t) \/ Shutdown(t)
                                 \/ \E j \in Job : EnqueueJob(t, j)
        PROVE  q' = q /\ stored \subseteq stored' /\ batch' = batch /\ at' = at
    BY <1>3 DEF DropSet, DropReg, ReleaseReg, Shutdown, EnqueueJob, queueVars, nodeVars, batchVars
  <1>4. ASSUME \/ Build \/ Run \/ CheckRun \/ PollSleeps \/ PollBusy \/ PollWakes
               \/ Drained \/ EndJob \/ BeginClear \/ Cleared \/ UNCHANGED vars
        PROVE  q' = q /\ stored' = stored /\ batch' = batch /\ at' = at
    BY <1>4 DEF Build, Run, CheckRun, PollSleeps, PollBusy, PollWakes, Drained, EndJob, BeginClear,
                Cleared, Q!Sleep, Q!WakeUp, vars, queueVars, nodeVars, batchVars
  <1> QED BY <1>2, <1>3, <1>4 DEF Next, LoopStep, ThreadStep

\* Jobs are begun in the order of their pushes, so the jobs of one thread in
\* the order of its calls: no step lets one overtake another.
THEOREM JobsKeepTheirOrder == Spec => [][OrderKept]_vars
  <1>1. Init => Fresh
    BY DEF Init, Fresh
  <1>2. IInv /\ Fresh /\ [Next]_vars => OrderKept
    <2> SUFFICES ASSUME IInv, Fresh, [Next]_vars PROVE OrderKept
      OBVIOUS
    <2>1. /\ TypeOK /\ Threads /\ Batches /\ \A j \in Job : JobInv(j)
          /\ q \in Seq(Job) /\ batch \in Seq(Job)
      BY DEF IInv, TypeOK
    <2>2. /\ DOMAIN batch = 1..Len(batch) /\ Len(batch) \in Nat /\ at \in 0..Len(batch)
          /\ DOMAIN q = 1..Len(q) /\ Len(q) \in Nat
      BY <2>1 DEF TypeOK
    <2>3. ASSUME q # <<>>, q' = Tail(q)
          PROVE  /\ DOMAIN q' = 1..(Len(q) - 1) /\ q[1] = Head(q) /\ 1 \in DOMAIN q
                 /\ \A i \in DOMAIN q : i # 1 => i - 1 \in DOMAIN q' /\ q'[i - 1] = q[i] /\ i > 1
      <3>1. /\ DOMAIN q' = 1..(Len(q) - 1) /\ q[1] = Head(q) /\ Len(q) > 0
            /\ \A i \in 1..(Len(q) - 1) : q'[i] = q[i + 1]
        BY <2>1, <2>3
      <3>2. \A i \in DOMAIN q : i # 1 => i - 1 \in 1..(Len(q) - 1) /\ (i - 1) + 1 = i /\ i > 1
        BY <2>2
      <3> QED BY <2>2, <3>1, <3>2
    <2>4. CASE TakeJob
      <3> DEFINE x == Head(q)
                 n == Len(batch) + 1
      <3>1. /\ q # <<>> /\ q' = Tail(q) /\ stored' = stored \ {x} /\ at' = at
            /\ batch' = Append(batch, x)
        BY <2>4 DEF TakeJob, Q!Pop
      <3>2. x \in Job
        BY <2>1, <3>1
      <3>3. /\ n \in DOMAIN batch' /\ n \in Nat /\ n > at' /\ batch'[n] = x
            /\ \A i \in DOMAIN batch : i \in DOMAIN batch' /\ batch'[i] = batch[i] /\ i < n
        <4>1. /\ DOMAIN batch' = 1..n
              /\ \A i \in 1..Len(batch) : batch'[i] = batch[i]
              /\ batch'[n] = x
          <5> HIDE DEF x
          <5> QED BY <2>1, <3>1, <3>2
        <4> QED BY <2>2, <3>1, <4>1
      <3>4. ASSUME NEW j \in Job, NEW i \in Nat, Waits(j, i)
            PROVE  (i = 1 /\ j = x) \/ (i > 1 /\ i - 1 \in Nat /\ Waits(j, i - 1)')
        <4>1. i \in DOMAIN q /\ q[i] = j /\ j \in stored
          BY <3>4 DEF Waits
        <4>2. CASE i = 1
          BY <2>3, <3>1, <4>1, <4>2
        <4>3. CASE i # 1
          <5>1. i - 1 \in DOMAIN q' /\ q'[i - 1] = j /\ i > 1 /\ i - 1 \in Nat
            BY <2>2, <2>3, <3>1, <4>1, <4>3
          <5>2. j # x
            BY <2>1, <2>3, <3>1, <4>1, <4>3 DEF Batches
          <5> QED BY <3>1, <4>1, <5>1, <5>2 DEF Waits
        <4> QED BY <4>2, <4>3
      <3>5. \A j \in Job, i \in Nat : Fetched(j, i) => Fetched(j, i)' /\ i < n
        BY <3>1, <3>3 DEF Fetched
      <3>6. \A j \in Job, i \in Nat : j = x /\ i = n => Fetched(j, i)'
        BY <3>3 DEF Fetched
      <3>7. ASSUME NEW a \in Job, NEW b \in Job, Ahead(a, b) PROVE Ahead(a, b)'
        <4>1. CASE \E i, k \in Nat : Waits(a, i) /\ Waits(b, k) /\ i < k
          <5>1. PICK i \in Nat, k \in Nat : Waits(a, i) /\ Waits(b, k) /\ i < k
            BY <4>1
          <5>2. i > 0
            BY <2>2, <5>1 DEF Waits
          <5>3. k > 1 /\ k - 1 \in Nat /\ Waits(b, k - 1)'
            BY <3>4, <5>1, <5>2
          <5>4. CASE i = 1 /\ a = x
            BY <3>3, <3>6, <5>3, <5>4 DEF Ahead
          <5>5. CASE i > 1 /\ i - 1 \in Nat /\ Waits(a, i - 1)'
            <6>1. i - 1 < k - 1
              BY <5>1
            <6> QED BY <5>3, <5>5, <6>1 DEF Ahead
          <5> QED BY <3>4, <5>1, <5>4, <5>5
        <4>2. CASE \E i, k \in Nat : Fetched(a, i) /\ Waits(b, k)
          <5>1. PICK i \in Nat, k \in Nat : Fetched(a, i) /\ Waits(b, k)
            BY <4>2
          <5>2. CASE k = 1 /\ b = x
            BY <3>3, <3>5, <3>6, <5>1, <5>2 DEF Ahead
          <5>3. CASE k > 1 /\ k - 1 \in Nat /\ Waits(b, k - 1)'
            BY <3>5, <5>1, <5>3 DEF Ahead
          <5> QED BY <3>4, <5>1, <5>2, <5>3
        <4>3. CASE \E i, k \in Nat : Fetched(a, i) /\ Fetched(b, k) /\ i < k
          BY <3>5, <4>3 DEF Ahead
        <4> QED BY <3>7, <4>1, <4>2, <4>3 DEF Ahead
      <3> QED BY <3>7 DEF OrderKept
    <2>5. CASE TakeDropped
      <3>1. /\ q # <<>> /\ q' = Tail(q) /\ stored' = stored /\ at' = at /\ batch' = batch
            /\ Head(q) \in dropped
        BY <2>5 DEF TakeDropped, Q!Pop, batchVars
      <3>2. Head(q) \notin stored
        BY <2>1, <3>1 DEF JobInv, Handles, TypeOK
      <3>3. ASSUME NEW j \in Job, NEW i \in Nat, Waits(j, i)
            PROVE  i > 1 /\ i - 1 \in Nat /\ Waits(j, i - 1)'
        <4>1. i \in DOMAIN q /\ q[i] = j /\ j \in stored /\ i # 1
          BY <2>3, <3>1, <3>2, <3>3 DEF Waits
        <4>2. i - 1 \in DOMAIN q' /\ q'[i - 1] = j /\ i > 1 /\ i - 1 \in Nat
          BY <2>2, <2>3, <3>1, <4>1
        <4> QED BY <3>1, <4>1, <4>2 DEF Waits
      <3>4. \A j \in Job, i \in Nat : Fetched(j, i) => Fetched(j, i)'
        BY <3>1 DEF Fetched
      <3>5. \A i, k \in Nat : i < k => i - 1 < k - 1
        OBVIOUS
      <3> QED BY <3>3, <3>4, <3>5 DEF OrderKept, Ahead
    <2>6. CASE BeginJob
      <3> DEFINE c == batch[at + 1]
      <3>1. q' = q /\ stored' = stored /\ batch' = batch /\ at' = at + 1
        BY <2>6 DEF BeginJob, queueVars, nodeVars
      <3>2. /\ at + 1 \in DOMAIN batch /\ c \in Job /\ c \in InBatch
            /\ \A j : HasRun(j)' <=> HasRun(j) \/ j = c
        BY <2>1, <2>6, BeginJobRuns DEF InBatch
      <3>3. c \notin stored
        BY <2>1, <3>2 DEF JobInv, Places
      <3>4. ASSUME NEW j \in Job, NEW i \in Nat, Waits(j, i) PROVE Waits(j, i)' /\ ~HasRun(j)'
        <4>1. j \in stored /\ ~HasRun(j)
          BY <2>1, <3>4 DEF Waits, JobInv, Places
        <4> QED BY <3>1, <3>2, <3>3, <3>4, <4>1 DEF Waits
      <3>5. ASSUME NEW j \in Job, NEW i \in Nat, Fetched(j, i)
            PROVE  /\ (i = at + 1 /\ HasRun(j)') \/ (i > at + 1 /\ Fetched(j, i)' /\ ~HasRun(j)')
                   /\ i >= at + 1
        <4>1. i \in DOMAIN batch /\ i > at /\ batch[i] = j /\ i >= at + 1
          BY <2>2, <3>5 DEF Fetched
        <4>2. CASE i = at + 1
          BY <3>2, <4>1, <4>2
        <4>3. CASE i # at + 1
          <5>1. i > at + 1
            BY <2>2, <4>1, <4>3
          <5>2. j # c /\ ~HasRun(j)
            BY <2>1, <3>2, <4>1, <4>3 DEF Batches, Fresh
          <5> QED BY <3>1, <3>2, <4>1, <5>1, <5>2 DEF Fetched
        <4> QED BY <4>2, <4>3
      <3>6. ASSUME NEW a \in Job, NEW b \in Job, Ahead(a, b)
            PROVE  Ahead(a, b)' \/ (HasRun(a)' /\ ~HasRun(b)')
        <4>1. CASE \E i, k \in Nat : Waits(a, i) /\ Waits(b, k) /\ i < k
          BY <3>4, <4>1 DEF Ahead
        <4>2. CASE \E i, k \in Nat : Fetched(a, i) /\ Waits(b, k)
          BY <3>4, <3>5, <4>2 DEF Ahead
        <4>3. CASE \E i, k \in Nat : Fetched(a, i) /\ Fetched(b, k) /\ i < k
          <5>1. PICK i \in Nat, k \in Nat : Fetched(a, i) /\ Fetched(b, k) /\ i < k
            BY <4>3
          <5>2. k # at + 1
            BY <2>2, <3>5, <5>1
          <5> QED BY <3>5, <5>1, <5>2 DEF Ahead
        <4> QED BY <3>6, <4>1, <4>2, <4>3 DEF Ahead
      <3> QED BY <3>6 DEF OrderKept
    <2>7. CASE ClearOne
      <3>1. q' = q /\ stored' = stored /\ at = Len(batch)
        BY <2>1, <2>7 DEF ClearOne, queueVars, nodeVars, Batches
      <3>2. \A j \in Job, i \in Nat : ~Fetched(j, i)
        BY <2>2, <3>1 DEF Fetched
      <3>3. \A j \in Job, i \in Nat : Waits(j, i) => Waits(j, i)'
        BY <3>1 DEF Waits
      <3> QED BY <3>2, <3>3 DEF OrderKept, Ahead
    <2>8. CASE DropLoop \/ Drain
      BY <2>8 DEF OrderKept, DropLoop, Drain, Q!Close, Q!Pop
    <2>9. CASE /\ q' = q \/ (\E j \in Job : q' = Append(q, j))
               /\ stored \subseteq stored' /\ batch' = batch /\ at' = at
      BY <2>1, <2>9, QuietStepsKeepOrder
    <2> QED BY <2>4, <2>5, <2>6, <2>7, <2>8, <2>9, QuietSteps
  <1> QED BY <1>1, <1>2, Invariance, NextFresh, PTL DEF Spec

=============================================================================
