------------------------------ MODULE JobQueue ------------------------------
(***************************************************************************)
(* enqueue_job: any thread hands a closure to an EventLoop, which runs it  *)
(* in its next turn; with the life of the loop's thread (EventLoopPool,    *)
(* run, shutdown) and the drop of the Poll.                                *)
(*                                                                         *)
(* Every job has a ReadinessNode of its own.  The closure that is stored   *)
(* in the node owns clones of the two handles of that node, so node and    *)
(* closure keep each other alive until poll takes the closure out.  The    *)
(* queue is FifoQueue, which ReadinessQueue is shown to implement.  Until  *)
(* the push the node is known to its caller only, so that what enqueue_job *)
(* does before is one step (ReadinessNode has it access by access).        *)
(***************************************************************************)
EXTENDS Naturals, Sequences, FiniteSets

CONSTANTS
    Job,        \* the calls of enqueue_job, each with its closure and its node
    Remote,     \* threads other than the loop's
    Loop,       \* the loop's thread
    NoJob,
    Cap         \* the capacity of Events

ASSUME JobAssumption ==
    /\ IsFiniteSet(Job)
    /\ NoJob \notin Job
    /\ Loop \notin Remote
    /\ Cap \in Nat \ {0}

VARIABLES
    q, sleeping, closed,    \* the readiness queue
    made,       \* the jobs whose node exists or has existed
    ref,        \* per node, ref_count
    queued, dropped,        \* the nodes with these bits on
    stored,     \* the nodes whose job field holds their closure
    regs, sets, \* per node, who has clones of r and of s: "caller", "closure"
    batch,      \* the closures in Events
    at,         \* how many of them io_process has begun
    ran,        \* auxiliary: the jobs that were begun, in order
    run,        \* EventLoop::run (the flag)
    lpc,        \* the loop's turn
    pc, mine    \* per thread, where in enqueue_job or in a drop it is, and for which job

queueVars == <<q, sleeping, closed>>
nodeVars == <<made, ref, queued, dropped, stored, regs, sets>>
batchVars == <<batch, at, ran>>
threadVars == <<pc, mine>>
vars == <<queueVars, nodeVars, batchVars, run, lpc, threadVars>>

Q == INSTANCE FifoQueue WITH Node <- Job

Thread == Remote \cup {Loop}

Init ==
    /\ Q!Init
    /\ made = {} /\ queued = {} /\ dropped = {} /\ stored = {}
    /\ ref = [j \in Job |-> 0]
    /\ regs = [j \in Job |-> {}] /\ sets = [j \in Job |-> {}]
    /\ batch = <<>> /\ at = 0 /\ ran = <<>>
    /\ run = FALSE
    /\ lpc = "spawned"
    /\ pc = [t \in Thread |-> "idle"] /\ mine = [t \in Thread |-> NoJob]

Goto(t, l) ==
    /\ pc' = [pc EXCEPT ![t] = l]
    /\ mine' = IF l = "idle" THEN [mine EXCEPT ![t] = NoJob] ELSE mine

At(t, l) == pc[t] = l

Release(j) == ref' = [ref EXCEPT ![j] = @ - 1]

\* t runs code that has the loop: on the loop's thread that is a job.
Active(t) ==
    /\ At(t, "idle") /\ lpc # "spawned" /\ ~closed
    /\ t = Loop => lpc = "job"

-----------------------------------------------------------------------------
(* enqueue_job.                                                            *)

\* Mutant: the closure does not capture r and s.
EnqueueJobWeak(t, j) ==
    /\ Active(t) /\ j \notin made
    /\ made' = made \cup {j}
    /\ ref' = [ref EXCEPT ![j] = 3]
    /\ regs' = [regs EXCEPT ![j] = {"caller"}]
    /\ sets' = [sets EXCEPT ![j] = {"caller"}]
    /\ queued' = queued \cup {j} /\ stored' = stored \cup {j}
    /\ pc' = [pc EXCEPT ![t] = "push"] /\ mine' = [mine EXCEPT ![t] = j]
    /\ UNCHANGED <<queueVars, dropped, batchVars, run, lpc>>

\* Mutant: the queue's reference is not counted.
EnqueueJobUncounted(t, j) ==
    /\ Active(t) /\ j \notin made
    /\ made' = made \cup {j}
    /\ ref' = [ref EXCEPT ![j] = 2]
    /\ regs' = [regs EXCEPT ![j] = {"caller", "closure"}]
    /\ sets' = [sets EXCEPT ![j] = {"caller", "closure"}]
    /\ queued' = queued \cup {j} /\ stored' = stored \cup {j}
    /\ pc' = [pc EXCEPT ![t] = "push"] /\ mine' = [mine EXCEPT ![t] = j]
    /\ UNCHANGED <<queueVars, dropped, batchVars, run, lpc>>

\* new2 (two references), the clones, set_readiness (no interest yet: nothing is
\* queued), and register up to the push: the queue's reference, QUEUED, the job.
EnqueueJob(t, j) ==
    /\ Active(t) /\ j \notin made
    /\ made' = made \cup {j}
    /\ ref' = [ref EXCEPT ![j] = 3]
    /\ regs' = [regs EXCEPT ![j] = {"caller", "closure"}]
    /\ sets' = [sets EXCEPT ![j] = {"caller", "closure"}]
    /\ queued' = queued \cup {j} /\ stored' = stored \cup {j}
    /\ pc' = [pc EXCEPT ![t] = "push"] /\ mine' = [mine EXCEPT ![t] = j]
    /\ UNCHANGED <<queueVars, dropped, batchVars, run, lpc>>

Push(t) ==
    /\ At(t, "push")
    /\ Q!Push(mine[t])
    /\ Goto(t, "dropSet")
    /\ UNCHANGED <<nodeVars, batchVars, run, lpc>>

-----------------------------------------------------------------------------
(* A holder of r and s lets go of them: the caller when enqueue_job        *)
(* returns (s, then r), the closure when the last clone of it is dropped   *)
(* (r, then s).  The last r is Drop for Registration.                      *)

ByCaller(t) == t # Loop \/ lpc = "job"
Holder(t) == IF ByCaller(t) THEN "caller" ELSE "closure"

DropSet(t) ==
    /\ At(t, "dropSet")
    /\ LET j == mine[t]
       IN  /\ sets' = [sets EXCEPT ![j] = @ \ {Holder(t)}]
           /\ IF sets'[j] = {} THEN Release(j) ELSE UNCHANGED ref
    /\ Goto(t, IF ByCaller(t) THEN "dropReg" ELSE "idle")
    /\ UNCHANGED <<queueVars, made, queued, dropped, stored, regs, batchVars, run, lpc>>

Dropped(t) == IF ByCaller(t) THEN "idle" ELSE "dropSet"

\* flag_as_dropped by the last holder; it pushes unless the node was queued.
DropReg(t) ==
    /\ At(t, "dropReg")
    /\ LET j == mine[t]
           last == regs[j] = {Holder(t)}
       IN  /\ regs' = [regs EXCEPT ![j] = @ \ {Holder(t)}]
           /\ dropped' = IF last THEN dropped \cup {j} ELSE dropped
           /\ queued' = IF last THEN queued \cup {j} ELSE queued
           /\ Goto(t, IF ~last THEN Dropped(t)
                      ELSE IF j \in queued THEN "releaseReg" ELSE "pushDropped")
    /\ UNCHANGED <<queueVars, made, ref, stored, sets, batchVars, run, lpc>>

\* enqueue_with_wakeup.  The queue is open: a thread in here has the loop.
PushDropped(t) ==
    /\ At(t, "pushDropped")
    /\ Q!Push(mine[t])
    /\ Goto(t, "releaseReg")
    /\ UNCHANGED <<nodeVars, batchVars, run, lpc>>

ReleaseReg(t) ==
    /\ At(t, "releaseReg")
    /\ Release(mine[t])
    /\ Goto(t, Dropped(t))
    /\ UNCHANGED <<queueVars, made, queued, dropped, stored, regs, sets, batchVars, run, lpc>>

-----------------------------------------------------------------------------
(* The loop's thread.                                                      *)

LoopGoto(l) == lpc' = l
LoopQuiet == At(Loop, "idle")

\* EventLoopPool::new has the loop from the channel before the thread runs it.
Build ==
    /\ lpc = "spawned"
    /\ LoopGoto("sent")
    /\ UNCHANGED <<queueVars, nodeVars, batchVars, run, threadVars>>

Run ==
    /\ lpc = "sent"
    /\ run' = TRUE
    /\ LoopGoto("check")
    /\ UNCHANGED <<queueVars, nodeVars, batchVars, threadVars>>

\* Mutant: run is a loop without end.
CheckRunForever ==
    /\ lpc = "check"
    /\ LoopGoto("poll")
    /\ UNCHANGED <<queueVars, nodeVars, batchVars, run, threadVars>>

CheckRun ==
    /\ lpc = "check"
    /\ LoopGoto(IF run THEN "poll" ELSE "done")
    /\ UNCHANGED <<queueVars, nodeVars, batchVars, run, threadVars>>

\* shutdown: nobody is woken; before run it has no effect.
Shutdown(t) ==
    /\ Active(t) /\ run
    /\ run' = FALSE
    /\ UNCHANGED <<queueVars, nodeVars, batchVars, lpc, threadVars>>

\* poll2 goes to sleep on an empty queue, or looks at the descriptors only.
PollSleeps ==
    /\ lpc = "poll"
    /\ Q!Sleep
    /\ LoopGoto("asleep")
    /\ UNCHANGED <<nodeVars, batchVars, run, threadVars>>

PollBusy ==
    /\ lpc = "poll" /\ q # <<>>
    /\ LoopGoto("drain")
    /\ UNCHANGED <<queueVars, nodeVars, batchVars, run, threadVars>>

\* epoll_wait returns: for the queue, or for a descriptor.
PollWakes ==
    /\ lpc = "asleep"
    /\ Q!WakeUp
    /\ LoopGoto("drain")
    /\ UNCHANGED <<nodeVars, batchVars, run, threadVars>>

\* Mutant: the event takes a clone and leaves the closure in the node.
TakeJobKeeps ==
    /\ lpc = "drain" /\ Len(batch) < Cap
    /\ q # <<>> /\ Head(q) \notin dropped
    /\ Q!Pop
    /\ queued' = queued \ {Head(q)}
    /\ batch' = Append(batch, Head(q))
    /\ UNCHANGED <<made, ref, dropped, stored, regs, sets, at, ran, run, lpc, threadVars>>

\* ReadinessQueue::poll: an edge-triggered node is dequeued, its closure goes
\* into Events and an empty one takes its place ...
TakeJob ==
    /\ lpc = "drain" /\ Len(batch) < Cap
    /\ q # <<>> /\ Head(q) \notin dropped
    /\ Q!Pop
    /\ queued' = queued \ {Head(q)}
    /\ stored' = stored \ {Head(q)}
    /\ batch' = Append(batch, Head(q))
    /\ UNCHANGED <<made, ref, dropped, regs, sets, at, ran, run, lpc, threadVars>>

\* ... and a dropped one is given back.
TakeDropped ==
    /\ lpc = "drain" /\ Len(batch) < Cap
    /\ q # <<>> /\ Head(q) \in dropped
    /\ Q!Pop
    /\ Release(Head(q))
    /\ UNCHANGED <<made, queued, dropped, stored, regs, sets, batchVars, run, lpc, threadVars>>

Drained ==
    /\ lpc = "drain" /\ (q = <<>> \/ Len(batch) = Cap)
    /\ LoopGoto("process")
    /\ UNCHANGED <<queueVars, nodeVars, batchVars, run, threadVars>>

\* io_process runs the jobs of the batch ...
BeginJob ==
    /\ lpc = "process" /\ at < Len(batch)
    /\ at' = at + 1
    /\ ran' = Append(ran, batch[at + 1])
    /\ LoopGoto("job")
    /\ UNCHANGED <<queueVars, nodeVars, batch, run, threadVars>>

EndJob ==
    /\ lpc = "job" /\ LoopQuiet
    /\ LoopGoto("process")
    /\ UNCHANGED <<queueVars, nodeVars, batchVars, run, threadVars>>

\* ... and then drops them.  The node has no clone of the closure any more, so
\* that its handles go with it.
BeginClear ==
    /\ lpc = "process" /\ at = Len(batch)
    /\ LoopGoto("clear")
    /\ UNCHANGED <<queueVars, nodeVars, batchVars, run, threadVars>>

ClearOne ==
    /\ lpc = "clear" /\ LoopQuiet /\ batch # <<>>
    /\ batch' = Tail(batch) /\ at' = at - 1
    /\ IF Head(batch) \in stored THEN UNCHANGED threadVars
       ELSE /\ pc' = [pc EXCEPT ![Loop] = "dropReg"]
            /\ mine' = [mine EXCEPT ![Loop] = Head(batch)]
    /\ UNCHANGED <<queueVars, nodeVars, ran, run, lpc>>

Cleared ==
    /\ lpc = "clear" /\ LoopQuiet /\ batch = <<>>
    /\ LoopGoto("check")
    /\ UNCHANGED <<queueVars, nodeVars, batchVars, run, threadVars>>

\* The last Arc of the EventLoop: the queue is closed and emptied.
DropLoop ==
    /\ lpc = "done" /\ \A t \in Thread : At(t, "idle")
    /\ Q!Close
    /\ UNCHANGED <<nodeVars, batchVars, run, lpc, threadVars>>

Drain ==
    /\ closed /\ q # <<>>
    /\ Q!Pop
    /\ Release(Head(q))
    /\ UNCHANGED <<made, queued, dropped, stored, regs, sets, batchVars, run, lpc, threadVars>>

-----------------------------------------------------------------------------
ThreadStep(t) == Push(t) \/ DropSet(t) \/ DropReg(t) \/ PushDropped(t) \/ ReleaseReg(t)

LoopStep ==
    \/ Build \/ Run \/ CheckRun \/ PollSleeps \/ PollBusy
    \/ TakeJob \/ TakeDropped \/ Drained
    \/ BeginJob \/ EndJob \/ BeginClear \/ ClearOne \/ Cleared

Next ==
    \/ LoopStep \/ PollWakes \/ DropLoop \/ Drain
    \/ \E t \in Thread : ThreadStep(t) \/ Shutdown(t) \/ \E j \in Job : EnqueueJob(t, j)

Spec == Init /\ [][Next]_vars

\* Threads run, jobs return, and epoll_wait returns when the pipe is readable.
LiveSpec ==
    /\ Spec
    /\ WF_vars(LoopStep) /\ SF_vars(EndJob)
    /\ WF_vars(q # <<>> /\ PollWakes) /\ WF_vars(Drain)
    /\ \A t \in Thread : WF_vars(ThreadStep(t))

-----------------------------------------------------------------------------
(* Properties.                                                             *)

InQueue == Q!Contents
InBatch == {batch[i] : i \in DOMAIN batch}

\* Every variable has its type, ref_count is never negative, and a batch
\* fits its Events.
TypeOK ==
    /\ q \in Seq(Job) /\ sleeping \in BOOLEAN /\ closed \in BOOLEAN
    /\ made \subseteq Job /\ queued \subseteq made /\ dropped \subseteq made /\ stored \subseteq made
    /\ ref \in [Job -> 0..3]
    /\ regs \in [Job -> SUBSET {"caller", "closure"}]
    /\ sets \in [Job -> SUBSET {"caller", "closure"}]
    /\ batch \in Seq(Job) /\ Len(batch) <= Cap /\ at \in 0..Len(batch)
    /\ ran \in Seq(Job) /\ run \in BOOLEAN
    /\ lpc \in {"spawned", "sent", "check", "poll", "asleep", "drain", "process", "job",
                "clear", "done"}
    /\ pc \in [Thread -> {"idle", "push", "dropSet", "dropReg", "pushDropped", "releaseReg"}]
    /\ mine \in [Thread -> Job \cup {NoJob}]

\* No node is freed while somebody can still reach it: not by a push, a
\* pop, a drop in progress or the closure that will run (event_loop.rs:296-323).
NoUseAfterFree ==
    /\ \A j \in InQueue \cup InBatch \cup stored : ref[j] > 0
    /\ \A t \in Thread : mine[t] # NoJob => ref[mine[t]] > 0

\* ref_count, the batch and the rest are well typed, and nodes outlive their use.
NodeLifetime == TypeOK /\ NoUseAfterFree

\* The cycle of node and closure is undone: whenever nothing is under way, the
\* node of every job has been freed, except for jobs that never ran because
\* the loop ended first; those leak with their closures.
NothingLeaks ==
    /\ q = <<>> /\ batch = <<>> /\ \A t \in Thread : At(t, "idle")
    => \A j \in made : ref[j] = 0 \/ (closed /\ j \notin {ran[i] : i \in DOMAIN ran})

\* Whatever is left to be run: the rest of the batch, and the queue.
Todo == SubSeq(batch, at + 1, Len(batch)) \o SelectSeq(q, LAMBDA j : j \notin dropped)

Service == INSTANCE JobService WITH todo <- Todo, ended <- lpc = "done"

\* enqueue_job implements JobService: each job once, in the order of the
\* pushes (so the jobs of one thread in its own order), and eventually.
RefinesJobService == Service!Spec

\* A shutdown is noticed: once the flag is off the loop ends with the turn in
\* which it has anything to do, though shutdown itself does not wake it.
ShutdownEnds ==
    (lpc # "spawned" /\ lpc # "sent" /\ ~run /\ (q # <<>> \/ batch # <<>>)) ~> lpc = "done"

=============================================================================
