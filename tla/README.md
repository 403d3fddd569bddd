# TLA+ models of my_mio

my_mio is a small fork of mio 0.6 with a muduo-like TCP layer on top. This
directory holds TLA+ models of its core, the TLC configurations that check them
on small instances, and TLAPS proofs. Paths below are relative to the
repository; `poll.rs:350` is `src/poll.rs`, line 350.

## The system

| Part | State | Operations | Talks to |
|---|---|---|---|
| `ReadinessQueue` (poll.rs) | intrusive list: `head_readiness`, `tail_readiness`, `next_readiness` of every node, three markers | `enqueue_node`, `dequeue_node`, `clear_sleep_marker`, `prepare_for_sleep`, `poll`, `Drop` | any thread pushes, the thread in `poll2` pops; wakes it through `Awakener` |
| `Awakener` (sys/unix/awakener.rs) | a non-blocking pipe, registered edge-triggered | `wakeup`, `cleanup` | epoll |
| `Poll::poll1` | `lock_state`, a mutex, a condition variable | enter, wait, leave | all threads that call `poll` |
| `Poll::poll2` | the timeout, the batch `Events` | sleep decision, `epoll_wait`, poll of the queue | `ReadinessQueue`, `Selector`, `Awakener` |
| `Registration`, `SetReadiness`, `ReadinessNode` | state word (readiness, interest, options, token positions, QUEUED, DROPPED), three token slots, `update_lock`, queue association, `ref_count`, `job` | `set_readiness`, `update`, both drops, `poll`'s turn | `ReadinessQueue` |
| `Timer` (timer.rs) | slab of entries, wheel of slots, `tick`, `next`, `wakeup_state` | `set_timeout`, `cancel_timeout`, `poll`, the wakeup thread | a `Registration`; `EventLoop::io_process` |
| `Selector`, `Events` (sys/unix/epoll.rs) | `events_map`: descriptor -> job | `register`, `reregister`, `deregister`, `select` | the kernel |
| `EventLoop`, pool, `enqueue_job` (net/event_loop.rs) | `run`, the `Poll`, the `Timer` | `run`, `io_process`, `timeout`, `shutdown` | everything above |
| `TcpConnection`, `Connector`, `Acceptor`, `TcpServer`, `TcpClient` (net/) | buffers, flags, jobs | event handlers | `EventLoop` |
| sockets, `LazyCell`, platform glue | none of interest | | |

What is hard here is concurrency without locks. Producers push on the list with a
swap and a later link; the poller decides to sleep from what it sees of the list;
the drop of the queue races late pushes; four kinds of threads change one state
word with `compare_exchange` and each concludes from its own old value who must
push; tokens and jobs live in plain memory next to it; the poll lock mixes a mutex
with a word that is released without it; the timer's wheel and its wakeup thread
race on one word and one readiness flag. The TCP layer adds Mutexes that are held over
callbacks and taken in two orders, set-up that is visible before it is complete, and handles
of the timer that outlive what they name. `hazards` in PROJECT.json lists these
places line by line, with the properties aimed at them.

What makes each part correct:

* queue: the list is a list, first in first out; no node is lost, duplicated or
  used after it was given back; nobody sleeps on a non-empty queue; a push is
  delivered; the drop gives back what it finds;
* poll lock: one thread in `poll2`; the word counts the waiters; no waiter is
  stranded;
* node: one push per QUEUED bit; a level-triggered readiness stays queued; poll
  reads the token of the registration it reports; the reference count is exact;
* timer: lists are linked; the wakeup is armed for every entry; due entries run;
  the thread ends with the timer;
* selector, loop, connections: a job runs for the descriptor it was registered
  for, once per event; no written byte is lost; close happens once;
* `enqueue_job`: every job runs once, in order, unless the loop ends first; node and
  closure, which own each other, are freed, once and not too early;
* connector: a call has one outcome; the loop's thread survives it; nobody else's timeout
  is cancelled;
* acceptor: nobody waits in the backlog without an event; nobody is turned away once the
  server is started; the two Mutexes do not meet.

## Modules

| Module | What it is |
|---|---|
| `FifoQueue` | abstract specification: a queue of distinct nodes whose consumer sleeps only when it is empty and is woken by a push |
| `ReadinessQueue` | the list, the sleep protocol of `poll2`, the pipe and `Drop`, one step per access to shared memory; shown to implement `FifoQueue` |
| `ReadinessQueueProofs` | TLAPS proofs about the list, the sleep protocol and the drop |
| `PollLock` | `poll1` |
| `PollLockProofs` | TLAPS proofs about `PollLock` |
| `ReadinessNode` | one node: state word, token slots, references, job |
| `ReadinessNodeProofs` | TLAPS proofs about one node, for all options and any number of threads, and that its record is the word of `ReadinessState` |
| `ReadinessState` | the state word bit by bit, and the flags it packs |
| `Timer` | wheel, wakeup thread and the loop's use of them |
| `TimerProofs` | TLAPS proofs about the lists of the wheel, the scan and the wakeup |
| `EventLoop` | `Selector`, `Events` and the loop: descriptors from `register` to their jobs |
| `EventLoopProofs` | TLAPS proofs about `events_map` and what reaches a job |
| `TcpConnection` | one connection: set-up, events, `send`, `shutdown`, close |
| `TcpConnectionProofs` | TLAPS proofs about order, input and close of a connection |
| `JobService` | abstract specification: jobs handed to a loop run once each, in order, until it ends |
| `JobQueue` | `enqueue_job`, the loop's turn and life, and the drop of the `Poll`, on top of `FifoQueue`; shown to implement `JobService` |
| `JobQueueProofs` | TLAPS proofs about the life of nodes and closures, and about the order of the jobs |
| `Connector` | `Connector` and `TcpClient`: `connect`, the answer, the timeout |
| `Acceptor` | `Acceptor` and `TcpServer`: start-up, accept, the two Mutexes |
| `ConnectorAcceptorProofs` | TLAPS proofs about both sides of a set-up: outcomes and timeouts of `connect`; the backlog, the two Mutexes and the start |
| `MC*` | instances for TLC |

### ReadinessQueue

`head`, `tail`, `next` are the fields of the same name. `pc`, `enq`, `prev` are
`enqueue_node`'s position and locals, per thread (the poller runs it too, for the
markers and for level-triggered nodes); `ppc`, `got`, `until`, `room`, `block` are
the poller's in `poll2`, `dequeue_node` and `Drop`. `chain` is auxiliary: the
pointers from tail to head in the order in which they were swapped in, which
makes "linked" and "first in first out" easy to say; `released` counts how often
the queue gave its reference to a node back. The state word is reduced to its
QUEUED and DROPPED bits here: `BeginEnqueue` and `BeginDrop` are the moments at
which a caller has turned QUEUED on. `epoll_wait` is `SelectNotify`,
`SelectOther`, `SelectInterrupted` or `SelectElapsed`; the pipe holds `PipeCap` bytes, is read
`ReadBuf` at a time, and its event is edge-triggered.

The memory is sequentially consistent: the orderings of the atomics are not
modelled. Allocation is not modelled; using a node after its release is what
`ReleasedOnce` rules out.

### PollLock

One action per operation on `lock_state`, the mutex or the condition variable.
`inc` is the local of that name, `curr` the local copy of the word. `Leave` is a
wait that ends by itself (spuriously or by its timeout), `Woken` gets the mutex
back.

### ReadinessNode

One node and its handles. The queue is what `ReadinessQueue` shows it to be: a push
puts the node in, or gives the reference back when it is closed. The `compare_exchange`
loops of `set_readiness`, `update` and `poll` are a read and one attempt per step,
as are the reads and writes of the slots and of the job. Init covers both
constructors: `new2` (no queue yet) and `new` (the timer's). `held` and `published` are
auxiliary. A job is named after the token it was passed with.

`ReadinessNode` keeps the state word as a record. `ReadinessState` is the word itself: a `usize` is
the set of its 1 bits, the methods keep their names, and `SetReadinessNext`, `UpdateNext` and
`PollNext` are what the three `compare_exchange` loops store. `StateOf` is the record of a word. The
four bits of a field are enough for every flag but those `Ready::all()` adds from
sys/unix/ready.rs, and `ReadinessState::set` does not mask what it is given.

### Timer

`poll_to` is a step per iteration of its loop. A callback runs between two calls of
`poll` and may set and cancel timeouts. `Clock` advances the time in milliseconds, so
that rounding to ticks is the code's. `wakeup_state`, the park token and the
readiness of the timer's registration are shared with the wakeup thread. `sameTick` is
auxiliary: entries inserted at the tick the wheel stood at; `zeroTick` that a timeout was set at
tick 0. The drop of the timer frees the wheel; what is left is the thread and its word.

### EventLoop

A `File` is a socket, a `Fd` the number it has while it is open. `eventsMap` is `events_map`,
`interest` and `pending` are the kernel's side of it, `raw` and `entries` the two vectors of
`Events`. `register` and `deregister` are two steps each (map and kernel, in the code's
order), on any thread, at any point of the loop's turn; calls on one file exclude each other,
as the `Mutex` around its owner makes them. Who holds a file (`handles`, `events_map`, the
clones in the batch, a call) decides when its descriptor is closed and its number free again.
`reregister` is modelled as it is: it stores the token where `select` looks for the descriptor.

### TcpConnection

The fields keep their names; `status`, `rx`, `space`, `wire` are the socket, `registered`,
`edge`, `batch` what the loop knows of it. `send` is one step (one system call under the
Mutex), `handle_event` a step per system call. `setup` follows `on_accept_connection`
(`registered = "no"` at the start) or `conn_job` of `TcpClient` (`"oneshot"`: the spent
registration of the `Connector`); the session has the connection already, so other threads
may use it. An `unwrap` of an error is the state `"panicked"`. Bytes are numbered.

### JobQueue

Composes the queue with the loop: `Q == INSTANCE FifoQueue` is the readiness queue as the run
`queue_live` shows it to be. A `Job` is one call of `enqueue_job` with its closure and its node;
`ref`, `queued`, `dropped` are the node's reference count and bits, `stored` says whose `job` field
holds the closure, `regs` and `sets` who has clones of `r` and `s`. Up to the push nobody else knows
the node, so `EnqueueJob` is one step; after it the caller's drops (`DropSet`, `DropReg`), the
loop's poll, run and clear, and the closure's own drops interleave. The last `r` marks the node
DROPPED and pushes it again, so that the queue's reference is given back by the next poll.
`Build` is `EventLoopPool::new`, which has the loop before `run` has begun. `ran` is auxiliary.
Descriptors are `EventLoop`'s subject: here they are a wakeup without a job.

### Connector

A `Call` is one call of `connect` with its socket and its handler; all of them use one
`Connector`, whose fields keep their names (`stream`, `timer`, `connJob`). Each locked region is
one step; only the handler's callback keeps the Mutex over several. `poisoned` is the Mutex after a
panic, and a thread that unwraps it panics too. The slab of the timer is a function from
keys to owner and tick, because that is what `cancel_timeout` compares; `Other` stands for timeouts
that other code sets on the same loop. The clock is left out: a timeout may run at any time, so
that every order with the answer and with `connect` itself happens. `cause` records the
uses of a `Connector` after which it may fail, and the properties name them:

* `early`: the timeout ran before `connect` had stored the handle and registered the stream
  (connector.rs:123 unwraps both);
* `overlap`: a second call while the first has no outcome; it replaces stream and handler;
* `retry`: a handler calls `start_connect` from its callback and waits for the Mutex it holds
  (connector.rs:55);
* `mixed`: a call without a timeout after one with; `timer` still holds the old handle
  (connector.rs:67);
* `closed`: `handle_close`, which deregisters and leaves stream and timeout behind;
* `syscall`: a system call failed and was unwrapped on the loop's thread.

`told = "timeout"` records that the timeout ran; the code tells no handler about it.
`event_loop.timeout` never returns an error, so the branch at connector.rs:131 is not reachable.

### Acceptor

`Starter`s call `start` and `start_internal`, in this order or without `start`; `sessionAlloc` and `acceptorJob` are
what they set. A thread that waits for its second Mutex holds its first: `ServerHeld` and
`AcceptorHeld`. `conn` follows each peer through the backlog, `accept`, the default
job (which drops it) or a session. `AcceptFails` is any error but `WouldBlock` and `Interrupted`, and may
cost a connection. `misuse` records a start without `start` (`noStart`), a second `start_internal`
(`twice`) and a failed `register` of a session; `failed` a round that ended with an error; `late`
the peers that came after `start_internal` had returned. The cycle of server, acceptor and job is
never dropped.

## Runs

| Run | Instance | Shows |
|---|---|---|
| `queue` | 2 nodes, 2 producers, batch of 2, pipe of 2 bytes read 1 at a time, `poll_interruptible` | `ListSound` (types, list linked, every queued node in one place, the `debug_assert!`s), no lost wakeup, released once, first in first out and what the drop drains |
| `queue_live` | 2 nodes, 1 producer, batch of 1, pipe of 1, `poll` | implements `FifoQueue` with its wakeup; nodes are delivered |
| `lock` | 3 threads | types, mutual exclusion, exact word, no stranded waiter, no deadlock, waiters lead to a poll |
| `node` | 1 setter, 2 updaters, level | types, one push per QUEUED bit, level-triggered readiness stays queued, token slots, reference count, `debug_assert!`s |
| `node_job` | 1 setter, 1 updater, edge | **violation**: an event without the job that was registered |
| `timer` | 3 entries in 2 slots, 3 ms of 2 ms ticks, delays 0 and 2 ms | lists linked, wakeup armed and its thread alive, only same-tick entries missed, timeouts run when their time has come, the wakeup thread ends |
| `loop` | 2 sockets, 2 descriptor numbers, the loop and 1 other thread | every reportable descriptor has its job, events reach their owner, a batch's sockets stay open, events are dispatched |
| `conn` | sends of 1 or 2 bytes, 4 in all, a send buffer of 2, 2 bytes from the peer | no stuck input, order, one close, a close by the peer is noticed |
| `conn_bytes` | sends of 2 bytes, a send buffer of 1 | **violation**: a short write loses bytes |
| `jobs` | 3 jobs, the loop and 2 other threads, batch of 2 | nodes freed once and not too early, nothing leaks, implements `JobService`, a shutdown ends the loop |
| `connect` | 2 calls, 2 keys of the slab, 1 tick | the loop's thread survives, `on_connect` is true, no other timeout is cancelled, one outcome, every call is answered |
| `accept` | 3 peers, 2 starters | nobody stuck in the backlog, no deadlock and no panic, nobody dropped after the start, everybody served |

Bounds. Two nodes and two producers give every pair of racing pushes, with a node
already in the list and the poller as a third pusher; a batch of two lets a level-triggered
node come round while another is behind it, and fill the batch. One byte per read and a
two-byte pipe make `cleanup` loop and writes fail. Three threads give a poller, a
waiter that times out and one that must not be stranded. Two updaters race for the association, the update lock and
a slot; one setter and the poller complete the writers of the word. Three entries give a list a first, a middle and a last, two slots
make lists of several rounds (ticks 0 to 3, so that a slot holds entries of two rounds), and
`MaxTick` bounds how far polls may move the wheel. The clock comes to ticks 1 and 2 (at 1 and 3 ms): a delay of 2 ms set at 0 or 1 ms is
armed and slept for before it is due, one for tick 2 may be behind one for tick 1, whose poll must arm the wakeup again, and a delay of 0 is due
when it is set. Two sockets are enough for one to take the number of the other in the
middle of a turn, and for a batch of two whose first job drops the second; the token given to `reregister` is one of the two
numbers, so that it hits the right entry, the wrong one or none. A send buffer of two and
sends of up to two give whole, short and refused writes. Three jobs overfill a batch of two
and let a job enqueue another behind one of each thread. One connect can end while the next begins;
two keys let a call and other code hold timeouts together, and a single tick makes every stale handle
agree in its tick with whoever has the key now, the worst case. Three peers give an
accept round one that is served, one that comes during it and one after it.

`node` is checked with level-triggered registrations, the ones poll pushes again; edge and
oneshot registrations with two updaters exceed what TLC does in minutes, and `node_job` explores edge
only up to its violation. For all options and any number of
threads the same properties are proved, in `ReadinessNodeProofs`.

Deadlock is checked in `lock`. The others may stop: everything can be dropped, and the
clock of `Timer` ends.

Fairness. Threads run (weak fairness of each thread's own steps); `poll` is called again
(`EventLoop::run` does nothing else); `epoll_wait` returns when its timeout is zero or
the pipe is readable; time passes. In `EventLoop` a job returns, however many calls it makes, and threads inside
`register` and `deregister` return; in `TcpConnection` the loop's thread runs. In `JobQueue` jobs return and `epoll_wait`
returns when the queue was pushed to; in `Connector` and `Acceptor` the threads inside `connect` and `start_internal`
run, handlers return, and TCP gives every `connect` an answer, if only its own timeout. Nothing is assumed about other descriptors, signals,
time-outs of the caller, spurious wakeups or drops. The mutex of `PollLock` is given
strong fairness (a thread is not passed over for ever while the mutex is free again and
again); without it Rust's mutex promises nothing at all, and which waiter gets in is left open. `Delivered` of the queue assumes
that descriptor events do not fill every batch for ever, because `poll` then never
looks at the queue (poll.rs:453).

## Findings

* `conn_bytes`: connection.rs:137 and 131 drop what the socket did not take; `write_buffer_sending` is never
  filled, so `handle_write` never has anything to send.
* `node_job`: poll.rs:887 keeps the job of `register` only if this call also
  queues the node, and poll.rs:502 replaces it after each event.

Behaviours that no document denies are written into the properties as their only exceptions.
In `Timer`, timer.rs:179 bumps a tick that has passed with `<` where the wheel needs `<=`: a
timeout at the wheel's own tick goes into a list the scan has left and waits for a full turn
(`OnlySameTickMissed` and `DueFires` show that nothing else is missed); at tick 0 the same insertion stores
0 in `wakeup_state`, which is `TERMINATE_THREAD`, and the wakeup thread ends (`WakeupArmed` shows that nothing else ends it early). The `cause`s of
`Connector` and the `misuse`s of `Acceptor` above are all reachable. A connection that arrives between
`bind` and `set_accept_job` is dropped (`StartedMeansServed`); an error of `accept` leaves the
rest of the backlog to the next edge (`BacklogSound`); jobs that a loop did not
reach before it ended leak with their closures (`NothingLeaks`); `shutdown` does not wake a
blocked loop (`ShutdownEnds`). An event of a socket that was closed between `epoll_wait` and the look-up, whose number another socket has
by then, goes to that one's job (`JobMeetsItsFile`), and a connection that is closed while it is being set up
panics in `close_stream` (`ClosesOnce`). A job is also left in `events_map` when `epoll_ctl` fails.

The wheel can also run ahead of the clock (timer.rs:224: a poll that finds nothing still
advances it a tick, and a stale `next_tick` has the wakeup thread ask for another at once), so a timeout may run early; no
document promises otherwise and no run states it. The drop of the queue leaves nodes behind
when a producer sits between its swap and its link (`DropDrains` says exactly when); they are
leaked, not freed twice.

## Proofs

`PollLockProofs` proves, for any finite set of threads, `TypeOK`, `OnePoller`, `WordExact` and
`NoStrandedWaiter`. The assumption is `ThreadAssumption` (the set of threads is finite, `Nobody` is none of them).
None of the first three is inductive alone: that `fetch_sub` does not underflow, and that
`curr & 1 == 0` means that nobody polls, need the word to be exact, which needs the
type, mutual exclusion (leaving clears the bit of the only poller) and where counted threads
can be. The inductive invariant `IInv` conjoins them with
`MutexHeld` (who is in the loop, reloads or notifies owns the mutex) and `CountedInside`.
`NoStrandedWaiter` is then inductive relative to `IInv`: the release sees the count of the waiters, a
waiter counts itself only while the bit is set, and a notification that finds nobody
waiting, under the mutex, means that every counted thread has left the condition variable.

`ReadinessNodeProofs` also proves that the record is a sound abstraction of the word, which no run looks
at: for every word and every value of four bits, the swaps of `set_readiness`, `update` and
`poll` change the record as `WithReadiness`, `WithRegistration` and `Polled` say
(`SetReadinessSimulates`, `UpdateSimulates`, `PollSimulates`). All rests on `SetBit`, which bits `set` turns
on and off, and on one lemma per field. For wider values, `FlagsKeepControl` shows that what spills
over stays in the flags: QUEUED, DROPPED and the token positions are safe from any caller.
`UpdateSimulates` covers them too, because `update` writes the options after the interest;
`WideReadinessArms` says which interests a wide `set_readiness` turns on for good.

`ReadinessQueueProofs` proves `ListSound`, `NoSleepOnWork` and `ReleasedOnce`, for any nodes,
producers, batch and pipe (`MarkersDistinct`, `PollerIsNoProducer`, `BoundsAssumption`). That the list is linked is not inductive
alone, because the three markers are reused: their `next` pointers are only reset when a push
stores them. The invariant adds where the markers can be in the list (`MarkersPlaced`), what a thread inside
`enqueue_node` carries and has already stored (`Pushes`), what the poller may rely on at each
position (`Turn`: between its load of `tail` and the swap nobody else moves `tail`), that a
queued node is in one place (`Places`: the list, a pusher's hands, the poller's hands, or given back),
and who will wake a poller that blocks (`Sleeps`: the first push behind the sleep marker has
seen that marker, and owes the pipe a byte until it has written it). Two more results follow. `DropLeavesOnlyOwed` is
`DropDrains`, the part of `OrderedAndDrained` about `Drop`; `FirstInFirstOut` says that no step changes the order of
two nodes of the list, which is what the refinement of `FifoQueue` is about.

`ReadinessNodeProofs` proves `NodeSound`, `TokenSlots`, `RefCountExact` and `DebugAsserts` for any setters, updaters, tokens,
readiness bits and options (`NodeAssumption`: threads have different names, the setters are finitely many). `Lives` ties handles to
the threads that use them, `UnderLock` is mutual exclusion in `update`, `Association` says who may still have to count the
queue's reference and that until then nothing but the drop can queue the node, `OneOwner` that a queued node is in the queue, in
poll's hands or in one pusher's, `Slots` what the three token slots hold between the steps of `update` and `poll`
(the slot poll may read is never the one that is written), and `Counted` is the sum behind `ref_count`.

`EventLoopProofs` proves `MapSound` and `JobMeetsItsFile` for any descriptors, files, tokens and threads. `LoopAssumption`
says that `None` is no descriptor, file or registration. `Numbers` (a number belongs to one open file, a closed file
stays closed), `Mapped` (a job in the map keeps its file open), `Kernel`, `Calls` (the map has the job before the kernel has the
file, and loses it later) and `Reported` (what an event that was not looked up yet still says of its file) follow a
descriptor from `register` to its job.

`JobQueueProofs` proves `NodeLifetime` and `NothingLeaks` for any jobs, threads and batch (`JobAssumption`). The invariant follows the
owners: `Handles` ties each clone of `r` and `s` to the position of whoever will drop it, `Places` each closure to the
node, the batch or the thread that drops it, and `RefExact` makes `ref_count` the number of references
that exist (the handles `s`, the handles `r` until the last one has left, the queue's). One consequence is that
the last `r` never finds its node queued, so it always pushes. `EachJobOnce` and `JobsKeepTheirOrder` are the safety
half of `JobService`: no job is run twice, and one that is ahead of another stays ahead until it is run.

`TcpConnectionProofs` proves `BytesInOrder`, `NoStuckInput` and `ClosesOnce` for any lengths, buffers and bounds
(`ConnectionAssumption`). `Life` is the life cycle: which positions of the set-up a close can meet and what is
left of the registration. `Stream` says that both buffers are empty between two calls, so that whatever a call
puts on the wire is later than all that is there; this is also why a short write loses bytes (`conn_bytes`).

`TimerProofs` proves `WheelSound`, `OnlySameTickMissed` and `WakeupArmed` for any slab, wheel, clock and delays. `TimerAssumption`
keeps ticks below the overflow (as in the runs, `MaxTick` and `MaxMs` bound the behaviour) and takes `TICK_MAX` for a number.
`WheelLinked` says of an entry and its neighbours that they agree, which an `unlink` preserves only if lists have no cycles. `ListInv`
therefore claims a ranking of the entries: `next` increases it and skips nothing (`Ranked`). `insert` gives the new head a rank
below the old one, `unlink` keeps all ranks (`Links`, `Unlinks`). The ranking also says what the scan has still to come to: every
due entry (`ScanInv`), and every entry whose tick the slot's `next_tick` no longer accounts for (`CountInv`). When the scan is through, neither
is left. `NextTickLeast` (that `next_tick` answers a lower bound of all slots) rests on `NatMinimum`, which comes from the
well-foundedness of `<`. `ParkInv` and `ArmedInv` add the wakeup thread: unless an `unpark` is under way it sleeps no longer
than `wakeup_state` says, and `wakeup_state` is no later than any entry, unless the thread or the queue
is about to bring the loop back. `LifeInv`, inductive relative to these, says that no word, slot or entry holds `TERMINATE_THREAD` unless a
timeout was set at tick 0 or the timer is dropped, so that the thread lives.

`ConnectorAcceptorProofs` proves `LoopSurvives`, `OnConnectSound`, `OnlyOwnTimeouts` and the action property `OneOutcome` for any calls, keys
and ticks. `ConnectorAssumption` only says that `None` (of an `Option`) is none of the values it stands beside.
One `Connector` serves all calls, so what is stored in it is a call's own only while calls do not overlap. `AloneInv` is the
state of affairs until then: `conn_job` and the stream are those of the one open call (`CallInv`), the events in the batch are of open calls
(`BatchInv`), the handle of an entry of the slab is on its way to `Connector.timer` or there (`SlabInv`), and a
timeout that runs has found its call open (`TimeoutInv`). `OwnInv` follows the handle that nothing resets: as long as no call without a timeout follows one with, and
no timeout comes before its call is through, it points at the open call's entry. `SurviveInv` is what the loop's thread unwraps. Each is claimed only
until one of the `cause`s its property names is recorded; all others, e.g. a registration that fails, remain possible.

The same module proves `BacklogSound`, `NoDeadlockNoPanic` and `StartedMeansServed` of `Acceptor` for any peers and any
starters (`AcceptorAssumption`: `NoPeer` is no peer). The Mutexes are taken in opposite orders, so the absence of a deadlock does not follow from the
locking. It follows from where the starters are while no `misuse` is recorded: one of them at most is inside `start_internal`
(`OneInside`), it went through `start` (`Allocated`), and no accept job runs before it is through (`JobMeansDone`).

Only model-checked: liveness and fairness; the refinements of `FifoQueue` and `JobService` as such and `FifoOrder`, because
their mappings use `SelectSeq`, which is recursive (what it computes cannot be proved here; `FirstInFirstOut`, `EachJobOnce` and
`JobsKeepTheirOrder` state the order without it). All other invariants and
action properties of the passing runs are proved.

## Not modelled

Weak memory orderings; the tearing of plain-memory accesses that race (`node.job`, the `Timer`
behind `UnsafeCell` used from two threads: `Connector` treats `event_loop.timeout` on another
thread as atomic); a `Registration` or a socket used with two Polls (`SelectorId`); `Timer::reregister`
and `deregister`, which nothing calls; calls of the public `close_stream` and `set_enabled` by user code, which
the repository does not make; an error of `epoll_wait` other than `Interrupted`, which ends `run`; system-call wrappers, the operators on flag sets, `LazyCell`, `dlsym`, examples.
