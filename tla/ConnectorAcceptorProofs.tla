----------------------- MODULE ConnectorAcceptorProofs -----------------------
(***************************************************************************)
(* Proofs about the two sides on which a connection comes to be.           *)
(*                                                                         *)
(* Connector, for any number of calls of connect, any keys and ticks.      *)
(* While calls do not overlap one of them is open, and the one Connector   *)
(* they share is that call's: AloneInv.  OwnInv adds where the stored      *)
(* Timeout points, and SurviveInv what the loop's thread finds when it     *)
(* unwraps, each as long as nothing is blamed that spoils it.              *)
(*                                                                         *)
(* Acceptor, for any set of peers and of starters.  The *)
(* two Mutexes are taken in opposite orders, so that neither the absence   *)
(* of a deadlock nor that of a panic follows from the locking.  They       *)
(* follow from where the starters are: while no misuse is recorded, one of *)
(* them at most is in start_internal (OneInside), it has gone through      *)
(* start (Allocated), and nobody is in the accept job before it is through *)
(* (JobMeansDone).                                                         *)
(***************************************************************************)
EXTENDS Connector, Acceptor, TLAPS

-----------------------------------------------------------------------------
(* Connector: the inductive invariant.                                     *)

\* A call that was begun and has no outcome yet: a member of Pending.
Busy(c) == pc[c] \notin {"idle", "panicked"} /\ told[c] = "no"

\* The loop's thread is in the callback of a connect timeout.
InTimeout == lpc \in {"timeout", "deregister"}

\* None of these uses has been recorded.
Free(why) == cause \cap why = {}

\* What holds of call c as long as calls do not overlap: it is the one whose
\* conn_job is stored, its socket is the one that is stored, and it is
\* registered only while its outcome is open, or connected.
CallInv(c) ==
    /\ Busy(c) => connJob = c
    /\ told[c] # "no" => pc[c] = "done"
    /\ pc[c] \in {"stored", "armed", "kept"} => stream = c
    /\ pc[c] = "done" /\ told[c] = "no" => stream = c
    /\ stream = c => pc[c] \notin {"idle", "begun"} /\ told[c] \in {"no", "timeout"}
    /\ reg[c] \in {"armed", "spent"} => pc[c] = "done" /\ told[c] = "no"
    /\ told[c] = "connected" => net[c] = "connected" /\ reg[c] = "conn"
    /\ reg[c] = "conn" => told[c] = "connected"

\* The events the loop still has are of calls whose outcome is open.
BatchInv ==
    /\ lpc # "events" => batch = {}
    /\ \A c \in batch : /\ pc[c] = "done" /\ told[c] = "no"
                        /\ net[c] \in {"connected", "refused"}

\* The entry at key k of the slab, if a call set it: the outcome of the call is
\* open, and its handle is on the way to Connector.timer, or there.
SlabInv(k) ==
    slab[k] # None /\ slab[k].owner # Other =>
        LET c == slab[k].owner
            h == [key |-> k, tick |-> slab[k].tick]
        IN /\ c \in timed /\ told[c] = "no"
           /\ pc[c] \in {"armed", "kept", "done", "panicked"}
           /\ pc[c] = "armed" => handle[c] = h
           /\ pc[c] \in {"kept", "done"} => timer = h
           /\ pc[c] = "panicked" => poisoned

\* The call whose timeout runs has no outcome, and no entry in the slab.
TimeoutInv ==
    InTimeout =>
        /\ cur \in timed /\ told[cur] = "no"
        /\ pc[cur] \in {"armed", "kept", "done", "panicked"}
        /\ pc[cur] = "panicked" => poisoned
        /\ pc[cur] # "panicked" => \A k \in Key : slab[k] # None => slab[k].owner # cur

\* All of this, as long as calls do not overlap.
AloneInv ==
    Free({"overlap"}) =>
        /\ \A c \in Call : CallInv(c)
        /\ BatchInv
        /\ \A k \in Key : SlabInv(k)
        /\ TimeoutInv

\* A timed call has stored its handle when it is through, which then stays.
TimerInv ==
    \A c \in Call :
        /\ pc[c] \in {"stored", "armed"} => c \in timed
        /\ pc[c] = "armed" => handle[c] \in Handle
        /\ c \in timed /\ pc[c] \in {"kept", "done"} => timer # None

\* What the stored handle points at, as long as no call without a timeout
\* follows one with, and no timeout comes early.
OwnInv ==
    Free({"mixed", "early", "overlap"}) =>
        /\ ~stray
        /\ InTimeout => pc[cur] = "done"
        /\ \A c \in Call :
             /\ Busy(c) /\ c \notin timed => timer = None
             /\ pc[c] = "armed" =>
                  slab[handle[c].key] # None /\ slab[handle[c].key].owner = c
             /\ Busy(c) /\ c \in timed /\ pc[c] \in {"kept", "done"} =>
                  /\ InTimeout => slab[timer.key] = None
                  /\ lpc # "dead" /\ ~InTimeout =>
                       slab[timer.key] # None /\ slab[timer.key].owner = c

\* What keeps the loop's thread alive.
SurviveInv ==
    Free({"syscall", "early", "overlap", "retry", "closed"}) =>
        /\ lpc \notin {"dead", "stuck"} /\ ~poisoned
        /\ InTimeout => pc[cur] = "done"
        /\ \A c \in Call : pc[c] = "done" /\ told[c] = "no" => reg[c] \in {"armed", "spent"}

\* The inductive invariant.
IInv == TypeOK /\ AloneInv /\ TimerInv /\ OwnInv /\ SurviveInv

-----------------------------------------------------------------------------
(* Connector: every action keeps it.                                       *)

\* A call begins: nobody is on the way, or calls overlap from now on.
LEMMA SetConnJobKeeps ==
    ASSUME IInv, NEW c \in Call, NEW t \in BOOLEAN, NEW l \in BOOLEAN, SetConnJob(c, t, l)
    PROVE  IInv'
<1> USE ConnectorAssumption DEF IInv, TypeOK, Handle, Entry, Free, InTimeout, Busy,
        SetConnJob, At, Blame, Unlocked, Pending, sockVars, loopVars
<1>1. TypeOK'
  OBVIOUS
<1>2. AloneInv'
  BY DEF AloneInv, CallInv, BatchInv, SlabInv, TimeoutInv
<1>3. TimerInv'
  BY DEF TimerInv
<1>4. OwnInv'
  <2> SUFFICES ASSUME Free({"mixed", "early", "overlap"})' PROVE OwnInv'
    BY DEF OwnInv
  <2>1. Free({"mixed", "early", "overlap"}) /\ Pending = {} /\ (t \/ timer = None)
    OBVIOUS
  <2>2. \A x \in Call : Busy(x)' => x = c
    BY <2>1
  <2>3. pc'[c] = "begun" /\ c \in Call
    OBVIOUS
  <2>4. \A x \in Call : pc'[x] = "armed" => x # c /\ pc[x] = "armed"
    OBVIOUS
  <2>5. InTimeout' => InTimeout /\ cur' = cur /\ cur # c
    BY <2>1 DEF AloneInv, TimeoutInv
  <2>6. QED
    BY <2>1, <2>2, <2>3, <2>4, <2>5 DEF OwnInv
<1>5. SurviveInv'
  BY DEF AloneInv, CallInv, BatchInv, SlabInv, TimeoutInv, TimerInv, SurviveInv
<1>6. QED
  BY <1>1, <1>2, <1>3, <1>4, <1>5

\* A call meets a poisoned Mutex: something was blamed for the poison.
LEMMA MeetsPoisonKeeps ==
    ASSUME IInv, NEW c \in Call, MeetsPoison(c)
    PROVE  IInv'
<1> USE ConnectorAssumption DEF IInv, TypeOK, Handle, Entry, Free, InTimeout, Busy,
        MeetsPoison, Goto, loopVars, connVars, sockVars, auxVars
<1>1. TypeOK'
  OBVIOUS
<1>2. AloneInv'
  BY DEF AloneInv, CallInv, BatchInv, SlabInv, TimeoutInv
<1>3. TimerInv'
  BY DEF TimerInv
<1>4. OwnInv'
  BY DEF AloneInv, CallInv, BatchInv, SlabInv, TimeoutInv, TimerInv, OwnInv
<1>5. SurviveInv'
  BY DEF AloneInv, CallInv, BatchInv, SlabInv, TimeoutInv, TimerInv, SurviveInv
<1>6. QED
  BY <1>1, <1>2, <1>3, <1>4, <1>5

\* The same at the start of a call.
LEMMA StartMeetsPoisonKeeps ==
    ASSUME IInv, NEW c \in Call, StartMeetsPoison(c)
    PROVE  IInv'
<1> USE ConnectorAssumption DEF IInv, TypeOK, Handle, Entry, Free, InTimeout, Busy,
        StartMeetsPoison, At, Unlocked, connVars, sockVars, auxVars
<1>1. TypeOK'
  OBVIOUS
<1>2. AloneInv'
  BY DEF AloneInv, CallInv, BatchInv, SlabInv, TimeoutInv
<1>3. TimerInv'
  BY DEF TimerInv
<1>4. OwnInv'
  BY DEF AloneInv, CallInv, BatchInv, SlabInv, TimeoutInv, TimerInv, OwnInv
<1>5. SurviveInv'
  BY DEF AloneInv, CallInv, BatchInv, SlabInv, TimeoutInv, TimerInv, SurviveInv
<1>6. QED
  BY <1>1, <1>2, <1>3, <1>4, <1>5

\* The stream of a call replaces one whose outcome is known.
LEMMA StoreKeeps ==
    ASSUME IInv, NEW c \in Call, Store(c)
    PROVE  IInv'
<1> USE ConnectorAssumption DEF IInv, TypeOK, Handle, Entry, Free, InTimeout, Busy, Store,
        Goto, loopVars, At, Unlocked, auxVars
<1>1. TypeOK'
  OBVIOUS
<1>2. AloneInv'
  BY DEF AloneInv, CallInv, BatchInv, SlabInv, TimeoutInv
<1>3. TimerInv'
  BY DEF TimerInv
<1>4. OwnInv'
  BY DEF AloneInv, CallInv, BatchInv, SlabInv, TimeoutInv, TimerInv, OwnInv
<1>5. SurviveInv'
  BY DEF AloneInv, CallInv, BatchInv, SlabInv, TimeoutInv, TimerInv, SurviveInv
<1>6. QED
  BY <1>1, <1>2, <1>3, <1>4, <1>5

\* A socket or a connect that fails leaves nothing behind.
LEMMA StreamFailsKeeps ==
    ASSUME IInv, NEW c \in Call, StreamFails(c)
    PROVE  IInv'
<1> USE ConnectorAssumption DEF IInv, TypeOK, Handle, Entry, Free, InTimeout, Busy,
        StreamFails, Goto, loopVars, At, Blame, connVars, sockVars
<1>1. TypeOK'
  OBVIOUS
<1>2. AloneInv'
  BY DEF AloneInv, CallInv, BatchInv, SlabInv, TimeoutInv
<1>3. TimerInv'
  BY DEF TimerInv
<1>4. OwnInv'
  BY DEF AloneInv, CallInv, BatchInv, SlabInv, TimeoutInv, TimerInv, OwnInv
<1>5. SurviveInv'
  <2> SUFFICES ASSUME Free({"syscall", "early", "overlap", "retry", "closed"})'
               PROVE  SurviveInv'
    BY DEF SurviveInv
  <2>1. Free({"syscall", "early", "overlap", "retry", "closed"}) /\ UNCHANGED loopVars
    OBVIOUS
  <2>2. \A x \in Call : pc'[x] = IF x = c THEN "panicked" ELSE pc[x]
    OBVIOUS
  <2>3. QED
    BY <2>1, <2>2 DEF SurviveInv
<1>6. QED
  BY <1>1, <1>2, <1>3, <1>4, <1>5

\* The timeout of a call gets an entry of the slab that nobody has.
LEMMA SetTimeoutKeeps ==
    ASSUME IInv, NEW c \in Call, NEW h \in Handle, SetTimeout(c, h)
    PROVE  IInv'
<1> USE ConnectorAssumption DEF IInv, TypeOK, Handle, Entry, Free, InTimeout, Busy,
        SetTimeout, Goto, loopVars, At, connVars, sockVars, auxVars
<1>1. TypeOK'
  OBVIOUS
<1>2. AloneInv'
  <2> SUFFICES ASSUME Free({"overlap"}) PROVE AloneInv'
    BY DEF AloneInv
  <2>1. (\A x \in Call : CallInv(x)') /\ BatchInv' /\ TimeoutInv'
    BY DEF AloneInv, CallInv, BatchInv, TimeoutInv
  <2>2. ASSUME NEW k \in Key, k # h.key PROVE SlabInv(k)'
    <3>1. slab'[k] = slab[k]
      BY <2>2
    <3>2. SlabInv(k) /\ pc[c] = "stored"
      BY DEF AloneInv
    <3>3. slab[k] # None => slab[k].owner # c
      BY <3>2 DEF SlabInv
    <3>4. \A x \in Call \ {c} : pc'[x] = pc[x] /\ handle'[x] = handle[x]
      OBVIOUS
    <3>5. QED
      BY <3>1, <3>2, <3>3, <3>4 DEF SlabInv
  <2>3. SlabInv(h.key)'
    <3>1. slab'[h.key] = [owner |-> c, tick |-> h.tick] /\ handle'[c] = h /\ pc'[c] = "armed"
      OBVIOUS
    <3>2. h = [key |-> h.key, tick |-> h.tick] /\ c \in timed /\ told[c] = "no"
      BY DEF AloneInv, CallInv, TimerInv
    <3>3. QED
      BY <3>1, <3>2 DEF SlabInv
  <2>4. QED
    BY <2>1, <2>2, <2>3 DEF AloneInv
<1>3. TimerInv'
  BY DEF TimerInv
<1>4. OwnInv'
  BY DEF AloneInv, CallInv, BatchInv, SlabInv, TimeoutInv, TimerInv, OwnInv
<1>5. SurviveInv'
  BY DEF AloneInv, CallInv, BatchInv, SlabInv, TimeoutInv, TimerInv, SurviveInv
<1>6. QED
  BY <1>1, <1>2, <1>3, <1>4, <1>5

\* The handle of a call is stored: no other call depends on the one before.
LEMMA KeepTimerKeeps ==
    ASSUME IInv, NEW c \in Call, KeepTimer(c)
    PROVE  IInv'
<1> USE ConnectorAssumption DEF IInv, TypeOK, Handle, Entry, Free, InTimeout, Busy,
        KeepTimer, Goto, loopVars, At, Unlocked, sockVars, auxVars
<1>1. TypeOK'
  OBVIOUS
<1>2. AloneInv'
  BY DEF AloneInv, CallInv, BatchInv, SlabInv, TimeoutInv
<1>3. TimerInv'
  BY DEF TimerInv
<1>4. OwnInv'
  <2> SUFFICES ASSUME Free({"mixed", "early", "overlap"}) PROVE OwnInv'
    BY DEF OwnInv
  <2>1. connJob = c /\ told[c] = "no" /\ \A x \in Call : Busy(x) => x = c
    BY DEF AloneInv, CallInv
  <2>2. ~InTimeout
    BY <2>1 DEF AloneInv, TimeoutInv, OwnInv
  <2>3. c \in timed /\ handle[c] \in Handle
    BY DEF TimerInv
  <2>4. slab[handle[c].key] # None /\ slab[handle[c].key].owner = c
    BY DEF OwnInv
  <2>5. \A x \in Call : pc'[x] # "armed" /\ (Busy(x)' => x = c)
    BY <2>1 DEF AloneInv, CallInv
  <2>6. ~InTimeout' /\ timer' = handle[c] /\ slab' = slab /\ stray' = stray
    BY <2>2
  <2>7. QED
    BY <2>3, <2>4, <2>5, <2>6 DEF OwnInv
<1>5. SurviveInv'
  BY DEF AloneInv, CallInv, BatchInv, SlabInv, TimeoutInv, TimerInv, SurviveInv
<1>6. QED
  BY <1>1, <1>2, <1>3, <1>4, <1>5

\* A call is through: its own stream is registered.
LEMMA RegisterKeeps ==
    ASSUME IInv, NEW c \in Call, Register(c)
    PROVE  IInv'
<1> USE ConnectorAssumption DEF IInv, TypeOK, Handle, Entry, Free, InTimeout, Busy,
        Register, Goto, loopVars, At, Unlocked, connVars, auxVars
<1>1. TypeOK'
  OBVIOUS
<1>2. AloneInv'
  BY DEF AloneInv, CallInv, BatchInv, SlabInv, TimeoutInv
<1>3. TimerInv'
  BY DEF TimerInv
<1>4. OwnInv'
  BY DEF AloneInv, CallInv, BatchInv, SlabInv, TimeoutInv, TimerInv, OwnInv
<1>5. SurviveInv'
  BY DEF AloneInv, CallInv, BatchInv, SlabInv, TimeoutInv, TimerInv, SurviveInv
<1>6. QED
  BY <1>1, <1>2, <1>3, <1>4, <1>5

\* register fails only because of the system call: the stream is there.
LEMMA RegisterFailsKeeps ==
    ASSUME IInv, NEW c \in Call, RegisterFails(c)
    PROVE  IInv'
<1> USE ConnectorAssumption DEF IInv, TypeOK, Handle, Entry, Free, InTimeout, Busy,
        RegisterFails, Goto, loopVars, At, Blame, Unlocked, sockVars
<1>1. TypeOK'
  OBVIOUS
<1>2. AloneInv'
  BY DEF AloneInv, CallInv, BatchInv, SlabInv, TimeoutInv
<1>3. TimerInv'
  BY DEF TimerInv
<1>4. OwnInv'
  BY DEF AloneInv, CallInv, BatchInv, SlabInv, TimeoutInv, TimerInv, OwnInv
<1>5. SurviveInv'
  <2>1. ~Free({"overlap"}) \/ (stream = c /\ reg[c] = "no")
    BY DEF AloneInv, CallInv
  <2>2. QED
    BY <2>1 DEF SurviveInv
<1>6. QED
  BY <1>1, <1>2, <1>3, <1>4, <1>5

\* handle_close.
LEMMA HandleCloseKeeps ==
    ASSUME IInv, HandleClose
    PROVE  IInv'
<1> USE ConnectorAssumption DEF IInv, TypeOK, Handle, Entry, Free, InTimeout, Busy,
        HandleClose, Blame, Unlocked, callVars, loopVars
<1>1. TypeOK'
  OBVIOUS
<1>2. AloneInv'
  BY DEF AloneInv, CallInv, BatchInv, SlabInv, TimeoutInv
<1>3. TimerInv'
  BY DEF TimerInv
<1>4. OwnInv'
  BY DEF AloneInv, CallInv, BatchInv, SlabInv, TimeoutInv, TimerInv, OwnInv
<1>5. SurviveInv'
  BY DEF AloneInv, CallInv, BatchInv, SlabInv, TimeoutInv, TimerInv, SurviveInv
<1>6. QED
  BY <1>1, <1>2, <1>3, <1>4, <1>5

\* TCP answers.
LEMMA ResolveKeeps ==
    ASSUME IInv, NEW c \in Call, Resolve(c)
    PROVE  IInv'
<1> USE ConnectorAssumption DEF IInv, TypeOK, Handle, Entry, Free, InTimeout, Busy, Resolve,
        connVars, callVars, loopVars, auxVars
<1>1. TypeOK'
  OBVIOUS
<1>2. AloneInv'
  BY DEF AloneInv, CallInv, BatchInv, SlabInv, TimeoutInv
<1>3. TimerInv'
  BY DEF TimerInv
<1>4. OwnInv'
  BY DEF AloneInv, CallInv, BatchInv, SlabInv, TimeoutInv, TimerInv, OwnInv
<1>5. SurviveInv'
  BY DEF AloneInv, CallInv, BatchInv, SlabInv, TimeoutInv, TimerInv, SurviveInv
<1>6. QED
  BY <1>1, <1>2, <1>3, <1>4, <1>5

\* Other code takes a free entry of the slab ...
LEMMA OtherTimeoutKeeps ==
    ASSUME IInv, NEW h \in Handle, OtherTimeout(h)
    PROVE  IInv'
<1> USE ConnectorAssumption DEF IInv, TypeOK, Handle, Entry, Free, InTimeout, Busy,
        OtherTimeout, connVars, callVars, sockVars, loopVars, auxVars
<1>1. TypeOK'
  OBVIOUS
<1>2. AloneInv'
  BY DEF AloneInv, CallInv, BatchInv, SlabInv, TimeoutInv
<1>3. TimerInv'
  BY DEF TimerInv
<1>4. OwnInv'
  BY DEF AloneInv, CallInv, BatchInv, SlabInv, TimeoutInv, TimerInv, OwnInv
<1>5. SurviveInv'
  BY DEF AloneInv, CallInv, BatchInv, SlabInv, TimeoutInv, TimerInv, SurviveInv
<1>6. QED
  BY <1>1, <1>2, <1>3, <1>4, <1>5

\* ... and its timeout runs.
LEMMA OtherRunsKeeps ==
    ASSUME IInv, NEW k \in Key, OtherRuns(k)
    PROVE  IInv'
<1> USE ConnectorAssumption DEF IInv, TypeOK, Handle, Entry, Free, InTimeout, Busy,
        OtherRuns, connVars, callVars, sockVars, loopVars, auxVars
<1>1. TypeOK'
  OBVIOUS
<1>2. AloneInv'
  BY DEF AloneInv, CallInv, BatchInv, SlabInv, TimeoutInv
<1>3. TimerInv'
  BY DEF TimerInv
<1>4. OwnInv'
  BY DEF AloneInv, CallInv, BatchInv, SlabInv, TimeoutInv, TimerInv, OwnInv
<1>5. SurviveInv'
  BY DEF AloneInv, CallInv, BatchInv, SlabInv, TimeoutInv, TimerInv, SurviveInv
<1>6. QED
  BY <1>1, <1>2, <1>3, <1>4, <1>5

\* The loop gets events of calls that are open.
LEMMA SelectKeeps ==
    ASSUME IInv, Select
    PROVE  IInv'
<1> USE ConnectorAssumption DEF IInv, TypeOK, Handle, Entry, Free, InTimeout, Busy, Select,
        connVars, callVars, auxVars
<1>1. TypeOK'
  OBVIOUS
<1>2. AloneInv'
  BY DEF AloneInv, CallInv, BatchInv, SlabInv, TimeoutInv
<1>3. TimerInv'
  BY DEF TimerInv
<1>4. OwnInv'
  BY DEF AloneInv, CallInv, BatchInv, SlabInv, TimeoutInv, TimerInv, OwnInv
<1>5. SurviveInv'
  BY DEF AloneInv, CallInv, BatchInv, SlabInv, TimeoutInv, TimerInv, SurviveInv
<1>6. QED
  BY <1>1, <1>2, <1>3, <1>4, <1>5

\* on_error: the stream and the job belong to the call of the event, and so does
\* the timeout that is cancelled.
LEMMA ConnectFailsKeeps ==
    ASSUME IInv, NEW c \in Call, ConnectFails(c)
    PROVE  IInv'
<1> USE ConnectorAssumption DEF IInv, TypeOK, Handle, Entry, Free, InTimeout, Busy,
        ConnectFails, TakesStream, ClearTimeout, callVars
<1>1. TypeOK'
  OBVIOUS
<1>2. AloneInv'
  BY DEF AloneInv, CallInv, BatchInv, SlabInv, TimeoutInv
<1>3. TimerInv'
  BY DEF TimerInv
<1>4. OwnInv'
  BY DEF AloneInv, CallInv, BatchInv, SlabInv, TimeoutInv, TimerInv, OwnInv
<1>5. SurviveInv'
  BY DEF AloneInv, CallInv, BatchInv, SlabInv, TimeoutInv, TimerInv, SurviveInv
<1>6. QED
  BY <1>1, <1>2, <1>3, <1>4, <1>5

\* on_connect: the same.
LEMMA ConnectedKeeps ==
    ASSUME IInv, NEW c \in Call, Connected(c)
    PROVE  IInv'
<1> USE ConnectorAssumption DEF IInv, TypeOK, Handle, Entry, Free, InTimeout, Busy,
        Connected, TakesStream, ClearTimeout, callVars
<1>1. TypeOK'
  OBVIOUS
<1>2. AloneInv'
  BY DEF AloneInv, CallInv, BatchInv, SlabInv, TimeoutInv
<1>3. TimerInv'
  BY DEF TimerInv
<1>4. OwnInv'
  BY DEF AloneInv, CallInv, BatchInv, SlabInv, TimeoutInv, TimerInv, OwnInv
<1>5. SurviveInv'
  BY DEF AloneInv, CallInv, BatchInv, SlabInv, TimeoutInv, TimerInv, SurviveInv
<1>6. QED
  BY <1>1, <1>2, <1>3, <1>4, <1>5

\* An event finds no stream only after somebody was blamed.
LEMMA HandleEventPanicsKeeps ==
    ASSUME IInv, NEW c \in Call, HandleEventPanics(c)
    PROVE  IInv'
<1> USE ConnectorAssumption DEF IInv, TypeOK, Handle, Entry, Free, InTimeout, Busy,
        HandleEventPanics, Dies, callVars, sockVars, auxVars
<1>1. TypeOK'
  OBVIOUS
<1>2. AloneInv'
  BY DEF AloneInv, CallInv, BatchInv, SlabInv, TimeoutInv
<1>3. TimerInv'
  BY DEF TimerInv
<1>4. OwnInv'
  BY DEF AloneInv, CallInv, BatchInv, SlabInv, TimeoutInv, TimerInv, OwnInv
<1>5. SurviveInv'
  BY DEF AloneInv, CallInv, BatchInv, SlabInv, TimeoutInv, TimerInv, SurviveInv
<1>6. QED
  BY <1>1, <1>2, <1>3, <1>4, <1>5

\* A handler returns.
LEMMA CallbackReturnsKeeps ==
    ASSUME IInv, CallbackReturns
    PROVE  IInv'
<1> USE ConnectorAssumption DEF IInv, TypeOK, Handle, Entry, Free, InTimeout, Busy,
        CallbackReturns, connVars, callVars, sockVars, auxVars
<1>1. TypeOK'
  OBVIOUS
<1>2. AloneInv'
  BY DEF AloneInv, CallInv, BatchInv, SlabInv, TimeoutInv
<1>3. TimerInv'
  BY DEF TimerInv
<1>4. OwnInv'
  BY DEF AloneInv, CallInv, BatchInv, SlabInv, TimeoutInv, TimerInv, OwnInv
<1>5. SurviveInv'
  BY DEF AloneInv, CallInv, BatchInv, SlabInv, TimeoutInv, TimerInv, SurviveInv
<1>6. QED
  BY <1>1, <1>2, <1>3, <1>4, <1>5

\* A handler calls start_connect: it is blamed.
LEMMA CallbackReconnectsKeeps ==
    ASSUME IInv, CallbackReconnects
    PROVE  IInv'
<1> USE ConnectorAssumption DEF IInv, TypeOK, Handle, Entry, Free, InTimeout, Busy,
        CallbackReconnects, Blame, connVars, callVars, sockVars
<1>1. TypeOK'
  OBVIOUS
<1>2. AloneInv'
  BY DEF AloneInv, CallInv, BatchInv, SlabInv, TimeoutInv
<1>3. TimerInv'
  BY DEF TimerInv
<1>4. OwnInv'
  BY DEF AloneInv, CallInv, BatchInv, SlabInv, TimeoutInv, TimerInv, OwnInv
<1>5. SurviveInv'
  BY DEF AloneInv, CallInv, BatchInv, SlabInv, TimeoutInv, TimerInv, SurviveInv
<1>6. QED
  BY <1>1, <1>2, <1>3, <1>4, <1>5

\* The batch is done.
LEMMA EventsDoneKeeps ==
    ASSUME IInv, EventsDone
    PROVE  IInv'
<1> USE ConnectorAssumption DEF IInv, TypeOK, Handle, Entry, Free, InTimeout, Busy,
        EventsDone, connVars, callVars, sockVars, auxVars
<1>1. TypeOK'
  OBVIOUS
<1>2. AloneInv'
  BY DEF AloneInv, CallInv, BatchInv, SlabInv, TimeoutInv
<1>3. TimerInv'
  BY DEF TimerInv
<1>4. OwnInv'
  BY DEF AloneInv, CallInv, BatchInv, SlabInv, TimeoutInv, TimerInv, OwnInv
<1>5. SurviveInv'
  BY DEF AloneInv, CallInv, BatchInv, SlabInv, TimeoutInv, TimerInv, SurviveInv
<1>6. QED
  BY <1>1, <1>2, <1>3, <1>4, <1>5

\* A connect timeout runs: it was the only entry of a call that is open.
LEMMA ExpireKeeps ==
    ASSUME IInv, NEW k \in Key, Expire(k)
    PROVE  IInv'
<1> USE ConnectorAssumption DEF IInv, TypeOK, Handle, Entry, Free, InTimeout, Busy, Expire,
        Blame, connVars, callVars, sockVars
<1>1. TypeOK'
  OBVIOUS
<1>2. AloneInv'
  <2> DEFINE o == slab[k].owner
  <2> SUFFICES ASSUME Free({"overlap"}) PROVE AloneInv'
    BY DEF AloneInv
  <2>1. (\A x \in Call : CallInv(x)') /\ BatchInv' /\ \A j \in Key : SlabInv(j)'
    BY DEF AloneInv, CallInv, BatchInv, SlabInv
  <2>2. /\ o \in timed /\ told[o] = "no" /\ pc[o] \in {"armed", "kept", "done", "panicked"}
        /\ pc[o] = "panicked" => poisoned
    BY DEF AloneInv, SlabInv
  <2>3. ASSUME NEW j \in Key, slab'[j] # None, slab'[j].owner = o, pc[o] # "panicked"
        PROVE  FALSE
    <3>1. j # k /\ slab[j] # None /\ slab[j].owner = o
      BY <2>3
    <3>2. SlabInv(j) /\ SlabInv(k)
      BY DEF AloneInv
    <3>3. [key |-> j, tick |-> slab[j].tick] = [key |-> k, tick |-> slab[k].tick]
      BY <2>3, <3>1, <3>2 DEF SlabInv
    <3>4. QED
      BY <3>1, <3>3
  <2>4. TimeoutInv'
    BY <2>2, <2>3 DEF TimeoutInv
  <2>5. QED
    BY <2>1, <2>4 DEF AloneInv
<1>3. TimerInv'
  BY DEF TimerInv
<1>4. OwnInv'
  <2> DEFINE o == slab[k].owner
  <2> SUFFICES ASSUME Free({"mixed", "early", "overlap"})' PROVE OwnInv'
    BY DEF OwnInv
  <2>1. Free({"mixed", "early", "overlap"}) /\ o \in Call /\ pc[o] = "done"
    OBVIOUS
  <2>2. told[o] = "no" /\ timer = [key |-> k, tick |-> slab[k].tick]
    BY <2>1 DEF AloneInv, SlabInv
  <2>3. \A x \in Call : Busy(x) => x = o
    BY <2>1, <2>2 DEF AloneInv, CallInv
  <2>4. \A x \in Call : pc[x] = "armed" => Busy(x)
    BY <2>1 DEF AloneInv, CallInv
  <2>5. slab'[timer.key] = None /\ InTimeout' /\ cur' = o
    BY <2>2
  <2>6. QED
    BY <2>1, <2>2, <2>3, <2>4, <2>5 DEF OwnInv
<1>5. SurviveInv'
  <2>1. Free({"early"})' => pc'[cur'] = "done"
    OBVIOUS
  <2>2. QED
    BY <2>1 DEF SurviveInv
<1>6. QED
  BY <1>1, <1>2, <1>3, <1>4, <1>5

\* The timeout's callback finds the handle of its own call, whose entry is gone.
LEMMA TimeoutClearsKeeps ==
    ASSUME IInv, TimeoutClears
    PROVE  IInv'
<1> USE ConnectorAssumption DEF IInv, TypeOK, Handle, Entry, Free, InTimeout, Busy,
        TimeoutClears, ClearTimeout, Dies, callVars, sockVars, auxVars
<1>1. TypeOK'
  OBVIOUS
<1>2. AloneInv'
  BY DEF AloneInv, CallInv, BatchInv, SlabInv, TimeoutInv
<1>3. TimerInv'
  BY DEF TimerInv
<1>4. OwnInv'
  BY DEF AloneInv, CallInv, BatchInv, SlabInv, TimeoutInv, TimerInv, OwnInv
<1>5. SurviveInv'
  BY DEF AloneInv, CallInv, BatchInv, SlabInv, TimeoutInv, TimerInv, SurviveInv
<1>6. QED
  BY <1>1, <1>2, <1>3, <1>4, <1>5

\* The timeout's callback finds the stream of its own call, registered.
LEMMA TimeoutDeregistersKeeps ==
    ASSUME IInv, TimeoutDeregisters
    PROVE  IInv'
<1> USE ConnectorAssumption DEF IInv, TypeOK, Handle, Entry, Free, InTimeout, Busy,
        TimeoutDeregisters, Dies, callVars
<1>1. TypeOK'
  <2>1. told' \in [Call -> {"no", "connected", "error", "timeout"}]
    OBVIOUS
  <2>2. reg' \in [Call -> {"no", "armed", "spent", "conn"}]
    OBVIOUS
  <2>3. QED
    BY <2>1, <2>2
<1>2. AloneInv'
  BY DEF AloneInv, CallInv, BatchInv, SlabInv, TimeoutInv
<1>3. TimerInv'
  BY DEF TimerInv
<1>4. OwnInv'
  BY DEF AloneInv, CallInv, BatchInv, SlabInv, TimeoutInv, TimerInv, OwnInv
<1>5. SurviveInv'
  BY DEF AloneInv, CallInv, BatchInv, SlabInv, TimeoutInv, TimerInv, SurviveInv
<1>6. QED
  BY <1>1, <1>2, <1>3, <1>4, <1>5

\* IInv holds at the start.
LEMMA InitIInv == Init => IInv
<1> SUFFICES ASSUME Init PROVE IInv
  OBVIOUS
<1> USE ConnectorAssumption DEF Init, Free, InTimeout, Busy
<1>1. TypeOK
  BY DEF TypeOK
<1>2. AloneInv
  BY DEF AloneInv, CallInv, BatchInv, SlabInv, TimeoutInv
<1>3. TimerInv /\ OwnInv /\ SurviveInv
  BY DEF TimerInv, OwnInv, SurviveInv
<1>4. QED
  BY <1>1, <1>2, <1>3 DEF IInv

\* Every step keeps IInv.
LEMMA NextIInv == IInv /\ [Next]_vars => IInv'
<1> SUFFICES ASSUME IInv, [Next]_vars PROVE IInv'
  OBVIOUS
<1>1. ASSUME LoopStep PROVE IInv'
  BY <1>1, SelectKeeps, CallbackReturnsKeeps, EventsDoneKeeps, TimeoutClearsKeeps,
     TimeoutDeregistersKeeps, ConnectFailsKeeps, ConnectedKeeps, HandleEventPanicsKeeps
     DEF LoopStep
<1>2. ASSUME NEW c \in Call, CallStep(c) PROVE IInv'
  BY <1>2, MeetsPoisonKeeps, StoreKeeps, StreamFailsKeeps, SetTimeoutKeeps, KeepTimerKeeps,
     RegisterKeeps, RegisterFailsKeeps DEF CallStep
<1>3. CASE UNCHANGED vars
  BY <1>3 DEF vars, connVars, callVars, sockVars, loopVars, auxVars, IInv, TypeOK, AloneInv,
     CallInv, BatchInv, SlabInv, TimeoutInv, TimerInv, OwnInv, SurviveInv, Free, InTimeout, Busy
<1>4. QED
  BY <1>1, <1>2, <1>3, CallbackReconnectsKeeps, HandleCloseKeeps, ResolveKeeps,
     StartMeetsPoisonKeeps, SetConnJobKeeps, OtherTimeoutKeeps, OtherRunsKeeps, ExpireKeeps
     DEF Next

\* IInv is an invariant.
LEMMA Invariance == Spec => []IInv
BY InitIInv, NextIInv, PTL DEF Spec

-----------------------------------------------------------------------------
(* Connector: the theorems.                                                *)

\* The loop's thread outlives every answer and every timeout, but for the five
\* causes (the unwraps and assert_eq of Connector::handle_on_connect and of the
\* timeout's callback).
THEOREM LoopThreadSurvives == Spec => []LoopSurvives
<1>1. IInv => LoopSurvives
  BY DEF IInv, SurviveInv, LoopSurvives, Free
<1>2. QED
  BY <1>1, Invariance, PTL

\* on_connect is called only for the call's own socket, connected and registered
\* for the connection, as long as calls do not overlap.
THEOREM OnConnectIsSound == Spec => []OnConnectSound
<1>1. IInv => OnConnectSound
  BY DEF IInv, AloneInv, CallInv, OnConnectSound, OnConnectMeansConnected, Free
<1>2. QED
  BY <1>1, Invariance, PTL

\* The handle of Connector.timer that is never reset cancels no timeout of other
\* code, but for the three causes.
THEOREM NoStrayCancel == Spec => []OnlyOwnTimeouts
<1>1. IInv => OnlyOwnTimeouts
  BY DEF IInv, OwnInv, OnlyOwnTimeouts, Free
<1>2. QED
  BY <1>1, Invariance, PTL

\* An outcome is final: the events and timeouts that are under way when a call is
\* answered do not answer it again.
THEOREM OutcomeIsFinal == Spec => OneOutcome
<1> DEFINE Final == \A c \in Call : told[c] # "no" => told'[c] = told[c] \/ "overlap" \in cause'
<1>1. ASSUME IInv, [Next]_vars PROVE Final
  <2>1. CASE told' = told
    BY <2>1
  <2>2. ASSUME NEW c \in Call, ConnectFails(c) \/ Connected(c) PROVE Final
    BY <1>1, <2>2 DEF IInv, TypeOK, AloneInv, CallInv, BatchInv, Busy, Free, ConnectFails,
       Connected, TakesStream
  <2>3. CASE TimeoutDeregisters
    BY <1>1, <2>3 DEF IInv, TypeOK, TimeoutDeregisters
  <2>4. QED
    BY <1>1, <2>1, <2>2, <2>3 DEF Next, LoopStep, CallStep, SetConnJob, MeetsPoison,
       StartMeetsPoison, Store, StreamFails, SetTimeout, KeepTimer, Register, RegisterFails,
       HandleClose, Resolve, OtherTimeout, OtherRuns, Select, HandleEventPanics,
       CallbackReturns, CallbackReconnects, EventsDone, Expire, TimeoutClears, auxVars, vars
<1>2. QED
  BY <1>1, Invariance, PTL DEF Spec, OneOutcome

-----------------------------------------------------------------------------
(* Acceptor: the inductive invariant.                                      *)

\* Thread a has entered start_internal.
Inside(a) == starterPc[a] \notin {"new", "started"}

\* While nothing was misused, start_internal is entered by one thread.
OneInside == misuse = {} => \A a, b \in Starter : Inside(a) /\ Inside(b) => a = b

\* While nothing was misused, nobody is in start_internal without an allocator.
Allocated == misuse = {} => \A a \in Starter : starterPc[a] # "new" => sessionAlloc

\* While nothing was misused, no Mutex is poisoned and no thread has panicked.
Clean == misuse = {} =>
    poisonedLocks = {} /\ acceptPc # "dead" /\ \A a \in Starter : starterPc[a] # "panicked"

\* A registered listener was registered by a thread that is past bind.
BoundByOne == misuse = {} /\ registered =>
    \E a \in Starter : starterPc[a] \in {"bound", "setting", "done"}

\* The server's job is in place once start_internal has returned, and while
\* nothing was misused not before.
JobMeansDone ==
    /\ \A a \in Starter : starterPc[a] = "done" => acceptorJob = "server"
    /\ misuse = {} /\ acceptorJob = "server" => \E a \in Starter : starterPc[a] = "done"
    /\ acceptPc = "job" => acceptorJob = "server"

\* The loop's thread has a connection in its hands exactly in the accept job.
InHands == acceptPc = "job" <=> accepted # NoPeer

\* A late peer finds the server's job.
LateFindsJob == late # {} => acceptorJob = "server"

\* The inductive invariant.
ServerIInv ==
    /\ ServerTypeOK /\ InHands /\ NoStuckBacklog
    /\ OneInside /\ Allocated /\ Clean /\ BoundByOne /\ JobMeansDone
    /\ LateFindsJob /\ StartedMeansServed

-----------------------------------------------------------------------------
(* Acceptor: every action keeps it.                                        *)

\* Nobody has started, connected or misused anything in the beginning.
LEMMA ServerInitIInv == ServerInit => ServerIInv
  BY AcceptorAssumption DEF ServerInit, ServerIInv, ServerTypeOK, InHands, NoStuckBacklog, Backlog, OneInside, Allocated, Clean,
      BoundByOne, JobMeansDone, LateFindsJob, StartedMeansServed, Inside

\* Every step keeps the starters, the Mutexes and the loop's thread in agreement.
LEMMA ServerNextIInv ==
    ServerIInv /\ [ServerNext]_serverVars => ServerIInv'
  <1> SUFFICES ASSUME ServerIInv, [ServerNext]_serverVars PROVE ServerIInv'
    OBVIOUS
  <1> USE AcceptorAssumption DEF startVars, kernelVars, acceptorVars, StarterAt, StarterGoto,
        ServerHeld, AcceptorHeld, Inside
  <1>i. /\ ServerTypeOK /\ InHands /\ NoStuckBacklog
        /\ OneInside /\ Allocated /\ Clean /\ BoundByOne /\ JobMeansDone
        /\ LateFindsJob /\ StartedMeansServed
    BY DEF ServerIInv
  <1>1. ASSUME NEW a \in Starter, Start(a) PROVE ServerIInv'
    <2> USE <1>i, <1>1 DEF Start, ServerTypeOK
    <2>1. ServerTypeOK' /\ InHands' /\ NoStuckBacklog' /\ LateFindsJob' /\ StartedMeansServed'
      BY DEF InHands, NoStuckBacklog, Backlog, LateFindsJob, StartedMeansServed
    <2>2. OneInside' /\ Allocated' /\ Clean'
      BY DEF OneInside, Allocated, Clean
    <2>3. BoundByOne' /\ JobMeansDone'
      BY DEF BoundByOne, JobMeansDone
    <2> QED BY <2>1, <2>2, <2>3 DEF ServerIInv
  <1>2. ASSUME NEW a \in Starter, LockServer(a) PROVE ServerIInv'
    <2> USE <1>i, <1>2 DEF LockServer, ServerTypeOK
    <2>1. ServerTypeOK' /\ InHands' /\ NoStuckBacklog' /\ LateFindsJob' /\ StartedMeansServed'
      BY DEF InHands, NoStuckBacklog, Backlog, LateFindsJob, StartedMeansServed
    <2>2. misuse' = {} =>
             /\ misuse = {} /\ starterPc[a] # "new"
             /\ \A b \in Starter \ {a} : starterPc[b] \in {"new", "started"}
      OBVIOUS
    <2>3. OneInside' /\ Allocated' /\ Clean'
      BY <2>2 DEF OneInside, Allocated, Clean
    <2>4. BoundByOne'
      BY <2>2 DEF BoundByOne
    <2>5. JobMeansDone'
      BY <2>2 DEF JobMeansDone
    <2> QED BY <2>1, <2>3, <2>4, <2>5 DEF ServerIInv
  <1>3. ASSUME NEW a \in Starter, StarterMeetsPoison(a) PROVE ServerIInv'
    <2> USE <1>i, <1>3 DEF StarterMeetsPoison, ServerTypeOK
    <2>1. ServerTypeOK' /\ InHands' /\ NoStuckBacklog' /\ LateFindsJob' /\ StartedMeansServed'
      BY DEF InHands, NoStuckBacklog, Backlog, LateFindsJob, StartedMeansServed
    <2>2. misuse # {} /\ misuse' # {}
      BY DEF Clean
    <2>3. OneInside' /\ Allocated' /\ Clean' /\ BoundByOne' /\ JobMeansDone'
      BY <2>2 DEF OneInside, Allocated, Clean, BoundByOne, JobMeansDone
    <2> QED BY <2>1, <2>3 DEF ServerIInv
  <1>4. ASSUME NEW a \in Starter, Bind(a) PROVE ServerIInv'
    <2> USE <1>i, <1>4 DEF Bind, ServerTypeOK
    <2>1. ServerTypeOK' /\ InHands' /\ LateFindsJob' /\ StartedMeansServed'
      BY DEF InHands, LateFindsJob, StartedMeansServed
    <2>2. NoStuckBacklog'
      BY DEF NoStuckBacklog, Backlog
    <2>3. misuse = {} => ~registered
      BY DEF OneInside, BoundByOne
    <2>4. OneInside' /\ Allocated' /\ Clean'
      BY <2>3 DEF OneInside, Allocated, Clean
    <2>5. BoundByOne'
      BY <2>3 DEF BoundByOne
    <2>6. JobMeansDone'
      BY <2>3 DEF JobMeansDone
    <2> QED BY <2>1, <2>2, <2>4, <2>5, <2>6 DEF ServerIInv
  <1>5. ASSUME NEW a \in Starter, SetAcceptJob(a) PROVE ServerIInv'
    <2> USE <1>i, <1>5 DEF SetAcceptJob, ServerTypeOK
    <2>1. ServerTypeOK' /\ InHands' /\ NoStuckBacklog' /\ LateFindsJob' /\ StartedMeansServed'
      BY DEF InHands, NoStuckBacklog, Backlog, LateFindsJob, StartedMeansServed
    <2>2. OneInside' /\ Allocated' /\ Clean' /\ BoundByOne' /\ JobMeansDone'
      BY DEF OneInside, Allocated, Clean, BoundByOne, JobMeansDone
    <2> QED BY <2>1, <2>2 DEF ServerIInv
  <1>6. ASSUME NEW p \in Peer, Arrive(p) PROVE ServerIInv'
    <2> USE <1>i, <1>6 DEF Arrive, ServerTypeOK
    <2>1. ServerTypeOK' /\ InHands' /\ NoStuckBacklog'
      BY DEF InHands, NoStuckBacklog, Backlog
    <2>2. LateFindsJob' /\ StartedMeansServed'
      BY DEF LateFindsJob, StartedMeansServed, JobMeansDone
    <2>3. OneInside' /\ Allocated' /\ Clean' /\ BoundByOne' /\ JobMeansDone'
      BY DEF OneInside, Allocated, Clean, BoundByOne, JobMeansDone
    <2> QED BY <2>1, <2>2, <2>3 DEF ServerIInv
  <1>7. ASSUME HandleRead PROVE ServerIInv'
    <2> USE <1>i, <1>7 DEF HandleRead, ServerTypeOK
    <2>1. ServerTypeOK' /\ InHands' /\ NoStuckBacklog' /\ LateFindsJob' /\ StartedMeansServed'
      BY DEF InHands, NoStuckBacklog, Backlog, LateFindsJob, StartedMeansServed
    <2>2. OneInside' /\ Allocated' /\ Clean' /\ BoundByOne' /\ JobMeansDone'
      BY DEF OneInside, Allocated, Clean, BoundByOne, JobMeansDone
    <2> QED BY <2>1, <2>2 DEF ServerIInv
  <1>8. ASSUME NEW p \in Peer, Accept(p) PROVE ServerIInv'
    <2> USE <1>i, <1>8 DEF Accept, ServerTypeOK
    <2>1. ServerTypeOK' /\ InHands' /\ NoStuckBacklog'
      BY DEF InHands, NoStuckBacklog, Backlog
    <2>2. LateFindsJob' /\ StartedMeansServed'
      BY DEF LateFindsJob, StartedMeansServed
    <2>3. OneInside' /\ Allocated' /\ Clean' /\ BoundByOne' /\ JobMeansDone'
      BY DEF OneInside, Allocated, Clean, BoundByOne, JobMeansDone
    <2> QED BY <2>1, <2>2, <2>3 DEF ServerIInv
  <1>9. ASSUME AcceptWouldBlock PROVE ServerIInv'
    <2> USE <1>i, <1>9 DEF AcceptWouldBlock, ServerTypeOK
    <2>1. ServerTypeOK' /\ InHands' /\ NoStuckBacklog' /\ LateFindsJob' /\ StartedMeansServed'
      BY DEF InHands, NoStuckBacklog, Backlog, LateFindsJob, StartedMeansServed
    <2>2. OneInside' /\ Allocated' /\ Clean' /\ BoundByOne' /\ JobMeansDone'
      BY DEF OneInside, Allocated, Clean, BoundByOne, JobMeansDone
    <2> QED BY <2>1, <2>2 DEF ServerIInv
  <1>10. ASSUME AcceptFails PROVE ServerIInv'
    <2> USE <1>i, <1>10 DEF AcceptFails, ServerTypeOK
    <2>1. ServerTypeOK' /\ InHands' /\ NoStuckBacklog' /\ LateFindsJob' /\ StartedMeansServed'
      BY DEF InHands, NoStuckBacklog, Backlog, LateFindsJob, StartedMeansServed
    <2>2. OneInside' /\ Allocated' /\ Clean' /\ BoundByOne' /\ JobMeansDone'
      BY DEF OneInside, Allocated, Clean, BoundByOne, JobMeansDone
    <2> QED BY <2>1, <2>2 DEF ServerIInv
  <1>11. ASSUME OnAccept PROVE ServerIInv'
    <2> USE <1>i, <1>11 DEF OnAccept, ServerTypeOK
    <2>1. ServerTypeOK' /\ InHands' /\ NoStuckBacklog' /\ LateFindsJob' /\ StartedMeansServed'
      BY DEF InHands, NoStuckBacklog, Backlog, LateFindsJob, StartedMeansServed
    <2>2. OneInside' /\ Allocated' /\ Clean' /\ BoundByOne' /\ JobMeansDone'
      BY DEF OneInside, Allocated, Clean, BoundByOne, JobMeansDone
    <2> QED BY <2>1, <2>2 DEF ServerIInv
  <1>12. ASSUME OnAcceptPanics PROVE ServerIInv'
    <2> USE <1>i, <1>12 DEF OnAcceptPanics, ServerTypeOK
    <2>1. ServerTypeOK' /\ InHands' /\ NoStuckBacklog' /\ LateFindsJob' /\ StartedMeansServed'
      BY DEF InHands, NoStuckBacklog, Backlog, LateFindsJob, StartedMeansServed
    <2>2. misuse' # {}
      BY DEF Allocated, Clean, JobMeansDone
    <2>3. OneInside' /\ Allocated' /\ Clean' /\ BoundByOne' /\ JobMeansDone'
      BY <2>2 DEF OneInside, Allocated, Clean, BoundByOne, JobMeansDone
    <2> QED BY <2>1, <2>3 DEF ServerIInv
  <1>13. CASE UNCHANGED serverVars
    BY <1>i, <1>13
    DEF serverVars, ServerIInv, ServerTypeOK, InHands, NoStuckBacklog, Backlog, OneInside, Allocated, Clean,
        BoundByOne, JobMeansDone, LateFindsJob, StartedMeansServed
  <1> QED
    BY <1>1, <1>2, <1>3, <1>4, <1>5, <1>6, <1>7, <1>8, <1>9, <1>10, <1>11, <1>12, <1>13
    DEF ServerNext, AcceptorStep, StartStep

\* The invariant holds in every state of every behaviour.
LEMMA ServerInvariance == ServerSpec => []ServerIInv
  BY ServerInitIInv, ServerNextIInv, PTL DEF ServerSpec

-----------------------------------------------------------------------------
(* Acceptor: the theorems.                                                 *)

\* For any number of peers and starters: the variables keep their types, an
\* accepted connection is in the loop's hands, and nobody waits in the backlog
\* of the edge-triggered listener without an event to come (acceptor.rs:46).
THEOREM BacklogIsSound == ServerSpec => []BacklogSound
  <1>1. ServerIInv => BacklogSound
    BY DEF ServerIInv, BacklogSound
  <1> QED BY ServerInvariance, <1>1, PTL

\* For any number of starters: as long as the server is started in order, once,
\* and registrations succeed, the opposite lock orders of start_internal and of
\* the accept job never meet and the loop's thread never panics.
THEOREM LocksDoNotMeet == ServerSpec => []NoDeadlockNoPanic
  <1>1. ServerIInv => NoDeadlockNoPanic
    BY DEF ServerIInv, NoDeadlockNoPanic, ServerHeld, OneInside, JobMeansDone, Clean, Inside
  <1> QED BY ServerInvariance, <1>1, PTL

\* Whoever connects after start_internal has returned is not given to the
\* default job (tcp_server.rs:108-124).
THEOREM LateIsServed == ServerSpec => []StartedMeansServed
  <1>1. ServerIInv => StartedMeansServed
    BY DEF ServerIInv
  <1> QED BY ServerInvariance, <1>1, PTL
=============================================================================
