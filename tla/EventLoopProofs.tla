-------------------------- MODULE EventLoopProofs ---------------------------
(***************************************************************************)
(* Proofs about EventLoop, for any number of descriptors, files, threads   *)
(* and tokens and for any capacity of Events.                              *)
(*                                                                         *)
(* The invariant follows a file from the map to the batch.  Numbers says   *)
(* that a number belongs to one file and that a closed file stays closed;  *)
(* Mapped what events_map holds; Kernel what the kernel may report; Calls  *)
(* what is true inside register and deregister; Reported what an event     *)
(* that select has not looked up yet still says about its file.            *)
(***************************************************************************)
EXTENDS EventLoop, TLAPS

Raw == [key : Fd \cup Token, file : File, byToken : BOOLEAN]
Entry == [job : File, file : File, byToken : BOOLEAN]
Call == [op : {"add", "remove"}, file : File]

\* The types, with the domains of the functions.
Types ==
    /\ fdOf \in [File -> Fd \cup {None}]
    /\ opened \subseteq File /\ handles \subseteq opened /\ pending \subseteq opened
    /\ interest \in [Fd -> Interest \cup {None}]
    /\ eventsMap \in [Fd -> File \cup {None}]
    /\ raw \subseteq Raw
    /\ entries \in Seq(Entry)
    /\ at \in 0..Len(entries)
    /\ pc \in {"new", "loop", "wait", "select", "process", "job", "done"}
    /\ run \in BOOLEAN
    /\ call \in [Thread -> Call \cup {NoCall}]
    /\ pc # "select" => raw = {}
    /\ pc \in {"new", "loop", "wait", "done"} => entries = <<>>

\* Only files that were opened have a number, each its own.
Numbers ==
    /\ \A f \in File : fdOf[f] # None => f \in opened
    /\ \A f, g \in File : fdOf[f] # None /\ fdOf[f] = fdOf[g] => f = g

\* A job in the map keeps its file open under the number it was stored at.
Mapped == \A d \in Fd : eventsMap[d] # None => fdOf[eventsMap[d]] = d

\* What is on the interest list reports its own number unless it was
\* reregistered; what is on the ready list is on the interest list.
Kernel ==
    /\ \A d \in Fd : interest[d] # None => interest[d].byToken \/ interest[d].key = d
    /\ \A f \in pending : /\ fdOf[f] \in Fd
                          /\ interest[fdOf[f]] \in Interest /\ interest[fdOf[f]].file = f

\* One call per file; the map has the job before the kernel has the file, and
\* loses it after.
Calls ==
    /\ \A t \in Thread : call[t] # NoCall => fdOf[call[t].file] # None
    /\ \A t, u \in Thread : call[t] # NoCall /\ call[t].file = call[u].file => t = u
    /\ \A t \in Thread : call[t].op = "add" =>
            eventsMap[fdOf[call[t].file]] = call[t].file
    /\ \A t \in Thread : call[t].op = "remove" => interest[fdOf[call[t].file]] = None

\* An event still names its file, unless the file was closed meanwhile: closed
\* for good, though its number may be another's by now.
Reported ==
    /\ \A r \in raw : /\ r.file \in opened
                      /\ r.byToken \/ r.key = fdOf[r.file] \/ fdOf[r.file] = None
    /\ \A i \in DOMAIN entries : entries[i].file \in opened

IInv ==
    /\ Types /\ Numbers /\ Mapped /\ KernelImpliesMap /\ Kernel /\ Calls /\ Reported
    /\ JobMeetsItsFile

-----------------------------------------------------------------------------
(* Steps that close files.                                                 *)

\* Whoever lets go of a file last closes it: a file in the map, in the batch or
\* in a call keeps its number, and no other file is touched.
LEMMA CloseKeeps ==
    ASSUME IInv, CloseUnreferenced,
           Types', UNCHANGED <<opened, raw>>,
           \A d \in Fd : eventsMap'[d] = eventsMap[d] \/ (eventsMap'[d] = None /\ interest[d] = None),
           entries' = entries \/ entries' = <<>>,
           \A t \in Thread : call'[t] = call[t] \/ call'[t] = NoCall,
           \A t \in Thread : call'[t].op = "add" =>
                eventsMap'[fdOf[call'[t].file]] = call'[t].file
    PROVE  IInv'
  <1> DEFINE gone == {f \in File : fdOf[f] # None /\ ~Referenced(f)'}
  <1>i. /\ Types /\ Numbers /\ Mapped /\ KernelImpliesMap /\ Kernel /\ Calls /\ Reported
        /\ JobMeetsItsFile
    BY DEF IInv
  <1>1. /\ fdOf' = [f \in File |-> IF f \in gone THEN None ELSE fdOf[f]]
        /\ interest' = [d \in Fd |-> IF interest[d] # None /\ interest[d].file \in gone
                                     THEN None ELSE interest[d]]
        /\ pending' = pending \ gone
    BY DEF CloseUnreferenced
  <1>2. /\ \A d \in Fd : eventsMap'[d] \notin gone
        /\ \A t \in Thread : call'[t].file \notin gone
        /\ \A i \in DOMAIN entries' : entries'[i].job \notin gone
    BY DEF Referenced, InMap, InCall, InBatch
  <1> HIDE DEF gone
  <1>3. Numbers'
    BY <1>i, <1>1 DEF Types, Numbers
  <1>4. Mapped'
    BY <1>i, <1>1, <1>2, LoopAssumption DEF Types, Mapped
  <1>5. KernelImpliesMap'
    BY <1>i, <1>1, LoopAssumption DEF Types, KernelImpliesMap, Interest
  <1>6. Kernel'
    BY <1>i, <1>1, LoopAssumption DEF Types, Kernel, Interest
  <1>7. Calls'
    <2>0. ASSUME NEW t \in Thread
          PROVE  /\ call'[t] \in Call \/ call'[t] = NoCall
                 /\ call'[t] # NoCall => call'[t] = call[t] /\ call[t].file \in File
                 /\ NoCall.op = "none" /\ NoCall.file = None
      BY <1>i DEF Types, Call, NoCall
    <2>1. \A t \in Thread : call'[t] # NoCall =>
                fdOf'[call'[t].file] = fdOf[call'[t].file] /\ fdOf[call[t].file] # None
      BY <1>i, <1>1, <1>2, <2>0 DEF Calls
    <2>2. \A t, u \in Thread : call'[t] # NoCall /\ call'[t].file = call'[u].file => t = u
      BY <1>i, <2>0, LoopAssumption DEF Calls
    <2>3. \A t \in Thread : call'[t].op = "add" =>
                eventsMap'[fdOf'[call'[t].file]] = call'[t].file
      BY <2>0, <2>1
    <2>4. ASSUME NEW t \in Thread, call'[t].op = "remove"
          PROVE  interest'[fdOf'[call'[t].file]] = None
      <3>1. /\ call'[t] = call[t] /\ fdOf'[call'[t].file] = fdOf[call[t].file]
            /\ fdOf[call[t].file] \in Fd
        BY <1>i, <2>0, <2>1, <2>4 DEF Types
      <3> QED BY <1>i, <1>1, <2>4, <3>1 DEF Calls
    <2> QED BY <2>1, <2>2, <2>3, <2>4 DEF Calls
  <1>8. Reported'
    BY <1>i, <1>1 DEF Types, Reported, Raw
  <1>9. JobMeetsItsFile'
    <2>1. CASE entries' = <<>>
      BY <2>1 DEF JobMeetsItsFile, EventReachesOwner, BatchStaysOpen
    <2>2. CASE entries' = entries
      <3>1. \A i \in DOMAIN entries : entries[i] \in Entry
        BY <1>i DEF Types
      <3> QED
        BY <1>i, <1>1, <1>2, <2>2, <3>1
        DEF Types, JobMeetsItsFile, EventReachesOwner, BatchStaysOpen, Entry
    <2> QED BY <2>1, <2>2
  <1> QED BY <1>3, <1>4, <1>5, <1>6, <1>7, <1>8, <1>9 DEF IInv

\* Code that drops a handle.
LEMMA DropHandleKeeps ==
    ASSUME IInv, NEW f \in File, DropHandle(f)
    PROVE  IInv'
  <1>1. Types'
    BY DEF DropHandle, CloseUnreferenced, batchVars, IInv, Types, Interest
  <1>2. \A t \in Thread : call[t].op = "add" => eventsMap[fdOf[call[t].file]] = call[t].file
    BY DEF IInv, Calls
  <1> QED BY <1>1, <1>2, CloseKeeps DEF DropHandle, batchVars

\* The second half of deregister: the kernel has forgotten the file.
LEMMA DeregisterRemoveKeeps ==
    ASSUME IInv, NEW t \in Thread, DeregisterRemove(t)
    PROVE  IInv'
  <1>i. Types /\ Numbers /\ Mapped /\ Calls
    BY DEF IInv
  <1> DEFINE f == call[t].file
  <1>1. /\ call[t].op = "remove" /\ eventsMap' = [eventsMap EXCEPT ![fdOf[f]] = None]
        /\ call' = [call EXCEPT ![t] = NoCall] /\ CloseUnreferenced
        /\ UNCHANGED <<opened, raw, entries, at, handles, run, pc>>
    BY DEF DeregisterRemove, End, batchVars
  <1>2. NoCall.op = "none" /\ NoCall.file = None /\ call[t] # NoCall
    BY <1>1 DEF NoCall
  <1>3. f \in File /\ fdOf[f] \in Fd /\ interest[fdOf[f]] = None
    BY <1>i, <1>1, <1>2 DEF Types, Calls, Call
  <1>4. Types'
    BY <1>i, <1>1 DEF CloseUnreferenced, Types, Interest
  <1>5. \A u \in Thread : call'[u] = IF u = t THEN NoCall ELSE call[u]
    BY <1>i, <1>1 DEF Types
  <1>6. ASSUME NEW u \in Thread, call'[u].op = "add"
        PROVE  eventsMap'[fdOf[call'[u].file]] = call'[u].file
    <2>1. u # t /\ call'[u] = call[u] /\ call[u] # NoCall
      BY <1>2, <1>5, <1>6
    <2>2. call[u].file \in File /\ call[u].file # f /\ fdOf[call[u].file] \in Fd
      BY <1>i, <2>1 DEF Types, Calls, Call
    <2>3. fdOf[call[u].file] # fdOf[f]
      BY <1>i, <1>3, <2>2, LoopAssumption DEF Numbers
    <2> QED BY <1>i, <1>1, <1>6, <2>1, <2>2, <2>3 DEF Types, Calls
  <1>7. \A d \in Fd : eventsMap'[d] = eventsMap[d] \/ (eventsMap'[d] = None /\ interest[d] = None)
    BY <1>i, <1>1, <1>3 DEF Types
  <1> QED BY <1>1, <1>4, <1>5, <1>6, <1>7, CloseKeeps

\* io_process drops the batch.
LEMMA ClearKeeps ==
    ASSUME IInv, Clear
    PROVE  IInv'
  <1>1. Types'
    BY DEF Clear, CloseUnreferenced, Goto, IInv, Types, Interest
  <1>2. \A t \in Thread : call[t].op = "add" => eventsMap[fdOf[call[t].file]] = call[t].file
    BY DEF IInv, Calls
  <1> QED BY <1>1, <1>2, CloseKeeps DEF Clear

-----------------------------------------------------------------------------
(* The other steps.                                                        *)

\* epoll_ctl for a file whose job is in the map.
LEMMA AddKeeps ==
    ASSUME IInv, NEW f \in File, fdOf[f] # None, eventsMap[fdOf[f]] = f,
           NEW key \in Fd \cup Token, NEW oneshot \in BOOLEAN, NEW byToken \in BOOLEAN,
           byToken \/ key = fdOf[f],
           Add(f, key, oneshot, byToken),
           UNCHANGED <<fdOf, opened, eventsMap, batchVars, handles, run, pc>>,
           call' \in [Thread -> Call \cup {NoCall}],
           \A t \in Thread : call'[t] = call[t] \/ call'[t] = NoCall,
           \A t \in Thread : ~(call'[t].op = "remove" /\ call'[t].file = f)
    PROVE  IInv'
  <1> DEFINE new == [file |-> f, key |-> key, oneshot |-> oneshot, armed |-> TRUE,
                     byToken |-> byToken]
  <1>i. /\ Types /\ Numbers /\ Mapped /\ KernelImpliesMap /\ Kernel /\ Calls /\ Reported
        /\ JobMeetsItsFile
    BY DEF IInv
  <1>1. /\ interest' = [interest EXCEPT ![fdOf[f]] = new]
        /\ pending' \in {pending, pending \cup {f}}
        /\ UNCHANGED <<fdOf, opened, eventsMap, raw, entries, at, handles, run, pc>>
    BY DEF Add, batchVars
  <1>2. /\ new \in Interest /\ new.file = f /\ new.key = key /\ new.byToken = byToken
    BY DEF Interest
  <1>3. fdOf[f] \in Fd /\ f \in opened
    BY <1>i DEF Types, Numbers
  <1> HIDE DEF new
  <1>4. Types'
    BY <1>i, <1>1, <1>2, <1>3 DEF Types
  <1>5. Numbers' /\ Mapped' /\ Reported' /\ JobMeetsItsFile'
    BY <1>i, <1>1
    DEF Numbers, Mapped, Reported, JobMeetsItsFile, EventReachesOwner, BatchStaysOpen
  <1>6. \A d \in Fd : interest'[d] = IF d = fdOf[f] THEN new ELSE interest[d]
    BY <1>i, <1>1, <1>3 DEF Types
  <1>7. KernelImpliesMap'
    BY <1>i, <1>1, <1>2, <1>6 DEF KernelImpliesMap
  <1>8. Kernel'
    <2>1. \A d \in Fd : interest'[d] # None => interest'[d].byToken \/ interest'[d].key = d
      BY <1>i, <1>2, <1>6 DEF Kernel
    <2>2. ASSUME NEW g \in pending'
          PROVE  fdOf[g] \in Fd /\ interest'[fdOf[g]] \in Interest /\ interest'[fdOf[g]].file = g
      <3>1. CASE g = f
        BY <1>2, <1>3, <1>6, <3>1
      <3>2. CASE g # f
        <4>1. g \in pending /\ g \in File /\ fdOf[g] \in Fd
          BY <1>i, <1>1, <3>2 DEF Types, Kernel
        <4>2. fdOf[g] # fdOf[f]
          BY <1>i, <3>2, <4>1 DEF Numbers
        <4> QED BY <1>i, <1>6, <4>1, <4>2 DEF Kernel
      <3> QED BY <3>1, <3>2
    <2> QED BY <1>1, <2>1, <2>2 DEF Kernel
  <1>9. Calls'
    <2>0. ASSUME NEW t \in Thread
          PROVE  /\ call'[t] # NoCall => call'[t] = call[t] /\ call[t].file \in File
                 /\ NoCall.op = "none" /\ NoCall.file = None
      BY <1>i DEF Types, Call, NoCall
    <2>1. ASSUME NEW t \in Thread, call'[t].op = "remove"
          PROVE  interest'[fdOf[call'[t].file]] = None
      <3>1. call'[t] = call[t] /\ call[t] # NoCall /\ call[t].file \in File \ {f}
        BY <2>0, <2>1
      <3>2. fdOf[call[t].file] \in Fd /\ fdOf[call[t].file] # fdOf[f]
        BY <1>i, <3>1 DEF Types, Calls, Numbers
      <3> QED BY <1>i, <1>6, <2>1, <3>1, <3>2 DEF Calls
    <2> QED BY <1>i, <1>1, <2>0, <2>1, LoopAssumption DEF Calls
  <1> QED BY <1>4, <1>5, <1>7, <1>8, <1>9 DEF IInv

\* register and reregister.
LEMMA RegisterKeeps ==
    ASSUME IInv, NEW t \in Thread,
           \/ RegisterAdd(t) \/ RegisterFails(t)
           \/ \E f \in File : Register(t, f) \/ Reregister(t, f)
    PROVE  IInv'
  <1>i. /\ Types /\ Numbers /\ Mapped /\ KernelImpliesMap /\ Kernel /\ Calls /\ Reported
        /\ JobMeetsItsFile
    BY DEF IInv
  <1>0. NoCall.op = "none" /\ NoCall.file = None
    BY DEF NoCall
  <1>1. ASSUME RegisterAdd(t) PROVE IInv'
    <2> DEFINE f == call[t].file
    <2>1. call[t] # NoCall /\ call[t] \in Call /\ f \in File /\ fdOf[f] # None
          /\ eventsMap[fdOf[f]] = f /\ fdOf[f] \in Fd
      BY <1>i, <1>0, <1>1 DEF RegisterAdd, Types, Calls, Call
    <2>2. PICK oneshot \in BOOLEAN : Add(f, fdOf[f], oneshot, FALSE)
      BY <1>1 DEF RegisterAdd
    <2>3. /\ UNCHANGED <<fdOf, opened, eventsMap, batchVars, handles, run, pc>>
          /\ call' = [call EXCEPT ![t] = NoCall]
      BY <1>1 DEF RegisterAdd, End
    <2>4. /\ call' \in [Thread -> Call \cup {NoCall}]
          /\ \A u \in Thread : call'[u] = IF u = t THEN NoCall ELSE call[u]
      BY <1>i, <2>3 DEF Types
    <2>5. \A u \in Thread : ~(call'[u].op = "remove" /\ call'[u].file = f)
      BY <1>i, <1>0, <2>1, <2>4 DEF Calls
    <2> DEFINE key == fdOf[f]
               byToken == FALSE
    <2>6. /\ Add(f, key, oneshot, byToken) /\ key \in Fd \cup Token /\ byToken \in BOOLEAN
          /\ byToken \/ key = fdOf[f]
      BY <2>1, <2>2
    <2> HIDE DEF f, key, byToken
    <2> QED BY <2>1, <2>3, <2>4, <2>5, <2>6, AddKeeps
  <1>2. ASSUME RegisterFails(t) PROVE IInv'
    <2>3. /\ UNCHANGED <<fdOf, opened, interest, pending, eventsMap, raw, entries, at, handles, run, pc>>
          /\ call' = [call EXCEPT ![t] = NoCall]
      BY <1>2 DEF RegisterFails, End, kernelVars, batchVars
    <2>4. /\ call' \in [Thread -> Call \cup {NoCall}]
          /\ \A u \in Thread : call'[u] = IF u = t THEN NoCall ELSE call[u]
      BY <1>i, <2>3 DEF Types
    <2>5. Types' /\ Numbers' /\ Mapped' /\ Reported' /\ JobMeetsItsFile' /\ KernelImpliesMap' /\ Kernel'
      BY <1>i, <2>3, <2>4
      DEF Types, Numbers, Mapped, Reported, JobMeetsItsFile, EventReachesOwner, BatchStaysOpen,
          KernelImpliesMap, Kernel
    <2>6. Calls'
      <3>1. \A u \in Thread : call[u] # NoCall => call[u].file # None
        BY <1>i, LoopAssumption DEF Types, Call
      <3> QED BY <1>i, <1>0, <2>3, <2>4, <3>1 DEF Calls
    <2> QED BY <2>5, <2>6 DEF IInv
  <1>3. ASSUME NEW f \in File, Register(t, f) PROVE IInv'
    <2> DEFINE c == [op |-> "add", file |-> f]
    <2>1. /\ UNCHANGED <<fdOf, opened, interest, pending, raw, entries, at, handles, run, pc>>
          /\ eventsMap' = [eventsMap EXCEPT ![fdOf[f]] = f]
          /\ call' = [call EXCEPT ![t] = c]
          /\ fdOf[f] # None /\ ~InCall(f) /\ call[t] = NoCall
      BY <1>3 DEF Register, Begin, MayCall, Active, kernelVars, batchVars
    <2>2. c \in Call /\ c.op = "add" /\ c.file = f /\ c # NoCall
      BY <1>0 DEF Call
    <2> HIDE DEF c
    <2>3. /\ call' \in [Thread -> Call \cup {NoCall}]
          /\ \A u \in Thread : call'[u] = IF u = t THEN c ELSE call[u]
      BY <1>i, <2>1, <2>2 DEF Types
    <2>4. fdOf[f] \in Fd /\ \A d \in Fd : eventsMap'[d] = IF d = fdOf[f] THEN f ELSE eventsMap[d]
      BY <1>i, <2>1 DEF Types
    <2>5. Types'
      BY <1>i, <2>1, <2>3, <2>4 DEF Types
    <2>6. Numbers' /\ Mapped' /\ Reported' /\ JobMeetsItsFile' /\ Kernel'
      BY <1>i, <2>1, <2>4
      DEF Types, Numbers, Mapped, Reported, JobMeetsItsFile, EventReachesOwner, BatchStaysOpen,
          Kernel
    <2>7. KernelImpliesMap'
      <3>1. ASSUME interest[fdOf[f]] # None PROVE interest[fdOf[f]].file = f
        <4>1. interest[fdOf[f]].file \in File
          BY <1>i, <2>4, <3>1 DEF Types, Interest
        <4> QED BY <1>i, <2>4, <3>1, <4>1, LoopAssumption DEF KernelImpliesMap, Numbers
      <3> QED BY <1>i, <2>1, <2>4, <3>1 DEF KernelImpliesMap
    <2>8. Calls'
      <3>1. \A u \in Thread : call[u].file # f
        BY <2>1 DEF InCall
      <3>2. ASSUME NEW u \in Thread, call[u] # NoCall
            PROVE  call[u].file \in File /\ fdOf[call[u].file] \in Fd
                   /\ fdOf[call[u].file] # fdOf[f]
        <4>1. call[u].file \in File /\ fdOf[call[u].file] # None
          BY <1>i, <3>2 DEF Types, Call, Calls
        <4> QED BY <1>i, <3>1, <4>1 DEF Types, Numbers
      <3> QED BY <1>i, <1>0, <2>1, <2>2, <2>3, <2>4, <3>1, <3>2 DEF Calls
    <2> QED BY <2>5, <2>6, <2>7, <2>8 DEF IInv
  <1>4. ASSUME NEW f \in File, Reregister(t, f) PROVE IInv'
    <2>1. /\ UNCHANGED <<fdOf, opened, eventsMap, batchVars, handles, call, run, pc>>
          /\ fdOf[f] # None /\ ~InCall(f) /\ interest[fdOf[f]] # None
      BY <1>4 DEF Reregister, MayCall
    <2>2. PICK key \in Token, oneshot \in BOOLEAN : Add(f, key, oneshot, key # fdOf[f])
      BY <1>4 DEF Reregister
    <2>3. fdOf[f] \in Fd /\ interest[fdOf[f]].file \in File
      BY <1>i, <2>1 DEF Types, Interest
    <2>4. eventsMap[fdOf[f]] = f
      BY <1>i, <2>1, <2>3, LoopAssumption DEF KernelImpliesMap, Numbers
    <2>5. \A u \in Thread : ~(call'[u].op = "remove" /\ call'[u].file = f)
      BY <2>1 DEF InCall
    <2>6. call' \in [Thread -> Call \cup {NoCall}]
      BY <1>i, <2>1 DEF Types
    <2> QED BY <2>1, <2>2, <2>4, <2>5, <2>6, AddKeeps
  <1> QED BY <1>1, <1>2, <1>3, <1>4

\* The first half of deregister, a file that is opened, and an event.
LEMMA FileKeeps ==
    ASSUME IInv, NEW f \in File,
           Event(f) \/ \E t \in Thread : Open(t, f) \/ Deregister(t, f)
    PROVE  IInv'
  <1>i. /\ Types /\ Numbers /\ Mapped /\ KernelImpliesMap /\ Kernel /\ Calls /\ Reported
        /\ JobMeetsItsFile
    BY DEF IInv
  <1>0. NoCall.op = "none" /\ NoCall.file = None
    BY DEF NoCall
  <1>1. ASSUME Event(f) PROVE IInv'
    <2>1. /\ UNCHANGED <<fdOf, opened, interest, eventsMap, raw, entries, at, handles, call, run, pc>>
          /\ fdOf[f] # None /\ interest[fdOf[f]] # None /\ pending' = pending \cup {f}
      BY <1>1 DEF Event, batchVars
    <2>2. f \in opened /\ fdOf[f] \in Fd /\ interest[fdOf[f]] \in Interest
          /\ interest[fdOf[f]].file \in File
      BY <1>i, <2>1 DEF Types, Numbers, Interest
    <2>3. interest[fdOf[f]].file = f
      BY <1>i, <2>1, <2>2, LoopAssumption DEF KernelImpliesMap, Numbers
    <2> QED
      BY <1>i, <2>1, <2>2, <2>3
      DEF IInv, Types, Numbers, Mapped, KernelImpliesMap, Kernel, Calls, Reported,
          JobMeetsItsFile, EventReachesOwner, BatchStaysOpen
  <1>2. ASSUME NEW t \in Thread, Open(t, f) PROVE IInv'
    <2>1. /\ UNCHANGED <<interest, pending, eventsMap, raw, entries, at, call, run, pc>>
          /\ f \notin opened /\ opened' = opened \cup {f} /\ handles' = handles \cup {f}
      BY <1>2 DEF Open, batchVars
    <2>2. PICK d \in Fd : fdOf' = [fdOf EXCEPT ![f] = d] /\ \A g \in File : fdOf[g] # d
      BY <1>2 DEF Open
    <2>3. fdOf[f] = None
      BY <1>i, <2>1 DEF Numbers
    <2>4. \A g \in File : fdOf'[g] = IF g = f THEN d ELSE fdOf[g]
      BY <1>i, <2>2 DEF Types
    <2>5. Types'
      BY <1>i, <2>1, <2>2 DEF Types
    <2>6. Numbers'
      BY <1>i, <2>1, <2>2, <2>4 DEF Numbers
    <2>7. Mapped' /\ KernelImpliesMap'
      <3>1. \A e \in Fd : /\ eventsMap[e] # None => eventsMap[e] \in File
                          /\ interest[e] # None => interest[e].file \in File
        BY <1>i DEF Types, Interest
      <3> QED BY <1>i, <2>1, <2>3, <2>4, <3>1, LoopAssumption DEF Mapped, KernelImpliesMap
    <2>8. Kernel'
      BY <1>i, <2>1, <2>3, <2>4, LoopAssumption DEF Types, Kernel
    <2>9. Calls'
      <3>1. \A u \in Thread : call[u] # NoCall => call[u].file \in File /\ call[u].file # f
        BY <1>i, <2>3 DEF Types, Call, Calls
      <3> QED BY <1>i, <1>0, <2>1, <2>2, <2>4, <3>1 DEF Calls
    <2>10. Reported'
      BY <1>i, <2>1, <2>4 DEF Types, Raw, Reported
    <2>11. JobMeetsItsFile'
      <3>1. \A i \in DOMAIN entries : entries[i] \in Entry
        BY <1>i DEF Types
      <3> QED
        BY <1>i, <2>1, <2>2, <2>3, <2>4, <3>1, LoopAssumption
        DEF JobMeetsItsFile, EventReachesOwner, BatchStaysOpen, Reported, Entry
    <2> QED BY <2>5, <2>6, <2>7, <2>8, <2>9, <2>10, <2>11 DEF IInv
  <1>3. ASSUME NEW t \in Thread, Deregister(t, f) PROVE IInv'
    <2> DEFINE c == [op |-> "remove", file |-> f]
    <2>1. /\ UNCHANGED <<fdOf, opened, eventsMap, raw, entries, at, handles, run, pc>>
          /\ interest' = [interest EXCEPT ![fdOf[f]] = None] /\ pending' = pending \ {f}
          /\ call' = [call EXCEPT ![t] = c]
          /\ fdOf[f] # None /\ ~InCall(f) /\ call[t] = NoCall
      BY <1>3 DEF Deregister, Begin, MayCall, Active, batchVars
    <2>2. c \in Call /\ c.op = "remove" /\ c.file = f /\ c # NoCall
      BY <1>0 DEF Call
    <2> HIDE DEF c
    <2>3. /\ call' \in [Thread -> Call \cup {NoCall}]
          /\ \A u \in Thread : call'[u] = IF u = t THEN c ELSE call[u]
      BY <1>i, <2>1, <2>2 DEF Types
    <2>4. fdOf[f] \in Fd /\ \A d \in Fd : interest'[d] = IF d = fdOf[f] THEN None ELSE interest[d]
      BY <1>i, <2>1 DEF Types
    <2>5. Types'
      BY <1>i, <2>1, <2>3, <2>4 DEF Types
    <2>6. Numbers' /\ Mapped' /\ Reported' /\ JobMeetsItsFile' /\ KernelImpliesMap'
      BY <1>i, <2>1, <2>4
      DEF Numbers, Mapped, Reported, JobMeetsItsFile, EventReachesOwner, BatchStaysOpen,
          KernelImpliesMap
    <2>7. Kernel'
      BY <1>i, <2>1, <2>4 DEF Types, Kernel, Numbers
    <2>8. Calls'
      <3>1. \A u \in Thread : call[u].file # f
        BY <2>1 DEF InCall
      <3>2. ASSUME NEW u \in Thread, call[u] # NoCall
            PROVE  call[u].file \in File /\ fdOf[call[u].file] \in Fd
        BY <1>i, <3>2 DEF Types, Call, Calls
      <3> QED BY <1>i, <1>0, <2>1, <2>2, <2>3, <2>4, <3>1, <3>2 DEF Calls
    <2> QED BY <2>5, <2>6, <2>7, <2>8 DEF IInv
  <1> QED BY <1>1, <1>2, <1>3

\* epoll_wait: what it reports is what the interest list says at that moment.
LEMMA EpollWaitKeeps ==
    ASSUME IInv, EpollWait
    PROVE  IInv'
  <1>i. /\ Types /\ Numbers /\ Mapped /\ KernelImpliesMap /\ Kernel /\ Calls /\ Reported
        /\ JobMeetsItsFile
    BY DEF IInv
  <1>1. PICK S \in SUBSET pending :
          /\ raw' = {[key |-> interest[fdOf[f]].key, file |-> f,
                      byToken |-> interest[fdOf[f]].byToken] : f \in S}
          /\ pending' = pending \ S
          /\ interest' = [d \in Fd |->
                            IF interest[d] # None /\ interest[d].file \in S /\ interest[d].oneshot
                            THEN [interest[d] EXCEPT !.armed = FALSE] ELSE interest[d]]
    BY DEF EpollWait
  <1>2. /\ UNCHANGED <<fdOf, opened, eventsMap, entries, at, handles, call, run>>
        /\ pc = "wait" /\ pc' = "select"
    BY DEF EpollWait, Goto
  <1>3. ASSUME NEW d \in Fd
        PROVE  /\ interest'[d] \in Interest \cup {None}
               /\ interest[d] = None => interest'[d] = None
               /\ interest[d] # None =>
                    /\ interest'[d] \in Interest
                    /\ interest'[d].file = interest[d].file
                    /\ interest'[d].key = interest[d].key
                    /\ interest'[d].byToken = interest[d].byToken
    <2>1. interest'[d] = interest[d] \/ (interest[d] # None /\ interest'[d] = [interest[d] EXCEPT !.armed = FALSE])
      BY <1>1
    <2>2. interest[d] \in Interest \cup {None}
      BY <1>i DEF Types
    <2>3. ASSUME NEW i \in Interest, NEW j, j = [i EXCEPT !.armed = FALSE]
          PROVE  j \in Interest /\ j.file = i.file /\ j.key = i.key /\ j.byToken = i.byToken
      BY <2>3 DEF Interest
    <2> QED BY <2>1, <2>2, <2>3
  <1>4. ASSUME NEW r \in raw'
        PROVE  /\ r \in Raw /\ r.file \in opened
               /\ r.byToken \/ r.key = fdOf[r.file] \/ fdOf[r.file] = None
    <2>1. PICK f \in S : r = [key |-> interest[fdOf[f]].key, file |-> f,
                              byToken |-> interest[fdOf[f]].byToken]
      BY <1>1
    <2>2. f \in opened /\ f \in File /\ fdOf[f] \in Fd /\ interest[fdOf[f]] \in Interest
      BY <1>i, <1>1 DEF Types, Kernel
    <2>3. interest[fdOf[f]].byToken \/ interest[fdOf[f]].key = fdOf[f] \/ interest[fdOf[f]] = None
      BY <1>i, <2>2 DEF Kernel
    <2>4. interest[fdOf[f]] # None
      BY <2>2, LoopAssumption
    <2> QED BY <2>1, <2>2, <2>3, <2>4 DEF Raw, Interest
  <1>5. Types'
    BY <1>i, <1>1, <1>2, <1>3, <1>4 DEF Types
  <1>6. Numbers' /\ Mapped' /\ JobMeetsItsFile'
    BY <1>i, <1>2
    DEF Numbers, Mapped, JobMeetsItsFile, EventReachesOwner, BatchStaysOpen
  <1>7. KernelImpliesMap' /\ Kernel'
    BY <1>i, <1>1, <1>2, <1>3 DEF KernelImpliesMap, Kernel
  <1>8. Calls'
    <2>1. \A t \in Thread : call[t].op = "remove" => fdOf[call[t].file] \in Fd
      BY <1>i DEF Types, Calls, Call, NoCall
    <2> QED BY <1>i, <1>2, <1>3, <2>1 DEF Calls
  <1>9. Reported'
    BY <1>i, <1>2, <1>4 DEF Reported
  <1> QED BY <1>5, <1>6, <1>7, <1>8, <1>9 DEF IInv

\* select's lookup of one event.
LEMMA LookupKeeps ==
    ASSUME IInv, NEW r \in raw, Lookup(r)
    PROVE  IInv'
  <1> DEFINE e == [job |-> eventsMap[r.key], file |-> r.file, byToken |-> r.byToken]
             found == r.key \in Fd /\ eventsMap[r.key] # None
  <1>i. /\ Types /\ Numbers /\ Mapped /\ KernelImpliesMap /\ Kernel /\ Calls /\ Reported
        /\ JobMeetsItsFile
    BY DEF IInv
  <1>1. /\ UNCHANGED <<fdOf, opened, interest, pending, eventsMap, at, handles, call, run, pc>>
        /\ raw' = raw \ {r} /\ pc = "select"
        /\ entries' = IF found THEN Append(entries, e) ELSE entries
    BY DEF Lookup, kernelVars
  <1>2. ASSUME found
        PROVE  /\ e \in Entry /\ e.file \in opened /\ fdOf[e.job] # None
               /\ e.job = e.file \/ e.byToken \/ fdOf[e.file] = None
    <2>1. r \in Raw /\ r.file \in opened /\ r.file \in File /\ eventsMap[r.key] \in File
      BY <1>i, <1>2 DEF Types, Reported, Raw
    <2>2. fdOf[eventsMap[r.key]] = r.key /\ r.key # None
      BY <1>i, <1>2, LoopAssumption DEF Mapped
    <2>3. r.byToken \/ r.key = fdOf[r.file] \/ fdOf[r.file] = None
      BY <1>i DEF Reported
    <2>4. r.key = fdOf[r.file] => eventsMap[r.key] = r.file
      BY <1>i, <2>1, <2>2 DEF Numbers
    <2> QED BY <2>1, <2>2, <2>3, <2>4 DEF Entry, Raw
  <1> HIDE DEF e
  <1>3. /\ entries' \in Seq(Entry) /\ Len(entries) <= Len(entries') /\ Len(entries) \in Nat
        /\ Len(entries') \in Nat
        /\ \A i \in DOMAIN entries' :
              (i \in DOMAIN entries /\ entries'[i] = entries[i]) \/ (found /\ entries'[i] = e)
    <2>1. CASE found
      BY <1>i, <1>1, <1>2, <2>1 DEF Types
    <2>2. CASE ~found
      BY <1>i, <1>1, <2>2 DEF Types
    <2> QED BY <2>1, <2>2
  <1> HIDE DEF found
  <1>4. Types'
    BY <1>i, <1>1, <1>3 DEF Types
  <1>5. Numbers' /\ Mapped' /\ KernelImpliesMap' /\ Kernel' /\ Calls'
    BY <1>i, <1>1 DEF Numbers, Mapped, KernelImpliesMap, Kernel, Calls
  <1>6. Reported' /\ JobMeetsItsFile'
    BY <1>i, <1>1, <1>2, <1>3
    DEF Reported, JobMeetsItsFile, EventReachesOwner, BatchStaysOpen
  <1> QED BY <1>4, <1>5, <1>6 DEF IInv

\* The turn of the loop, and shutdown.
LEMMA TurnKeeps ==
    ASSUME IInv,
           \/ Run \/ CheckRun \/ Selected \/ BeginJob \/ EndJob
           \/ \E t \in Thread : Shutdown(t)
    PROVE  IInv'
  <1>1. UNCHANGED <<fdOf, opened, interest, pending, eventsMap, raw, entries, handles, call>>
    BY DEF Run, CheckRun, Selected, BeginJob, EndJob, Shutdown, kernelVars, batchVars
  <1>2. Types'
    <2>1. /\ at' \in 0..Len(entries') /\ run' \in BOOLEAN
          /\ pc' \in {"new", "loop", "wait", "select", "process", "job", "done"}
          /\ pc' # "select" => raw' = {}
          /\ pc' \in {"new", "loop", "wait", "done"} => entries' = <<>>
      <3>1. CASE BeginJob
        <4>1. Len(entries) \in Nat
          BY DEF IInv, Types
        <4> QED BY <1>1, <3>1, <4>1 DEF IInv, Types, BeginJob, Goto
      <3>2. CASE ~BeginJob
        BY <1>1, <3>2
        DEF IInv, Types, Run, CheckRun, Selected, EndJob, Shutdown, Goto, batchVars
      <3> QED BY <3>1, <3>2
    <2> QED BY <1>1, <2>1 DEF IInv, Types
  <1>3. /\ Numbers' /\ Mapped' /\ KernelImpliesMap' /\ Kernel' /\ Calls' /\ Reported'
        /\ JobMeetsItsFile'
    BY <1>1
    DEF IInv, Numbers, Mapped, KernelImpliesMap, Kernel, Calls, Reported,
        JobMeetsItsFile, EventReachesOwner, BatchStaysOpen
  <1> QED BY <1>2, <1>3 DEF IInv

-----------------------------------------------------------------------------
(* The invariant, and what it says.                                        *)

\* The initial states satisfy the invariant.
LEMMA InitIInv ==
    Init => IInv
  <1> SUFFICES ASSUME Init PROVE IInv
    OBVIOUS
  <1>1. NoCall.op = "none" /\ NoCall.file = None
    BY DEF NoCall
  <1>2. Types
    <2>1. call \in [Thread -> Call \cup {NoCall}]
      BY DEF Init
    <2>2. entries \in Seq(Entry) /\ at \in 0..Len(entries)
      BY DEF Init
    <2> QED BY <2>1, <2>2 DEF Init, Types
  <1>3. Numbers /\ Mapped /\ KernelImpliesMap /\ Kernel /\ Reported
    BY DEF Init, Numbers, Mapped, KernelImpliesMap, Kernel, Reported
  <1>4. Calls
    BY <1>1 DEF Init, Calls
  <1>5. JobMeetsItsFile
    BY DEF Init, JobMeetsItsFile, EventReachesOwner, BatchStaysOpen
  <1> QED BY <1>2, <1>3, <1>4, <1>5 DEF IInv

\* Every step preserves the invariant.
LEMMA NextIInv ==
    IInv /\ [Next]_vars => IInv'
  <1> SUFFICES ASSUME IInv, [Next]_vars PROVE IInv'
    OBVIOUS
  <1>1. CASE UNCHANGED vars
    BY <1>1
    DEF vars, kernelVars, batchVars, IInv, Types, Numbers, Mapped, KernelImpliesMap, Kernel,
        Calls, Reported, JobMeetsItsFile, EventReachesOwner, BatchStaysOpen
  <1>2. CASE LoopStep
    BY <1>2, TurnKeeps, EpollWaitKeeps, ClearKeeps, LookupKeeps DEF LoopStep
  <1>3. ASSUME NEW t \in Thread, CallStep(t) \/ Shutdown(t) PROVE IInv'
    BY <1>3, RegisterKeeps, DeregisterRemoveKeeps, TurnKeeps DEF CallStep
  <1>4. ASSUME NEW t \in Thread, NEW f \in File,
               Open(t, f) \/ Register(t, f) \/ Reregister(t, f) \/ Deregister(t, f)
        PROVE  IInv'
    BY <1>4, RegisterKeeps, FileKeeps
  <1>5. ASSUME NEW f \in File, DropHandle(f) \/ Event(f) PROVE IInv'
    BY <1>5, DropHandleKeeps, FileKeeps
  <1> QED BY <1>1, <1>2, <1>3, <1>4, <1>5 DEF Next

\* The invariant holds of every behaviour.
LEMMA Invariance ==
    Spec => []IInv
  BY InitIInv, NextIInv, PTL DEF Spec

\* Whatever the kernel can report has its own job in events_map, at every moment
\* of every register, reregister, deregister and close, on any thread.
THEOREM MapIsNeverBehind ==
    Spec => []MapSound
  <1>1. IInv => TypeOK
    <2> SUFFICES ASSUME Types PROVE TypeOK
      BY DEF IInv
    <2>1. /\ \A d \in Fd : interest[d] \in Interest \cup {None}
          /\ \A t \in Thread : call[t] = NoCall \/ call[t] \in Call
      BY DEF Types
    <2> QED BY <2>1 DEF Types, TypeOK, Call, Raw, Entry
  <1>2. IInv => KernelImpliesMap
    BY DEF IInv
  <1> QED BY <1>1, <1>2, Invariance, PTL DEF MapSound

\* A job io_process calls is that of the file the event was about, but for the
\* two exceptions, and its file is open until the batch is cleared.
THEOREM JobsMeetTheirFiles ==
    Spec => []JobMeetsItsFile
  <1>1. IInv => JobMeetsItsFile
    BY DEF IInv
  <1> QED BY <1>1, Invariance, PTL

=============================================================================
