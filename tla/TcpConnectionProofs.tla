------------------------ MODULE TcpConnectionProofs -------------------------
(***************************************************************************)
(* Proofs about TcpConnection, for any lengths of what is sent, any send   *)
(* buffer and any amount of input.                                         *)
(*                                                                         *)
(* Life is the life cycle: which positions of the set-up a close can meet, *)
(* and what it leaves of the registration.  Stream is what is on the wire: *)
(* no byte waits in a buffer between two calls, so that a call appends     *)
(* bytes that are later than all before.                                   *)
(***************************************************************************)
EXTENDS TcpConnection, TLAPS

Types ==
    /\ readEnabled \in BOOLEAN /\ writeEnabled \in BOOLEAN
    /\ readTriggered \in BOOLEAN /\ writeTriggered \in BOOLEAN
    /\ closed \in BOOLEAN /\ edge \in BOOLEAN
    /\ accepted \in 0..MaxBytes
    /\ peerSent \in 0..MaxRx /\ rx \in 0..peerSent
    /\ space \in 0..SndBuf
    /\ status \subseteq {"eof", "reset", "rshut", "wshut"}
    /\ registered \in {"yes", "no", "oneshot"}
    /\ batch \subseteq {"readable", "writable", "error", "hup"}
    /\ pc \in {"idle", "read", "write", "close", "panicked"}
    /\ setup \in {"writJob", "closeJob", "deregister", "enable", "register", "done"}
    /\ told \in Nat

\* A close takes the registration off, once.  During the set-up it leaves a
\* connection that cannot be registered any more: the set-up panics first.
Life ==
    /\ ~closed => told = 0
    /\ closed => ~writeEnabled /\ registered = "no"
    /\ closed /\ setup = "done" => told = 1
    /\ closed /\ ~Panicked => setup \in {"writJob", "closeJob", "deregister", "done"}
    /\ setup = "done" => ~Panicked /\ (closed \/ registered = "yes")
    /\ setup # "done" => registered # "yes" /\ batch = {} /\ pc \in {"idle", "panicked"}
    /\ setup \in {"enable", "register"} => registered = "no"
    /\ edge => registered = "yes"

\* Both buffers are empty between two calls, and the wire is in order.
Stream ==
    /\ waiting = <<>> /\ sending = <<>>
    /\ wire \in Seq(1..accepted)
    /\ InOrder

IInv == Types /\ Life /\ Stream /\ NoStuckInput


\* What a sequence over a set is made of.
LEMMA ElementsOfSeq ==
    ASSUME NEW S, NEW u \in Seq(S)
    PROVE  \A i \in DOMAIN u : u[i] \in S
  OBVIOUS
-----------------------------------------------------------------------------
(* What the operations of the connection do.                               *)

\* handle_close, or nothing, and on to l.
LEMMA ClosingKeeps ==
    ASSUME Types, Life, NEW l \in {"idle", "read", "write", "close"},
           HandleClose(l) \/ KeepOpen(l),
           pc # "panicked", setup # "done" => l = "idle",
           setup' = setup, batch' = batch \/ batch' = {}
    PROVE  /\ readEnabled' \in BOOLEAN /\ writeEnabled' \in BOOLEAN /\ closed' \in BOOLEAN
           /\ told' \in Nat /\ registered' \in {"yes", "no", "oneshot"} /\ edge' \in BOOLEAN
           /\ pc' \in {l, "panicked"}
           /\ Life'
           /\ registered' = "yes" => registered = "yes" /\ pc' = l /\ edge' = edge
           /\ HandleClose(l) => registered' = "no"
  <1>1. CASE KeepOpen(l) /\ ~HandleClose(l)
    BY <1>1 DEF KeepOpen, closing, flags, reg, Types, Life, Panicked
  <1>2. CASE HandleClose(l) /\ closed
    BY <1>2 DEF HandleClose, KeepOpen, closing, flags, reg, Types, Life, Panicked
  <1>3. CASE HandleClose(l) /\ ~closed
    <2>1. /\ readEnabled' = FALSE /\ writeEnabled' = FALSE /\ closed' = TRUE
          /\ told' = (IF setup \in {"writJob", "closeJob"} THEN told ELSE told + 1)
          /\ IF registered = "no" THEN pc' = "panicked" /\ registered' = registered /\ edge' = edge
             ELSE pc' = l /\ registered' = "no" /\ edge' = FALSE
      BY <1>3 DEF HandleClose, CloseJob, CloseStream, reg
    <2>2. registered' = "no" /\ edge' = FALSE /\ pc' \in {l, "panicked"}
      BY <1>3, <2>1 DEF Types, Life
    <2>3. told' \in Nat /\ (setup = "done" => told' = 1 /\ pc' = l)
      BY <1>3, <2>1 DEF Types, Life
    <2>4. pc' # "panicked" => setup \in {"writJob", "closeJob", "deregister", "done"}
      BY <1>3, <2>1 DEF Types, Life
    <2>5. Life'
      BY <1>3, <2>1, <2>2, <2>3, <2>4 DEF Types, Life, Panicked
    <2> QED BY <2>1, <2>2, <2>3, <2>5
  <1> QED BY <1>1, <1>2, <1>3

\* write_data between two calls: it appends a part of what it was given.
LEMMA WriteDataAppends ==
    ASSUME Types, sending = <<>>, NEW S, NEW w \in Seq(S), NEW wt \in BOOLEAN, NEW l,
           WriteData(w, wt, l)
    PROVE  /\ waiting' = <<>> /\ sending' = <<>>
           /\ HandleClose(l) \/ KeepOpen(l)
           /\ space' \in 0..SndBuf /\ writeTriggered' \in BOOLEAN
           /\ wire' = wire \/ \E k \in 1..Len(w) : wire' = wire \o SubSeq(w, 1, k)
  <1> DEFINE k == IF Len(w) < space THEN Len(w) ELSE space
  <1>0. Len(w) \in Nat /\ (w # <<>> => Len(w) > 0) /\ space \in Nat /\ SndBuf \in Nat
    BY ConnectionAssumption DEF Types
  <1>1. CASE w = <<>>
    BY <1>1 DEF WriteData, Put, output, Types
  <1>2. CASE w # <<>>
    <2>1. TryWrite(w, <<>>, wt, l)
      BY <1>2 DEF WriteData
    <2>2. waiting' = <<>> /\ sending' = <<>>
      BY <2>1 DEF TryWrite, Put
    <2>3. CASE wire' = wire /\ space' = space /\ writeTriggered' = FALSE
               /\ (HandleClose(l) \/ KeepOpen(l))
      BY <2>2, <2>3 DEF Types
    <2>4. CASE /\ space > 0 /\ wire' = wire \o SubSeq(w, 1, k) /\ space' = space - k
               /\ IF k < Len(w) THEN writeTriggered' = wt /\ KeepOpen(l)
                                ELSE writeTriggered' = FALSE /\ WritJob(l)
      <3>1. k \in 1..Len(w) /\ space - k \in 0..SndBuf
        BY <1>0, <1>2, <2>4 DEF Types
      <3>2. HandleClose(l) \/ KeepOpen(l)
        BY <2>4 DEF WritJob
      <3> HIDE DEF k
      <3> QED BY <2>2, <2>4, <3>1, <3>2
    <2> QED BY <2>1, <2>3, <2>4 DEF TryWrite, output
  <1> QED BY <1>1, <1>2

\* What a concatenation is made of.
LEMMA ConcatElements ==
    ASSUME NEW S, NEW u \in Seq(S), NEW c \in Seq(S)
    PROVE  \A i \in 1..(Len(u) + Len(c)) :
               (u \o c)[i] = IF i <= Len(u) THEN u[i] ELSE c[i - Len(u)]
  OBVIOUS

\* Later bytes after earlier ones.
LEMMA AppendsLater ==
    ASSUME NEW a \in Nat, NEW u \in Seq(Nat), NEW c \in Seq(Nat), \A i \in 1..Len(c) : c[i] = a + i
    PROVE  \A i \in 1..(Len(u) + Len(c)) :
               (u \o c)[i] = IF i <= Len(u) THEN u[i] ELSE a + (i - Len(u))
  <1>1. Len(u) \in Nat /\ Len(c) \in Nat
    OBVIOUS
  <1>2. \A i \in 1..(Len(u) + Len(c)) : i <= Len(u) \/ i - Len(u) \in 1..Len(c)
    BY <1>1
  <1>3. \A i \in 1..(Len(u) + Len(c)) :
            (u \o c)[i] = IF i <= Len(u) THEN u[i] ELSE c[i - Len(u)]
    BY ConcatElements
  <1> QED BY <1>2, <1>3

\* The first k of the bytes after a, appended to bytes up to a.
LEMMA AppendsInOrder ==
    ASSUME NEW a \in Nat, NEW n \in Nat, NEW u \in Seq(1..a), NEW b \in Seq(Nat), Len(b) = n,
           \A i \in 1..n : b[i] = a + i,
           NEW k \in 1..n, NEW v, v = u \o SubSeq(b, 1, k)
    PROVE  /\ v \in Seq(1..(a + n)) /\ Len(v) = Len(u) + k
           /\ \A i \in 1..Len(v) : v[i] = IF i <= Len(u) THEN u[i] ELSE a + (i - Len(u))
  <1> DEFINE c == SubSeq(b, 1, k)
  <1>1. c \in Seq(1..(a + n)) /\ Len(c) = k /\ \A i \in 1..k : c[i] = a + i
    OBVIOUS
  <1>2. u \in Seq(1..(a + n)) /\ Len(u) \in Nat
    OBVIOUS
  <1>3. v = u \o c
    OBVIOUS
  <1>4. u \in Seq(Nat) /\ c \in Seq(Nat)
    OBVIOUS
  <1> HIDE DEF c
  <1>5. v \in Seq(1..(a + n)) /\ Len(v) = Len(u) + k
    BY <1>1, <1>2, <1>3
  <1>6. \A i \in 1..(Len(u) + Len(c)) :
            (u \o c)[i] = IF i <= Len(u) THEN u[i] ELSE a + (i - Len(u))
    BY <1>1, <1>4, AppendsLater
  <1> QED BY <1>1, <1>3, <1>5, <1>6

\* More bytes have been accepted.
LEMMA WireWidens ==
    ASSUME NEW a \in Nat, NEW b \in Nat, a <= b, NEW u \in Seq(1..a)
    PROVE  u \in Seq(1..b)
  OBVIOUS

-----------------------------------------------------------------------------
(* Steps.                                                                  *)

\* The peer.
LEMMA PeerKeeps ==
    ASSUME IInv, PeerSends \/ PeerReads \/ PeerCloses \/ PeerResets
    PROVE  IInv'
  <1>i. Types /\ Life /\ Stream /\ NoStuckInput
    BY DEF IInv
  <1>1. /\ edge' = (edge \/ registered = "yes")
        /\ UNCHANGED <<readEnabled, writeEnabled, closed, told, registered, readTriggered,
                       writeTriggered, waiting, sending, accepted, wire, batch, pc, setup>>
    BY DEF PeerSends, PeerReads, PeerCloses, PeerResets, Wakeup, output, input, flags,
           triggers, buffers
  <1>2. /\ peerSent' \in 0..MaxRx /\ rx' \in 0..peerSent' /\ space' \in 0..SndBuf
        /\ status' \subseteq {"eof", "reset", "rshut", "wshut"}
    <2>1. CASE PeerSends
      BY <1>i, <2>1, ConnectionAssumption DEF PeerSends, output, Types
    <2>2. CASE PeerReads
      BY <1>i, <2>2, ConnectionAssumption DEF PeerReads, input, Types
    <2>3. CASE PeerCloses
      BY <1>i, <2>3 DEF PeerCloses, input, output, Types
    <2>4. CASE PeerResets
      BY <1>i, <2>4, ConnectionAssumption DEF PeerResets, output, Types
    <2> QED BY <2>1, <2>2, <2>3, <2>4
  <1>3. Types' /\ Life'
    BY <1>i, <1>1, <1>2 DEF Types, Life, Panicked
  <1>4. Stream'
    BY <1>i, <1>1 DEF Stream, InOrder
  <1>5. NoStuckInput'
    BY <1>1 DEF NoStuckInput
  <1> QED BY <1>3, <1>4, <1>5 DEF IInv

\* send, and what it puts on the wire.
LEMMA SendKeeps ==
    ASSUME IInv, NEW n \in SendLen, Send(n)
    PROVE  IInv'
  <1>i. Types /\ Life /\ Stream /\ NoStuckInput
    BY DEF IInv
  <1>1. /\ pc = "idle" /\ n \in Nat /\ n > 0 /\ accepted \in Nat /\ accepted + n <= MaxBytes
        /\ accepted' = accepted + n
        /\ WriteData(waiting \o Bytes(n), writeTriggered, "idle")
        /\ UNCHANGED <<readTriggered, rx, peerSent, status, batch, setup>>
    BY <1>i, ConnectionAssumption DEF Send, Free, input, Types
  <1>2. Bytes(n) \in Seq(Nat) /\ Len(Bytes(n)) = n /\ waiting \o Bytes(n) = Bytes(n)
    BY <1>i, <1>1 DEF Bytes, Stream
  <1>3. /\ waiting' = <<>> /\ sending' = <<>>
        /\ HandleClose("idle") \/ KeepOpen("idle")
        /\ space' \in 0..SndBuf /\ writeTriggered' \in BOOLEAN
        /\ wire' = wire \/ \E k \in 1..n : wire' = wire \o SubSeq(Bytes(n), 1, k)
    <2>1. WriteData(Bytes(n), writeTriggered, "idle")
      BY <1>1, <1>2
    <2> QED BY <1>i, <1>2, <2>1, WriteDataAppends DEF Types, Stream
  <1>4. /\ readEnabled' \in BOOLEAN /\ writeEnabled' \in BOOLEAN /\ closed' \in BOOLEAN
        /\ told' \in Nat /\ registered' \in {"yes", "no", "oneshot"} /\ edge' \in BOOLEAN
        /\ pc' \in {"idle", "panicked"}
        /\ Life'
        /\ registered' = "yes" => registered = "yes" /\ pc' = "idle" /\ edge' = edge
    BY <1>i, <1>1, <1>3, ClosingKeeps
  <1>5. Types'
    BY <1>i, <1>1, <1>3, <1>4, ConnectionAssumption DEF Types
  <1>6. Stream'
    <2>1. CASE wire' = wire
      <3>1. wire \in Seq(1..(accepted + n))
        BY <1>i, <1>1, WireWidens DEF Stream
      <3> QED BY <1>i, <1>1, <1>3, <2>1, <3>1 DEF Stream, InOrder
    <2>2. CASE \E k \in 1..n : wire' = wire \o SubSeq(Bytes(n), 1, k)
      <3>1. PICK k \in 1..n : wire' = wire \o SubSeq(Bytes(n), 1, k)
        BY <2>2
      <3>2. /\ wire' \in Seq(1..(accepted + n))
            /\ \A i, j \in DOMAIN wire' : i < j => wire'[i] < wire'[j]
        <4> DEFINE b == Bytes(n)
                   v == wire'
        <4>1. /\ b \in Seq(Nat) /\ Len(b) = n /\ \A i \in 1..n : b[i] = accepted + i
              /\ v = wire \o SubSeq(b, 1, k)
          BY <1>1, <1>2, <3>1 DEF Bytes
        <4>2. wire \in Seq(1..accepted) /\ \A i, j \in DOMAIN wire : i < j => wire[i] < wire[j]
          BY <1>i DEF Stream, InOrder
        <4> HIDE DEF b, v
        <4>3. accepted \in Nat /\ n \in Nat
          BY <1>1
        <4>4. /\ v \in Seq(1..(accepted + n)) /\ Len(v) \in Nat
              /\ \A i \in 1..Len(v) :
                    v[i] = IF i <= Len(wire) THEN wire[i] ELSE accepted + (i - Len(wire))
          BY <4>1, <4>2, <4>3, AppendsInOrder
        <4>5. /\ DOMAIN wire = 1..Len(wire) /\ Len(wire) \in Nat
              /\ \A i \in 1..Len(wire) : wire[i] \in 1..accepted
          <5>1. wire \in Seq(1..accepted)
            BY <4>2
          <5>2. DOMAIN wire = 1..Len(wire) /\ Len(wire) \in Nat
            BY <5>1
          <5>3. \A i \in DOMAIN wire : wire[i] \in 1..accepted
            BY <5>1, ElementsOfSeq
          <5> QED BY <5>2, <5>3
        <4>6. \A i, j \in 1..Len(v) : i < j => v[i] < v[j]
          <5> SUFFICES ASSUME NEW i \in 1..Len(v), NEW j \in 1..Len(v), i < j
                       PROVE  v[i] < v[j]
            OBVIOUS
          <5>1. CASE j <= Len(wire)
            <6>1. v[i] = wire[i] /\ v[j] = wire[j]
              BY <4>4, <4>5, <5>1
            <6>2. i \in DOMAIN wire /\ j \in DOMAIN wire
              BY <4>4, <4>5, <5>1
            <6>3. wire[i] < wire[j]
              BY <4>2, <6>2
            <6> QED BY <6>1, <6>3
          <5>2. CASE i <= Len(wire) /\ j > Len(wire)
            <6>1. v[i] = wire[i] /\ v[j] = accepted + (j - Len(wire))
              BY <4>4, <4>5, <5>2
            <6>2. wire[i] \in 1..accepted
              BY <4>4, <4>5, <5>2
            <6> QED BY <4>3, <4>4, <4>5, <5>2, <6>1, <6>2
          <5>3. CASE i > Len(wire)
            <6>1. v[i] = accepted + (i - Len(wire)) /\ v[j] = accepted + (j - Len(wire))
              BY <4>4, <4>5, <5>3
            <6> QED BY <4>3, <4>4, <4>5, <5>3, <6>1
          <5> QED BY <4>4, <4>5, <5>1, <5>2, <5>3
        <4>7. DOMAIN v = 1..Len(v)
          BY <4>4
        <4> QED BY <4>4, <4>6, <4>7 DEF v
      <3> QED BY <1>1, <1>3, <3>2 DEF Stream, InOrder
    <2> QED BY <1>3, <2>1, <2>2
  <1>7. NoStuckInput'
    BY <1>i, <1>1, <1>4 DEF NoStuckInput, Readable
  <1> QED BY <1>4, <1>5, <1>6, <1>7 DEF IInv

\* shutdown.
LEMMA ShutdownKeeps ==
    ASSUME IInv, NEW how, Shutdown(how)
    PROVE  IInv'
  <1>i. Types /\ Life /\ Stream /\ NoStuckInput
    BY DEF IInv
  <1>1. /\ edge' = (edge \/ registered = "yes")
        /\ readEnabled' = (readEnabled /\ how = "write")
        /\ writeEnabled' = (writeEnabled /\ how = "read")
        /\ status' \subseteq status \cup {"rshut", "wshut"}
        /\ UNCHANGED <<closed, told, registered, readTriggered, writeTriggered, waiting, sending,
                       accepted, rx, peerSent, space, wire, batch, pc, setup>>
    BY DEF Shutdown, Wakeup, output, input, triggers, buffers
  <1>2. Types' /\ Life'
    BY <1>i, <1>1 DEF Types, Life, Panicked
  <1>3. Stream'
    BY <1>i, <1>1 DEF Stream, InOrder
  <1>4. NoStuckInput'
    BY <1>1 DEF NoStuckInput
  <1> QED BY <1>2, <1>3, <1>4 DEF IInv

\* The set-up.
LEMMA SetupKeeps ==
    ASSUME IInv, SetupStep
    PROVE  IInv'
  <1>i. Types /\ Life /\ Stream /\ NoStuckInput
    BY DEF IInv
  <1>1. /\ pc = "idle" /\ setup # "done"
        /\ UNCHANGED <<closed, told, readTriggered, writeTriggered, waiting, sending,
                       accepted, rx, peerSent, space, wire, status, batch>>
    BY DEF SetupStep, SetWritJob, SetCloseJob, Deregister, SetEnabled, Register, SetUp, Free,
           closing, output, input, triggers, buffers
  <1>2. Stream'
    BY <1>i, <1>1 DEF Stream, InOrder
  <1>3. CASE SetWritJob \/ SetCloseJob \/ SetEnabled
    <2>1. /\ UNCHANGED <<registered, edge, pc>>
          /\ \/ setup = "writJob" /\ setup' = "closeJob"
                /\ UNCHANGED <<readEnabled, writeEnabled>>
             \/ setup = "closeJob" /\ UNCHANGED <<readEnabled, writeEnabled>>
                /\ setup' = IF registered = "oneshot" \/ closed THEN "deregister" ELSE "register"
             \/ setup = "enable" /\ setup' = "register" /\ readEnabled' = TRUE /\ writeEnabled' = TRUE
      BY <1>3 DEF SetWritJob, SetCloseJob, SetEnabled, SetUp, closing, reg, flags
    <2>2. Types'
      BY <1>i, <1>1, <2>1 DEF Types
    <2>3. Life'
      BY <1>i, <1>1, <2>1 DEF Types, Life, Panicked
    <2>4. NoStuckInput'
      BY <1>i, <1>1, <2>1 DEF NoStuckInput, Readable
    <2> QED BY <1>2, <2>2, <2>3, <2>4 DEF IInv
  <1>4. CASE Deregister
    <2>1. /\ setup = "deregister" /\ setup' = "enable" /\ UNCHANGED <<readEnabled, writeEnabled>>
          /\ IF registered = "no" THEN pc' = "panicked" /\ registered' = registered /\ edge' = edge
             ELSE pc' = "idle" /\ registered' = "no" /\ edge' = FALSE
      BY <1>4 DEF Deregister, SetUp, CloseStream, reg, flags
    <2>2. Types'
      BY <1>i, <1>1, <2>1 DEF Types
    <2>3. Life'
      BY <1>i, <1>1, <2>1 DEF Types, Life, Panicked
    <2>4. NoStuckInput'
      BY <2>1 DEF NoStuckInput
    <2> QED BY <1>2, <2>2, <2>3, <2>4 DEF IInv
  <1>5. CASE Register
    <2>1. /\ setup = "register" /\ setup' = "done" /\ registered' = "yes" /\ edge' = (Mask # {})
          /\ UNCHANGED <<readEnabled, writeEnabled, pc>>
      BY <1>5 DEF Register, SetUp, flags
    <2>2. Types'
      BY <1>i, <1>1, <2>1 DEF Types
    <2>3. Life'
      BY <1>i, <1>1, <2>1 DEF Types, Life, Panicked
    <2>4. Readable => "readable" \in Mask
      BY DEF Mask
    <2>5. NoStuckInput'
      BY <1>1, <2>1, <2>4 DEF NoStuckInput, Readable
    <2> QED BY <1>2, <2>2, <2>3, <2>5 DEF IInv
  <1> QED BY <1>3, <1>4, <1>5 DEF SetupStep

\* select, and the steps of handle_event.
LEMMA LoopKeeps ==
    ASSUME IInv, LoopStep
    PROVE  IInv'
  <1>i. Types /\ Life /\ Stream /\ NoStuckInput
    BY DEF IInv
  <1>1. CASE Select
    <2>1. /\ edge /\ pc = "idle" /\ edge' = FALSE /\ batch' = Mask
          /\ UNCHANGED <<readEnabled, writeEnabled, closed, told, registered, readTriggered,
                         writeTriggered, waiting, sending, accepted, rx, peerSent, space, wire,
                         status, pc, setup>>
      BY <1>1 DEF Select, Free, flags, triggers, buffers, input, output
    <2>2. Types' /\ Life'
      BY <1>i, <2>1 DEF Types, Life, Panicked, Mask
    <2>3. Stream'
      BY <1>i, <2>1 DEF Stream, InOrder
    <2>4. Readable => "readable" \in Mask
      BY DEF Mask
    <2>5. NoStuckInput'
      BY <2>1, <2>4 DEF NoStuckInput, Readable
    <2> QED BY <2>2, <2>3, <2>5 DEF IInv
  <1>2. CASE HandleEvent
    <2>1. /\ pc = "idle" /\ batch # {} /\ pc' = IF "readable" \in batch THEN "read" ELSE "write"
          /\ readTriggered' = (readTriggered \/ "readable" \in batch)
          /\ UNCHANGED <<readEnabled, writeEnabled, closed, told, registered, edge,
                         writeTriggered, waiting, sending, accepted, rx, peerSent, space, wire,
                         status, batch, setup>>
      BY <1>2 DEF HandleEvent, Free, closing, flags, reg, buffers, input, output
    <2>2. Types' /\ Life'
      BY <1>i, <2>1 DEF Types, Life, Panicked
    <2>3. Stream'
      BY <1>i, <2>1 DEF Stream, InOrder
    <2>4. NoStuckInput'
      BY <1>i, <2>1 DEF NoStuckInput, Readable
    <2> QED BY <2>2, <2>3, <2>4 DEF IInv
  <1>3. ASSUME NEW k, ReadSome(k) PROVE IInv'
    <2>1. /\ pc = "read" /\ pc' = "read" /\ k \in 1..rx /\ rx' = rx - k
          /\ UNCHANGED <<readEnabled, writeEnabled, closed, told, registered, edge, readTriggered,
                         writeTriggered, waiting, sending, accepted, peerSent, space, wire,
                         status, batch, setup>>
      BY <1>3 DEF ReadSome, KeepOpen, ReadUnchanged, closing, flags, reg, buffers, output
    <2>2. Types' /\ Life'
      BY <1>i, <2>1, ConnectionAssumption DEF Types, Life, Panicked
    <2>3. Stream'
      BY <1>i, <2>1 DEF Stream, InOrder
    <2>4. NoStuckInput'
      BY <2>1 DEF NoStuckInput
    <2> QED BY <2>2, <2>3, <2>4 DEF IInv
  <1>4. CASE ReadEnd \/ ReadWouldBlock
    <2>1. /\ pc = "read"
          /\ HandleClose("write") \/ (KeepOpen("write") /\ ~Readable)
          /\ readTriggered' = FALSE
          /\ UNCHANGED <<writeTriggered, waiting, sending, accepted, rx, peerSent, space, wire,
                         status, batch, setup>>
      BY <1>4 DEF ReadEnd, ReadWouldBlock, ReadUnchanged, buffers, output
    <2>2. setup = "done"
      BY <1>i, <2>1 DEF Life
    <2>3. /\ readEnabled' \in BOOLEAN /\ writeEnabled' \in BOOLEAN /\ closed' \in BOOLEAN
          /\ told' \in Nat /\ registered' \in {"yes", "no", "oneshot"} /\ edge' \in BOOLEAN
          /\ pc' \in {"write", "panicked"} /\ Life'
          /\ HandleClose("write") => registered' = "no"
      BY <1>i, <2>1, <2>2, ClosingKeeps
    <2>4. Types'
      BY <1>i, <2>1, <2>3 DEF Types
    <2>5. Stream'
      BY <1>i, <2>1 DEF Stream, InOrder
    <2>6. NoStuckInput'
      BY <2>1, <2>3 DEF NoStuckInput, Readable
    <2> QED BY <2>3, <2>4, <2>5, <2>6 DEF IInv
  <1>5. CASE HandleWrite
    <2>1. /\ pc = "write"
          /\ UNCHANGED <<readTriggered, accepted, rx, peerSent, status, batch, setup>>
          /\ \/ WriteData(waiting, TRUE, "close")
             \/ KeepOpen("close") /\ UNCHANGED <<writeTriggered, waiting, sending, space, wire>>
      BY <1>5 DEF HandleWrite, input, output
    <2>2. setup = "done"
      BY <1>i, <2>1 DEF Life
    <2>3. /\ waiting' = <<>> /\ sending' = <<>> /\ wire' = wire
          /\ HandleClose("close") \/ KeepOpen("close")
          /\ space' \in 0..SndBuf /\ writeTriggered' \in BOOLEAN
      <3>1. waiting = <<>> /\ sending = <<>>
        BY <1>i DEF Stream
      <3>2. CASE WriteData(waiting, TRUE, "close")
        BY <1>i, <3>1, <3>2 DEF WriteData, Put, output, Types
      <3>3. CASE KeepOpen("close") /\ UNCHANGED <<writeTriggered, waiting, sending, space, wire>>
        BY <1>i, <3>1, <3>3 DEF Types
      <3> QED BY <2>1, <3>2, <3>3
    <2>4. /\ readEnabled' \in BOOLEAN /\ writeEnabled' \in BOOLEAN /\ closed' \in BOOLEAN
          /\ told' \in Nat /\ registered' \in {"yes", "no", "oneshot"} /\ edge' \in BOOLEAN
          /\ pc' \in {"close", "panicked"} /\ Life'
          /\ registered' = "yes" => registered = "yes" /\ pc' = "close" /\ edge' = edge
      BY <1>i, <2>1, <2>2, <2>3, ClosingKeeps
    <2>5. Types'
      BY <1>i, <2>1, <2>3, <2>4 DEF Types
    <2>6. Stream'
      BY <1>i, <2>1, <2>3 DEF Stream, InOrder
    <2>7. NoStuckInput'
      BY <1>i, <2>1, <2>4 DEF NoStuckInput, Readable
    <2> QED BY <2>4, <2>5, <2>6, <2>7 DEF IInv
  <1>6. CASE EventDone
    <2>1. /\ pc = "close" /\ batch' = {}
          /\ HandleClose("idle") \/ KeepOpen("idle")
          /\ readTriggered' \in BOOLEAN /\ writeTriggered' \in BOOLEAN
          /\ UNCHANGED <<waiting, sending, accepted, rx, peerSent, space, wire, status, setup>>
      BY <1>i, <1>6 DEF EventDone, triggers, buffers, input, output, Types
    <2>2. /\ readEnabled' \in BOOLEAN /\ writeEnabled' \in BOOLEAN /\ closed' \in BOOLEAN
          /\ told' \in Nat /\ registered' \in {"yes", "no", "oneshot"} /\ edge' \in BOOLEAN
          /\ pc' \in {"idle", "panicked"} /\ Life'
          /\ registered' = "yes" => registered = "yes" /\ pc' = "idle" /\ edge' = edge
      BY <1>i, <2>1, ClosingKeeps
    <2>3. Types'
      BY <1>i, <2>1, <2>2 DEF Types
    <2>4. Stream'
      BY <1>i, <2>1 DEF Stream, InOrder
    <2>5. NoStuckInput'
      BY <1>i, <2>1, <2>2 DEF NoStuckInput, Readable
    <2> QED BY <2>2, <2>3, <2>4, <2>5 DEF IInv
  <1> QED BY <1>1, <1>2, <1>3, <1>4, <1>5, <1>6 DEF LoopStep

-----------------------------------------------------------------------------
(* The invariant, and what it says.                                        *)

\* The initial states satisfy the invariant.
LEMMA InitIInv ==
    Init => IInv
  <1> SUFFICES ASSUME Init PROVE IInv
    OBVIOUS
  <1>1. Types
    <2>1. 0 \in 0..MaxBytes /\ 0 \in 0..MaxRx /\ 0 \in 0..0 /\ SndBuf \in 0..SndBuf
      BY ConnectionAssumption
    <2> QED BY <2>1 DEF Init, Types
  <1>4. Life
    BY DEF Init, Life, Panicked
  <1>2. Stream
    BY DEF Init, Stream, InOrder
  <1>3. NoStuckInput
    BY DEF Init, NoStuckInput
  <1> QED BY <1>1, <1>2, <1>3, <1>4 DEF IInv

\* Every step preserves the invariant.
LEMMA NextIInv ==
    IInv /\ [Next]_vars => IInv'
  <1> SUFFICES ASSUME IInv, [Next]_vars PROVE IInv'
    OBVIOUS
  <1>1. CASE UNCHANGED vars
    BY <1>1
    DEF vars, flags, triggers, buffers, input, output, reg, IInv, Types, Life, Panicked, Stream,
        InOrder, NoStuckInput, Readable
  <1> QED BY <1>1, PeerKeeps, SendKeeps, ShutdownKeeps, SetupKeeps, LoopKeeps DEF Next

\* The invariant holds of every behaviour.
LEMMA Invariance ==
    Spec => []IInv
  BY InitIInv, NextIInv, PTL DEF Spec

\* Whatever send is given and however much the socket takes, the peer receives
\* the bytes in the order of the calls, none of them twice.
THEOREM BytesArriveInOrder ==
    Spec => []BytesInOrder
  <1>1. IInv => TypeOK
    <2> SUFFICES ASSUME Types, Stream PROVE TypeOK
      BY DEF IInv
    <2>1. waiting \in Seq(1..accepted) /\ sending \in Seq(1..accepted) /\ wire \in Seq(1..accepted)
      BY DEF Stream
    <2> QED BY <2>1 DEF Types, TypeOK
  <1>2. IInv => InOrder
    BY DEF IInv, Stream
  <1> QED BY <1>1, <1>2, Invariance, PTL DEF BytesInOrder

\* handle_read uses up what its event was about: no input is left behind
\* without a new edge.
THEOREM InputIsNotStuck ==
    Spec => []NoStuckInput
  <1>1. IInv => NoStuckInput
    BY DEF IInv
  <1> QED BY <1>1, Invariance, PTL

\* A connection that is set up is closed once, whichever of the reads, the
\* write, the session and the event notices first.
THEOREM ClosedOnce ==
    Spec => []ClosesOnce
  <1>1. IInv => ClosesOnce
    BY DEF IInv, Life, ClosesOnce
  <1> QED BY <1>1, Invariance, PTL

=============================================================================
