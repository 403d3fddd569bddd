--------------------------- MODULE TcpConnection ----------------------------
(***************************************************************************)
(* One TcpConnection, from the moment TcpServer or TcpClient hands it to   *)
(* its session: the rest of the set-up, the events the loop dispatches to  *)
(* handle_event, and the threads that call send and shutdown.  All of them *)
(* take the Mutex around the connection; the peer and the kernel do not    *)
(* wait for it.  send makes one system call, so it is one step;            *)
(* handle_event is a step per read and one each for its write and close.   *)
(*                                                                         *)
(* Bytes given to send are numbered in order.  A panic (an unwrap of an    *)
(* error) poisons the Mutex and ends the loop's thread: nothing follows.   *)
(***************************************************************************)
EXTENDS Naturals, Sequences

CONSTANTS
    SendLen,    \* lengths of the buffers given to send
    MaxBytes,   \* bound: bytes given to send
    MaxRx,      \* bound: bytes the peer sends
    SndBuf      \* the socket's send buffer

ASSUME ConnectionAssumption ==
    /\ SendLen \subseteq Nat
    /\ MaxBytes \in Nat /\ MaxRx \in Nat
    /\ SndBuf \in Nat \ {0}

VARIABLES
    readEnabled, writeEnabled, readTriggered, writeTriggered, closed,
    waiting,    \* write_buffer_waiting
    sending,    \* write_buffer_sending
    rx,         \* bytes received and not read
    peerSent,   \* bytes the peer has sent
    space,      \* room in the send buffer
    wire,       \* the bytes the kernel has taken, in order
    status,     \* what happened to the socket: eof, reset, rshut, wshut
    registered, \* "yes", "no", or "oneshot": the Connector's, spent
    edge,       \* the socket is on the ready list of the loop's epoll
    batch,      \* the readiness select has taken for this connection
    pc,         \* the loop's position in handle_event; "panicked"
    setup,      \* the position of on_accept_connection or of conn_job
    accepted,   \* bytes send has answered Ok for
    told        \* auxiliary: how often the session's on_error ran

flags == <<readEnabled, writeEnabled>>
triggers == <<readTriggered, writeTriggered>>
buffers == <<waiting, sending, accepted>>
input == <<rx, peerSent>>
output == <<space, wire>>
reg == <<registered, edge>>
closing == <<flags, closed, told, reg>>
vars == <<flags, triggers, closed, buffers, input, output, status, reg, batch, pc, setup, told>>

Init ==
    /\ readEnabled = TRUE /\ writeEnabled = TRUE
    /\ readTriggered = FALSE /\ writeTriggered = FALSE
    /\ closed = FALSE
    /\ waiting = <<>> /\ sending = <<>> /\ accepted = 0
    /\ rx = 0 /\ peerSent = 0
    /\ space = SndBuf /\ wire = <<>>
    /\ status = {}
    /\ registered \in {"no", "oneshot"}  \* TcpServer, TcpClient
    /\ edge = FALSE
    /\ batch = {}
    /\ pc = "idle"
    /\ setup = "writJob"
    /\ told = 0

-----------------------------------------------------------------------------
(* The socket.                                                             *)

Readable == rx > 0 \/ status \cap {"eof", "reset", "rshut"} # {}
Writable == space > 0 \/ status \cap {"reset", "wshut"} # {}

\* The events epoll reports of the socket as it is now.
Mask ==
    {m \in {"readable", "writable", "error", "hup"} :
        \/ m = "readable" /\ Readable
        \/ m = "writable" /\ Writable
        \/ m = "error" /\ "reset" \in status
        \/ m = "hup" /\ "reset" \in status
        \/ m = "hup" /\ "wshut" \in status /\ status \cap {"eof", "rshut"} # {}}

Wakeup == edge' = (edge \/ registered = "yes")

PeerSends ==
    /\ status \cap {"eof", "reset"} = {} /\ peerSent < MaxRx
    /\ rx' = rx + 1 /\ peerSent' = peerSent + 1
    /\ Wakeup
    /\ UNCHANGED <<output, status, flags, closed, told, registered, triggers, buffers, batch, pc, setup>>

PeerReads ==
    /\ space < SndBuf /\ "reset" \notin status
    /\ space' = space + 1
    /\ Wakeup
    /\ UNCHANGED <<wire, input, status, flags, closed, told, registered, triggers, buffers, batch, pc, setup>>

PeerCloses ==
    /\ status \cap {"eof", "reset"} = {}
    /\ status' = status \cup {"eof"}
    /\ Wakeup
    /\ UNCHANGED <<input, output, flags, closed, told, registered, triggers, buffers, batch, pc, setup>>

\* A reset discards what was not read.
PeerResets ==
    /\ "reset" \notin status
    /\ status' = status \cup {"reset"}
    /\ rx' = 0
    /\ Wakeup
    /\ UNCHANGED <<peerSent, output, flags, closed, told, registered, triggers, buffers, batch, pc, setup>>

-----------------------------------------------------------------------------
(* Closing.                                                                *)

\* close_stream unwraps the answer of deregister.
CloseStream(l) ==
    IF registered = "no"
    THEN pc' = "panicked" /\ UNCHANGED reg
    ELSE pc' = l /\ registered' = "no" /\ edge' = FALSE

\* The session is told once its close job has replaced the default one.
CloseJob == told' = IF setup \in {"writJob", "closeJob"} THEN told ELSE told + 1

\* Mutant: a closed connection is closed again.
HandleCloseAgain(l) ==
    /\ readEnabled' = FALSE /\ writeEnabled' = FALSE
    /\ closed' = TRUE
    /\ CloseJob
    /\ CloseStream(l)

\* handle_close, after which the caller goes on at l.
HandleClose(l) ==
    IF closed
    THEN pc' = l /\ UNCHANGED closing
    ELSE /\ readEnabled' = FALSE /\ writeEnabled' = FALSE
         /\ closed' = TRUE
         /\ CloseJob
         /\ CloseStream(l)

KeepOpen(l) == pc' = l /\ UNCHANGED closing

-----------------------------------------------------------------------------
(* Writing.                                                                *)

\* on_written; the default write job answers true.
WritJob(l) == KeepOpen(l) \/ (setup # "writJob" /\ HandleClose(l))

Put(w, s) == waiting' = w /\ sending' = s

\* Mutant: after a short write the whole buffer is kept for the next event.
TryWriteKeepsAll(buf, rest, wt, l) ==
    LET k == IF Len(buf) < space THEN Len(buf) ELSE space
    IN  /\ status \cap {"reset", "wshut"} = {}
        /\ wire' = wire \o SubSeq(buf, 1, k)
        /\ space' = space - k
        /\ Put(rest, IF k < Len(buf) THEN buf ELSE <<>>)
        /\ writeTriggered' = (k < Len(buf) /\ wt)
        /\ KeepOpen(l)

\* The end of write_data: buf has been taken out of its buffer and is local; wt is
\* write_triggered so far.
TryWrite(buf, rest, wt, l) ==
    LET k == IF Len(buf) < space THEN Len(buf) ELSE space
    IN  /\ Put(rest, <<>>)
        /\ \/ \* Err
              /\ status \cap {"reset", "wshut"} # {}
              /\ writeTriggered' = FALSE
              /\ HandleClose(l)
              /\ UNCHANGED output
           \/ \* Ok(None)
              /\ status \cap {"reset", "wshut"} = {} /\ space = 0
              /\ writeTriggered' = FALSE
              /\ KeepOpen(l)
              /\ UNCHANGED output
           \/ \* Ok(Some(k))
              /\ status \cap {"reset", "wshut"} = {} /\ space > 0
              /\ wire' = wire \o SubSeq(buf, 1, k)
              /\ space' = space - k
              /\ IF k < Len(buf)
                 THEN writeTriggered' = wt /\ KeepOpen(l)
                 ELSE writeTriggered' = FALSE /\ WritJob(l)

\* write_data, with w in write_buffer_waiting.
WriteData(w, wt, l) ==
    IF sending # <<>> THEN TryWrite(sending, w, wt, l)
    ELSE IF w # <<>> THEN TryWrite(w, <<>>, wt, l)
    ELSE Put(<<>>, <<>>) /\ writeTriggered' = wt /\ KeepOpen(l) /\ UNCHANGED output

Free == pc = "idle"

Bytes(n) == [i \in 1..n |-> accepted + i]

\* send; a disabled connection, or no bytes, is answered with Ok(0).
Send(n) ==
    /\ Free
    /\ writeEnabled /\ n > 0 /\ accepted + n <= MaxBytes
    /\ accepted' = accepted + n
    /\ WriteData(waiting \o Bytes(n), writeTriggered, pc)
    /\ UNCHANGED <<readTriggered, input, status, batch, setup>>

Shutdown(how) ==
    /\ Free
    /\ readEnabled' = (readEnabled /\ how = "write")
    /\ writeEnabled' = (writeEnabled /\ how = "read")
    /\ status' = IF "reset" \in status THEN status  \* ENOTCONN
                 ELSE status \cup {s \in {"rshut", "wshut"} :
                                     how = "both" \/ (how = "read") = (s = "rshut")}
    /\ Wakeup
    /\ UNCHANGED <<triggers, closed, buffers, input, output, registered, batch, pc, setup, told>>

-----------------------------------------------------------------------------
(* The set-up.                                                             *)

SetUp(from, to) == Free /\ setup = from /\ setup' = to

SetWritJob ==
    /\ SetUp("writJob", "closeJob")
    /\ UNCHANGED <<closing, triggers, buffers, input, output, status, batch, pc>>

\* TcpServer registers next; TcpClient first takes the Connector's registration off.
\* A client whose registration a close has taken off is still a client.
SetCloseJob ==
    /\ SetUp("closeJob", IF registered = "oneshot" \/ closed THEN "deregister" ELSE "register")
    /\ UNCHANGED <<closing, triggers, buffers, input, output, status, batch, pc>>

Deregister ==
    /\ SetUp("deregister", "enable")
    /\ CloseStream("idle")
    /\ UNCHANGED <<flags, closed, told, triggers, buffers, input, output, status, batch>>

SetEnabled ==
    /\ SetUp("enable", "register")
    /\ readEnabled' = TRUE /\ writeEnabled' = TRUE
    /\ UNCHANGED <<closed, told, reg, triggers, buffers, input, output, status, batch, pc>>

Register ==
    /\ SetUp("register", "done")
    /\ registered' = "yes" /\ edge' = (Mask # {})
    /\ UNCHANGED <<flags, closed, told, triggers, buffers, input, output, status, batch, pc>>

-----------------------------------------------------------------------------
(* The loop.                                                               *)

Select ==
    /\ edge /\ batch = {} /\ Free
    /\ edge' = FALSE
    /\ batch' = Mask
    /\ UNCHANGED <<flags, closed, told, registered, triggers, buffers, input, output, status, pc, setup>>

\* handle_event; the connection may have been closed since select.
HandleEvent ==
    /\ Free /\ batch # {}
    /\ pc' = IF "readable" \in batch THEN "read" ELSE "write"
    /\ readTriggered' = (readTriggered \/ "readable" \in batch)
    /\ UNCHANGED <<writeTriggered, closing, buffers, input, output, status, batch, setup>>

ReadUnchanged == <<writeTriggered, buffers, peerSent, output, status, batch, setup>>

\* Mutant: one read per event.
ReadSomeOnce(k) ==
    /\ pc = "read" /\ k \in 1..rx
    /\ rx' = rx - k
    /\ KeepOpen("write")
    /\ UNCHANGED <<readTriggered, ReadUnchanged>>

\* handle_read: Ok(Some(k)), and round again
ReadSome(k) ==
    /\ pc = "read" /\ k \in 1..rx
    /\ rx' = rx - k
    /\ KeepOpen("read")
    /\ UNCHANGED <<readTriggered, ReadUnchanged>>

\* Mutant: the end of the stream is taken for a spurious event.
ReadEndSpurious ==
    /\ pc = "read" /\ rx = 0 /\ Readable
    /\ readTriggered' = FALSE
    /\ KeepOpen("write")
    /\ UNCHANGED <<rx, ReadUnchanged>>

\* Ok(Some(0)) and Err
ReadEnd ==
    /\ pc = "read" /\ rx = 0 /\ Readable
    /\ readTriggered' = FALSE
    /\ HandleClose("write")
    /\ UNCHANGED <<rx, ReadUnchanged>>

\* Ok(None)
ReadWouldBlock ==
    /\ pc = "read" /\ ~Readable
    /\ readTriggered' = FALSE
    /\ KeepOpen("write")
    /\ UNCHANGED <<rx, ReadUnchanged>>

\* handle_write, when the event says writable; write_data does nothing when
\* both buffers are empty
HandleWrite ==
    /\ pc = "write"
    /\ IF "writable" \in batch
       THEN WriteData(waiting, TRUE, "close")
       ELSE KeepOpen("close") /\ UNCHANGED <<writeTriggered, waiting, sending, output>>
    /\ UNCHANGED <<readTriggered, accepted, input, status, batch, setup>>

EventDone ==
    /\ pc = "close"
    /\ batch' = {}
    /\ IF batch \cap {"error", "hup"} # {}
       THEN readTriggered' = TRUE /\ writeTriggered' = TRUE /\ HandleClose("idle")
       ELSE KeepOpen("idle") /\ UNCHANGED triggers
    /\ UNCHANGED <<buffers, input, output, status, setup>>

-----------------------------------------------------------------------------
SetupStep == SetWritJob \/ SetCloseJob \/ Deregister \/ SetEnabled \/ Register

LoopStep ==
    \/ Select \/ HandleEvent \/ ReadEnd \/ ReadWouldBlock \/ HandleWrite \/ EventDone
    \/ \E k \in 1..MaxRx : ReadSome(k)

Next ==
    \/ PeerSends \/ PeerReads \/ PeerCloses \/ PeerResets
    \/ \E n \in SendLen : Send(n)
    \/ \E how \in {"read", "write", "both"} : Shutdown(how)
    \/ SetupStep \/ LoopStep

Spec == Init /\ [][Next]_vars

\* The loop's thread runs, and finishes the set-up.
LiveSpec == Spec /\ WF_vars(LoopStep) /\ WF_vars(SetupStep)

-----------------------------------------------------------------------------
(* Properties.                                                             *)

Panicked == pc = "panicked"

\* Every variable keeps its type; what is buffered or sent was given to send.
TypeOK ==
    /\ {readEnabled, writeEnabled, readTriggered, writeTriggered, closed, edge} \subseteq BOOLEAN
    /\ accepted \in 0..MaxBytes
    /\ waiting \in Seq(1..accepted) /\ sending \in Seq(1..accepted) /\ wire \in Seq(1..accepted)
    /\ rx \in 0..peerSent /\ peerSent \in 0..MaxRx
    /\ space \in 0..SndBuf
    /\ status \subseteq {"eof", "reset", "rshut", "wshut"}
    /\ registered \in {"yes", "no", "oneshot"}
    /\ batch \subseteq {"readable", "writable", "error", "hup"}
    /\ pc \in {"idle", "read", "write", "close", "panicked"}
    /\ setup \in {"writJob", "closeJob", "deregister", "enable", "register", "done"}
    /\ told \in Nat

\* Edges are used up: when the loop is past reading and has no readable event
\* in hand, input or an end of stream that nobody has read is on the ready
\* list again (handle_read reads until the socket would block).
NoStuckInput ==
    registered = "yes" /\ Readable /\ pc # "read" /\ ~("readable" \in batch /\ pc = "idle")
        => edge

\* The peer receives the bytes in the order in which they were given to send,
\* none of them twice, whatever short writes and events did in between.
InOrder == \A i, j \in DOMAIN wire : i < j => wire[i] < wire[j]

\* The variables keep their types, what is buffered or sent was given to send,
\* and it arrives in order.
BytesInOrder == TypeOK /\ InOrder

\* Once the connection is set up, a close by end of stream, error, hang-up,
\* write error or on_written happens once: the session is told once, the
\* unwrap of close_stream does not panic, and nothing can be sent any more.
ClosesOnce ==
    setup = "done" =>
        /\ ~Panicked
        /\ told = IF closed THEN 1 ELSE 0
        /\ closed => ~writeEnabled /\ registered = "no"

\* When the peer closes or resets, the session is told, unless a close during
\* the set-up has panicked.
PeerCloseNoticed ==
    status \cap {"eof", "reset"} # {} ~> closed \/ Panicked

\* Between two calls on an open connection, every byte send has answered Ok
\* for has been sent or is in a buffer (connection.rs keeps two of them).
NoByteLost ==
    Free /\ ~closed =>
        \A b \in 1..accepted :
            \E s \in {wire, waiting, sending} : \E i \in DOMAIN s : s[i] = b

=============================================================================
