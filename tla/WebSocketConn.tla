--------------------------- MODULE WebSocketConn ---------------------------
(***************************************************************************)
(* A server-side WebSocket connection (internal/websocket): the handshake, *)
(* the writers that share the connection through its mutex and its sticky  *)
(* write error, and the reader, which also answers control frames.  Used   *)
(* by UniWebSocket.                                                        *)
(*                                                                         *)
(* A frame is [op, fin, long]: long means a payload above 16 bytes.        *)
(* External: the peer, TCP, and HTTP/2 streams of net/http, where a write  *)
(* deadline that passes resets the stream even when nobody is writing.     *)
(***************************************************************************)
EXTENDS Naturals, Sequences, FiniteSets

CONSTANTS
    Handshakes,   \* upgrade requests, see UpgradeStatus; script: the frames the peer sends
    MaxWSFaults   \* bound: failed writes, silent peers

ASSUME HandshakesAssumption ==
    \A r \in Handshakes : r.script \in Seq([op : STRING, fin : BOOLEAN, long : BOOLEAN])

VARIABLES
    ws,       \* [pc, major, compress]; pc: "off" "open" "refused" "closed"
    inq,      \* frames the peer has sent or will send, not yet read
    peer,     \* [script, gone]: all its frames, whether it has vanished
    rd,       \* reader: [final, err, got]
    jobs,     \* jobs[a]: [pc, frames] what goroutine a is writing
    writeErr, \* "none", "closeSent", "failed"
    wire,     \* as the peer reads it: [open, over, ok] inside a message, closed or cut, well-formed
    deadline, \* a write deadline is left on an HTTP/2 stream
    wsfaults,
    cutOff    \* ghost: why a correct peer was cut off

wsconn == <<ws, inq, peer, rd, jobs, writeErr, wire, deadline, wsfaults, cutOff>>

Actors == {"writer", "reader", "pinger", "closer"}
Control == {"ping", "pong", "close"}
NoJob == [pc |-> "idle", frames |-> <<>>]
Frame(op) == [op |-> op, fin |-> TRUE, long |-> FALSE]
WSFault == wsfaults < MaxWSFaults /\ wsfaults' = wsfaults + 1
H2 == ws.major = 2

ConnInit ==
    /\ ws = [pc |-> "off", major |-> 1, compress |-> FALSE]
    /\ inq = <<>> /\ peer = [script |-> <<>>, gone |-> FALSE]
    /\ rd = [final |-> TRUE, err |-> "none", got |-> 0] /\ jobs = [a \in Actors |-> NoJob]
    /\ writeErr = "none" /\ wire = [open |-> FALSE, over |-> FALSE, ok |-> TRUE] /\ deadline = FALSE /\ wsfaults = 0 /\ cutOff = {}

-----------------------------------------------------------------------------
(* Upgrade                                                                 *)

\* The checks in their order: headers of the protocol version, method,
\* version 13, key (HTTP/1.1), origin; bytes before the handshake is
\* complete close the connection without an answer (status 0).
UpgradeStatus(r) ==
    IF r.major = 1 /\ ~r.upgrade THEN 400
    ELSE IF r.major = 2 /\ ~r.upgrade THEN 400
    ELSE IF r.major \notin {1, 2} THEN 400
    ELSE IF ~r.method THEN 405
    ELSE IF ~r.version THEN 400
    ELSE IF r.major = 1 /\ ~r.key THEN 400
    ELSE IF ~r.origin THEN 403
    ELSE IF r.major = 1 /\ r.early THEN 0
    ELSE IF r.major = 1 THEN 101 ELSE 200

Upgrade(r) ==
    /\ ws.pc = "off"
    /\ ws' = [pc |-> IF UpgradeStatus(r) \in {101, 200} THEN "open" ELSE "refused", major |-> r.major, compress |-> r.deflate]
    /\ inq' = r.script /\ peer' = [peer EXCEPT !.script = r.script]
    /\ UNCHANGED <<rd, jobs, writeErr, wire, deadline, wsfaults, cutOff>>

-----------------------------------------------------------------------------
(* Writing: WriteControl, WriteMessage, WritePreparedMessage               *)

\* A message goes out as one frame (server without compression) or as the
\* frames the compressor fills the buffer with.
MessageFrames == IF ws.compress THEN <<[op |-> "text", fin |-> FALSE, long |-> TRUE], [op |-> "cont", fin |-> TRUE, long |-> TRUE]>>
                 ELSE <<[op |-> "text", fin |-> TRUE, long |-> TRUE]>>
Begin(a, frames) == jobs' = [jobs EXCEPT ![a] = [pc |-> "wait", frames |-> frames]]
Idle(a) == jobs[a] = NoJob
ReaderEnded(a, result) == jobs[a].pc = result
AfterFrame(a) == IF Len(jobs[a].frames) > 1 THEN [pc |-> "wait", frames |-> Tail(jobs[a].frames)] ELSE [pc |-> "ok", frames |-> <<>>]

\* What the peer has to make of the next frame.
OnWire(f) ==
    [open |-> IF f.op \in Control THEN wire.open ELSE ~f.fin, over |-> f.op = "close",
     ok |-> wire.ok /\ ~wire.over /\ (f.op = "text" => ~wire.open) /\ (f.op = "cont" => wire.open)]

WriteFrameMutant(a) ==
    LET f == Head(jobs[a].frames)
    IN  /\ jobs[a].pc = "wait" /\ ws.pc = "open" /\ wire' = OnWire(f) /\ deadline' = (H2 /\ f.op \in Control)
        /\ writeErr' = IF f.op = "close" THEN "closeSent" ELSE writeErr
        /\ jobs' = [jobs EXCEPT ![a] = AfterFrame(a)]
        /\ UNCHANGED <<ws, inq, peer, rd, wsfaults, cutOff>>

\* One frame, under the mutex: the sticky error first; a close frame is the
\* last one.  Control writes leave their deadline on the connection, a data
\* write clears it (writeData of UniWebSocket).
WriteFrame(a) ==
    LET f == Head(jobs[a].frames)
    IN  /\ jobs[a].pc = "wait"
        /\ IF writeErr # "none" THEN jobs' = [jobs EXCEPT ![a].pc = writeErr] /\ UNCHANGED <<writeErr, wire, deadline>>
           ELSE IF ws.pc = "closed" THEN jobs' = [jobs EXCEPT ![a].pc = "failed"] /\ writeErr' = "failed" /\ UNCHANGED <<wire, deadline>>
           ELSE /\ wire' = OnWire(f) /\ deadline' = (H2 /\ f.op \in Control)
                /\ writeErr' = IF f.op = "close" THEN "closeSent" ELSE writeErr
                /\ jobs' = [jobs EXCEPT ![a] = AfterFrame(a)]
        /\ UNCHANGED <<ws, inq, peer, rd, wsfaults, cutOff>>

\* The deadline passes while the peer does not read: part of the frame may
\* be out, the error sticks.
WriteFails(a) ==
    /\ jobs[a].pc = "wait" /\ writeErr = "none" /\ ws.pc = "open" /\ WSFault
    /\ writeErr' = "failed" /\ jobs' = [jobs EXCEPT ![a].pc = "failed"] /\ wire' = [wire EXCEPT !.over = TRUE, !.ok = @ /\ ~wire.over]
    /\ UNCHANGED <<ws, inq, peer, rd, deadline, cutOff>>

\* WriteControl waits for the mutex with its own timeout, which is not fatal.
ControlTimesOut(a) ==
    /\ jobs[a].pc = "wait" /\ Head(jobs[a].frames).op \in Control
    /\ WSFault /\ jobs' = [jobs EXCEPT ![a].pc = "timeout"]
    /\ UNCHANGED <<ws, inq, peer, rd, writeErr, wire, deadline, cutOff>>

-----------------------------------------------------------------------------
(* The peer                                                                *)

\* What the protocol asks of it: control frames are not fragmented, and
\* fragments of a message follow each other.
Inside(s, i) == \* a message has begun and not ended before frame i
    \E j \in 1..(i - 1) : /\ s[j].op \notin Control /\ ~s[j].fin
                          /\ \A k \in (j + 1)..(i - 1) : s[k].op \in Control
Correct(s) ==
    \A i \in DOMAIN s : IF s[i].op \in Control THEN s[i].fin
                        ELSE s[i].op = IF Inside(s, i) THEN "cont" ELSE "text"
Whole(s) == Cardinality({i \in DOMAIN s : s[i].op \notin Control /\ s[i].fin})

\* The peer vanishes: no more frames, and reads run into their deadline.
PeerGone ==
    /\ ws.pc = "open" /\ ~peer.gone /\ WSFault /\ peer' = [peer EXCEPT !.gone = TRUE]
    /\ UNCHANGED <<ws, inq, rd, jobs, writeErr, wire, deadline, cutOff>>

-----------------------------------------------------------------------------
(* Reading: NextReader, advanceFrame                                       *)

CanRead == rd.err = "none" /\ Idle("reader")

\* The frame header against the message that is being read.
ProtocolError(f) ==
    CASE f.op \in Control -> ~f.fin
      [] f.op = "text"    -> ~rd.final
      [] f.op = "cont"    -> rd.final
      [] OTHER            -> TRUE

\* Control payloads are peeked from the read buffer: the one made for an
\* HTTP/2 stream holds 16 bytes.
TooLong(f) == H2 /\ f.op \in Control /\ f.long

\* readFinal: only data frames change it.
NextFinal(f) == IF f.op \in Control THEN rd.final ELSE f.fin

\* Ping: a pong; close: a close; an error of the protocol: a close.
ReadFrame ==
    LET f == Head(inq)
    IN  /\ CanRead /\ ws.pc = "open" /\ inq # <<>> /\ inq' = Tail(inq)
        /\ IF ProtocolError(f) THEN rd' = [rd EXCEPT !.err = "protocol"] /\ Begin("reader", <<Frame("close")>>) /\ UNCHANGED cutOff
           ELSE IF TooLong(f) THEN rd' = [rd EXCEPT !.err = "bufferFull"] /\ cutOff' = cutOff \cup {"buffer"} /\ UNCHANGED jobs
           ELSE /\ rd' = [rd EXCEPT !.final = NextFinal(f), !.err = IF f.op = "close" THEN "close" ELSE @,
                                    !.got = IF f.op \in {"text", "cont"} /\ f.fin THEN @ + 1 ELSE @]
                /\ IF f.op = "ping" THEN Begin("reader", <<Frame("pong")>>)
                   ELSE IF f.op = "close" THEN Begin("reader", <<Frame("close")>>) ELSE UNCHANGED jobs
                /\ UNCHANGED cutOff
        /\ UNCHANGED <<ws, peer, writeErr, wire, deadline, wsfaults>>

\* The reply is out or not: only a pong that could not be written, other
\* than by a timeout or after a close, ends reading.
ReplyDone ==
    /\ jobs["reader"].pc \in {"ok", "closeSent", "failed", "timeout"}
    /\ jobs' = [jobs EXCEPT !["reader"] = NoJob]
    /\ rd' = [rd EXCEPT !.err = IF @ = "none" /\ ReaderEnded("reader", "failed") THEN "io" ELSE @]
    /\ UNCHANGED <<ws, inq, peer, writeErr, wire, deadline, wsfaults, cutOff>>

\* End of file after Close or when the peer is gone (read deadline).
ReadFails ==
    /\ CanRead /\ (ws.pc = "closed" \/ (peer.gone /\ inq = <<>>)) /\ rd' = [rd EXCEPT !.err = "io"]
    /\ UNCHANGED <<ws, inq, peer, jobs, writeErr, wire, deadline, wsfaults, cutOff>>

\* An HTTP/2 stream whose write deadline passes is reset.
DeadlineResets ==
    /\ H2 /\ ws.pc = "open" /\ deadline
    /\ ws' = [ws EXCEPT !.pc = "closed"] /\ deadline' = FALSE
    /\ cutOff' = IF peer.gone \/ ~Correct(peer.script) \/ writeErr # "none" THEN cutOff ELSE cutOff \cup {"deadline"}
    /\ UNCHANGED <<inq, peer, rd, jobs, writeErr, wire, wsfaults>>

ReaderStep == ReadFrame \/ ReplyDone \/ ReadFails

-----------------------------------------------------------------------------
(* Properties                                                              *)

\* What the peer finds on the wire, whoever wrote it: nothing follows a
\* close frame or a frame that was cut short, and no other message starts
\* inside a fragmented one; control frames may come between its fragments.
WireWellFormed == wire.ok

\* The application gets the messages the peer has finished, through control
\* frames between their fragments, and only a peer that broke the protocol
\* is told so.
ReadsWhatWasSent ==
    /\ rd.got <= Whole(peer.script)
    /\ rd.err = "protocol" => ~Correct(peer.script)
    /\ (rd.err = "none" /\ inq = <<>>) => Correct(peer.script) /\ rd.got = Whole(peer.script)

\* Both directions of a connection keep to RFC 6455.
FramesRight == WireWellFormed /\ ReadsWhatWasSent

\* A peer that follows the protocol and reads what it is sent is not cut
\* off.  The implementation lists "Support WebSocket over HTTP/2", so the
\* stream has to outlast the handler's return; "expired deadlines cannot be
\* extended and will cause the stream to fail permanently", so none may be
\* left behind on an HTTP/2 stream; and the read buffer "must be large enough
\* for control frame".
CorrectPeerStays == cutOff = {}
=============================================================================
