---------------------------- MODULE UniWebSocket ----------------------------
(***************************************************************************)
(* The unidirectional WebSocket transport (internal/uniws): the goroutine  *)
(* ServeHTTP starts, which reads from the connection and closes the client *)
(* at its end; the ping timer; the client's writer; and Close, called by   *)
(* whichever of them, or the server, is first.                             *)
(*                                                                         *)
(* External: centrifuge (one closer per client, a failed write closes the  *)
(* client, creating a client does not fail) and net/http, which ends an    *)
(* HTTP/2 stream when the handler it was made for returns.                 *)
(***************************************************************************)
EXTENDS WebSocketConn

CONSTANTS
    ServeOptions, \* [request, noHandshake]: request in the URL "none" "ok" "bad"; disable_closing_handshake
    MaxPings,     \* bound: timer periods
    MaxPushes     \* bound: WriteMany calls

VARIABLES
    opt,          \* the ServeOptions member of this connection
    hd,           \* handler: "off" "start" "first" "badRequest" "read" "wait" "closeFn" "closing" "ended"
    served,       \* ServeHTTP has returned
    timer,        \* "off" "armed" "fired"
    closed,       \* websocketTransport.closed, closeCh
    closing,      \* [by, pc] the call of Close that found it open
    graceCh,      \* closed by waitClose
    userGone,     \* the client has its closer
    pings, pushes

handler == <<opt, hd, served, timer, closed, closing, graceCh, userGone, pings, pushes>>
uniws == <<wsconn, handler>>

UniWSInit ==
    /\ ConnInit /\ opt \in ServeOptions /\ hd = "off" /\ served = FALSE /\ timer = "off" /\ closed = FALSE
    /\ closing = [by |-> "closer", pc |-> "off"] /\ graceCh = FALSE /\ userGone = FALSE /\ pings = 0 /\ pushes = 0

Result(a) == jobs[a].pc \in {"ok", "closeSent", "failed", "timeout"}
Reset(a) == jobs' = [jobs EXCEPT ![a] = NoJob]

-----------------------------------------------------------------------------
(* Close                                                                   *)

\* The first call stops the timer and closes closeCh; a close frame is sent
\* unless the handshake is disabled or the connection is gone already.  J
\* are the jobs of the goroutine that calls.
CloseBegins(by, code, J) ==
    LET frame == ~opt.noHandshake /\ code # "connectionClosed"
    IN  IF closed THEN jobs' = J /\ UNCHANGED <<ws, closed, timer, closing>>
        ELSE /\ closed' = TRUE /\ timer' = IF timer = "armed" \/ by = "pinger" THEN "off" ELSE timer
             /\ closing' = [by |-> by, pc |-> IF frame THEN "sent" ELSE "done"]
             /\ jobs' = IF frame THEN [J EXCEPT ![by] = [pc |-> "wait", frames |-> <<Frame("close")>>]] ELSE J
             /\ ws' = IF frame THEN ws ELSE [ws EXCEPT !.pc = "closed"]
CloseAt(pc) == closing' = [closing EXCEPT !.pc = pc]
ConnClose == ws' = [ws EXCEPT !.pc = "closed"] /\ CloseAt("done")

CloseFrameSentMutant ==
    /\ closing.pc = "sent" /\ Result(closing.by) /\ Reset(closing.by)
    /\ CloseAt(IF ReaderEnded(closing.by, "ok") THEN "grace" ELSE "done")
    /\ UNCHANGED <<ws, inq, peer, rd, writeErr, wire, deadline, wsfaults, cutOff>>
    /\ UNCHANGED <<opt, hd, served, timer, closed, graceCh, userGone, pings, pushes>>
\* A close frame that could not be sent is not waited for.
CloseFrameSent ==
    /\ closing.pc = "sent" /\ Result(closing.by) /\ Reset(closing.by)
    /\ IF ReaderEnded(closing.by, "ok") THEN CloseAt("grace") /\ UNCHANGED ws ELSE ConnClose
    /\ UNCHANGED <<inq, peer, rd, writeErr, wire, deadline, wsfaults, cutOff>>
    /\ UNCHANGED <<opt, hd, served, timer, closed, graceCh, userGone, pings, pushes>>

\* graceCh, or closeFrameWait: nobody closes graceCh after a bad request
\* whose close frame failed, nor when the node is shutting down.
GraceEnds ==
    /\ closing.pc = "grace" /\ ConnClose
    /\ UNCHANGED <<inq, peer, rd, jobs, writeErr, wire, deadline, wsfaults, cutOff>>
    /\ UNCHANGED <<opt, hd, served, timer, closed, graceCh, userGone, pings, pushes>>

-----------------------------------------------------------------------------
(* ServeHTTP and its goroutine                                             *)

Serve(r) ==
    /\ hd = "off"
    /\ IF opt.request = "bad" THEN hd' = "ended" /\ served' = TRUE /\ UNCHANGED wsconn
       ELSE Upgrade(r) /\ hd' = (IF ws'.pc = "open" THEN "start" ELSE "ended") /\ served' = (hd' = "ended" \/ r.major = 1)
    /\ UNCHANGED <<opt, timer, closed, closing, graceCh, userGone, pings, pushes>>

\* ServeHTTP returns at once; net/http ends an HTTP/2 stream then.
ServeReturns ==
    /\ ~served /\ hd # "off" /\ served' = TRUE
    /\ IF H2 /\ ws.pc = "open"
       THEN ws' = [ws EXCEPT !.pc = "closed"] /\ cutOff' = (IF peer.gone \/ ~Correct(peer.script) \/ closed THEN cutOff ELSE cutOff \cup {"returned"})
       ELSE UNCHANGED <<ws, cutOff>>
    /\ UNCHANGED <<inq, peer, rd, jobs, writeErr, wire, deadline, wsfaults>>
    /\ UNCHANGED <<opt, hd, timer, closed, closing, graceCh, userGone, pings, pushes>>

\* newWebsocketTransport arms the timer; a node that shuts down closes.
StartTransport ==
    /\ hd = "start"
    /\ \/ hd' = (IF opt.request = "ok" THEN "read" ELSE "first") /\ timer' = "armed" /\ UNCHANGED <<ws, jobs, closed, closing, userGone>>
       \/ hd' = "closing" /\ userGone' = TRUE /\ CloseBegins("reader", "shutdown", jobs)
    /\ UNCHANGED <<inq, peer, rd, writeErr, wire, deadline, wsfaults, cutOff>>
    /\ UNCHANGED <<opt, served, graceCh, pings, pushes>>

Reads == hd \in {"read", "wait"} \/ (hd = "first" /\ rd.got = 0)
ReadNext == Reads /\ ReaderStep /\ UNCHANGED handler

\* The pong timeout once nobody pings any more, or closeFrameWait.
ReadDeadline ==
    /\ Reads /\ CanRead /\ (closed \/ hd = "wait") /\ rd' = [rd EXCEPT !.err = "io"]
    /\ UNCHANGED <<ws, inq, peer, jobs, writeErr, wire, deadline, wsfaults, cutOff>> /\ UNCHANGED handler

\* The connect request of the first message; a bad one is answered with a
\* close frame.
FirstRequest ==
    /\ hd = "first" /\ rd.got > 0 /\ rd.err = "none" /\ Idle("reader")
    /\ \/ hd' = "read" /\ UNCHANGED wsconn
       \/ opt.noHandshake /\ hd' = "wait" /\ UNCHANGED wsconn
       \/ ~opt.noHandshake /\ hd' = "badRequest" /\ Begin("reader", <<Frame("close")>>)
          /\ UNCHANGED <<ws, inq, peer, rd, writeErr, wire, deadline, wsfaults, cutOff>>
    /\ UNCHANGED <<opt, served, timer, closed, closing, graceCh, userGone, pings, pushes>>
BadRequestSent ==
    /\ hd = "badRequest" /\ Result("reader") /\ Reset("reader") /\ hd' = IF ReaderEnded("reader", "ok") THEN "wait" ELSE "closeFn"
    /\ UNCHANGED <<ws, inq, peer, rd, writeErr, wire, deadline, wsfaults, cutOff>>
    /\ UNCHANGED <<opt, served, timer, closed, closing, graceCh, userGone, pings, pushes>>
ReadLoopEnds ==
    /\ hd \in {"first", "read"} /\ rd.err # "none" /\ Idle("reader") /\ hd' = "wait"
    /\ UNCHANGED wsconn /\ UNCHANGED <<opt, served, timer, closed, closing, graceCh, userGone, pings, pushes>>

\* waitClose: without a handshake at once, else after the next read error.
WaitClose ==
    /\ hd = "wait" /\ (opt.noHandshake \/ (rd.err # "none" /\ Idle("reader"))) /\ graceCh' = TRUE /\ hd' = "closeFn"
    /\ UNCHANGED wsconn /\ UNCHANGED <<opt, served, timer, closed, closing, userGone, pings, pushes>>

CloseFn ==
    /\ hd = "closeFn" /\ hd' = "ended" /\ userGone' = TRUE
    /\ IF userGone THEN UNCHANGED <<ws, jobs, closed, timer, closing>> ELSE CloseBegins("reader", "connectionClosed", jobs)
    /\ UNCHANGED <<inq, peer, rd, writeErr, wire, deadline, wsfaults, cutOff>>
    /\ UNCHANGED <<opt, served, graceCh, pings, pushes>>
HandlerEnds ==
    /\ hd = "closing" /\ closing.pc = "done" /\ hd' = "ended"
    /\ UNCHANGED wsconn /\ UNCHANGED <<opt, served, timer, closed, closing, graceCh, userGone, pings, pushes>>

-----------------------------------------------------------------------------
(* The ping timer, the client's writer, a disconnect by the server         *)

\* ping: nothing once closeCh is closed; a ping that cannot be written
\* closes, else addPing, unless closed in between.
PingFires ==
    /\ timer = "armed" /\ pings < MaxPings /\ pings' = pings + 1 /\ timer' = "fired" /\ Begin("pinger", <<Frame("ping")>>)
    /\ UNCHANGED <<ws, inq, peer, rd, writeErr, wire, deadline, wsfaults, cutOff>>
    /\ UNCHANGED <<opt, hd, served, closed, closing, graceCh, userGone, pushes>>
PingDone ==
    /\ timer = "fired" /\ Result("pinger")
    /\ IF closed \/ ReaderEnded("pinger", "ok")
       THEN timer' = (IF closed THEN "off" ELSE "armed") /\ Reset("pinger") /\ UNCHANGED <<ws, closed, closing>>
       ELSE CloseBegins("pinger", "writeError", [jobs EXCEPT !["pinger"] = NoJob])
    /\ UNCHANGED <<inq, peer, rd, writeErr, wire, deadline, wsfaults, cutOff>>
    /\ UNCHANGED <<opt, hd, served, graceCh, userGone, pings, pushes>>

\* WriteMany after the client is made; a failed write disconnects it.
Push ==
    /\ hd \notin {"off", "start", "ended"} /\ ~closed /\ ~userGone /\ Idle("writer") /\ pushes < MaxPushes
    /\ pushes' = pushes + 1 /\ Begin("writer", MessageFrames)
    /\ UNCHANGED <<ws, inq, peer, rd, writeErr, wire, deadline, wsfaults, cutOff>>
    /\ UNCHANGED <<opt, hd, served, timer, closed, closing, graceCh, userGone, pings>>
PushDone ==
    /\ Result("writer")
    /\ IF ReaderEnded("writer", "ok") \/ userGone THEN Reset("writer") /\ UNCHANGED <<ws, closed, timer, closing, userGone>>
       ELSE userGone' = TRUE /\ CloseBegins("closer", "writeError", [jobs EXCEPT !["writer"] = NoJob])
    /\ UNCHANGED <<inq, peer, rd, writeErr, wire, deadline, wsfaults, cutOff>>
    /\ UNCHANGED <<opt, hd, served, graceCh, pings, pushes>>

ServerDisconnects ==
    /\ hd \notin {"off", "start", "ended"} /\ ~userGone /\ userGone' = TRUE /\ CloseBegins("closer", "server", jobs)
    /\ UNCHANGED <<inq, peer, rd, writeErr, wire, deadline, wsfaults, cutOff>>
    /\ UNCHANGED <<opt, hd, served, graceCh, pings, pushes>>

-----------------------------------------------------------------------------
Writes(a) == (WriteFrame(a) \/ WriteFails(a) \/ ControlTimesOut(a)) /\ UNCHANGED handler

UniWSNext ==
    \/ \E r \in Handshakes : Serve(r)
    \/ ServeReturns \/ StartTransport \/ ReadNext \/ ReadDeadline
    \/ FirstRequest \/ BadRequestSent \/ ReadLoopEnds \/ WaitClose \/ CloseFn \/ HandlerEnds
    \/ CloseFrameSent \/ GraceEnds
    \/ PingFires \/ PingDone \/ Push \/ PushDone \/ ServerDisconnects
    \/ \E a \in Actors : Writes(a)
    \/ PeerGone /\ UNCHANGED handler
    \/ DeadlineResets /\ UNCHANGED handler

UniWSSpec == UniWSInit /\ [][UniWSNext]_uniws

\* Goroutines run, timeouts and read deadlines pass; nothing is assumed of
\* the peer.
UniWSFairness ==
    /\ WF_uniws(ServeReturns) /\ WF_uniws(StartTransport)
    /\ WF_uniws(ReadNext) /\ WF_uniws(ReadDeadline)
    /\ WF_uniws((FirstRequest \/ BadRequestSent \/ ReadLoopEnds \/ WaitClose \/ CloseFn \/ HandlerEnds))
    /\ WF_uniws((CloseFrameSent \/ GraceEnds))
    /\ WF_uniws(PingDone) /\ WF_uniws(PushDone)
    /\ \A a \in Actors : WF_uniws(WriteFrame(a) /\ UNCHANGED handler)

-----------------------------------------------------------------------------
(* Properties                                                              *)

\* Whoever closes first, and whatever of the close frame, the peer's answer
\* and the timer is still under way: the connection is closed, the handler
\* returns and the ping timer is not armed again.
ClosesForGood ==
    []<>(closed \/ rd.err # "none" \/ (peer.gone /\ hd # "off")
            => ws.pc = "closed" /\ hd = "ended" /\ timer = "off")
=============================================================================
