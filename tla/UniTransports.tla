--------------------------- MODULE UniTransports ---------------------------
(***************************************************************************)
(* The HTTP handlers of the unidirectional transports (SSE and HTTP stream,*)
(* which differ in how they parse the request, gRPC) and of WebTransport:  *)
(* the handler goroutine, the client's writer goroutine that calls         *)
(* WriteMany, and whoever disconnects the client.  They meet in the        *)
(* transport's mutex and in unbuffered channels.                           *)
(*                                                                         *)
(* External: centrifuge closes a client once, its first closer calls       *)
(* transport.Close; the request context ends when the peer goes away.      *)
(***************************************************************************)
EXTENDS Naturals, Sequences, FiniteSets

CONSTANTS
    UniKinds,   \* "sse", "grpc", "webtransport" or some of them
    MaxWrites   \* bound: WriteMany calls

VARIABLES
    ukind,
    uh,        \* handler: [pc, defers]: defers still to run, in order
    uw,        \* writer: "idle" "lock" "send" "ack" "stopped"
    uc,        \* the other closer: "off" "lock" "wait" "done"
    umu,       \* transport.mu: holder, as a set
    tclosed,   \* transport.closed
    discCh,    \* disconnectCh (closeCh of gRPC and WebTransport) is closed
    closedCh,  \* closedCh is closed
    reqEnded,  \* the request context has ended
    clientClosed, \* the client has its closer
    uniWrites     \* WriteMany calls so far

uni == <<ukind, uh, uw, uc, umu, tclosed, discCh, closedCh, reqEnded, clientClosed, uniWrites>>

SSE == ukind = "sse"
HandlerAt(pc) == uh' = [uh EXCEPT !.pc = pc]

UniInit ==
    /\ ukind \in UniKinds /\ uh = [pc |-> "off", defers |-> <<>>] /\ uw = "idle" /\ uc = "off"
    /\ umu = {} /\ tclosed = FALSE /\ discCh = FALSE /\ closedCh = FALSE /\ reqEnded = FALSE
    /\ clientClosed = FALSE /\ uniWrites = 0

DeferOrderMutant == <<"closeFn", "closedCh">>
\* Deferred calls run last in, first out.
DeferOrder == IF SSE THEN <<"closedCh", "closeFn">> ELSE <<"closeFn">>

\* ServeHTTP, Consume: a request that does not parse is answered at once.
ServeRequest ==
    /\ uh.pc = "off"
    /\ uh' \in {[pc |-> "ended", defers |-> <<>>], [pc |-> "connect", defers |-> DeferOrder]}
    /\ UNCHANGED <<ukind, uw, uc, umu, tclosed, discCh, closedCh, reqEnded, clientClosed, uniWrites>>

\* Connect and the first bytes of the response; a connect error that becomes
\* a status code, and a failed write, return.
ConnectClient ==
    /\ uh.pc = "connect" /\ \E pc \in {"loop", "return"} : HandlerAt(pc)
    /\ UNCHANGED <<ukind, uw, uc, umu, tclosed, discCh, closedCh, reqEnded, clientClosed, uniWrites>>

RequestEnds ==
    /\ uh.pc \notin {"off", "ended"} /\ ~reqEnded /\ reqEnded' = TRUE
    /\ UNCHANGED <<ukind, uh, uw, uc, umu, tclosed, discCh, closedCh, clientClosed, uniWrites>>

\* The select of the loop; WebTransport decodes commands until an error.
LoopEnds ==
    /\ uh.pc = "loop" /\ (reqEnded \/ discCh) /\ HandlerAt("return")
    /\ UNCHANGED <<ukind, uw, uc, umu, tclosed, discCh, closedCh, reqEnded, clientClosed, uniWrites>>
CommandRefused ==
    /\ uh.pc = "loop" /\ ukind = "webtransport" /\ HandlerAt("return")
    /\ UNCHANGED <<ukind, uw, uc, umu, tclosed, discCh, closedCh, reqEnded, clientClosed, uniWrites>>

\* The batch is handed over, written to the response, acknowledged; after a
\* failed write the handler acknowledges and returns.
TakeMessages ==
    /\ SSE /\ uh.pc = "loop" /\ uw = "send" /\ HandlerAt("writing") /\ uw' = "ack"
    /\ UNCHANGED <<ukind, uc, umu, tclosed, discCh, closedCh, reqEnded, clientClosed, uniWrites>>
WriteResponse ==
    /\ uh.pc = "writing" /\ \E pc \in {"ackLoop", "ackReturn"} : HandlerAt(pc)
    /\ UNCHANGED <<ukind, uw, uc, umu, tclosed, discCh, closedCh, reqEnded, clientClosed, uniWrites>>
AfterAck == IF uh.pc = "ackLoop" THEN "loop" ELSE "return"
SendAck ==
    /\ uh.pc \in {"ackLoop", "ackReturn"} /\ uw = "ack"
    /\ HandlerAt(AfterAck) /\ uw' = "idle" /\ umu' = umu \ {"writer"}
    /\ UNCHANGED <<ukind, uc, tclosed, discCh, closedCh, reqEnded, clientClosed, uniWrites>>
GiveUpAck ==
    /\ uh.pc \in {"ackLoop", "ackReturn"} /\ reqEnded /\ HandlerAt(AfterAck)
    /\ UNCHANGED <<ukind, uw, uc, umu, tclosed, discCh, closedCh, reqEnded, clientClosed, uniWrites>>

-----------------------------------------------------------------------------
(* WriteMany                                                               *)

BeginWrite ==
    /\ uh.pc \notin {"off", "ended"} /\ uw = "idle" /\ ~clientClosed /\ uniWrites < MaxWrites
    /\ uniWrites' = uniWrites + 1 /\ uw' = "lock"
    /\ UNCHANGED <<ukind, uh, uc, umu, tclosed, discCh, closedCh, reqEnded, clientClosed>>

\* gRPC only looks at closed, which its Close never sets, and sends on the
\* stream; WebTransport looks at closeCh.
WriteLock ==
    /\ uw = "lock" /\ umu = {}
    /\ IF SSE /\ ~tclosed THEN uw' = "send" /\ umu' = {"writer"} ELSE uw' = "idle" /\ UNCHANGED umu
    /\ UNCHANGED <<ukind, uh, uc, tclosed, discCh, closedCh, reqEnded, clientClosed, uniWrites>>

\* closedCh ends both waits.
WriteAbandoned ==
    /\ uw \in {"send", "ack"} /\ closedCh /\ uw' = "idle" /\ umu' = umu \ {"writer"}
    /\ UNCHANGED <<ukind, uh, uc, tclosed, discCh, closedCh, reqEnded, clientClosed, uniWrites>>

-----------------------------------------------------------------------------
(* Close                                                                   *)

\* A disconnect by the server, once the client exists.
DisconnectClient ==
    /\ uh.pc \notin {"off", "ended"} /\ uc = "off" /\ ~clientClosed
    /\ clientClosed' = TRUE /\ uc' = "lock"
    /\ UNCHANGED <<ukind, uh, uw, umu, tclosed, discCh, closedCh, reqEnded, uniWrites>>

\* transport.Close: under the mutex the channel is closed; SSE and HTTP
\* stream then wait for the handler with the mutex held.
CloseLock ==
    /\ uc = "lock" /\ umu = {} /\ discCh' = TRUE
    /\ IF SSE THEN uc' = "wait" /\ umu' = {"closer"} /\ tclosed' = TRUE
       ELSE uc' = "done" /\ UNCHANGED umu /\ tclosed' = (ukind = "webtransport")
    /\ UNCHANGED <<ukind, uh, uw, closedCh, reqEnded, clientClosed, uniWrites>>
CloseWaited ==
    /\ uc = "wait" /\ closedCh /\ uc' = "done" /\ umu' = {}
    /\ UNCHANGED <<ukind, uh, uw, tclosed, discCh, closedCh, reqEnded, clientClosed, uniWrites>>

-----------------------------------------------------------------------------
(* The deferred calls                                                      *)

RunDefer(d) == uh.pc = "return" /\ uh.defers # <<>> /\ Head(uh.defers) = d
Deferred == uh' = [uh EXCEPT !.defers = Tail(@)]

DeferClosedCh ==
    /\ RunDefer("closedCh") /\ closedCh' = TRUE /\ Deferred
    /\ UNCHANGED <<ukind, uw, uc, umu, tclosed, discCh, reqEnded, clientClosed, uniWrites>>

\* closeFn: nothing to do when somebody else closes the client; else
\* transport.Close in this goroutine, which needs the mutex and closedCh.
DeferCloseFn ==
    /\ RunDefer("closeFn") /\ (clientClosed \/ (umu = {} /\ (SSE => closedCh)))
    /\ Deferred /\ clientClosed' = TRUE
    /\ IF clientClosed THEN UNCHANGED <<tclosed, discCh>> ELSE tclosed' = (ukind # "grpc") /\ discCh' = TRUE
    /\ UNCHANGED <<ukind, uw, uc, umu, closedCh, reqEnded, uniWrites>>
HandlerReturns ==
    /\ uh.pc = "return" /\ uh.defers = <<>> /\ HandlerAt("ended")
    /\ UNCHANGED <<ukind, uw, uc, umu, tclosed, discCh, closedCh, reqEnded, clientClosed, uniWrites>>

UniNext ==
    \/ ServeRequest \/ ConnectClient \/ RequestEnds \/ LoopEnds \/ CommandRefused
    \/ TakeMessages \/ WriteResponse \/ SendAck \/ GiveUpAck
    \/ BeginWrite \/ WriteLock \/ WriteAbandoned
    \/ DisconnectClient \/ CloseLock \/ CloseWaited
    \/ DeferClosedCh \/ DeferCloseFn \/ HandlerReturns

\* Each goroutine goes on when it can, and a mutex that is free is granted.
UniFairness ==
    /\ WF_uni(\/ ConnectClient \/ LoopEnds \/ WriteResponse \/ SendAck
                     \/ GiveUpAck \/ DeferClosedCh \/ HandlerReturns)
    /\ WF_uni(DeferCloseFn) /\ WF_uni(WriteLock) /\ WF_uni(CloseLock)
    /\ WF_uni(TakeMessages) /\ WF_uni(WriteAbandoned) /\ WF_uni(CloseWaited)

UniSpec == UniInit /\ [][UniNext]_uni /\ UniFairness

-----------------------------------------------------------------------------
(* Properties                                                              *)

\* Once the peer has gone or somebody disconnects the client, the handler
\* returns and neither the writer nor the closer is left waiting, whichever
\* of them holds the mutex.
WindsDown == []<>(reqEnded \/ clientClosed => uh.pc = "ended" /\ uw = "idle" /\ uc \in {"off", "done"})

\* Messages are written to the response only while WriteMany has not
\* returned: the client reuses their buffers afterwards.
NoWriteAfterReturn == uh.pc = "writing" => uw = "ack"

\* The handler, the writer and the closer of a stream end together.
UniWorks == []NoWriteAfterReturn /\ WindsDown
=============================================================================
