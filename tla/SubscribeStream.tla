-------------------------- MODULE SubscribeStream --------------------------
(***************************************************************************)
(* Subscriptions fed by a GRPC stream of the backend                       *)
(* (internal/proxy/subscribe_stream_handler.go and the stream branches of  *)
(* internal/client/handler.go), for one client and one channel.  A client  *)
(* may subscribe, unsubscribe and subscribe again; every attempt opens a   *)
(* stream with a context of its own and, once the first message arrived, a *)
(* goroutine that reads it.  The goroutine of an older stream can be late. *)
(*                                                                         *)
(* The library (external) runs at most one subscribe command per channel,  *)
(* registers the subscription after the handler's reply, closes            *)
(* SubscriptionReady then, and calls OnUnsubscribe whenever a registered   *)
(* subscription ends.                                                      *)
(***************************************************************************)
EXTENDS Naturals, FiniteSets

CONSTANTS MaxStreams,   \* subscribe attempts
          MaxBuffered   \* publications of a stream not yet read

ASSUME StreamsAssumption == MaxStreams \in Nat

VARIABLES
    alive,       \* the client's context
    opened,      \* streams opened so far; a stream is its number
    attempt,     \* the stream of the subscribe command in progress, or 0
    registered,  \* the stream of the registered subscription, or 0
    stored,      \* whose cancel is in storage["stream_cancel_..."], or 0
    stream,      \* stream[i]: [ctx, backend, reader, ready, buffered]
    subscribed,  \* ghost: the streams that have had a registered subscription
    writes       \* ghost: <<stream written, registered, subscribed>> at the time

streams == <<alive, opened, attempt, registered, stored, stream, subscribed, writes>>

Ids == 1..MaxStreams
Unused == [ctx |-> FALSE, backend |-> "none", reader |-> "none", ready |-> FALSE, buffered |-> 0]

StreamInit ==
    /\ alive = TRUE /\ opened = 0 /\ attempt = 0 /\ registered = 0 /\ stored = 0
    /\ stream = [i \in Ids |-> Unused] /\ subscribed = {} /\ writes = {}

\* SubscribeStream up to the first Recv.  An error of the call itself is a
\* stream that never was.
OpenStream ==
    /\ alive /\ attempt = 0 /\ registered = 0 /\ opened < MaxStreams
    /\ opened' = opened + 1 /\ attempt' = opened'
    /\ stream' = [stream EXCEPT ![opened'] = [Unused EXCEPT !.ctx = TRUE, !.backend = "open"]]
    /\ UNCHANGED <<alive, registered, stored, subscribed, writes>>

\* The first message: the reader starts whatever it says.  A subscribe
\* response that accepts hands the cancel function to OnSubscribe, which
\* stores it; an error, a disconnect, a payload that does not decode or no
\* response at all returns without one, and the stream stays open.
FirstMessage(i, kind) ==
    /\ attempt = i /\ stream[i].reader = "none" /\ stream[i].backend = "open" /\ stream[i].ctx
    /\ stream' = [stream EXCEPT ![i].reader = "recv"]
    /\ stored' = IF kind = "accept" THEN i ELSE stored
    /\ attempt' = IF kind = "accept" THEN i ELSE 0
    /\ UNCHANGED <<alive, opened, registered, subscribed, writes>>

\* The first Recv fails: the backend ended the stream, the timer of the
\* first message cancelled the context, or the client is gone.
FirstMessageFails(i) ==
    /\ attempt = i /\ stream[i].reader = "none"
    /\ stream' = [stream EXCEPT ![i].ctx = FALSE, ![i].reader = "done"]
    /\ attempt' = 0
    /\ UNCHANGED <<alive, opened, registered, stored, subscribed, writes>>

\* External: the library registers the subscription of an accepted reply, or
\* drops it when the client is gone or a limit is reached.
Register(i) ==
    /\ attempt = i /\ stored = i /\ stream[i].reader # "none"
    /\ attempt' = 0
    /\ \/ /\ alive /\ registered' = i /\ stream' = [stream EXCEPT ![i].ready = TRUE]
          /\ subscribed' = subscribed \cup {i}
       \/ UNCHANGED <<registered, stream, subscribed>>
    /\ UNCHANGED <<alive, opened, stored, writes>>

\* External: the backend.
BackendSend(i) ==
    /\ stream[i].backend = "open" /\ stream[i].ctx /\ stream[i].buffered < MaxBuffered
    /\ stream[i].reader # "none"
    /\ stream' = [stream EXCEPT ![i].buffered = @ + 1]
    /\ UNCHANGED <<alive, opened, attempt, registered, stored, subscribed, writes>>

BackendEnd(i) ==
    /\ stream[i].backend = "open" /\ stream' = [stream EXCEPT ![i].backend = "ended"]
    /\ UNCHANGED <<alive, opened, attempt, registered, stored, subscribed, writes>>

-----------------------------------------------------------------------------
(* The reader goroutine                                                    *)

\* Recv: a message that is there, or an error once the stream ended or its
\* context is done (which may come before the messages left).
Recv(i) ==
    /\ stream[i].reader = "recv"
    /\ \/ /\ stream[i].buffered > 0
          /\ stream' = [stream EXCEPT ![i].buffered = @ - 1, ![i].reader = "publication"]
       \/ /\ ~stream[i].ctx \/ (stream[i].backend = "ended" /\ stream[i].buffered = 0)
          /\ stream' = [stream EXCEPT ![i].ctx = FALSE, ![i].reader = "error"]
    /\ UNCHANGED <<alive, opened, attempt, registered, stored, subscribed, writes>>

\* The end of a registered subscription and OnUnsubscribe: the stored cancel
\* is called and forgotten.
Ended(s) == IF stored = 0 THEN s ELSE [s EXCEPT ![stored].ctx = FALSE]

WaitsMutant(i) == FALSE

\* pubFunc first waits for the subscription or for the client's end.
Waits(i) == ~stream[i].ready /\ alive

\* pubFunc with a publication: written to the channel of a live client.
WritePublication(i) ==
    /\ stream[i].reader = "publication" /\ ~Waits(i)
    /\ stream' = [stream EXCEPT ![i].reader = "recv"]
    /\ writes' = IF alive THEN writes \cup {<<i, registered, subscribed>>} ELSE writes
    /\ UNCHANGED <<alive, opened, attempt, registered, stored, subscribed>>

\* pubFunc with an error: the channel is unsubscribed, whichever stream the
\* subscription has by now, and the goroutine ends.
ReaderError(i) ==
    /\ stream[i].reader = "error" /\ ~Waits(i)
    /\ LET done == [stream EXCEPT ![i].reader = "done"]
       IN  IF alive /\ registered # 0
           THEN registered' = 0 /\ stored' = 0 /\ stream' = Ended(done)
           ELSE stream' = done /\ UNCHANGED <<registered, stored>>
    /\ UNCHANGED <<alive, opened, attempt, subscribed, writes>>

-----------------------------------------------------------------------------
(* The client                                                              *)

OnUnsubscribeMutant ==
    /\ alive /\ registered # 0 /\ attempt = 0
    /\ registered' = 0 /\ stored' = 0
    /\ UNCHANGED <<alive, opened, attempt, stream, subscribed, writes>>

OnUnsubscribe ==
    /\ alive /\ registered # 0 /\ attempt = 0
    /\ registered' = 0 /\ stored' = 0 /\ stream' = Ended(stream)
    /\ UNCHANGED <<alive, opened, attempt, subscribed, writes>>

\* The connection closes: every stream's context is a child of the client's.
CloseClient ==
    /\ alive /\ alive' = FALSE
    /\ stream' = [i \in Ids |-> [stream[i] EXCEPT !.ctx = FALSE]]
    /\ registered' = 0 /\ stored' = IF registered # 0 THEN 0 ELSE stored
    /\ UNCHANGED <<opened, attempt, subscribed, writes>>

StreamNext ==
    \/ OpenStream \/ OnUnsubscribe \/ CloseClient
    \/ \E i \in Ids :
        \/ \E kind \in {"accept", "refuse"} : FirstMessage(i, kind)
        \/ FirstMessageFails(i) \/ Register(i)
        \/ BackendSend(i) \/ BackendEnd(i)
        \/ Recv(i) \/ WritePublication(i) \/ ReaderError(i)

\* Goroutines run: a reader whose Recv can return returns, a callback that
\* waits for nothing goes on, the handler's first Recv is bounded by its
\* timer.  Backend and client owe nothing.
StreamFairness ==
    \A i \in Ids : /\ WF_streams(Recv(i)) /\ WF_streams(WritePublication(i))
                   /\ WF_streams(ReaderError(i)) /\ WF_streams(FirstMessageFails(i))

StreamSpec == StreamInit /\ [][StreamNext]_streams /\ StreamFairness

-----------------------------------------------------------------------------
(* Properties                                                              *)

\* pubFunc waits for SubscriptionReady: whenever a publication of a stream is
\* written, the subscription of that very stream has been registered before,
\* be it still there, ended, or replaced; and a subscription never gets the
\* publications of a later stream.
NothingBeforeSubscription ==
    \A w \in writes : w[1] \in w[3] /\ (w[2] # 0 => w[1] <= w[2])

\* A subscription and its stream begin and end together: nothing of a stream
\* is written early, and of the streams whose subscription was registered
\* none outlives it: after an unsubscribe the reader of the stream ends.
StreamsRight ==
    [](/\ NothingBeforeSubscription
       /\ \A i \in Ids : <>(stream[i].ready /\ registered # i => stream[i].reader = "done"))
=============================================================================
