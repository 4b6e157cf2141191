------------------------------ MODULE ApiServer ------------------------------
(***************************************************************************)
(* Server API requests in progress: an HTTP or GRPC request with one       *)
(* command, a batch (sequential or parallel), a request of the legacy      *)
(* endpoint (a stream of commands in one body), and a message of an        *)
(* asynchronous consumer, which is delivered again until the dispatcher    *)
(* returns no error.  A broadcast publishes to its channels in goroutines, *)
(* in any order, each of which may fail.                                   *)
(*                                                                         *)
(* A request is [via, cmds, parallel, transport, malformed]: via is        *)
(* "http", "grpc", "legacy", "batch" or "consumer"; malformed is the index *)
(* of the first command that does not decode, 0 if all do.                 *)
(***************************************************************************)
EXTENDS ApiMethods

CONSTANTS
    ApiRequests,       \* the requests that arrive, a function on their IDs
    BatchConcurrency,  \* batchRequestMaxConcurrency
    MaxDeliveries      \* deliveries of a consumed message

\* A consumed message is one command.
ASSUME ConsumedSingly ==
    \A r \in DOMAIN ApiRequests : ApiRequests[r].via = "consumer" => DOMAIN ApiRequests[r].cmds = {1}

VARIABLES
    api,         \* api[r]: the request's progress
    applied,     \* external: what the node applied, in order: [r, cmd, ch]
    remembered   \* external: idempotency keys the broker knows, per channel

apiVars == <<api, applied, remembered>>

Cmds(r) == ApiRequests[r].cmds
Via(r) == ApiRequests[r].via
Idle0 == [pc |-> "new", started |-> 0, done |-> {}, deliveries |-> 0, reply |-> "none"]

ApiInit ==
    /\ api = [r \in DOMAIN ApiRequests |-> Idle0]
    /\ applied = <<>> /\ remembered = {}

\* The parts a command runs in: one per channel of a broadcast.
Units(cmd) ==
    IF cmd.method # "broadcast" THEN {1}
    ELSE IF BroadcastRefused(cmd) THEN {} ELSE DOMAIN cmd.channels
ChannelOf(cmd, j) == IF cmd.channels = <<>> THEN "" ELSE cmd.channels[j]

CommandDone(r, i) == \A j \in Units(Cmds(r)[i]) : \E d \in api[r].done : d.i = i /\ d.j = j
RunningCommands(r) == {i \in 1..api[r].started : ~CommandDone(r, i)}
Decodes(r, i) == ApiRequests[r].malformed = 0 \/ i < ApiRequests[r].malformed

-----------------------------------------------------------------------------
\* The request is read.  All but the legacy endpoint decode the whole body
\* first; GRPC requests are decoded by the library.
Receive(r) ==
    /\ api[r].pc = "new" /\ api[r].deliveries < MaxDeliveries
    /\ LET refused == ApiRequests[r].malformed > 0 /\ Via(r) # "legacy"
       IN  api' = [api EXCEPT ![r] = [Idle0 EXCEPT
                !.pc = IF ~refused THEN "run" ELSE IF Via(r) = "consumer" THEN "acked" ELSE "done",
                !.reply = IF refused THEN "400" ELSE "none",
                !.deliveries = api[r].deliveries + 1]]
    /\ UNCHANGED <<applied, remembered>>

\* The next command begins: after the one before it, or in a parallel batch
\* as soon as the semaphore has a place.
StartCommand(r) ==
    /\ api[r].pc = "run" /\ api[r].started < Len(Cmds(r))
    /\ Decodes(r, api[r].started + 1)
    /\ Cardinality(RunningCommands(r)) < IF ApiRequests[r].parallel THEN BatchConcurrency ELSE 1
    /\ api' = [api EXCEPT ![r].started = @ + 1]
    /\ UNCHANGED <<applied, remembered>>

Keyed(cmd) == cmd.idempotencyKey # ""

\* External: the node applies an operation unless its idempotency key is
\* known for the channel.
NodeApplies(r, i, ch, n) ==
    LET cmd == Cmds(r)[i]
        key == <<ch, cmd.idempotencyKey>>
        reaches == Accepted(cmd, ch) /\ cmd.method \in Effectful /\ n # "failed"
    IN  IF ~reaches \/ (Keyed(cmd) /\ key \in remembered)
        THEN UNCHANGED <<applied, remembered>>
        ELSE /\ applied' = Append(applied, [r |-> r, i |-> i, ch |-> ch])
             /\ remembered' = IF Keyed(cmd) THEN remembered \cup {key} ELSE remembered

\* One command, or one channel of a broadcast, runs to its reply.
RunUnit(r, i, j, n) ==
    /\ api[r].pc = "run" /\ i \in RunningCommands(r) /\ j \in Units(Cmds(r)[i])
    /\ \A d \in api[r].done : ~(d.i = i /\ d.j = j)
    /\ LET cmd == Cmds(r)[i]
           ch == ChannelOf(cmd, j)
       IN  /\ n # "ok" => Accepted(cmd, ch)
           /\ NodeApplies(r, i, ch, n)
           /\ api' = [api EXCEPT ![r].done = @ \cup
                        {[i |-> i, j |-> j, error |-> processCmd(cmd, ch, n)]}]

\* The error of a whole command: broadcasts keep theirs per channel.
CommandError(r, i) ==
    LET cmd == Cmds(r)[i]
    IN  IF cmd.method = "broadcast" THEN IF BroadcastRefused(cmd) THEN "badRequest" ELSE "none"
        ELSE (CHOOSE d \in api[r].done : d.i = i).error

\* All commands ran: the reply is written.  In the transport error mode the
\* error of a single command becomes the status; a batch is always 200.
Answer(r) ==
    /\ Via(r) \in {"http", "grpc", "batch", "legacy"} /\ api[r].pc = "run"
    /\ api[r].started = Len(Cmds(r)) /\ RunningCommands(r) = {}
    /\ LET transport == ApiRequests[r].transport /\ CommandError(r, 1) # "none"
           status == CASE Via(r) = "http" /\ transport ->
                             MapErrorToHTTPCode(CommandError(r, 1))
                       [] Via(r) = "grpc" /\ transport -> MapErrorToGRPCCode(CommandError(r, 1))
                       [] OTHER -> "200"
       IN  api' = [api EXCEPT ![r].pc = "done", ![r].reply = status]
    /\ UNCHANGED <<applied, remembered>>

\* handleAPI meets a command that does not decode: everything before it ran,
\* and its replies are dropped.
LegacyDecodeError(r) ==
    /\ Via(r) = "legacy" /\ api[r].pc = "run" /\ RunningCommands(r) = {}
    /\ api[r].started < Len(Cmds(r)) /\ ~Decodes(r, api[r].started + 1)
    /\ api' = [api EXCEPT ![r].pc = "done", ![r].reply = "400"]
    /\ UNCHANGED <<applied, remembered>>

-----------------------------------------------------------------------------
(* Asynchronous consumers                                                  *)

\* The methods dispatchMethodPayload knows; the others are skipped.
ConsumedMethods == {"publish", "broadcast", "subscribe", "unsubscribe", "disconnect",
                    "history_remove", "refresh"}

DispatchErrorMutant(r) ==
    Cmds(r)[1].method # "broadcast" /\ \E d \in api[r].done : d.error = "internal"

\* Dispatcher: an internal error of the command or of any channel of a
\* broadcast is returned for a retry; every other error skips the message.
DispatchError(r) == \E d \in api[r].done : d.error = "internal"

\* An unsupported method is acknowledged without being run.
SkipUnsupported(r) ==
    /\ Via(r) = "consumer" /\ api[r].pc = "run" /\ Cmds(r)[1].method \notin ConsumedMethods
    /\ api[r].started = 0
    /\ api' = [api EXCEPT ![r].pc = "acked"]
    /\ UNCHANGED <<applied, remembered>>

\* The dispatcher returns: the consumer acknowledges, or the message comes
\* again.
Dispatched(r) ==
    /\ Via(r) = "consumer" /\ api[r].pc = "run" /\ api[r].started = 1 /\ RunningCommands(r) = {}
    /\ api' = [api EXCEPT ![r].pc = IF DispatchError(r) THEN "new" ELSE "acked"]
    /\ UNCHANGED <<applied, remembered>>

\* The consumer crashes or loses its lease in the middle of a dispatch.
Redeliver(r) ==
    /\ Via(r) = "consumer" /\ api[r].pc = "run"
    /\ api' = [api EXCEPT ![r].pc = "new"]
    /\ UNCHANGED <<applied, remembered>>

ApiNext ==
    \E r \in DOMAIN ApiRequests :
        \/ Receive(r)
        \/ (Via(r) = "consumer" => Cmds(r)[1].method \in ConsumedMethods) /\ StartCommand(r)
        \/ \E i \in DOMAIN Cmds(r), n \in {"ok", "failed", "lost"} :
              \E j \in Units(Cmds(r)[i]) : RunUnit(r, i, j, n)
        \/ Answer(r) \/ LegacyDecodeError(r)
        \/ SkipUnsupported(r) \/ Dispatched(r) \/ Redeliver(r)

ApiSpec == ApiInit /\ [][ApiNext]_apiVars

-----------------------------------------------------------------------------
(* Properties                                                              *)

CommandOf(op) == Cmds(op.r)[op.i]

\* The channel has what the command asks for: from the command itself or, if
\* it has an idempotency key, from whatever came with that key first.
InChannel(r, i, ch) ==
    \E k \in DOMAIN applied :
        /\ applied[k].ch = ch
        /\ \/ applied[k].r = r /\ applied[k].i = i
           \/ /\ Keyed(Cmds(r)[i])
              /\ CommandOf(applied[k]).idempotencyKey = Cmds(r)[i].idempotencyKey

\* A consumed message is acknowledged only after every channel that accepts
\* it has it, whatever failed, got lost or was repeated on the way, and with
\* an idempotency key no channel ever has it twice, from however many
\* deliveries and requests (the comment in Dispatcher.Broadcast: internal
\* errors are retried, idempotency keys prevent duplicates).
ConsumedOnce ==
    /\ \A r \in DOMAIN ApiRequests :
         (/\ Via(r) = "consumer" /\ api[r].pc = "acked" /\ ApiRequests[r].malformed = 0
          /\ Cmds(r)[1].method \in ConsumedMethods) =>
            \A j \in Units(Cmds(r)[1]) :
               LET ch == ChannelOf(Cmds(r)[1], j)
               IN  Accepted(Cmds(r)[1], ch) => InChannel(r, 1, ch)
    /\ \A k, l \in DOMAIN applied :
         (/\ applied[k].ch = applied[l].ch /\ Keyed(CommandOf(applied[k]))
          /\ CommandOf(applied[k]).idempotencyKey = CommandOf(applied[l]).idempotencyKey) => k = l

\* The commands of a sequential batch and of a legacy request take effect in
\* their order, and those before a legacy command that does not decode did
\* take effect though the whole request is answered with 400.
SequentialInOrder ==
    \A r \in DOMAIN ApiRequests : ~ApiRequests[r].parallel =>
        /\ \A k, l \in DOMAIN applied :
             (k < l /\ applied[k].r = r /\ applied[l].r = r) => applied[k].i <= applied[l].i
        /\ \A k \in DOMAIN applied : applied[k].r = r =>
             \A i \in 1..(applied[k].i - 1) : CommandDone(r, i)

\* Commands are applied as often and in the order their transport promises.
DispatchedRight == ConsumedOnce /\ SequentialInOrder
=============================================================================
