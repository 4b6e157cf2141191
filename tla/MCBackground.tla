---------------------------- MODULE MCBackground ----------------------------
(***************************************************************************)
(* The application around the node for TLC: its life cycle and its queue   *)
(* consumers.  The parts share no state; one moves in each behaviour,      *)
(* chosen in the initial state, and the others stay in an initial state.   *)
(***************************************************************************)
EXTENDS AppLifecycle, RedisQueue, QueueConsumers

VARIABLE part

(* Life cycle: one GRPC server or both, one or two HTTP addresses,          *)
(* engines of every kind, consumers that are valid, disabled or invalid.    *)
Consumer(type, has) == [enabled |-> TRUE, type |-> type, has |-> has, publicationMode |-> TRUE]
Redis == Consumer("redis_stream", {"address", "streams", "consumer_group", "channels"})
Sqs == Consumer("aws_sqs", {"queues"})
Base == [engine |-> "memory", broker |-> None, presence |-> None, map |-> "memory", unreleased |-> FALSE,
         ws |-> TRUE, sse |-> TRUE, httpStream |-> FALSE, wt |-> FALSE, uni |-> TRUE, dev |-> FALSE,
         init |-> TRUE, admin |-> TRUE, adminExternal |-> FALSE, api |-> TRUE, apiExternal |-> FALSE,
         tools |-> TRUE, internalPort |-> FALSE, http3 |-> FALSE, tls |-> FALSE, grpcApi |-> TRUE,
         grpcUni |-> FALSE, sub |-> TRUE, connLimit |-> TRUE, userHeader |-> FALSE, keepHeaders |-> TRUE,
         apiInsecure |-> FALSE, others |-> {"usage"}, consumers |-> {Redis, [Sqs EXCEPT !.enabled = FALSE]}]
MCAppConfigs ==
    {Base,
     [Base EXCEPT !.internalPort = TRUE, !.apiExternal = TRUE, !.grpcApi = FALSE, !.grpcUni = TRUE, !.sub = FALSE,
                  !.broker = "redisnats", !.presence = "redis", !.unreleased = TRUE, !.consumers = {}],
     [Base EXCEPT !.internalPort = TRUE, !.wt = TRUE, !.http3 = TRUE, !.tls = TRUE, !.engine = "redis", !.grpcUni = TRUE],
     [Base EXCEPT !.consumers = {Sqs}]}

(* Messages: readable ones, one whose delta does not parse, and before a    *)
(* good one for Redis, which retries it for ever, one whose version does not.*)
Good == [payload |-> TRUE, channels |-> TRUE, delta |-> TRUE, version |-> TRUE]
MCEntryContent == <<[Good EXCEPT !.version = FALSE], Good>>
MCQMessages == <<[group |-> "g", content |-> Good], [group |-> "g", content |-> Good],
                 [group |-> "", content |-> [Good EXCEPT !.delta = FALSE]]>>

-----------------------------------------------------------------------------
Parts == {"app", "redis", "queues"}

Init ==
    /\ part \in Parts
    /\ AppInit /\ RQInit /\ QInit
    /\ part # "app" => conf = Base
    /\ part # "queues" => qkind = "sqs"

Next ==
    /\ UNCHANGED part
    /\ \/ part = "app" /\ AppNext /\ UNCHANGED <<redisQueue, queues>>
       \/ part = "redis" /\ RQNext /\ UNCHANGED <<app, queues>>
       \/ part = "queues" /\ QNext /\ UNCHANGED <<app, redisQueue>>

vars == <<part, app, redisQueue, queues>>

\* In a part that does not move no fair action is enabled.
Spec == Init /\ [][Next]_vars /\ AppFairness /\ RQFairness /\ QFairness
=============================================================================
