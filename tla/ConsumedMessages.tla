-------------------------- MODULE ConsumedMessages --------------------------
(***************************************************************************)
(* What the asynchronous consumers make of a message in publication data   *)
(* mode, and which consumer configurations they accept                     *)
(* (internal/consuming, configtypes).  A message is abstracted to what the *)
(* code tells apart: whether its payload can be read, whether it names     *)
(* channels, whether delta and version parse.                              *)
(***************************************************************************)

\* A message: [payload, channels, delta, version], all BOOLEAN ("is there
\* and parses").  The answer: "dispatch", "skip" (counts as processed) or
\* "error".  Redis alone turns a property that does not parse into an error,
\* and looks at delta before the channels, at version after them.
RedisContent(p) ==
    IF ~p.payload THEN "skip" ELSE IF ~p.delta THEN "error" ELSE IF ~p.channels THEN "skip"
    ELSE IF ~p.version THEN "error" ELSE "dispatch"

\* A body that is missing or no SNS envelope is given up at once.
SqsContent(p) ==
    IF p.payload /\ p.channels /\ p.delta /\ p.version THEN "dispatch" ELSE "skip"

\* getAzureBoolProperty: a delta that is a string and does not parse is skipped,
\* one that is no string panics.
AzureContent(p) == IF p.delta /\ p.channels /\ p.version THEN "dispatch" ELSE "skip"
AzurePanics(p) == ~p.delta
NatsContent(p) == IF p.delta /\ p.channels /\ p.version THEN "dispatch" ELSE "skip"
GoogleContent(p) == IF p.delta /\ p.channels /\ p.version THEN "dispatch" ELSE "skip"

ContentOf(kind, p) ==
    CASE kind = "redis" -> RedisContent(p) [] kind = "sqs" -> SqsContent(p)
      [] kind \in {"azure", "session"} -> AzureContent(p) [] kind = "nats" -> NatsContent(p)
      [] OTHER -> GoogleContent(p)

-----------------------------------------------------------------------------
(* A consumer configuration: [enabled, type, has, publicationMode], where  *)
(* has is the set of fields given a value.                                 *)

PostgresRequires(c) == {"dsn", "outbox_table_name"}
KafkaRequires(c) ==
    {"brokers", "topics", "consumer_group"}
    \cup IF "assume_role_arn" \in c.has THEN {"sasl_aws_msk_iam"} ELSE {}
RedisStreamRequires(c) == {"address", "streams", "consumer_group"}
NatsJetStreamRequires(c) ==
    {"url", "stream_name", "durable_consumer_name"}
    \cup IF "use_existing_consumer" \in c.has THEN {} ELSE {"deliver_policy"}
GooglePubSubRequires(c) == {"project_id", "subscriptions"}
AzureServiceBusRequires(c) ==
    {"queues"} \cup IF "use_azure_identity" \in c.has
                    THEN {"fully_qualified_namespace", "tenant_id", "client_id", "client_secret"}
                    ELSE {"connection_string"}
AwsSqsRequires(c) == {"queues"}

Requires(c) ==
    CASE c.type = "postgresql" -> PostgresRequires(c)
      [] c.type = "kafka" -> KafkaRequires(c)
      [] c.type = "redis_stream" -> RedisStreamRequires(c)
      [] c.type = "nats_jetstream" -> NatsJetStreamRequires(c)
      [] c.type = "google_pub_sub" -> GooglePubSubRequires(c)
      [] c.type = "azure_service_bus" -> AzureServiceBusRequires(c)
      [] OTHER -> AwsSqsRequires(c)

ConsumerTypes == {"postgresql", "kafka", "redis_stream", "nats_jetstream", "google_pub_sub",
                  "azure_service_bus", "aws_sqs"}

\* Validate of the configuration of one consumer; publication mode needs to
\* know where the channels are.
ValidConsumer(c) ==
    /\ c.type \in ConsumerTypes /\ Requires(c) \subseteq c.has
    /\ (c.publicationMode /\ c.type # "postgresql") => "channels" \in c.has

\* consuming.New: disabled consumers are skipped, the first invalid enabled
\* one ends the start.
RunningConsumers(cs) == {c \in cs : c.enabled}
ConsumersOk(cs) == \A c \in RunningConsumers(cs) : ValidConsumer(c)
=============================================================================
