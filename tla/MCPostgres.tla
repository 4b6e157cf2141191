----------------------------- MODULE MCPostgres -----------------------------
(***************************************************************************)
(* What surrounds the tables of the PostgreSQL brokers and the controller   *)
(* for TLC - schema setup, delivery to the nodes, connection pools, the     *)
(* background workers of the map broker - and the Kafka consumer.  The      *)
(* parts share no state; one moves in each behaviour, chosen in the initial *)
(* state, and the others stay in an initial state.                         *)
(***************************************************************************)
EXTENDS SchemaSetup, NodeOutbox, BrokerPools, MapWorkers, KafkaConsumer

VARIABLE part

\* Every node is configured with the same number of shards.
EqualShards == [n \in SNodes |-> 2]

-----------------------------------------------------------------------------
Parts == {"schema", "nodes", "pools", "workers", "kafka"}
FirstPools == [kind |-> "map", replicas |-> 0, notifyDSN |-> FALSE, shards |-> 0]

\* Nodes differ in their binaries only: of two permutations one is enough.
FirstIsOldest == LET first == CHOOSE n \in SNodes : TRUE IN \A n \in SNodes : snode[first].bin <= snode[n].bin

Init ==
    /\ part \in Parts
    /\ SchemaInit /\ OutboxInit /\ PoolsInit /\ WorkersInit /\ KafkaInit
    /\ FirstIsOldest
    /\ part # "schema" => /\ skind = "map" /\ ~legacy /\ sdb["jsonb"] = NoSchema
                         /\ \A n \in SNodes : snode[n].bin = MaxVersion
    /\ part # "nodes" => okind = "map"
    /\ part # "pools" => pconf = FirstPools
    /\ part # "workers" => unresolved = {}

Next ==
    /\ UNCHANGED part
    /\ \/ part = "schema" /\ SchemaNext /\ UNCHANGED <<outboxNodes, pools, mapWorkers, kafkaVars>>
       \/ part = "nodes" /\ OutboxNext /\ UNCHANGED <<schema, pools, mapWorkers, kafkaVars>>
       \/ part = "pools" /\ PoolsNext /\ UNCHANGED <<schema, outboxNodes, mapWorkers, kafkaVars>>
       \/ part = "workers" /\ WorkersNext /\ UNCHANGED <<schema, outboxNodes, pools, kafkaVars>>
       \/ part = "kafka" /\ KafkaNext /\ UNCHANGED <<schema, outboxNodes, pools, mapWorkers>>

vars == <<part, schema, outboxNodes, pools, mapWorkers, kafkaVars>>

\* The goroutines of a member run, the dispatcher succeeds in the end, and
\* the coordinator expires dead members and assigns a free partition.
KafkaFairness ==
    /\ \A m \in Members :
         /\ WF_kafkaVars(part = "kafka" /\ LoopStep(m))
         /\ WF_kafkaVars(part = "kafka" /\ CallbackStep(m))
         /\ WF_kafkaVars(part = "kafka" /\ WorkerStep(m))
         /\ WF_kafkaVars(part = "kafka" /\ loop[m] = "stopped" /\ SessionExpires(m))
    /\ WF_kafkaVars(part = "kafka" /\ \E m \in Members : Assigned(m))

\* In the other parts no fair action is enabled before they are started.
Spec ==
    /\ Init /\ [][Next]_vars
    /\ SchemaFairness /\ OutboxFairness /\ PoolsFairness /\ WorkersFairness /\ KafkaFairness
=============================================================================
