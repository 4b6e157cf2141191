------------------------------- MODULE MCLogs -------------------------------
(***************************************************************************)
(* The ordered logs for TLC, safety only: the outbox and the channels of    *)
(* the PostgreSQL stream broker, and a partition read by Kafka consumers.   *)
(* The parts share no state; one moves in each behaviour, chosen in the     *)
(* initial state, and the others stay in an initial state.                  *)
(***************************************************************************)
EXTENDS StreamOutbox, StreamPublish, KafkaConsumer, TLC

CONSTANTS a, b

VARIABLE part

\* The channels of the outbox share its shard.
OneShard == (a :> 0) @@ (b :> 0)

(* Publishes to a stream: keys whose results outlive or do not outlive the  *)
(* meta row, one of them in a publish_strict call; versions with and        *)
(* without a version epoch; two TTLs and sizes.                             *)
Idem == CHOOSE k \in Keys : TRUE
Plain == [key |-> NoKey, ver |-> 0, ve |-> "", httl |-> 2, size |-> 3, mttl |-> 0,
          ittl |-> 0, strict |-> FALSE, delta |-> FALSE]
MixedArgs ==
    {[Plain EXCEPT !.key = Idem, !.httl = 1, !.ittl = 1, !.delta = TRUE],
     [Plain EXCEPT !.key = Idem, !.httl = 1, !.ittl = 3, !.strict = TRUE, !.ver = 1, !.ve = "A"],
     [Plain EXCEPT !.ver = 2, !.size = 2, !.delta = TRUE]}
Reads == {[since |-> 0, limit |-> 10, reverse |-> FALSE],
          [since |-> 1, limit |-> 2, reverse |-> TRUE],
          [since |-> 0, limit |-> 0, reverse |-> FALSE]}

-----------------------------------------------------------------------------
Parts == {"outbox", "channel", "kafka", "queue"}

ShortLog == 2  \* bound: records in the partition where members fail

(* A partition of up to ShortLog records with faults, or one of MaxLog      *)
(* records without: enough to fill a queue beyond its limit.                *)
KafkaPart ==
    /\ KafkaNext
    /\ \/ part = "kafka" /\ partitionLog' <= ShortLog
       \/ part = "queue" /\ kafkaFaults' = 0

Init ==
    /\ part \in Parts
    /\ StreamOutboxInit /\ PublishInit /\ KafkaInit

Next ==
    /\ UNCHANGED part
    /\ \/ part = "outbox" /\ StreamOutboxNext /\ UNCHANGED <<publishVars, kafkaVars>>
       \/ part = "channel" /\ PublishNext /\ UNCHANGED <<streamOutbox, kafkaVars>>
       \/ KafkaPart /\ UNCHANGED <<streamOutbox, publishVars>>

vars == <<part, streamOutbox, publishVars, kafkaVars>>

Spec == Init /\ [][Next]_vars

\* The sessions of a part, or its members, run the same program
\* (Publishers = Members = Sessions), and the channels are in the same shard.
Symmetry == Permutations(Sessions) \cup Permutations(Channels)
=============================================================================
