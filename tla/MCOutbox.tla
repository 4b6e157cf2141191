------------------------------ MODULE MCOutbox ------------------------------
(***************************************************************************)
(* The PostgreSQL outbox for TLC: its delivery to nodes that poll, its      *)
(* lock worker, its wakeups, its partitions, and the consumer of an outbox  *)
(* table.  The parts share no state; one moves in each behaviour, chosen in *)
(* the initial state, and the others stay in an initial state.             *)
(***************************************************************************)
EXTENDS StreamOutbox, LockWorker, OutboxNotify, Partitioner, PostgresConsumer, TLC

CONSTANTS a, b

VARIABLE part

\* One channel per shard.
OnePerShard == (a :> 0) @@ (b :> 1)

\* A partition attached by hand whose name does not end in a date.
NotDated == {[day |-> 0, name |-> "other"]}

-----------------------------------------------------------------------------
Parts == {"stream", "lock", "notify", "partitions", "consumer"}

Init ==
    /\ part \in Parts
    /\ StreamOutboxInit /\ LockInit /\ NotifyInit /\ PartInit /\ ConsumerInit

Next ==
    /\ UNCHANGED part
    /\ \/ part = "stream" /\ StreamOutboxNext /\ UNCHANGED <<lockVars, notifyVars, partVars, consumerVars>>
       \/ part = "lock" /\ LockNext /\ UNCHANGED <<streamOutbox, notifyVars, partVars, consumerVars>>
       \/ part = "notify" /\ NotifyNext /\ UNCHANGED <<streamOutbox, lockVars, partVars, consumerVars>>
       \/ part = "partitions" /\ PartNext /\ UNCHANGED <<streamOutbox, lockVars, notifyVars, consumerVars>>
       \/ part = "consumer" /\ ConsumerNext /\ UNCHANGED <<streamOutbox, lockVars, notifyVars, partVars>>

vars == <<part, streamOutbox, lockVars, notifyVars, partVars, consumerVars>>

(* Fairness of the part that moves.                                         *)

\* Every polling goroutine keeps being scheduled, its timer fires, and not
\* every query fails; every replica keeps replaying.
StreamFairness ==
    /\ \A n \in Nodes, w \in Shards :
         /\ SF_streamOutbox(part = "stream" /\ Fetch(n, w))
         /\ WF_streamOutbox(part = "stream" /\ Dispatch(n, w))
         /\ WF_streamOutbox(part = "stream" /\ Wake(n, w))
    /\ \A k \in 0 .. NumReplicas - 1 : WF_streamOutbox(part = "stream" /\ Replicate(k))

\* A goroutine that can go on does, timers fire, and the server ends sessions
\* whose client is gone (TCP keep-alive).
LockFairness ==
    /\ \A n \in LockNodes : WF_lockVars(part = "lock" /\ Work(n))
    /\ WF_lockVars(part = "lock" /\ OrphanEnds)

\* The worker goroutines run and their timers fire; the listener is only a
\* convenience and gets no fairness.
NotifyFairness ==
    \A w \in Workers :
        /\ WF_notifyVars(part = "notify" /\ (ProcessBatch(w) \/ ProcessNothing(w)))
        /\ WF_notifyVars(part = "notify" /\ WakeByTimer(w))

\* Tickers fire and statements return.
PartFairness == \A n \in PassNodes : WF_partVars(part = "partitions" /\ Pass(n))

\* The worker goroutines run and their calls return.
ConsumerFairness == \A w \in ConsumerNodes : WF_consumerVars(part = "consumer" /\ WorkerStep(w))

Spec ==
    /\ Init /\ [][Next]_vars
    /\ StreamFairness /\ LockFairness /\ NotifyFairness /\ PartFairness /\ ConsumerFairness

\* A shard is neither abandoned nor polled for ever by a node that lost its
\* lock: runLockedSession ends with its connection and somebody starts the next.
ShardPolled == []<>(part = "lock" => Polled) /\ StalePollerStopsWhenQuiet
=============================================================================
