---------------------------- MODULE KafkaConsumer ----------------------------
(***************************************************************************)
(* The Kafka consumer: members of one consumer group and one partition.    *)
(* Each member has a poll loop, a partition worker fed through an          *)
(* unbounded queue, and the group callbacks of the Kafka client, which run *)
(* on a goroutine of the client and are held back from the return of       *)
(* PollRecords to AllowRebalance.  The broker and the group coordinator    *)
(* are external: a log, the committed offset and the owner whose commits   *)
(* are accepted.  queue.Close and cancelFunc of killConsumers are one      *)
(* flag, cancelled: a worker leaves on either.                             *)
(***************************************************************************)
EXTENDS Naturals, Sequences, FiniteSets

CONSTANTS
    Members,                \* consumers of the group
    NoMember,
    MaxPollRecords,
    PartitionQueueMaxSize,  \* 0: pause on every poll (-1 in the configuration)
    MaxLog,                 \* bound: records in the partition
    MaxKafkaFaults               \* bound: rebalances, expired sessions, errors, crashes

ASSUME KafkaAssumption ==
    /\ NoMember \notin Members
    /\ MaxPollRecords \in Nat \ {0}
    /\ PartitionQueueMaxSize \in Nat /\ MaxLog \in Nat /\ MaxKafkaFaults \in Nat

VARIABLES
    partitionLog, \* offsets 1 .. log are in the partition
    committed,   \* the group resumes at committed + 1
    owner,       \* the member whose commits the coordinator accepts
    dispatched,  \* offsets whose dispatch took effect
    loop,        \* Run: "poll", "pause", "push", "stopwait", "close", "init", "stopped"
    fetched,     \* records returned by PollRecords and not pushed yet
    polled,      \* PollRecords returned, AllowRebalance not called: callbacks wait
    done,        \* doneCh is closed
    held,        \* the client believes the partition is assigned to it
    cb,          \* callback: "idle", "revoke" or "lost" (waiting for the worker), "commit"
    fetchPos,    \* client: next offset to fetch
    paused,      \* client: fetching is paused
    marked,      \* client: offsets up to this one are marked for commit
    inMap,       \* c.consumers has a partitionConsumer
    cancelled,   \* its queue is closed and its context cancelled
    queue,       \* batches, each a range of offsets
    token,       \* the channel notEmpty holds a signal
    worker,      \* consume: "none", "wait", "drain", "dispatch", "resume", "exit"
    cur,         \* what is left of the worker's batch
    kafkaFaults

groupVars == <<committed, owner>>
loopVars == <<loop, fetched, polled, done>>
clientVars == <<held, cb, fetchPos, paused, marked>>
workerVars == <<inMap, cancelled, queue, token, worker, cur>>
kafkaVars == <<partitionLog, dispatched, groupVars, loopVars, clientVars, workerVars, kafkaFaults>>

NoBatch == [first |-> 1, last |-> 0]
Len1(b) == b.last + 1 - b.first

Fault == kafkaFaults < MaxKafkaFaults /\ kafkaFaults' = kafkaFaults + 1

\* unboundedQueue.NumRecords: no record is in the queue twice.
NumRecords(m) ==
    Cardinality({o \in 1 .. partitionLog :
                    \E i \in 1 .. Len(queue[m]) : queue[m][i].first <= o /\ o <= queue[m][i].last})

-----------------------------------------------------------------------------
(* The partition and the group coordinator.                                *)

Produce ==
    /\ partitionLog < MaxLog
    /\ partitionLog' = partitionLog + 1
    /\ UNCHANGED <<dispatched, groupVars, loopVars, clientVars, workerVars, kafkaFaults>>

\* The session of the owner expires without the member knowing.
SessionExpires(m) ==
    /\ owner = m
    /\ IF loop[m] = "stopped" THEN UNCHANGED kafkaFaults ELSE Fault
    /\ owner' = NoMember
    /\ UNCHANGED <<partitionLog, committed, dispatched, loopVars, clientVars, workerVars>>

\* Periodic commit of the marked offsets; a member that is not the owner is refused.
AutoCommit(m) ==
    /\ held[m] /\ owner = m /\ committed < marked[m]
    /\ committed' = marked[m]
    /\ UNCHANGED <<partitionLog, owner, dispatched, loopVars, clientVars, workerVars, kafkaFaults>>

-----------------------------------------------------------------------------
(* Run and pollUntilFatal.                                                 *)

\* PollRecords returns records of the partition; the decision to pause is
\* taken on the size of the queue at this moment.
Poll(m) ==
    /\ loop[m] = "poll" /\ cb[m] = "idle" /\ held[m] /\ inMap[m]
    /\ ~paused[m]
    /\ \E n \in 1 .. MaxPollRecords :
         /\ fetchPos[m] + n <= partitionLog + 1
         /\ fetched' = [fetched EXCEPT ![m] = [first |-> fetchPos[m], last |-> fetchPos[m] + n - 1]]
         /\ fetchPos' = [fetchPos EXCEPT ![m] = @ + n]
         /\ loop' = [loop EXCEPT ![m] =
                       IF NumRecords(m) + n >= PartitionQueueMaxSize THEN "pause" ELSE "push"]
    /\ polled' = [polled EXCEPT ![m] = TRUE]
    /\ UNCHANGED <<partitionLog, dispatched, groupVars, done, held, cb, paused, marked, workerVars, kafkaFaults>>

PauseFetch(m) ==
    /\ loop[m] = "pause"
    /\ paused' = [paused EXCEPT ![m] = TRUE]
    /\ loop' = [loop EXCEPT ![m] = "push"]
    /\ UNCHANGED <<partitionLog, dispatched, groupVars, fetched, polled, done, held, cb, fetchPos, marked,
                   workerVars, kafkaFaults>>

\* Push to the queue, unless it is closed, and AllowRebalance.
Push(m) ==
    /\ loop[m] = "push"
    /\ IF cancelled[m]
         THEN /\ paused' = [paused EXCEPT ![m] = FALSE]
              /\ UNCHANGED <<queue, token>>
         ELSE /\ queue' = [queue EXCEPT ![m] = Append(@, fetched[m])]
              /\ token' = [token EXCEPT ![m] = TRUE]
              /\ UNCHANGED paused
    /\ fetched' = [fetched EXCEPT ![m] = NoBatch]
    /\ polled' = [polled EXCEPT ![m] = FALSE]
    /\ loop' = [loop EXCEPT ![m] = "poll"]
    /\ UNCHANGED <<partitionLog, dispatched, groupVars, done, held, cb, fetchPos, marked,
                   inMap, cancelled, worker, cur, kafkaFaults>>

\* A fetch error that needs a new client: the loop returns before
\* EachPartition and CloseAllowingRebalance lets callbacks run again.
FatalError(m) ==
    /\ loop[m] = "poll" /\ cb[m] = "idle"
    /\ Fault
    /\ loop' = [loop EXCEPT ![m] = "close"]
    /\ UNCHANGED <<partitionLog, dispatched, groupVars, fetched, polled, done, clientVars, workerVars>>

\* Close has waited for the callbacks of the group.
CloseDone(m) ==
    /\ loop[m] = "close" /\ cb[m] = "idle" /\ ~held[m]
    /\ loop' = [loop EXCEPT ![m] = IF done[m] THEN "stopped" ELSE "init"]
    /\ UNCHANGED <<partitionLog, dispatched, groupVars, fetched, polled, done, clientVars, workerVars, kafkaFaults>>

\* reInitClient succeeds (a failure backs off and tries again).
ReInitClient(m) ==
    /\ loop[m] = "init"
    /\ loop' = [loop EXCEPT ![m] = "poll"]
    /\ paused' = [paused EXCEPT ![m] = FALSE]
    /\ UNCHANGED <<partitionLog, dispatched, groupVars, fetched, polled, done, held, cb, fetchPos, marked,
                   workerVars, kafkaFaults>>

\* The part of the group that is never shut down.
Survives(m) == \E n \in Members \ {m} : ~done[n]

\* killConsumers: take the partitionConsumer out of the map, close its queue
\* and cancel it.  Only the caller that took it waits for its worker.
Kill(m) ==
    /\ inMap' = [inMap EXCEPT ![m] = FALSE]
    /\ cancelled' = [cancelled EXCEPT ![m] = @ \/ inMap[m]]
    /\ UNCHANGED <<queue, token, worker, cur>>

\* The context is cancelled: the poll loop ends, with PollRecords still to be
\* released when it was the one to notice, and the deferred function runs.
StopMember(m) ==
    /\ Survives(m)
    /\ \/ /\ loop[m] = "poll"
          /\ \E b \in BOOLEAN :
               /\ b => cb[m] = "idle" /\ inMap[m]
               /\ polled' = [polled EXCEPT ![m] = b]
          /\ Kill(m)
          /\ loop' = [loop EXCEPT ![m] = IF inMap[m] THEN "stopwait" ELSE "close"]
       \/ /\ loop[m] = "init"
          /\ loop' = [loop EXCEPT ![m] = "stopped"]
          /\ UNCHANGED <<polled, workerVars>>
    /\ done' = [done EXCEPT ![m] = TRUE]
    /\ UNCHANGED <<partitionLog, dispatched, groupVars, fetched, clientVars, kafkaFaults>>

\* The worker is done: CloseAllowingRebalance.
StopWait(m) ==
    /\ loop[m] = "stopwait" /\ worker[m] = "none"
    /\ loop' = [loop EXCEPT ![m] = "close"]
    /\ polled' = [polled EXCEPT ![m] = FALSE]
    /\ UNCHANGED <<partitionLog, dispatched, groupVars, fetched, done, clientVars, workerVars, kafkaFaults>>

\* The client drops its assignment, with the positions it kept for it.
LetGo(m) ==
    /\ held' = [held EXCEPT ![m] = FALSE]
    /\ fetchPos' = [fetchPos EXCEPT ![m] = 1]
    /\ marked' = [marked EXCEPT ![m] = 0]

\* The process dies: nothing is committed, the coordinator finds out later.
Crash(m) ==
    /\ Survives(m) /\ loop[m] # "stopped"
    /\ Fault
    /\ loop' = [loop EXCEPT ![m] = "stopped"]
    /\ fetched' = [fetched EXCEPT ![m] = NoBatch]
    /\ polled' = [polled EXCEPT ![m] = FALSE]
    /\ done' = [done EXCEPT ![m] = TRUE]
    /\ LetGo(m)
    /\ cb' = [cb EXCEPT ![m] = "idle"]
    /\ paused' = [paused EXCEPT ![m] = FALSE]
    /\ cancelled' = [cancelled EXCEPT ![m] = FALSE]
    /\ inMap' = [inMap EXCEPT ![m] = FALSE]
    /\ queue' = [queue EXCEPT ![m] = <<>>]
    /\ token' = [token EXCEPT ![m] = FALSE]
    /\ worker' = [worker EXCEPT ![m] = "none"]
    /\ cur' = [cur EXCEPT ![m] = NoBatch]
    /\ UNCHANGED <<partitionLog, dispatched, groupVars>>

-----------------------------------------------------------------------------
(* The callbacks of the group.                                             *)

\* The coordinator gives the partition to m and the client calls assigned,
\* which starts a worker unless doneCh is closed.
Assigned(m) ==
    /\ owner = NoMember /\ ~held[m] /\ cb[m] = "idle" /\ ~polled[m]
    /\ loop[m] \in {"poll", "stopwait"}
    /\ owner' = m
    /\ held' = [held EXCEPT ![m] = TRUE]
    /\ fetchPos' = [fetchPos EXCEPT ![m] = committed + 1]
    /\ marked' = [marked EXCEPT ![m] = committed]
    /\ IF done[m]
         THEN UNCHANGED workerVars
         ELSE /\ inMap' = [inMap EXCEPT ![m] = TRUE]
              /\ cancelled' = [cancelled EXCEPT ![m] = FALSE]
              /\ queue' = [queue EXCEPT ![m] = <<>>]
              /\ token' = [token EXCEPT ![m] = FALSE]
              /\ worker' = [worker EXCEPT ![m] = "wait"]
              /\ UNCHANGED cur
    /\ UNCHANGED <<partitionLog, committed, dispatched, loopVars, cb, paused, kafkaFaults>>

\* A rebalance takes the partition away, or the client is closing.
Revoked(m) ==
    /\ held[m] /\ owner = m /\ cb[m] = "idle" /\ ~polled[m]
    /\ IF loop[m] = "close" THEN UNCHANGED kafkaFaults ELSE Fault
    /\ Kill(m)
    /\ cb' = [cb EXCEPT ![m] = IF inMap[m] THEN "revoke" ELSE "commit"]
    /\ UNCHANGED <<partitionLog, dispatched, groupVars, loopVars, held, fetchPos, paused, marked>>

\* The member learns that its session is gone.
Lost(m) ==
    /\ held[m] /\ owner # m /\ cb[m] = "idle" /\ ~polled[m]
    /\ Kill(m)
    /\ cb' = [cb EXCEPT ![m] = IF inMap[m] THEN "lost" ELSE "idle"]
    /\ IF inMap[m] THEN UNCHANGED <<held, fetchPos, marked>> ELSE LetGo(m)
    /\ UNCHANGED <<partitionLog, dispatched, groupVars, loopVars, paused, kafkaFaults>>

\* killConsumers returns to the callback that took the partitionConsumer.
Killed(m) ==
    /\ cb[m] \in {"revoke", "lost"} /\ worker[m] = "none"
    /\ cb' = [cb EXCEPT ![m] = IF @ = "revoke" THEN "commit" ELSE "idle"]
    /\ IF cb[m] = "revoke" THEN UNCHANGED <<held, fetchPos, marked>> ELSE LetGo(m)
    /\ UNCHANGED <<partitionLog, dispatched, groupVars, loopVars, paused, workerVars, kafkaFaults>>

\* CommitMarkedOffsets, which may fail; then the partition is free.
CommitOnRevoke(m) ==
    /\ cb[m] = "commit"
    /\ committed' \in IF owner = m THEN {committed, marked[m]} ELSE {committed}
    /\ owner' = IF owner = m THEN NoMember ELSE owner
    /\ cb' = [cb EXCEPT ![m] = "idle"]
    /\ LetGo(m)
    /\ UNCHANGED <<partitionLog, dispatched, loopVars, paused, workerVars, kafkaFaults>>

-----------------------------------------------------------------------------
(* partitionConsumer.consume and processRecords.                           *)

WakeWorker(m) ==
    /\ worker[m] = "wait"
    /\ cancelled[m] \/ token[m]
    /\ worker' = [worker EXCEPT ![m] = IF cancelled[m] THEN "exit" ELSE "drain"]
    /\ token' = [token EXCEPT ![m] = FALSE]
    /\ UNCHANGED <<partitionLog, dispatched, groupVars, loopVars, clientVars, inMap, cancelled, queue, cur, kafkaFaults>>

Pop(m) ==
    /\ worker[m] = "drain"
    /\ IF cancelled[m] \/ queue[m] = <<>>
         THEN /\ worker' = [worker EXCEPT ![m] = IF cancelled[m] THEN "exit" ELSE "wait"]
              /\ UNCHANGED <<queue, cur>>
         ELSE /\ worker' = [worker EXCEPT ![m] = "dispatch"]
              /\ cur' = [cur EXCEPT ![m] = Head(queue[m])]
              /\ queue' = [queue EXCEPT ![m] = Tail(@)]
    /\ UNCHANGED <<partitionLog, dispatched, groupVars, loopVars, clientVars, inMap, cancelled, token, kafkaFaults>>

\* processRecord succeeds, or skips a record that cannot be processed: mark
\* it (the client keeps the largest offset marked), go on with the next one
\* unless the batch is over or the context is cancelled.
DispatchRecord(m) ==
    /\ worker[m] = "dispatch"
    /\ dispatched' = dispatched \cup {cur[m].first}
    /\ marked' = [marked EXCEPT ![m] = IF @ < cur[m].first THEN cur[m].first ELSE @]
    /\ cur' = [cur EXCEPT ![m].first = @ + 1]
    /\ worker' = [worker EXCEPT ![m] =
                    IF cancelled[m] \/ Len1(cur[m]) = 1 THEN "resume" ELSE "dispatch"]
    /\ UNCHANGED <<partitionLog, groupVars, loopVars, held, cb, fetchPos, paused,
                   inMap, cancelled, queue, token, kafkaFaults>>

DispatchErrorMutant(m) ==
    /\ worker[m] = "dispatch" /\ ~cancelled[m]
    /\ Fault
    /\ dispatched' \in {dispatched, dispatched \cup {cur[m].first}}
    /\ worker' = [worker EXCEPT ![m] = "resume"]
    /\ UNCHANGED <<partitionLog, groupVars, loopVars, clientVars, inMap, cancelled, queue, token, cur>>

\* processRecord fails, with or without effect, and is tried again (the
\* dispatcher fails with internal errors only, never with context.Canceled).
DispatchError(m) ==
    /\ worker[m] = "dispatch" /\ ~cancelled[m]
    /\ Fault
    /\ dispatched' \in {dispatched, dispatched \cup {cur[m].first}}
    /\ UNCHANGED <<partitionLog, groupVars, loopVars, clientVars, workerVars>>

\* The cancelled context ends processRecord or the wait for the next attempt.
DispatchCancelled(m) ==
    /\ worker[m] = "dispatch" /\ cancelled[m]
    /\ dispatched' \in {dispatched, dispatched \cup {cur[m].first}}
    /\ worker' = [worker EXCEPT ![m] = "resume"]
    /\ UNCHANGED <<partitionLog, groupVars, loopVars, clientVars, inMap, cancelled, queue, token, cur, kafkaFaults>>

ResumeConsumingMutant(m) ==
    /\ worker[m] = "resume"
    /\ worker' = [worker EXCEPT ![m] = "drain"]
    /\ cur' = [cur EXCEPT ![m] = NoBatch]
    /\ UNCHANGED <<partitionLog, dispatched, groupVars, loopVars, held, cb, fetchPos, paused, marked,
                   inMap, cancelled, queue, token, kafkaFaults>>

\* resumeConsuming, after each batch.
ResumeConsuming(m) ==
    /\ worker[m] = "resume"
    /\ paused' = [paused EXCEPT ![m] = FALSE]
    /\ worker' = [worker EXCEPT ![m] = "drain"]
    /\ cur' = [cur EXCEPT ![m] = NoBatch]
    /\ UNCHANGED <<partitionLog, dispatched, groupVars, loopVars, held, cb, fetchPos, marked,
                   inMap, cancelled, queue, token, kafkaFaults>>

ExitMutant(m) ==
    /\ worker[m] = "exit"
    /\ worker' = [worker EXCEPT ![m] = "none"]
    /\ queue' = [queue EXCEPT ![m] = <<>>]
    /\ token' = [token EXCEPT ![m] = FALSE]
    /\ cancelled' = [cancelled EXCEPT ![m] = FALSE]
    /\ UNCHANGED <<partitionLog, dispatched, groupVars, loopVars, held, cb, fetchPos, paused, marked,
                   inMap, cur, kafkaFaults>>

\* The deferred calls of consume: resumeConsuming, queue.Close, close(done).
Exit(m) ==
    /\ worker[m] = "exit"
    /\ paused' = [paused EXCEPT ![m] = FALSE]
    /\ worker' = [worker EXCEPT ![m] = "none"]
    /\ queue' = [queue EXCEPT ![m] = <<>>]
    /\ token' = [token EXCEPT ![m] = FALSE]
    /\ cancelled' = [cancelled EXCEPT ![m] = FALSE]
    /\ UNCHANGED <<partitionLog, dispatched, groupVars, loopVars, held, cb, fetchPos, marked,
                   inMap, cur, kafkaFaults>>

-----------------------------------------------------------------------------
KafkaInit ==
    /\ partitionLog = 0 /\ committed = 0 /\ owner = NoMember /\ dispatched = {} /\ kafkaFaults = 0
    /\ loop = [m \in Members |-> "poll"]
    /\ fetched = [m \in Members |-> NoBatch]
    /\ polled = [m \in Members |-> FALSE]
    /\ done = [m \in Members |-> FALSE]
    /\ held = [m \in Members |-> FALSE]
    /\ cb = [m \in Members |-> "idle"]
    /\ fetchPos = [m \in Members |-> 1]
    /\ paused = [m \in Members |-> FALSE]
    /\ marked = [m \in Members |-> 0]
    /\ inMap = [m \in Members |-> FALSE]
    /\ cancelled = [m \in Members |-> FALSE]
    /\ queue = [m \in Members |-> <<>>]
    /\ token = [m \in Members |-> FALSE]
    /\ worker = [m \in Members |-> "none"]
    /\ cur = [m \in Members |-> NoBatch]

LoopStep(m) == Poll(m) \/ PauseFetch(m) \/ Push(m) \/ StopWait(m) \/ CloseDone(m) \/ ReInitClient(m)
CallbackStep(m) ==
    \/ Lost(m) \/ Killed(m) \/ CommitOnRevoke(m)
    \/ loop[m] = "close" /\ Revoked(m)
WorkerStep(m) == WakeWorker(m) \/ Pop(m) \/ DispatchRecord(m) \/ ResumeConsuming(m) \/ Exit(m)

KafkaNext ==
    \/ Produce
    \/ \E m \in Members :
         \/ LoopStep(m) \/ FatalError(m) \/ StopMember(m) \/ Crash(m)
         \/ Assigned(m) \/ Revoked(m) \/ Lost(m) \/ Killed(m) \/ CommitOnRevoke(m)
         \/ WorkerStep(m) \/ DispatchError(m) \/ DispatchCancelled(m)
         \/ SessionExpires(m) \/ AutoCommit(m)

KafkaSpec == KafkaInit /\ [][KafkaNext]_kafkaVars

-----------------------------------------------------------------------------
(* Properties.                                                             *)

Ranges == [first : 1 .. MaxLog + 1, last : 0 .. MaxLog]

\* Every variable keeps its type.
KafkaTypeOK ==
    /\ partitionLog \in 0 .. MaxLog /\ committed \in 0 .. MaxLog
    /\ owner \in Members \cup {NoMember} /\ dispatched \subseteq 1 .. partitionLog
    /\ loop \in [Members -> {"poll", "pause", "push", "stopwait", "close", "init", "stopped"}]
    /\ fetched \in [Members -> Ranges] /\ cur \in [Members -> Ranges]
    /\ cb \in [Members -> {"idle", "revoke", "lost", "commit"}]
    /\ fetchPos \in [Members -> 1 .. MaxLog + 1] /\ marked \in [Members -> 0 .. MaxLog]
    /\ worker \in [Members -> {"none", "wait", "drain", "dispatch", "resume", "exit"}]
    /\ \A f \in {polled, done, held, paused, inMap, cancelled, token} : f \in [Members -> BOOLEAN]
    /\ \A m \in Members : queue[m] \in Seq(Ranges)
    /\ kafkaFaults \in 0 .. MaxKafkaFaults

\* At least once: every offset the group has committed was dispatched, by
\* whichever member, across failed dispatches, revokes, lost sessions,
\* client re-inits and crashes.
CommittedWasDispatched == 1 .. committed \subseteq dispatched

\* One worker per partition and a queue in fetch order: across rebalances,
\* members that lost their session and crashes, an offset is dispatched for
\* the first time only when all smaller ones have been.
FirstDispatchInOrder == \A o \in dispatched : 1 .. o \subseteq dispatched

\* Pause before submitting "to avoid race condition between pause and resume
\* operations": a paused partition always has someone about to resume it, the
\* poll loop on its way to the queue or a worker with something to do.
PauseWillEnd ==
    \A m \in Members :
        paused[m] => \/ loop[m] = "push"
                     \/ queue[m] # <<>> /\ worker[m] = "drain"
                     \/ queue[m] # <<>> /\ worker[m] = "wait" /\ token[m]
                     \/ worker[m] \in {"dispatch", "resume", "exit"}
                     \/ worker[m] # "none" /\ cancelled[m]

\* revoked and lost wait for the worker: outside of shutdown no worker goes on
\* after its client has let the partition go.
NoOrphanWorker ==
    \A m \in Members : worker[m] # "none" /\ ~done[m] => held[m]

\* What the group has promised: at least once, first deliveries in order.
KafkaDelivery == CommittedWasDispatched /\ FirstDispatchInOrder

\* resumeConsuming after every batch, whatever is left in the queue: "Only one
\* additional batch will be added to the queue before we pause again".  With
\* the one its worker has in hand a partition never has more batches than one
\* above the limit, hence MaxPollRecords times as many records (the limit
\* itself, which counts records, is no bound).
InWork(m) == Len(queue[m]) + (IF worker[m] \in {"dispatch", "resume"} THEN 1 ELSE 0)
QueueBounded == \A m \in Members : InWork(m) <= PartitionQueueMaxSize + 1

\* What keeps a partition moving: no pause for ever, no worker left behind,
\* and no more in the queue than the pauses allow.
KafkaPartition == KafkaTypeOK /\ PauseWillEnd /\ NoOrphanWorker /\ QueueBounded

\* Every record is dispatched in the end.
RecordsDispatched == \A o \in 1 .. MaxLog : []<>(partitionLog >= o => o \in dispatched)

KafkaCommands == INSTANCE CommandQueue
    WITH sent <- 1 .. partitionLog, done <- dispatched, settled <- 1 .. committed

\* The members of a group together implement the abstract queue of commands,
\* with the committed offset as what is settled: it never goes back, whoever
\* commits late and whatever a worker marks that outlived its assignment.
KafkaImplementsQueue == KafkaCommands!Spec

\* Every record gets dispatched, and none is settled before.
KafkaWorks == RecordsDispatched /\ KafkaImplementsQueue
=============================================================================
