--------------------------- MODULE QueueConsumers ---------------------------
(***************************************************************************)
(* The consumers of hosted queues (internal/consuming: aws_sqs.go,         *)
(* azure_service_bus.go, nats_jetstream.go, google_pub_sub.go) over one    *)
(* abstract queue that leases messages.  The four share a shape: a receiver*)
(* gets messages, works them off in lanes (one goroutine each, messages of *)
(* a lane one after the other) and settles what is done.  They differ in   *)
(* the lanes, in what a failed dispatch leads to, and in when they settle. *)
(*                                                                         *)
(* The queue is external: a message is queued, leased or deleted, a lease  *)
(* may expire while its message is worked on, and of a group (a FIFO group *)
(* of SQS, a session of Service Bus) messages are handed out in order and  *)
(* only while none is leased.                                              *)
(***************************************************************************)
EXTENDS Naturals, Sequences, FiniteSets, ConsumedMessages

CONSTANTS
    QKinds,        \* {"sqs", "azure", "session", "nats", "pubsub"} or some of them
    QMessages,     \* QMessages[m]: [group, content], in queue order; content as in ConsumedMessages
    Receivers,     \* receivers of the queue, on one node or several
    SqsRetries,    \* maxRetries of processSingleMessage (3)
    AzureRetries,  \* maxRetries of processMessage (5)
    LaneLimit,     \* max_concurrency of SQS, max_outstanding_messages of Pub/Sub
    MaxQFaults     \* failed dispatches, calls and expired leases

ASSUME LaneAssumption == Len(QMessages) \in Nat /\ DOMAIN QMessages = 1 .. Len(QMessages)

VARIABLES
    qkind,    \* the consumer in this behaviour
    qctx,     \* the context of Run: "new" before it, "live" or "done"
    qmsg,     \* qmsg[m]: "queued", "leased" or "deleted"
    ended,    \* receivers that have given up: sub.Receive of Pub/Sub has failed
    lanes,    \* lanes[r]: the lanes of the receiver's current batch, <<>> if there is none
    session,  \* session[r]: the session's context, canceled with its lock
    nats,     \* Run of the JetStream consumer: [pc, signal, first]
    applied,  \* ghost: messages dispatched
    skipped,  \* ghost: messages skipped for their content
    qFaults

queues == <<qkind, ended, qctx, qmsg, lanes, session, nats, applied, skipped, qFaults>>

QIds == DOMAIN QMessages
Grouped == qkind \in {"sqs", "session"}
GroupOf(m) == QMessages[m].group
Answer(m) == ContentOf(qkind, QMessages[m].content)
Fault == qFaults < MaxQFaults /\ qFaults' = qFaults + 1

QInit ==
    /\ qkind \in QKinds /\ qctx = "new" /\ ended = {}
    /\ qmsg = [m \in QIds |-> "queued"]
    /\ lanes = [r \in Receivers |-> <<>>] /\ session = [r \in Receivers |-> FALSE]
    /\ nats = [pc |-> "start", signal |-> 0, first |-> TRUE]
    /\ applied = {} /\ skipped = {} /\ qFaults = 0

RunConsumer ==
    /\ qctx = "new" /\ qctx' = "live"
    /\ UNCHANGED <<qkind, ended, qmsg, lanes, session, nats, applied, skipped, qFaults>>

-----------------------------------------------------------------------------
(* Receiving                                                               *)

\* External: which messages one receive call may return.
GroupMates(m) == {n \in QIds : GroupOf(n) = GroupOf(m) /\ GroupOf(m) # "" /\ qmsg[n] # "deleted"}
Receivable(S) ==
    /\ S # {} /\ \A m \in S : qmsg[m] = "queued"
    /\ Grouped => \A m \in S : /\ \A n \in GroupMates(m) : qmsg[n] # "leased" /\ (n < m => n \in S)
    /\ qkind = "session" => Cardinality({GroupOf(m) : m \in S}) = 1
    /\ qkind = "nats" => Cardinality(S) = 1
    /\ qkind = "pubsub" => Cardinality(S) <= LaneLimit

\* processMessages partitions a batch: a lane for each group and for each
\* message without one; Azure works a batch off in its receive loop; the
\* JetStream library calls the handler for one message, Pub/Sub for many.
LaneKey(m) ==
    CASE qkind = "sqs" -> IF GroupOf(m) = "" THEN <<"", m>> ELSE <<GroupOf(m), 0>>
      [] qkind \in {"azure", "session"} -> <<"", 0>>
      [] OTHER -> <<"", m>>
\* A lane works its messages off in the order of the batch, which is that of
\* the queue.
LanesOf(S) ==
    [k \in {LaneKey(m) : m \in S} |->
        [todo |-> {m \in S : LaneKey(m) = k}, pc |-> IF qkind = "sqs" THEN "wait" ELSE "dispatch",
         retries |-> 0, done |-> {}]]
Current(lane) == CHOOSE m \in lane.todo : \A n \in lane.todo : m <= n

Receive(r) ==
    /\ qctx = "live" /\ lanes[r] = <<>> /\ r \notin ended /\ (qkind = "nats" => nats.pc = "consuming")
    /\ \E S \in SUBSET QIds :
        /\ Receivable(S)
        /\ qmsg' = [m \in QIds |-> IF m \in S THEN "leased" ELSE qmsg[m]]
        /\ lanes' = [lanes EXCEPT ![r] = LanesOf(S)]
    /\ session' = [session EXCEPT ![r] = (qkind = "session")]
    /\ UNCHANGED <<qkind, ended, qctx, nats, applied, skipped, qFaults>>

\* The others pause and receive again after an error; a failing sub.Receive of
\* Pub/Sub ends the goroutine of its subscription for good.
ReceiveFails(r) ==
    /\ qkind = "pubsub" /\ qctx = "live" /\ r \notin ended /\ ended' = ended \cup {r}
    /\ UNCHANGED <<qkind, qctx, qmsg, lanes, session, nats, applied, skipped, qFaults>>

\* The semaphore of processMessages of SQS.
StartLane(r, i) ==
    /\ lanes[r][i].pc = "wait"
    /\ Cardinality({j \in DOMAIN lanes[r] : lanes[r][j].pc \in {"dispatch", "backoff"}}) < LaneLimit
    /\ lanes' = [lanes EXCEPT ![r][i].pc = "dispatch"]
    /\ UNCHANGED <<qkind, ended, qctx, qmsg, session, nats, applied, skipped, qFaults>>

-----------------------------------------------------------------------------
(* Processing one message                                                  *)

\* The context the dispatch gets: the session's, or the one of Run.
Live(r) == qctx = "live" /\ (qkind = "session" => session[r])

NextOf(lane) ==
    LET rest == lane.todo \ {Current(lane)}
    IN  [lane EXCEPT !.todo = rest, !.retries = 0, !.pc = IF rest = {} THEN "done" ELSE "dispatch"]
Processed(lane) ==
    IF qkind = "sqs" THEN [NextOf(lane) EXCEPT !.done = @ \cup {Current(lane)}]
    ELSE [lane EXCEPT !.pc = "settle"]

\* A payload without channels, with properties that do not parse or with a
\* body that cannot be extracted counts as processed.
Skip(r, i) ==
    /\ lanes[r][i].pc = "dispatch" /\ Answer(Current(lanes[r][i])) = "skip"
    /\ lanes' = [lanes EXCEPT ![r][i] = Processed(@)]
    /\ skipped' = skipped \cup {Current(lanes[r][i])}
    /\ UNCHANGED <<qkind, ended, qctx, qmsg, session, nats, applied, qFaults>>

\* The delta property of a Service Bus message may be no string: nothing
\* recovers from the panic, and the process ends with all its lanes.
PanicOnDelta(r, i) ==
    /\ qkind \in {"azure", "session"} /\ lanes[r][i].pc = "dispatch"
    /\ AzurePanics(QMessages[Current(lanes[r][i])].content)
    /\ qctx' = "done" /\ lanes' = [q \in Receivers |-> <<>>]
    /\ UNCHANGED <<qkind, ended, qmsg, session, nats, applied, skipped, qFaults>>

\* DispatchPublication or DispatchCommand succeeds, maybe after retries and
\* also when the context has ended meanwhile.
Dispatch(r, i) ==
    /\ lanes[r][i].pc = "dispatch" /\ Answer(Current(lanes[r][i])) = "dispatch"
    /\ lanes' = [lanes EXCEPT ![r][i] = Processed(@)]
    /\ applied' = applied \cup {Current(lanes[r][i])}
    /\ UNCHANGED <<qkind, ended, qctx, qmsg, session, nats, skipped, qFaults>>

\* A group of SQS stops at its first failure.
Aborted(lane) == [lane EXCEPT !.pc = "done", !.todo = {}]

\* What a lane does with a dispatch that failed.
FailedLane(lane, live) ==
    CASE qkind = "sqs" ->
            IF ~live \/ lane.retries + 1 > SqsRetries THEN Aborted(lane)
            ELSE [lane EXCEPT !.pc = "backoff", !.retries = @ + 1]
      [] qkind \in {"azure", "session"} ->
            IF ~live \/ lane.retries >= AzureRetries THEN [lane EXCEPT !.pc = "settle"]
            ELSE [lane EXCEPT !.pc = "backoff", !.retries = @ + 1]
      [] OTHER -> [lane EXCEPT !.pc = "nak"]

DispatchFails(r, i) ==
    /\ lanes[r][i].pc = "dispatch" /\ Answer(Current(lanes[r][i])) = "dispatch"
    /\ IF Live(r) THEN Fault ELSE UNCHANGED qFaults
    /\ lanes' = [lanes EXCEPT ![r][i] = FailedLane(@, Live(r))]
    /\ UNCHANGED <<qkind, ended, qctx, qmsg, session, nats, applied, skipped>>

\* The backoff ends, or the context does: SQS gives the group up, Azure
\* leaves the message to its lease and goes on with the next one.
Backoff(r, i) ==
    /\ lanes[r][i].pc = "backoff"
    /\ \/ lanes' = [lanes EXCEPT ![r][i].pc = "dispatch"]
       \/ /\ ~Live(r)
          /\ lanes' = [lanes EXCEPT ![r][i] = IF qkind = "sqs" THEN Aborted(@) ELSE NextOf(@)]
    /\ UNCHANGED <<qkind, ended, qctx, qmsg, session, nats, applied, skipped, qFaults>>

-----------------------------------------------------------------------------
(* Settling                                                                *)

\* CompleteMessage, Ack: an error is logged and the lease runs out.
\* CompleteMessage gets the context of the dispatch and fails once that has
\* ended; Ack gets none.
CanSettle(r) == qkind \in {"azure", "session"} => Live(r)
Settle(r, i) ==
    /\ lanes[r][i].pc = "settle"
    /\ \/ /\ CanSettle(r) /\ UNCHANGED qFaults
          /\ qmsg' = [qmsg EXCEPT ![Current(lanes[r][i])] = "deleted"]
       \/ UNCHANGED qmsg /\ IF CanSettle(r) THEN Fault ELSE UNCHANGED qFaults
    /\ lanes' = [lanes EXCEPT ![r][i] = NextOf(@)]
    /\ UNCHANGED <<qkind, ended, qctx, session, nats, applied, skipped>>

NakMutant(r, i) ==
    /\ lanes[r][i].pc = "nak"
    /\ qmsg' = [qmsg EXCEPT ![Current(lanes[r][i])] = "deleted"]
    /\ lanes' = [lanes EXCEPT ![r][i] = NextOf(@)]
    /\ UNCHANGED <<qkind, ended, qctx, session, nats, applied, skipped, qFaults>>

\* Nak, Nack: the message is available again; an error is logged and the lease
\* runs out.
Nak(r, i) ==
    /\ lanes[r][i].pc = "nak"
    /\ \/ /\ qmsg' = [qmsg EXCEPT ![Current(lanes[r][i])] = IF @ = "leased" THEN "queued" ELSE @]
          /\ UNCHANGED qFaults
       \/ Fault /\ UNCHANGED qmsg
    /\ lanes' = [lanes EXCEPT ![r][i] = NextOf(@)]
    /\ UNCHANGED <<qkind, ended, qctx, session, nats, applied, skipped>>

\* The lanes of a batch have ended (wg.Wait): batchDeleteMessages deletes
\* what they processed, in batches that may fail, or for some entries.  The
\* receiver goes on.
FinishBatch(r) ==
    /\ lanes[r] # <<>> /\ \A i \in DOMAIN lanes[r] : lanes[r][i].pc = "done"
    /\ LET all == UNION {lanes[r][i].done : i \in DOMAIN lanes[r]}
       IN  \E gone \in SUBSET all :
            /\ qmsg' = [m \in QIds |-> IF m \in gone THEN "deleted" ELSE qmsg[m]]
            /\ IF gone = all THEN UNCHANGED qFaults ELSE Fault
    /\ lanes' = [lanes EXCEPT ![r] = <<>>]
    /\ UNCHANGED <<qkind, ended, qctx, session, nats, applied, skipped>>

\* External: a lease runs out, also the one of a message in the works.
Held(m) == \E r \in Receivers : \E i \in DOMAIN lanes[r] :
              m \in lanes[r][i].todo \cup lanes[r][i].done
LeaseExpires(m) ==
    /\ qmsg[m] = "leased" /\ qmsg' = [qmsg EXCEPT ![m] = "queued"]
    /\ IF Held(m) THEN Fault ELSE UNCHANGED qFaults
    /\ UNCHANGED <<qkind, ended, qctx, lanes, session, nats, applied, skipped>>

\* The renewal goroutine of a session finds the lock expired or cannot renew
\* it, and cancels the session.
SessionLost(r) ==
    /\ qkind = "session" /\ session[r] /\ lanes[r] # <<>> /\ Fault
    /\ session' = [session EXCEPT ![r] = FALSE]
    /\ UNCHANGED <<qkind, ended, qctx, qmsg, lanes, nats, applied, skipped>>

\* Every wait of the loops also selects on the context.
CancelRun ==
    /\ qctx = "live" /\ qctx' = "done"
    /\ nats' = IF qkind = "nats" THEN [nats EXCEPT !.pc = "stopped"] ELSE nats
    /\ UNCHANGED <<qkind, ended, qmsg, lanes, session, applied, skipped, qFaults>>

-----------------------------------------------------------------------------
(* Run of the JetStream consumer                                           *)

\* startConsume; on the first run its error is returned, later it leads to
\* another recreation after a pause.
StartConsume ==
    /\ qkind = "nats" /\ qctx = "live" /\ nats.pc = "start"
    /\ \/ nats' = [nats EXCEPT !.pc = "consuming", !.first = FALSE] /\ UNCHANGED qFaults
       \/ Fault /\ nats' = [nats EXCEPT !.pc = IF nats.first THEN "stopped" ELSE "create"]
    /\ UNCHANGED <<qkind, ended, qctx, qmsg, lanes, session, applied, skipped>>

\* errorHandler: triggerRecreation, whose channel holds one signal.  A
\* context already stopped may still report: a recreation too many.
NoHeartbeat ==
    /\ qkind = "nats" /\ nats.pc \in {"consuming", "create", "start"} /\ ~nats.first /\ Fault
    /\ nats' = [nats EXCEPT !.signal = 1, !.pc = IF @ = "consuming" THEN "deaf" ELSE @]
    /\ UNCHANGED <<qkind, ended, qctx, qmsg, lanes, session, applied, skipped>>

RecreateMutant ==
    /\ qkind = "nats" /\ qctx = "live"
    /\ \/ nats.pc \in {"consuming", "deaf"} /\ nats.signal = 1 /\ nats' = [nats EXCEPT !.signal = 0]
       \/ nats.pc = "create" /\ nats' = [nats EXCEPT !.pc = "start"]
    /\ UNCHANGED <<qkind, ended, qctx, qmsg, lanes, session, applied, skipped, qFaults>>

\* The signal is received: Stop, then createJetStreamConsumer, endlessly.
Recreate ==
    /\ qkind = "nats" /\ qctx = "live"
    /\ \/ /\ nats.pc \in {"consuming", "deaf"} /\ nats.signal = 1
          /\ nats' = [nats EXCEPT !.pc = "create", !.signal = 0]
       \/ nats.pc = "create" /\ nats' = [nats EXCEPT !.pc = "start"]
    /\ UNCHANGED <<qkind, ended, qctx, qmsg, lanes, session, applied, skipped, qFaults>>

QNext ==
    \/ RunConsumer \/ CancelRun \/ StartConsume \/ NoHeartbeat \/ Recreate
    \/ \E m \in QIds : LeaseExpires(m)
    \/ \E r \in Receivers :
        \/ Receive(r) \/ ReceiveFails(r) \/ FinishBatch(r) \/ SessionLost(r)
        \/ \E i \in DOMAIN lanes[r] :
            \/ StartLane(r, i) \/ Skip(r, i) \/ PanicOnDelta(r, i) \/ Dispatch(r, i) \/ DispatchFails(r, i)
            \/ Backoff(r, i) \/ Settle(r, i) \/ Nak(r, i)

\* Goroutines and the queue make progress; faults are what is bounded.
LaneStep(r) ==
    \E i \in DOMAIN lanes[r] : StartLane(r, i) \/ Skip(r, i) \/ Dispatch(r, i) \/ Backoff(r, i)
                               \/ Settle(r, i) \/ Nak(r, i)
QFairness ==
    /\ \A r \in Receivers : WF_queues(Receive(r) \/ LaneStep(r) \/ FinishBatch(r))
    /\ \A m \in QIds : WF_queues(LeaseExpires(m) /\ ~Held(m))
    /\ WF_queues(StartConsume \/ Recreate)

QSpec == QInit /\ [][QNext]_queues /\ QFairness

-----------------------------------------------------------------------------
(* Properties                                                              *)

\* Nothing leaves the queue that was neither dispatched nor skipped: leases
\* that expire, failures and a shutdown in the middle lose no message.  The
\* Service Bus consumer is left out: see AbandonedIsKept.
SettledWasProcessed ==
    qkind \notin {"azure", "session"} =>
        \A m \in QIds : qmsg[m] = "deleted" => m \in applied \cup skipped

\* What the Service Bus consumer says of a message it gives up ("max retries
\* reached or context canceled; abandoning message"): an abandoned message
\* stays in the queue.
AbandonedIsKept ==
    qkind \in {"azure", "session"} =>
        \A m \in QIds : qmsg[m] = "deleted" => m \in applied \cup skipped

\* A FIFO group of SQS is applied in order, whoever works on it: no message
\* before all its predecessors, although batches abort, leases expire and a
\* second receiver takes over.
GroupInOrder ==
    qkind = "sqs" => \A m \in applied : \A n \in QIds :
        (GroupOf(n) = GroupOf(m) /\ GroupOf(m) # "" /\ n < m) => n \in applied \cup skipped

\* Nothing is lost, and a FIFO group keeps its order.
QueueSafe == SettledWasProcessed /\ GroupInOrder

\* While the consumer runs the queue gets empty: every message is settled in
\* the end, through failed dispatches and calls, lost heartbeats and leases that
\* expired, as long as one receiver is left: those of Pub/Sub give up, one
\* after the other, when they cannot receive.
QueueDrains ==
    []<>(qctx = "live" => \/ nats.pc = "stopped" \/ ended = Receivers
                          \/ \A m \in QIds : qmsg[m] = "deleted")

\* A hosted queue is a queue of commands: a message is processed by its
\* dispatch or by being skipped, and settled by its deletion (that of the
\* Service Bus consumer aside: see AbandonedIsKept).
QueueCommands ==
    INSTANCE CommandQueue WITH
        sent <- QIds, done <- applied \cup skipped,
        settled <- {m \in QIds : qmsg[m] = "deleted" /\ qkind \notin {"azure", "session"}}

\* The consumers implement that queue: what is deleted was processed before
\* and is not handed out again, whichever leases expire.
QueueImplementsQueue == QueueCommands!Spec

\* What the senders rely on: each message is processed in the end, and none is
\* deleted before.
QueueWorks == QueueDrains /\ QueueImplementsQueue
=============================================================================
