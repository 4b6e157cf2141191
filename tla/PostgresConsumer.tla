--------------------------- MODULE PostgresConsumer ---------------------------
(***************************************************************************)
(* The PostgreSQL outbox consumer: the workers of one partition, one per   *)
(* node.  A worker takes the advisory lock of the partition inside a       *)
(* transaction, selects the first rows by id, dispatches them one by one,  *)
(* deletes what it dispatched and commits.  The application inserts rows   *)
(* with ids it takes early and commits late, in any order.  Time is left   *)
(* out, so the trigger channels fed by LISTEN, which only shorten the wait *)
(* for the poll interval, are part of Wake.                                *)
(***************************************************************************)
EXTENDS Naturals, FiniteSets

CONSTANTS
    ConsumerNodes,
    NoNode,
    UseTryLock,            \* try the lock and wait, or queue for it
    PartitionSelectLimit,
    MaxMessages,                 \* bound: rows inserted
    MaxConsumerFaults              \* bound: errors of the database and of the dispatcher

ASSUME PostgresAssumption ==
    /\ NoNode \notin ConsumerNodes
    /\ UseTryLock \in BOOLEAN
    /\ PartitionSelectLimit \in Nat \ {0}
    /\ MaxMessages \in Nat /\ MaxConsumerFaults \in Nat

VARIABLES
    nextId,      \* the sequence of the id column
    inserting,   \* ids of open application transactions
    consumerRows,        \* ids of the visible rows of the partition
    deleted,     \* history variable: rows deleted by committed transactions
    dispatched,  \* history variable: rows whose dispatch took effect
    lock,        \* node whose transaction holds the advisory lock
    consumerPc,          \* worker: "begin", "select", "dispatch", "commit",
                 \*         "wait", "backoff", "stopped"
    events,      \* rows selected and not dispatched yet
    ids,         \* idsToDelete
    consumerFaults

tableVars == <<nextId, inserting, consumerRows, deleted>>
consumerVars == <<tableVars, dispatched, lock, consumerPc, events, ids, consumerFaults>>

Ids == 1 .. MaxMessages
ConsumerFault == consumerFaults < MaxConsumerFaults /\ consumerFaults' = consumerFaults + 1
ConsumerGoto(w, l) == consumerPc' = [consumerPc EXCEPT ![w] = l]

-----------------------------------------------------------------------------
(* The application.                                                        *)

InsertMessage ==
    /\ nextId <= MaxMessages
    /\ nextId' = nextId + 1
    /\ inserting' = inserting \cup {nextId}
    /\ UNCHANGED <<consumerRows, deleted, dispatched, lock, consumerPc, events, ids, consumerFaults>>

EndInsert(i) ==
    /\ i \in inserting
    /\ inserting' = inserting \ {i}
    /\ consumerRows' \in {consumerRows, consumerRows \cup {i}}
    /\ UNCHANGED <<nextId, deleted, dispatched, lock, consumerPc, events, ids, consumerFaults>>

-----------------------------------------------------------------------------
(* processOnce.                                                            *)

\* The transaction ends: its lock is free and its rows are forgotten.
EndTx(w) ==
    /\ lock' = IF lock = w THEN NoNode ELSE lock
    /\ events' = [events EXCEPT ![w] = {}]
    /\ ids' = [ids EXCEPT ![w] = {}]

\* pg_advisory_xact_lock, or pg_try_advisory_xact_lock that succeeds.
TakeLock(w) ==
    /\ consumerPc[w] = "begin" /\ lock = NoNode
    /\ lock' = w
    /\ ConsumerGoto(w, "select")
    /\ UNCHANGED <<tableVars, dispatched, events, ids, consumerFaults>>

\* ErrLockNotAcquired.
LockNotAcquired(w) ==
    /\ UseTryLock
    /\ consumerPc[w] = "begin" /\ lock # NoNode
    /\ ConsumerGoto(w, "wait")
    /\ UNCHANGED <<tableVars, dispatched, lock, events, ids, consumerFaults>>

\* The first rows of the partition by id.
SelectRows == {i \in consumerRows : Cardinality({j \in consumerRows : j <= i}) <= PartitionSelectLimit}

Select(w) ==
    /\ consumerPc[w] = "select" /\ lock = w
    /\ events' = [events EXCEPT ![w] = SelectRows]
    /\ ConsumerGoto(w, "dispatch")
    /\ UNCHANGED <<tableVars, dispatched, lock, ids, consumerFaults>>

\* DispatchCommand succeeds for the next event.
DispatchMessage(w) ==
    /\ consumerPc[w] = "dispatch"
    /\ \E i \in events[w] :
         /\ \A j \in events[w] : i <= j
         /\ dispatched' = dispatched \cup {i}
         /\ ids' = [ids EXCEPT ![w] = @ \cup {i}]
         /\ events' = [events EXCEPT ![w] = @ \ {i}]
    /\ UNCHANGED <<tableVars, lock, consumerPc, consumerFaults>>

\* It fails, with or without effect: the loop breaks with dispatchErr set,
\* which is what the events left in the list stand for.
DispatchError(w) ==
    /\ consumerPc[w] = "dispatch"
    /\ ConsumerFault
    /\ \E i \in events[w] :
         /\ \A j \in events[w] : i <= j
         /\ dispatched' \in {dispatched, dispatched \cup {i}}
    /\ ConsumerGoto(w, "commit")
    /\ UNCHANGED <<tableVars, lock, events, ids>>

DispatchedAll(w) ==
    /\ consumerPc[w] = "dispatch" /\ events[w] = {}
    /\ ConsumerGoto(w, "commit")
    /\ UNCHANGED <<tableVars, dispatched, lock, events, ids, consumerFaults>>

\* Back off after a dispatch error, wait when fewer rows than the limit were
\* processed, otherwise go on at once.
AfterCommit(w) ==
    CASE events[w] # {} -> "backoff"
      [] events[w] = {} /\ Cardinality(ids[w]) < PartitionSelectLimit -> "wait"
      [] OTHER -> "begin"

CommitMutant2(w) ==
    /\ consumerPc[w] = "commit" /\ lock = w
    /\ consumerRows' = consumerRows \ (ids[w] \cup events[w])
    /\ deleted' = deleted \cup ids[w] \cup events[w]
    /\ ConsumerGoto(w, AfterCommit(w))
    /\ EndTx(w)
    /\ UNCHANGED <<nextId, inserting, dispatched, consumerFaults>>

\* DELETE and COMMIT.
CommitTx(w) ==
    /\ consumerPc[w] = "commit" /\ lock = w
    /\ consumerRows' = consumerRows \ ids[w]
    /\ deleted' = deleted \cup ids[w]
    /\ ConsumerGoto(w, AfterCommit(w))
    /\ EndTx(w)
    /\ UNCHANGED <<nextId, inserting, dispatched, consumerFaults>>

\* The commit is done and its answer is lost.
CommitUnknown(w) ==
    /\ consumerPc[w] = "commit" /\ lock = w
    /\ ConsumerFault
    /\ consumerRows' = consumerRows \ ids[w]
    /\ deleted' = deleted \cup ids[w]
    /\ ConsumerGoto(w, "backoff")
    /\ EndTx(w)
    /\ UNCHANGED <<nextId, inserting, dispatched>>

\* A statement fails and the transaction is rolled back.
StatementError(w) ==
    /\ consumerPc[w] \in {"begin", "select", "commit"}
    /\ ConsumerFault
    /\ ConsumerGoto(w, "backoff")
    /\ EndTx(w)
    /\ UNCHANGED <<tableVars, dispatched>>

\* The server ends the session, and with it the lock, under the worker.
ConsumerSessionEnds(w) ==
    /\ lock = w
    /\ ConsumerFault
    /\ lock' = NoNode
    /\ UNCHANGED <<tableVars, dispatched, consumerPc, events, ids>>

\* The next statement of a worker whose session ended fails.
FindOut(w) ==
    /\ consumerPc[w] \in {"select", "commit"} /\ lock # w
    /\ ConsumerGoto(w, "backoff")
    /\ EndTx(w)
    /\ UNCHANGED <<tableVars, dispatched, consumerFaults>>

-----------------------------------------------------------------------------
(* Run.                                                                    *)

WakeConsumerMutant(w) ==
    /\ consumerPc[w] \in {"wait", "backoff"}
    /\ ConsumerGoto(w, IF consumerPc[w] = "wait" THEN "begin" ELSE "backoff")
    /\ UNCHANGED <<tableVars, dispatched, lock, events, ids, consumerFaults>>

\* The poll interval or a notification ends the wait, the backoff is over.
WakeConsumer(w) ==
    /\ consumerPc[w] \in {"wait", "backoff"}
    /\ ConsumerGoto(w, "begin")
    /\ UNCHANGED <<tableVars, dispatched, lock, events, ids, consumerFaults>>

\* The context is cancelled, some other node goes on.
StopConsumer(w) ==
    /\ consumerPc[w] # "stopped"
    /\ \E v \in ConsumerNodes \ {w} : consumerPc[v] # "stopped"
    /\ ConsumerGoto(w, "stopped")
    /\ EndTx(w)
    /\ UNCHANGED <<tableVars, dispatched, consumerFaults>>

-----------------------------------------------------------------------------
ConsumerInit ==
    /\ nextId = 1 /\ inserting = {} /\ consumerRows = {} /\ deleted = {}
    /\ dispatched = {} /\ lock = NoNode /\ consumerFaults = 0
    /\ consumerPc = [w \in ConsumerNodes |-> "begin"]
    /\ events = [w \in ConsumerNodes |-> {}]
    /\ ids = [w \in ConsumerNodes |-> {}]

WorkerStep(w) ==
    \/ TakeLock(w) \/ LockNotAcquired(w) \/ Select(w) \/ DispatchMessage(w) \/ DispatchedAll(w)
    \/ CommitTx(w) \/ FindOut(w) \/ WakeConsumer(w)

ConsumerNext ==
    \/ InsertMessage
    \/ \E i \in Ids : EndInsert(i)
    \/ \E w \in ConsumerNodes :
         \/ WorkerStep(w) \/ DispatchError(w) \/ CommitUnknown(w) \/ StatementError(w)
         \/ ConsumerSessionEnds(w) \/ StopConsumer(w)

ConsumerSpec == ConsumerInit /\ [][ConsumerNext]_consumerVars

-----------------------------------------------------------------------------
(* Properties.                                                             *)

\* Every variable keeps its type, and an id is in one place.
ConsumerTypeOK ==
    /\ nextId \in 1 .. MaxMessages + 1 /\ consumerFaults \in 0 .. MaxConsumerFaults
    /\ inserting \subseteq Ids /\ consumerRows \subseteq Ids \ inserting
    /\ deleted \subseteq Ids \ (inserting \cup consumerRows) /\ dispatched \subseteq Ids
    /\ \A i \in inserting \cup consumerRows \cup deleted : i < nextId
    /\ lock \in ConsumerNodes \cup {NoNode}
    /\ consumerPc \in [ConsumerNodes -> {"begin", "select", "dispatch", "commit", "wait", "backoff", "stopped"}]
    /\ events \in [ConsumerNodes -> SUBSET Ids] /\ ids \in [ConsumerNodes -> SUBSET Ids]

\* A row leaves the table only after it was dispatched, whatever fails between
\* the dispatch and the commit.
DeletedWasDispatched == deleted \subseteq dispatched

\* "This allows us to process all the rows from partition in order": what the
\* holder of the lock has selected is still in the table, so a row deleted by
\* another node is dispatched again only by a worker whose session has ended.
HolderIsFresh ==
    \A w \in ConsumerNodes : lock = w => events[w] \cup ids[w] \subseteq consumerRows

\* At least once and in order: nothing is deleted unseen, nothing is read stale
\* under the lock.
ConsumerSafe == ConsumerTypeOK /\ DeletedWasDispatched /\ HolderIsFresh

\* There is no cursor: no row stays for ever, even if it became visible after
\* rows with larger ids were deleted.
EveryRowProcessed == \A i \in Ids : []<>(i \notin consumerRows)

\* The table is a queue of commands: a row is sent when its insert is visible
\* and settled when the transaction that deletes it commits.
ConsumerCommands ==
    INSTANCE CommandQueue WITH sent <- consumerRows \cup deleted, done <- dispatched, settled <- deleted

\* The workers implement that queue, whichever of their sessions end.
ConsumerImplementsQueue == ConsumerCommands!Spec

\* What the application relies on: each of its rows is processed in the end,
\* and none is deleted before.
ConsumerWorks == EveryRowProcessed /\ ConsumerImplementsQueue
=============================================================================
