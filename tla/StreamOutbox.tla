---------------------------- MODULE StreamOutbox ----------------------------
(***************************************************************************)
(* The transactional outbox of the PostgreSQL stream broker: SQL           *)
(* transactions append rows to the stream table, and on every Centrifugo   *)
(* node one outbox worker per shard polls the table past a cursor and      *)
(* dispatches the rows to local subscribers.                               *)
(*                                                                         *)
(* What makes this hard: ids come from a sequence (BIGSERIAL), so an id is *)
(* taken before the transaction that carries it becomes visible.  A worker *)
(* that saw id 6 before id 5 committed would move its cursor past 5 and    *)
(* never deliver it.  The code prevents this with one lock row per shard.  *)
(*                                                                         *)
(* The outcome of a publish (idempotency, versions, expiry) is the subject *)
(* of StreamPublish; here a publish either appends a row or is suppressed. *)
(* Waking an idle worker is the subject of OutboxNotify; here an idle      *)
(* worker is woken by something, at the latest by its poll timer.          *)
(***************************************************************************)
EXTENDS Integers, FiniteSets

CONSTANTS
    NumShards,    \* conf.NumShards: shard_lock rows, and workers per node
    NumReplicas,  \* len(readPools); 0: the workers poll the primary
    Channels,
    ShardOf,      \* abs(hashtext(channel)) % NumShards
    Sessions,     \* database sessions that publish (broker or application)
    Nodes,        \* Centrifugo nodes
    BatchSize,    \* conf.Outbox.BatchSize
    MaxId,        \* bound: ids the sequence hands out
    MaxTxRows,    \* bound: rows one transaction appends
    MaxRemoves,   \* bound: RemoveHistory calls
    MaxCrashes    \* bound: node stops

Shards == 0 .. NumShards - 1

\* Publications, and the join and leave events that share the table.
Kinds == {"pub", "event"}

NoCall == [op |-> "none"]

ASSUME ShardsAssumption == NumShards \in Nat \ {0} /\ NumReplicas \in Nat
ASSUME ShardOfAssumption == ShardOf \in [Channels -> Shards]
ASSUME BoundsAssumption ==
    /\ BatchSize \in Nat \ {0}
    /\ MaxId \in Nat /\ MaxTxRows \in Nat
    /\ MaxRemoves \in Nat /\ MaxCrashes \in Nat

VARIABLES
    seq,        \* last id taken from the BIGSERIAL sequence
    lsn,        \* position of the last commit in the write-ahead log
    log,        \* rows ever committed to the stream table (append only)
    wipes,      \* committed RemoveHistory deletes
    top,        \* meta.top_offset per channel
    tx,         \* open transaction of each session
    applied,    \* commit position each replica has replayed
    up,         \* nodes whose broker is running
    start,      \* cursor a node registered with
    since,      \* history variable: commit position at registration
    cursor,     \* per node and worker
    pc,         \* per node and worker: poll, dispatch or idle
    progress,   \* per node and worker: this drain has delivered something
    batch,      \* rows fetched and not yet dispatched
    delivered,  \* rows dispatched on a node since it registered
    crashes     \* number of node stops so far

dbVars   == <<seq, lsn, log, wipes, top, tx, applied>>
nodeVars == <<up, start, since, cursor, pc, progress, batch, delivered, crashes>>
streamOutbox     == <<seq, lsn, log, wipes, top, tx, applied,
              up, start, since, cursor, pc, progress, batch, delivered, crashes>>

Draft == [id: Nat, shard: Shards, ch: Channels, kind: Kinds, off: Nat]
Row   == [id: Nat, shard: Shards, ch: Channels, kind: Kinds, off: Nat, lsn: Nat]
Call  == [op: Kinds, ch: Channels] \cup {NoCall}
Idle  == [locks |-> {}, rows |-> {}, call |-> NoCall]

-----------------------------------------------------------------------------
(* The database: snapshots and locks.                                      *)

\* A publication is gone from a snapshot once a later wipe of its channel is
\* in that snapshot; events are never wiped.
WipedBy(r, position) ==
    \E w \in wipes : /\ r.kind = "pub"
                     /\ w.ch = r.ch
                     /\ r.lsn < w.lsn
                     /\ w.lsn <= position

\* Rows a reader sees when everything up to a commit position is applied.
Snapshot(position) ==
    {r \in log : r.lsn <= position /\ ~WipedBy(r, position)}

\* The pool of worker w: the primary, or one of the read replicas.
PoolPosition(w) ==
    IF NumReplicas = 0 THEN lsn ELSE applied[w % NumReplicas]

LockFreeMutant(sh, p) == TRUE

LockFree(sh, p) == \A q \in Sessions \ {p} : sh \notin tx[q].locks

\* SELECT COALESCE(MAX(id), 0) FROM stream, on the primary, over all shards.
MaxCommittedId(c) ==
    \/ c = 0 /\ Snapshot(lsn) = {}
    \/ \E r \in Snapshot(lsn) : /\ c = r.id
                                /\ \A q \in Snapshot(lsn) : q.id <= c

-----------------------------------------------------------------------------
(* Sessions: publish, publish_join and publish_leave inside a transaction. *)

\* The call starts and obtains the lock row of its shard (FOR UPDATE); the
\* lock is kept until the transaction ends.
CallPublish(p, ch, kind) ==
    /\ tx[p].call = NoCall
    /\ Cardinality(tx[p].rows) < MaxTxRows
    /\ seq < MaxId
    /\ LockFree(ShardOf[ch], p)
    /\ tx' = [tx EXCEPT ![p] = [locks |-> @.locks \cup {ShardOf[ch]},
                                rows |-> @.rows,
                                call |-> [op |-> kind, ch |-> ch]]]
    /\ UNCHANGED <<seq, lsn, log, wipes, top, applied, nodeVars>>

\* top_offset + 1 as the transaction sees it; events carry offset 0.
NextOffset(p, ch, kind) ==
    IF kind # "pub" THEN 0
    ELSE top[ch] + 1 + Cardinality({d \in tx[p].rows : d.ch = ch /\ d.kind = "pub"})

\* The insert takes the next id from the sequence.
Insert(p) ==
    LET c == tx[p].call
        d == [id |-> seq + 1, shard |-> ShardOf[c.ch], ch |-> c.ch,
              kind |-> c.op, off |-> NextOffset(p, c.ch, c.op)]
    IN  /\ c # NoCall
        /\ seq < MaxId
        /\ seq' = seq + 1
        /\ tx' = [tx EXCEPT ![p] = [locks |-> @.locks, rows |-> @.rows \cup {d},
                                    call |-> NoCall]]
        /\ UNCHANGED <<lsn, log, wipes, top, applied, nodeVars>>

\* A publication with a known idempotency key or a stale version returns
\* early: no row, no id, but the lock stays until the transaction ends.
Suppress(p) ==
    /\ tx[p].call # NoCall
    /\ tx[p].call.op = "pub"
    /\ tx' = [tx EXCEPT ![p] = [locks |-> @.locks, rows |-> @.rows, call |-> NoCall]]
    /\ UNCHANGED <<seq, lsn, log, wipes, top, applied, nodeVars>>

PublishedIn(p, ch) == {d \in tx[p].rows : d.ch = ch /\ d.kind = "pub"}

Commit(p) ==
    /\ tx[p].call = NoCall
    /\ tx[p].rows # {}
    /\ lsn' = lsn + 1
    /\ log' = log \cup
         {[id |-> d.id, shard |-> d.shard, ch |-> d.ch, kind |-> d.kind,
           off |-> d.off, lsn |-> lsn + 1] : d \in tx[p].rows}
    /\ top' = [ch \in Channels |-> top[ch] + Cardinality(PublishedIn(p, ch))]
    /\ tx' = [tx EXCEPT ![p] = Idle]
    /\ UNCHANGED <<seq, wipes, applied, nodeVars>>

\* Rollback, deadlock victim or lost session: rows vanish, ids are not reused.
Rollback(p) ==
    /\ tx[p] # Idle
    /\ tx' = [tx EXCEPT ![p] = Idle]
    /\ UNCHANGED <<seq, lsn, log, wipes, top, applied, nodeVars>>

\* RemoveHistory: a transaction of its own that takes the shard lock and
\* deletes the publications of the channel.
RemoveHistory(ch) ==
    /\ \A q \in Sessions : ShardOf[ch] \notin tx[q].locks
    /\ Cardinality(wipes) < MaxRemoves
    /\ lsn' = lsn + 1
    /\ wipes' = wipes \cup {[ch |-> ch, lsn |-> lsn + 1]}
    /\ UNCHANGED <<seq, log, top, tx, applied, nodeVars>>

\* Streaming replication replays commits in commit order.
Replicate(k) ==
    /\ applied[k] < lsn
    /\ applied' = [applied EXCEPT ![k] = @ + 1]
    /\ UNCHANGED <<seq, lsn, log, wipes, top, tx, nodeVars>>

-----------------------------------------------------------------------------
(* Nodes: registration, the drain loop of pgoutbox.Worker, and shutdown.   *)

\* The cursor is read once, from the primary, before the workers start; if
\* the read fails the workers start at 0.
RegisterBrokerEventHandler(n) ==
    /\ n \notin up
    /\ up' = up \cup {n}
    /\ \E c \in 0 .. seq :
         /\ MaxCommittedId(c) \/ c = 0
         /\ start' = [start EXCEPT ![n] = c]
         /\ cursor' = [cursor EXCEPT ![n] = [w \in Shards |-> c]]
    /\ since' = [since EXCEPT ![n] = lsn]
    /\ pc' = [pc EXCEPT ![n] = [w \in Shards |-> "poll"]]
    /\ progress' = [progress EXCEPT ![n] = [w \in Shards |-> FALSE]]
    /\ batch' = [batch EXCEPT ![n] = [w \in Shards |-> {}]]
    /\ delivered' = [delivered EXCEPT ![n] = {}]
    /\ UNCHANGED <<crashes, dbVars>>

\* WHERE id > cursor AND shard_id = w
Pending(n, w) ==
    {r \in Snapshot(PoolPosition(w)) : r.shard = w /\ r.id > cursor[n][w]}

FirstRowsMutant(rows) ==
    {r \in rows : Cardinality({q \in rows : q.id > r.id}) < BatchSize}

\* ORDER BY id LIMIT BatchSize
FirstRows(rows) ==
    {r \in rows : Cardinality({q \in rows : q.id < r.id}) < BatchSize}

\* A batch query with at least one row.
Fetch(n, w) ==
    /\ n \in up
    /\ pc[n][w] = "poll"
    /\ Pending(n, w) # {}
    /\ batch' = [batch EXCEPT ![n][w] = FirstRows(Pending(n, w))]
    /\ pc' = [pc EXCEPT ![n][w] = "dispatch"]
    /\ UNCHANGED <<up, start, since, cursor, progress, delivered, crashes, dbVars>>

\* An empty result or a query error ends the drain: poll again at once if the
\* drain made progress, otherwise wait.
EndDrain(n, w) ==
    /\ n \in up
    /\ pc[n][w] = "poll"
    /\ pc' = [pc EXCEPT ![n][w] = IF progress[n][w] THEN "poll" ELSE "idle"]
    /\ progress' = [progress EXCEPT ![n][w] = FALSE]
    /\ UNCHANGED <<up, start, since, cursor, batch, delivered, crashes, dbVars>>

FetchEmpty(n, w) == Pending(n, w) = {} /\ EndDrain(n, w)

FetchError(n, w) == EndDrain(n, w)

DispatchMutant(n, w) ==
    /\ n \in up
    /\ pc[n][w] = "dispatch"
    /\ \E r, last \in batch[n][w] :
         /\ \A q \in batch[n][w] : r.id <= q.id /\ q.id <= last.id
         /\ delivered' = [delivered EXCEPT ![n] = @ \cup {r}]
         /\ batch' = [batch EXCEPT ![n][w] = @ \ {r}]
         /\ cursor' = [cursor EXCEPT ![n][w] = last.id]
         /\ IF batch[n][w] = {r}
            THEN /\ pc' = [pc EXCEPT ![n][w] = "poll"]
                 /\ progress' = [progress EXCEPT ![n][w] = TRUE]
            ELSE UNCHANGED <<pc, progress>>
    /\ UNCHANGED <<up, start, since, crashes, dbVars>>

\* Rows of the batch are handed to the event handler in id order; handler
\* errors are only logged.  The cursor moves when the whole batch is done.
Dispatch(n, w) ==
    /\ n \in up
    /\ pc[n][w] = "dispatch"
    /\ \E r \in batch[n][w] :
         /\ \A q \in batch[n][w] : r.id <= q.id
         /\ delivered' = [delivered EXCEPT ![n] = @ \cup {r}]
         /\ batch' = [batch EXCEPT ![n][w] = @ \ {r}]
         /\ IF batch[n][w] = {r}
            THEN /\ cursor' = [cursor EXCEPT ![n][w] = r.id]
                 /\ pc' = [pc EXCEPT ![n][w] = "poll"]
                 /\ progress' = [progress EXCEPT ![n][w] = TRUE]
            ELSE UNCHANGED <<cursor, pc, progress>>
    /\ UNCHANGED <<up, start, since, crashes, dbVars>>

WakeMutant(n, w) == FALSE /\ UNCHANGED streamOutbox

\* A notification or the poll timer ends the idle wait.
Wake(n, w) ==
    /\ n \in up
    /\ pc[n][w] = "idle"
    /\ pc' = [pc EXCEPT ![n][w] = "poll"]
    /\ UNCHANGED <<up, start, since, cursor, progress, batch, delivered, crashes, dbVars>>

\* Close or a crash: the node's workers and subscribers are gone.
Stop(n) ==
    /\ n \in up
    /\ crashes < MaxCrashes
    /\ crashes' = crashes + 1
    /\ up' = up \ {n}
    /\ start' = [start EXCEPT ![n] = 0]
    /\ since' = [since EXCEPT ![n] = 0]
    /\ cursor' = [cursor EXCEPT ![n] = [w \in Shards |-> 0]]
    /\ pc' = [pc EXCEPT ![n] = [w \in Shards |-> "idle"]]
    /\ progress' = [progress EXCEPT ![n] = [w \in Shards |-> FALSE]]
    /\ batch' = [batch EXCEPT ![n] = [w \in Shards |-> {}]]
    /\ delivered' = [delivered EXCEPT ![n] = {}]
    /\ UNCHANGED dbVars

-----------------------------------------------------------------------------
StreamOutboxInit ==
    /\ seq = 0 /\ lsn = 0 /\ log = {} /\ wipes = {}
    /\ top = [ch \in Channels |-> 0]
    /\ tx = [p \in Sessions |-> Idle]
    /\ applied = [k \in 0 .. NumReplicas - 1 |-> 0]
    /\ up = {}
    /\ start = [n \in Nodes |-> 0]
    /\ since = [n \in Nodes |-> 0]
    /\ cursor = [n \in Nodes |-> [w \in Shards |-> 0]]
    /\ pc = [n \in Nodes |-> [w \in Shards |-> "idle"]]
    /\ progress = [n \in Nodes |-> [w \in Shards |-> FALSE]]
    /\ batch = [n \in Nodes |-> [w \in Shards |-> {}]]
    /\ delivered = [n \in Nodes |-> {}]
    /\ crashes = 0

SessionNext(p) ==
    \/ \E ch \in Channels, kind \in Kinds : CallPublish(p, ch, kind)
    \/ Insert(p)
    \/ Suppress(p)
    \/ Commit(p)
    \/ Rollback(p)

WorkerNext(n, w) ==
    Fetch(n, w) \/ FetchEmpty(n, w) \/ FetchError(n, w) \/ Dispatch(n, w) \/ Wake(n, w)

StreamOutboxNext ==
    \/ \E p \in Sessions : SessionNext(p)
    \/ \E ch \in Channels : RemoveHistory(ch)
    \/ \E k \in 0 .. NumReplicas - 1 : Replicate(k)
    \/ \E n \in Nodes : RegisterBrokerEventHandler(n) \/ Stop(n)
    \/ \E n \in Nodes, w \in Shards : WorkerNext(n, w)

StreamOutboxSpec == StreamOutboxInit /\ [][StreamOutboxNext]_streamOutbox

-----------------------------------------------------------------------------
(* Properties.                                                             *)

\* Every variable keeps its type.
OutboxTypeOK ==
    /\ seq \in Nat /\ lsn \in Nat /\ crashes \in Nat
    /\ log \subseteq Row
    /\ wipes \subseteq [ch: Channels, lsn: Nat]
    /\ top \in [Channels -> Nat]
    /\ tx \in [Sessions -> [locks: SUBSET Shards, rows: SUBSET Draft, call: Call]]
    /\ applied \in [0 .. NumReplicas - 1 -> Nat]
    /\ up \subseteq Nodes
    /\ start \in [Nodes -> Nat]
    /\ since \in [Nodes -> Nat]
    /\ cursor \in [Nodes -> [Shards -> Nat]]
    /\ pc \in [Nodes -> [Shards -> {"poll", "dispatch", "idle"}]]
    /\ progress \in [Nodes -> [Shards -> BOOLEAN]]
    /\ batch \in [Nodes -> [Shards -> SUBSET Row]]
    /\ delivered \in [Nodes -> SUBSET Row]

\* Within a shard, rows become visible in id order: of two rows of a shard the
\* one with the smaller id was committed no later (the shard lock of publish).
CommitOrderIsIdOrder ==
    \A r, q \in log : r.shard = q.shard /\ r.id < q.id => r.lsn <= q.lsn

\* A worker's cursor never passes a row it did not dispatch: every committed
\* row of the shard between the registration cursor and the worker's cursor
\* was dispatched on the node, unless RemoveHistory deleted it.
NoSkippedRow ==
    \A n \in up : \A r \in log :
        /\ start[n] < r.id
        /\ r.id <= cursor[n][r.shard]
        => r \in delivered[n] \/ WipedBy(r, lsn)

\* Subscribers of a channel see its publications without holes: between two
\* offsets dispatched on a node, every offset was dispatched or wiped.
NoOffsetGap ==
    \A n \in up : \A r, q \in delivered[n] :
        r.ch = q.ch /\ r.kind = "pub" /\ q.kind = "pub" =>
            \A o \in r.off .. q.off :
                \E m \in log : /\ m.ch = r.ch /\ m.kind = "pub" /\ m.off = o
                               /\ m \in delivered[n] \/ WipedBy(m, lsn)

\* The order of the outbox: typed rows, ids in commit order, offsets without
\* holes, under any interleaving of sessions, replicas, workers and crashes.
OutboxSafe == OutboxTypeOK /\ CommitOrderIsIdOrder /\ NoOffsetGap

\* No row committed past the registration cursor of a running node waits for
\* ever: it is dispatched there or wiped, or the node stops.
EventuallyDispatched ==
    \A n \in Nodes, i \in 1 .. MaxId :
        []<>(n \in up => \A r \in log : r.id = i /\ r.id > start[n] =>
                             r \in delivered[n] \/ WipedBy(r, lsn))

\* "any message published after RegisterBrokerEventHandler returns is
\* guaranteed to be delivered": a row committed after a node registered is
\* never at or behind the cursor of its worker without having been dispatched.
CommittedSinceRegisterNotLost ==
    \A n \in up : \A r \in log :
        since[n] < r.lsn =>
            \/ r.id > cursor[n][r.shard]
            \/ r \in delivered[n]
            \/ WipedBy(r, lsn)

-----------------------------------------------------------------------------
(* What a node's subscribers may rely on, stated without sessions, locks,  *)
(* replicas, cursors and batches.                                          *)
Feed == INSTANCE OutboxFeed
          WITH gone <- {r \in log : WipedBy(r, lsn)}, from <- start, got <- delivered

\* The outbox implements the abstract feed of every node.
ImplementsFeed == Feed!Spec
=============================================================================
