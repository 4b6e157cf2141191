# A verification project for Centrifugo

Centrifugo is a real-time messaging server: clients connect over WebSocket and
other transports, subscribe to channels, and receive what backends publish
through the server API, consumers or other clients. Most of the fan-out logic
lives in the `centrifuge` library, which is not part of this repository. What
this repository adds, and what this project verifies, is what surrounds it: the
PostgreSQL brokers and controller with their SQL functions, workers, schema and
pools; the consumers that take commands from queues; the rules and proxies that
decide what a client may do; tokens and keys; the server API; the transports;
and the process that starts, reloads and stops all of it.

The modules are TLA+; TLC checks small instances (the `.cfg` files) and TLAPS
proves the theorems of the `*_proofs` modules for every value of the constants.
`PROJECT.json` lists the runs, the theorems, the source lines behind every
definition, and the hazards the properties are aimed at.

## 1. Inventory

| Part | State it keeps | Operations | Hard behaviour |
|---|---|---|---|
| Stream broker: `publish` and its tables (`internal/pgstreambroker/internal/sql/schema.sql`, `publish.go`) | `stream`, `meta`, `idempotency`, `shard_lock` tables | `publish`, `publish_strict`, `publish_join/leave`, `remove_history` | applications publish inside their own transactions; time stamps of the transaction's start; suppression by idempotency key and version |
| Stream broker: history and cleanup (`history.go`, `partition.go`) | none of its own | `History` (two statements), `RemoveHistory`, cleanup of expired rows | reads without a snapshot, deletes that act on an earlier choice |
| Outbox delivery (`pgstreambroker/outbox.go`, `pgoutbox/worker.go`) | a cursor per shard and node, in memory | register, fetch, dispatch, wait, stop | ids are taken before commit, replicas lag, several shards in one transaction, nodes restart |
| Advisory-lock worker (`pgoutbox/lock_worker.go`) | a dedicated connection per shard, the server's advisory lock | acquire, try lock, session loop, ping, release | a session dies in the server while its owner works on; unlock fails; shutdown in every state |
| Notification listener (`pgoutbox/listener.go`) | a LISTEN connection, a channel of one slot | listen, receive, reconnect with backoff | notifications lost while reconnecting, wakeups shared by all workers |
| Partitioner (`pgoutbox/partitioner.go`) | daily partitions of the stream table | create ahead, list, drop | nodes with different clocks, failing statements |
| Map broker (`internal/pgmapbroker`) | `state`, `stream`, `meta`, `idempotency` per channel | `publish`, `remove`, `expire_keys`, `Clear`, cleanup, `ReadState`, `ReadStream` | paged reads while the state changes, epochs that start over, `Clear` and cleanup outside the shard lock |
| Map broker and controller: delivery, pools, workers (`pgmapbroker`, `internal/controllers`) | cursors, leaders, pools, work lists | register, deliver, fan out, open and close, expire, clean up | a new leader starts at the newest row; `Close` waits for every connection; channels that cannot be expired |
| Schema management (`internal/pgschema`, the `EnsureSchema` methods) | version row, tables, functions, shard lock rows | read version, probe, migrate under a lock, run DDL | rolling upgrades, a crash between transactions |
| Kafka consumer (`internal/consuming/kafka.go`) | a map of partition consumers, each with a queue and a worker; positions kept by the client | poll, pause, push, dispatch, mark, commit; assigned, revoked, lost; re-init, shutdown | poll loop, worker and group callbacks run concurrently; sessions expire unnoticed; a batch half done |
| PostgreSQL outbox consumer (`internal/consuming/postgresql.go`) | a transaction and an advisory lock per partition | lock, select, dispatch, delete, commit, wait | dispatch takes effect before the delete commits; nodes compete for the lock |
| Hosted-queue consumers (`aws_sqs.go`, `azure_service_bus.go`, `nats_jetstream.go`, `google_pub_sub.go`) | lanes of a batch, retries | receive, dispatch, retry, settle, nak, recreate | leases end while a message is in work; FIFO groups; a context that ends in a retry |
| Redis queue (`internal/redisqueue`, `consuming/redis_stream.go`) | a bounded queue, an in-flight counter, three kinds of goroutines | poll, reclaim, process, acknowledge, shut down | condition variable and counter without a common lock; two callers of `Shutdown`; reclaim of what is in work |
| Client handler and channel rules (`internal/client`, `internal/config`) | per connection: user, subscriptions, tokens; cached options | connect, refresh, subscribe, publish, map publish, track, RPC | commands in flight while the configuration changes; two connects of one user |
| Proxies (`internal/proxy`) | the map of proxies built at start; streams | connect … RPC over HTTP and gRPC; subscribe streams | a reload names a proxy nobody built; a stream outlives its subscription |
| JWT and JWKS (`internal/jwtverify`, `internal/jwks`) | verifier, key cache | verify, fetch, rotate, reload | fields read without the lock; one cache for several issuers |
| Server API (`internal/api`) | requests in progress | all methods over HTTP, gRPC, batch, legacy stream, consumers | broadcasts that fail in part, retries |
| Configuration (`internal/config`, `configtypes`) | current configuration, ring cache of options | load, validate, reload, look up | a slow reader stores old options; the ring index wraps |
| Application (`internal/app`, `internal/service`) | servers, services, signals | start, reload, shut down | partial reload, order of stopping, a timer that ends it all |
| WebSocket and unidirectional transports (`internal/websocket`, `uniws`, `unisse`, `unihttpstream`, `unigrpc`, `wt`) | connection, write mutex, close handshake | upgrade, read, write, ping, close | handler, writer and closer wait for each other; HTTP/2 deadlines |
| NATS and Redis+NATS brokers (`internal/natsbroker`, `internal/redisnatsbroker`) | subject → subscription | subscribe, unsubscribe, publish, callbacks; Redis first, then NATS | the map is not locked across the calls of the client; late and repeated `Unsubscribe`; channels that share a subject |
| Redis shards (`internal/redisshard`) | – | configuration | in the client library |
| Middleware, admin, web UI, metrics, telemetry, usage, generated code | little or none | – | not a subject for models |

How the parts meet: an application or the API calls the SQL function `publish`,
which takes the row lock of the channel's shard, gives the publication the next
offset of the channel and an id of the shared sequence, and inserts a row of the
stream table. The lock is held to the end of the transaction. `NOTIFY` at commit
wakes an outbox worker (`NotificationListener` to the channel `notifyCh`); the
poll interval wakes it in any case. Each node runs one worker per shard
(`Worker`), or one per shard in the cluster when `LockWorker` is used with a
separate broker for fan-out. A worker reads rows past its cursor, on the primary
or on a replica, and hands them to the event handler. Clients that lost
messages recover them with `History`. Meanwhile `cleanupSupportTables` deletes
expired meta and idempotency rows and `Partitioner` creates and drops
partitions. The map broker has the same outbox, and beside the stream a table
of the current value per key, which clients read page by page.

In the other direction the consumers of `internal/consuming` take commands from
a queue and hand each to the API dispatcher. They acknowledge after the dispatch
(a marked Kafka offset, a deleted row, a settled message), so a fault in between
repeats a command and must never lose one.

A client's command passes the handler, which looks up the channel's options
(through the cache), verifies tokens, or asks a proxy and waits; the library
keeps the subscriptions. SIGHUP replaces verifiers and options while commands
wait; SIGTERM stops servers, node and services in this order.

## 2. Modules

| Module | Models |
|---|---|
| `StreamOutbox`, `StreamOutbox_proofs` | sessions, shard locks, commit, replicas, registration and the outbox workers of all nodes |
| `OutboxFeed` | what subscribers of a node may rely on: an append-only log per shard received in order and completely; implemented by `StreamOutbox` |
| `StreamPublish` | the contents of one channel: `publish`, `remove_history`, cleanup, `History` |
| `LockWorker` | `LockWorker.Run` on every node against one advisory lock |
| `OutboxNotify` | listener, wakeup channel, drain and wait of the workers |
| `Partitioner` | creation and retention of partitions |
| `NodeOutbox` | controller and map broker: from row to node to subscriber, with and without fan-out |
| `SchemaSetup` | `EnsureSchema` of stream broker, map broker and controller |
| `BrokerPools` | their pools, and which replica a channel is read from |
| `MapState` | one channel of the map broker with a synchronizing client |
| `MapWorkers` | the expiry and cleanup workers over many channels |
| `KafkaConsumer`, `KafkaConsumer_proofs` | the members of one consumer group and one partition |
| `PostgresConsumer` | the workers of one partition of the outbox table, one per node |
| `CommandQueue` | what every consumer promises the senders of commands: processed at least once, settled only after that and for good; implemented by `KafkaConsumer`, `PostgresConsumer` and `QueueConsumers` |
| `ConsumedMessages` | what consumers make of a message's content, which configurations they accept (operators) |
| `QueueConsumers` | SQS, Service Bus, JetStream and Pub/Sub consumers over one leasing queue |
| `RedisQueue` | the Redis stream consumer |
| `NatsBroker` | the subscriptions of a node in NATS, their callbacks, publishing through Redis |
| `ChannelRules`, `ProxyCalls` | permission rules; outcome of proxy calls (operators) |
| `ClientSession`, `ClientSession_proofs` | the connections of a node; extends the two above |
| `TrackSignatures` | signed track commands while secrets rotate |
| `SubscribeStream` | subscribe streams and their readers |
| `TokenVerifier` | tokens, static keys, JWKS with cache, reload |
| `OptionsCache` | the ring cache of channel options |
| `ApiMethods`, `ApiServer` | checks and replies of the methods (operators); requests in progress |
| `AppLifecycle` | start, engines, servers and handlers, reload, shutdown |
| `UniTransports` | SSE, HTTP stream, gRPC and WebTransport handlers |
| `WebSocketConn`, `UniWebSocket` | the WebSocket connection; the transport over it |
| `Workers_proofs` | theorems about `LockWorker`, `OutboxNotify`, `Partitioner` and `PostgresConsumer` |
| `Postgres_proofs`, `MapState_proofs` | theorems about `StreamPublish`, `SchemaSetup`, `NodeOutbox` and `BrokerPools`; about `MapState` |
| `Server_proofs` | theorems about `TokenVerifier`, `TrackSignatures`, `ApiServer`, `UniWebSocket` over `WebSocketConn`, `UniTransports`, `OptionsCache` and `SubscribeStream` |
| `Background_proofs` | theorems about `QueueConsumers`, `AppLifecycle`, `NatsBroker` and `RedisQueue` |
| `MCOutbox`, `MCLogs`, `MCPostgres`, `MCClients`, `MCServer`, `MCBackground` | the instances TLC checks |

A component module declares its variables, an initial predicate, one action per
operation or step of a goroutine, and a next-state relation, all with names of
its own (`LockInit`, `LockNext`, `LockSpec`, …), so that an MC module can extend
several of them. The components an MC module groups share no state. Its variable
`part`, chosen in the initial state, says which of them moves; the others stay
where they started. One run thereby answers for each of its components exactly
what a run of its own would, and a liveness property of one component is never
excused by steps of another.

### StreamOutbox

State: `log` is the stream table with, for every row, the position `lsn` at
which it became visible; `tx` holds the open transaction of a session (locks,
uncommitted rows, the call in progress); `applied` is how far each replica has
replayed; per node and shard `cursor`, `pc`, `batch` and `progress` are the
local variables of `Worker.Run` and `processOutboxBatch`; `delivered` is what
the event handler has seen. `wipes` records `RemoveHistory` calls by position,
so that a replica sees them when it gets there.

A publish is three steps, because other sessions run between them: `CallPublish`
waits for and takes the shard lock, `Insert` takes the id and inserts (or
`Suppress` returns early), and `Commit` or `Rollback` ends the transaction, which
may contain further publishes to other shards. `RegisterBrokerEventHandler` reads
`MAX(id)` over the whole table; `Fetch`, `FetchEmpty`, `FetchError`, `Dispatch`
and `Wake` are the branches of the worker loop; `Stop` is `Close` or a crash.
The contents of a publication are left out; join and leave rows are the kind
`event`, with offset 0.

### StreamPublish

One channel, with the fields of the meta row that decide something. `Begin` fixes
`NOW()` for the transaction; `Publish` is the whole SQL function with its commit:
meta row inserted or locked, idempotency lookup, version check, delta base,
offset, TTL clamp, insert, saved result, and for `publish_strict` the exception
that rolls all of it back. Cleanup of meta rows is two steps, because its `DELETE`
chooses rows by a sub-select and deletes them after waiting for their locks.
`HistoryMeta` and `HistoryRows` are the two statements of `History`. `ever` and
`replies` are history variables.

### LockWorker, OutboxNotify, Partitioner

`LockWorker`: `lockPc` walks through `Run` and `runLockedSession`; the connection
state says whether a node's lock connection is alive as the server sees it, the
holder is who has the advisory lock (`Orphan` when the server has not noticed that
its client is gone), and the backlog is what the leader would still find. Every
call may fail, bounded by `MaxLockFaults`, and the server may kill a session
without the worker noticing.

`OutboxNotify`: notifications queued on the LISTEN connection, the channel
`notifyCh` of capacity one, and rows committed and read per shard. Lost
connections drop the queued notifications. All workers share `notifyCh`, as in
the broker.

`Partitioner`: a day has `DayLength` ticks, and every node's clock is within
`Skew` of the database's. A pass creates today's partition and `LookaheadDays`
more (`EnsureLookaheadPartitions`), lists what is older than the cutoff
(`ListPartitions`) and drops it partition by partition (`DropPartition`), each
statement possibly failing. `lost` remembers when rows went with a partition.
`UserPartitions` are tables attached by hand.

### NodeOutbox, SchemaSetup, BrokerPools, MapWorkers

`NodeOutbox` takes the publish functions as given (begin and end of a row's
transaction under the shard's lock) and follows rows to nodes: `Register` reads
the cursor, `DeliverBatch` hands rows over, `BatchError` stops in the middle and
repeats, and with fan-out `AcquireShard`, `LoseShard` and `FanoutLost` are the
change of the leader and what it loses; `PositionSync` is the subscriber's
periodic check that only an unreliable broker gets.

`SchemaSetup`: per node a program counter through `EnsureSchema`, per variant of
the schema (jsonb or binary) the shape of the tables, the version row, the
functions and the `shard_lock` rows. Each transaction is one action, a failure
ends the process, an old binary is refused. An empty database meets nodes of any
binaries; `mixed` remembers that a node which found no version row, and therefore
skips the migrations, met tables of an older binary. `torn` remembers an installation that
was interrupted between its transactions, `dropped` an operator who dropped a
stream table.

`BrokerPools`: pools are opened one by one, with the failures of `New`;
goroutines hold connections, `Close` cancels, waits and closes. `ReplicaIndex` is
`abs32(hash) % shards % replicas` on integers of `HashBits` bits. `MapWorkers`:
an expiry tick lists a bounded number of channels and works through them;
cleanup deletes in batches with pauses; `Close` may come at any point.

### MapState

`publish`, `remove` and `expire_keys` run under the shard lock and are one action
each. `Clear` (four statements, row locks in the order stream, state, meta) and
the meta cleanup do not take it and are split; `Clear` can also fail at
any statement, as the victim of a deadlock with a publish for example. `client` reads
`ReadState` pages from position to position and then `ReadStream`, starting over
when the epoch changes or the stream no longer reaches back. Values are known by
the offset at which they were published.

### KafkaConsumer, PostgresConsumer

One partition and the members of a group. For every member `loop`, `fetched` and
`polled` are the poll loop of `pollUntilFatal` and `Run`; `held`, `cb`,
`fetchPos`, `paused` and `marked` are what the Kafka client keeps for the
partition; the rest is the `partitionConsumer` and its goroutine. Broker and
coordinator are external: the log, the committed offset and the owner whose
commits are accepted. Callbacks (`Assigned`, `Revoked`, `Lost`) cannot start
between the return of `PollRecords` and `AllowRebalance`
(`BlockRebalanceOnPoll`). `killConsumers` is split where it waits. The queue's
`Close` and the context's cancel, which follow each other, are one flag. A record
that cannot be decoded is skipped and marked like a dispatched one. A member that
was stopped or crashed does not come back, and the last one is never stopped
(`Survives`), so that liveness has someone to rely on. A static member that does
not leave the group at shutdown is not told apart from one that does.

`PostgresConsumer`: ids are taken early and committed in any order by the
application. `processOnce` is taking the lock or not, the select, one dispatch per
row, and a commit that deletes exactly the rows dispatched; each may fail, and the
dispatcher may fail after its effect. The LISTEN triggers only shorten the wait.

### RedisQueue, QueueConsumers, ConsumedMessages

`RedisQueue` keeps the poll and reclaim loops (`Check`, read, `Send`, `Counted`:
the in-flight counter is raised after the send and outside the lock), the workers
(`Take`, `Process`, `Ack`, `Exit`), the tokens of the stop channels and the two
callers of `Shutdown`. The visibility timeout may be zero, and then `reclaim`
returns at once (`Reclaims`). Redis is external; an entry that was not acknowledged
becomes idle, at any point of a round of `reclaim`, and is reclaimed, also by the
process that still works on it. `NoGroup` is a group that was destroyed and is
created again at the end of the stream: what is in it is passed over.

`QueueConsumers` has one abstract queue that leases messages, and a lane structure
that the four consumers instantiate by `qkind`: one lane per message, per FIFO group,
or per session. `Dispatch`, `DispatchFails`, `Backoff`, `Settle` and `Nak` follow each
consumer's error handling: a negative acknowledgement may fail, a batch delete may
fail for some of its entries (`FinishBatch`), a message is not completed under a
context that ended (`CanSettle`), and a delta property that is not a string ends the
process (`PanicOnDelta`). `ReceiveFails` ends a subscription of Pub/Sub for good
(`ended`); `NoHeartbeat` and `Recreate` are the JetStream consumer's restart.
`ConsumedMessages` holds their content rules, which differ, and the validation of
their configuration.

### NatsBroker

`Subscribe` is `NatsSubscribe` (the map is read), `SubscribeSubject` (the call of the
client, which may fail) and `StoreSub`; `Unsubscribe` likewise. The library, external,
runs the calls of one channel one after the other, `Unsubscribe` some time after the
last subscriber left and again after an error; calls of different channels interleave,
with messages and their callbacks between any two steps. A callback is two steps: the
subscription's goroutine takes the message (`StartCallback`, external) and hands it on
(`HandleClientMessage`), also after `Unsubscribe`, which does not wait for it.
`clientChannel` gives the subject of a channel, which in raw mode several channels may
share. With Redis, `PublishRedis` and `PublishWithStreamPosition` are two steps.
Control messages are not modelled.

### ChannelRules, ProxyCalls, ClientSession, TrackSignatures, SubscribeStream

`ChannelRules` maps configuration, channel, client and request to the handler's
reply: namespaces, private and user-limited channels, the permission triples,
forced map keys, validation. `ProxyCalls` maps a backend's behaviour to what the
proxy client returns and to what the handler makes of it. `ClientSession` applies
both: a connect is up to three steps (token or proxy, the single-connection check,
the end with the options read again), and proxied commands read options before
the call and apply the reply after it. `Reload` replaces the configuration, the
proxies stay those of the start, and until `CacheExpire` lookups may answer from
the previous configuration.

`TrackSignatures`: a command reads the secrets, remakes the shared verifiers if
they were made for others, and verifies its batches. `SubscribeStream`: streams
are numbered; each has a context, a backend, a reader goroutine and whether its
subscription was registered; the cancel function is stored per channel. `writes`
remembers, for every publication written, which subscription there was and which
streams had had theirs by then.

### TokenVerifier, OptionsCache, ApiMethods, ApiServer

`TokenVerifier`: a verification is the sequence of its reads of the verifier
(expressions, mode, keys, issuer). The token variables are extracted once, with the
expressions of that moment, and fill the endpoint of whichever manager there is when
the key is asked for (`ResolvedURL`): after a reload a placeholder may find no
variable. The fetch and the store of a JWKS are steps
of their own; `Rotate` changes what an endpoint serves, `ReloadVerifier` waits for
the write lock. `OptionsCache`: lookup and store are two steps; the index is a
counter of `Width` bits.

`ApiMethods` gives the error of each method in the order of its checks. `ApiServer`
runs requests: `RunUnit` is one channel of one command, with the node's answer
`ok`, `failed` or `lost` (applied, though an error came back); consumed messages
are redelivered until the dispatcher returns no error.

### AppLifecycle, UniTransports, WebSocketConn, UniWebSocket

`AppLifecycle`: `main` walks through `Run` and `handleSignals`; `endpoints` records
which handler is served where behind which middleware; `versions` says which
configuration the verifiers, the subscription verifiers and the container have.
The signal channel has one slot, so a signal can be dropped.

`UniTransports`: handler, writer and closer meet in the transport's mutex and in
unbuffered channels; the handler's `defer`s run in their (reverse) order.
`WebSocketConn` has the handshake, the write mutex with its sticky error, control
frames between the fragments of a message, the reader and the write deadline of an
HTTP/2 stream; `UniWebSocket` adds the handler goroutine, the ping timer, pushes
and the close handshake with its grace period.

## 3. Runs

| Run | Components | Bounds, and the cases they let happen |
|---|---|---|
| `outbox` (229 thousand states, 2¼ minutes) | `StreamOutbox`, `LockWorker`, `OutboxNotify`, `Partitioner`, `PostgresConsumer`, with liveness | two shards, a replica, two ids, one crash: cross-shard ids, both shards' workers; two nodes and two faults for one lock: one for the leader, one for its successor; four rows in batches of two and two listener faults: the channel overflows and the listener reconnects twice; days of two ticks, retention of two days, skew of one tick, one failing statement: three day changes; two consumer nodes, three rows in selects of two, two faults: a select is cut, a smaller id commits late, the lock changes hands |
| `logs` (1.9 million, 2 minutes, symmetric) | `StreamOutbox`, `StreamPublish`, `KafkaConsumer`, safety | two channels of one shard, three ids, transactions of two rows, batches of two, one `RemoveHistory`, one crash: transactions overlap, a batch is cut inside one, a node registers again; three publishes and three clock ticks: a meta row expires and comes back while an idempotency row outlives it, one transaction overtakes another; two members, two records, queue limit two, two faults: a rebalance meets an expired session, a pause races the worker's resume; and, without faults, four records, which can fill the queue beyond its limit |
| `postgres` (322 thousand, 2¾ minutes) | `SchemaSetup`, `NodeOutbox`, `BrokerPools`, `MapWorkers`, `KafkaConsumer` with liveness | two nodes, two schema versions, empty or installed databases, one fault: a rolling upgrade from both ends, and an old and a new binary that install together; two nodes, two shards, two messages, one fault for each way of delivery; replicas 0 and 2, 0 (default) or 3 shards, hashes of five bits: the smallest hash occurs; three channels, two of them listed per tick; one record more than the Kafka queue limit |
| `clients` (520 thousand, 2¼ minutes, symmetric) | `ClientSession`, `MapState` | two connections, two starting configurations (all proxies; tokens), a reload that renames proxies and one that validation refuses, a user-limited, a proxied and a keyed map channel; map: two keys, pages of one key, three entries, two epochs, three clock ticks: keys change behind and ahead of the page cursor and the channel is forgotten once |
| `server` (398 thousand, 3 minutes) | `TokenVerifier`, `OptionsCache`, `SubscribeStream`, `TrackSignatures`, `ApiServer`, `UniTransports`, `UniWebSocket`, `NatsBroker` | two verifications and one reload over static, rotated and JWKS keys of two domains with the same key id, so that variables extracted before a reload fill an endpoint configured by it; a ring of two slots and an index of three bits, so that it wraps; two streams in a row; two track commands over two rotations; nine kinds of requests, each by itself, with two deliveries; WebSocket scripts with fragments, pings, stray frames and both HTTP versions; two NATS subscriptions, two messages and one fault: a channel is left and joined again while a callback is under way, a wildcard is beside it (there without the fault), positions come from Redis, and raw mode |
| `background` (250 thousand, 1¾ minutes) | `AppLifecycle`, `RedisQueue`, `QueueConsumers` | four configurations, among them both GRPC servers, two reloads, one failing service; two entries, one of which never parses, one worker, with and without a visibility timeout, two faults: an entry is reclaimed in work and its dispatch fails, or the group is destroyed after a crash; three messages, two of one FIFO group, two receivers, one retry and two faults for each kind of queue: the retry limit is reached, a dispatch and then its Nak fail, both Pub/Sub subscriptions give up |
| `outbox_register`, `single_connection`, `verifier_reload`, `http2_websocket`, `azure_loss`, `schema_crash` | the findings below | the same instances, narrowed to the component |

Several properties are conjunctions of parts that are stated and explained at their
definitions: `LockSafe` (no leaked lock, one live leader), `PartitionsKept` (lookahead
and retention), `ConsumerSafe`, `OutboxSafe` (commit order, no offset gap),
`PublishSafe` (positions never reused, replies name their original, versions increase,
delta bases are predecessors), `HistorySafe`, `KafkaDelivery`, `KafkaPartition` (a
pause ends, no orphan worker, a bound on the queue), `SchemaSafe`, `SchemaProgress`,
`NodeOutboxWorks`, `PoolsWork`, `SessionRules`, `MapSynced` (the client converges, the
state is the fold of the stream), `MapPositions` (compare-and-set wins once, positions
are unique), `DispatchedRight`, `FramesRight`, `CacheFresh`, `UniWorks`, `AppOrder`,
`QueueSafe`, `StreamsRight` (nothing of a stream is written before its own
subscription was registered, the stream ends with it), `NatsServes` (one subscription
per channel, the messages of a subscription handed on in order), `RedisQueueWorks`,
`ShardPolled`, `NotifyWorks`, and `KafkaWorks`, `ConsumerWorks` and `QueueWorks`
(everything is processed in the end, and the consumer implements `CommandQueue`). The
type invariants are among the parts.

What the runs that pass show:

* rows of a shard become visible in id order, so that reading "ids greater than
  the cursor" misses nothing, whatever transactions, rollbacks, batch limits,
  replica lag and restarts do; and to a node's subscribers the whole machinery is
  indistinguishable from `OutboxFeed`;
* positions (epoch, offset) name one publication for ever, across expiry,
  cleanup and new epochs; a replayed idempotent result names the publication that
  it stands for; versions go up; delta bases are direct predecessors;
* the advisory lock has one live holder, is never left behind on a pooled
  connection, and its shard is polled again after every failure; a subscriber
  behind a fan-out broker catches up although new leaders start at the newest row;
* a wakeup is never lost between the last empty read and the wait as long as one
  worker listens, and the poll interval covers every other case;
* a client that pages through a map channel and catches up on its stream ends
  with exactly the state table;
* two nodes of different versions that start together leave a version row that
  claims no more than the tables have (unless one took the database for empty and met
  the tables of an older one, see below), and each gets to serve or is refused;
  `Close` of a broker returns; expired keys go, as long as fewer channels than one
  list holds fail to resolve;
* a Kafka offset is committed, an outbox row deleted and a queue message settled
  only after its command was dispatched, and for good (Service Bus excepted, see
  below): to the senders the three are one `CommandQueue`; FIFO groups keep their
  order; everything queued is dispatched in the end as long as a receiver is left; the
  Redis consumer's loops do not sleep without someone to wake them; with a visibility
  timeout it acknowledges everything and, if its rounds of reclaim end, stops when
  told (what it does without one is below);
* a subscription made by a token does not survive a token that no longer lists it;
  nobody writes a map entry under another's forced key; a connect grants no channel
  that a subscribe would refuse; a withdrawn secret or a key of another trust
  domain is not accepted through a shared cache;
* a channel with subscribers has exactly one subscription in NATS, whatever fails
  and however late `Unsubscribe` comes; its publications are handed on for that
  channel, each at most once and those of one subscription in order, as long as no
  other channel has its subject;
* a consumed broadcast is acknowledged only after every channel that takes it has
  it, and once per idempotency key;
* handlers, writers and closers of every transport end together, frames are
  well-formed whoever writes, and an accepted SIGTERM ends the process.

The runs that are expected to fail are findings; `PROJECT.json` quotes the lines
they contradict:

* `outbox_register`: the cursor at registration is `MAX(id)` over all shards,
  but commits are ordered by id only within a shard. A publication of another
  shard with a smaller id that commits after registration is skipped on that node.
* `single_connection`: two connects of a user read presence statistics before
  either has joined; neither disconnects the other.
* `verifier_reload`: a verification tests `jwksManager` without the lock; a reload
  to static keys sets it to nil before it is used.
* `http2_websocket`: over HTTP/2 the unidirectional WebSocket handler returns from
  `ServeHTTP`, which ends the stream, although the WebSocket package supports HTTP/2:
  this is what the trace shows. Were it to stay, control frames leave a write deadline
  behind that only data writes clear.
* `azure_loss`: after its last failed attempt a Service Bus message is completed,
  although the log says that it is abandoned. The trace goes through the retry limit,
  under a live context; under one that ended `CompleteMessage` fails as well.
* `schema_crash`: tables and version row commit before the functions; a node that
  dies in between leaves a schema the next start takes for complete.

Disagreements seen while modelling that no run checks at present, all visible in
the modules:

* `created_at` is the start of the transaction, offsets are given later under the
  lock, and `History` filters by the one and orders by the other
  (`pgstreambroker/history.go:115`), so a recovered stream can have a hole;
  `OrderedStampsNoHole` is the claim under the condition that makes it true;
* a leader that lost the lock is told by a ping, and under a constant flow of rows
  there is no ping (`pgoutbox/lock_worker.go:210`); `StalePollerStopsWhenQuiet` is
  the claim that holds;
* a removal in the map broker with an unknown idempotency key that is suppressed
  for another reason answers with a NULL offset
  (`pgmapbroker/internal/sql/schema.sql:499`);
* the Kafka consumer decides to pause before the batch is in the queue and fetches
  again after each batch (`consuming/kafka.go:833`), so a queue can hold more than
  `partition_queue_max_size` records (`configtypes/types.go:851`); what holds is
  `QueueBounded`: with the one in work, never more batches than that number plus one;
* `ON CONFLICT DO NOTHING` in the idempotency table
  (`pgstreambroker/internal/sql/schema.sql:351`) keeps an expired row, so until
  cleanup a re-used key is not remembered (`SavedIdem`);
* the TTL clamp counts the history TTL of the call, not the stored one (`:245`,
  comment at `:181`), so a publish that skips history can shorten the life of the
  meta row; `ClampCoversHistory` is claimed when every publish gives a history TTL
  and transactions publish in the order in which they began;
* the clamp also removes the sign of a negative meta TTL, which the comment at
  `:244` says disables expiration (`EffectiveMetaTTL`);
* the cleanup `DELETE` (`pgstreambroker/partition.go:72`,
  `pgmapbroker/pgmapbroker.go:2201`) can delete a meta row that a publish has just
  renewed (`CleanupMetaDelete`);
* `remove_history` deletes rows a worker has not read yet (`WipedBy`), and the
  properties of `StreamOutbox` excuse them;
* after the server ends a leader's session two nodes poll until the next ping
  (`pgoutbox/lock_worker.go:19`);
* one `notifyCh` serves all shards (`pgstreambroker.go:470`), so a wakeup can go to
  the worker that has nothing to read;
* the partition cutoff keeps the time of day (`pgoutbox/partitioner.go:117`), so a
  row lives between `RetentionDays - 1` and `RetentionDays` days; and
  `parsePartitionDate` (`:209`) accepts any table name that ends in a date;
* channels whose options do not resolve are never expired and, when they fill the
  list of a tick, keep all others from being expired (`pgmapbroker.go:2061`);
* `abs32` of the smallest hash is negative, so with a number of shards that does
  not divide 2^31 its replica index can be (`pgmapbroker.go:566`);
* nodes configured with different numbers of shards trim each other's `shard_lock`
  rows; `ShardsLocked` is claimed when all nodes have the same number;
* the last statement of a migration sets the version row unconditionally
  (`pgschema/pgschema.go:246`). The comment in `pgmapbroker/pgmapbroker.go:887` calls
  this "a no-op" for an upgrade; but of three binaries the one in the middle, whose
  migrations ran before those of the newest, can write after it and takes the row
  back. `VersionNeverBack` is claimed when every node runs the first or the newest
  binary;
* a node that finds no version row skips the migrations
  (`pgmapbroker/pgmapbroker.go:857`), and if an older binary installs at the same time
  `CREATE IF NOT EXISTS` keeps the older tables while the last statement (`:892`)
  writes the newer version over them: later starts then skip the migrations that are
  missing, although the comment at `:699` calls the method "safe to call concurrently
  from multiple nodes". In the other order the older binary takes the row back.
  `VersionHonest` is claimed outside of the first case (`mixed`), `VersionNeverBack`
  names the second;
* a controller whose cursor could not be read before it starts begins at 0 and
  replays old control messages (`NoReplay` excuses it);
* the ring index of the options cache wraps after 2^31 stores and is negative from
  then on (`config/cache.go:62`); options stay cached for their TTL after a reload;
* a reload that names a proxy that was not configured at start makes its commands
  dereference nil (`PanicNeedsNewName` says that nothing else does);
* the unidirectional gRPC server is kept in the variable of the API server
  (`app/run.go:297`), and is given the TLS settings of the gRPC API. With both, the
  API's server is not stopped at shutdown and serves while services end
  (`Overwritten` in `ServicesStopLast`);
* the SSE handler's comment on its `defer` (`unisse/handler.go:91`) describes the
  opposite of the order in which deferred calls run; no deadlock follows;
* workers of the Redis queue may leave with messages still in the local queue,
  which wait in Redis for another consumer, although `Run` documents that they are
  finished;
* with a visibility timeout of zero, which validation accepts
  (`configtypes/types.go:975`), nobody reads `stopReclaim`: the first caller of
  `Shutdown` fills its one slot and passes (`redisqueue/consumer.go:183`), the second
  blocks for ever, and with it `RedisStreamConsumer.Run` if it is the one of the
  context. `StopsWhenTold` excuses exactly that caller (`Stuck`). In this
  configuration an entry whose processing failed also stays pending for good
  (`LeftPending` in `PendingIsAcked`);
* a round of `reclaim` does not look at `stopReclaim`
  (`redisqueue/consumer.go:213`), and an entry that fails and becomes idle again
  within the round is claimed again in it, so a round need not end. `StopsWhenTold`
  has the end of rounds as its premise (`RoundsEnd`), and is false without;
* after NOGROUP the group is created at `$` (`redisqueue/consumer.go:405`): entries of
  the stream that it had not acknowledged are passed over (`NoGroup`);
* when `sub.Receive` of a Pub/Sub subscription fails, its goroutine logs and ends
  (`consuming/google_pub_sub.go:93`); nothing starts it again, and with the last one
  `Run` returns nil. `QueueDrains` is claimed while one is left;
* a Service Bus delta property that is not a string panics at the unchecked assertion
  (`consuming/azure_service_bus.go:366`), in a goroutine without a recover
  (`PanicOnDelta`);
* `Unsubscribe` of the NATS broker (`natsbroker/broker.go:378`) does not wait for a
  callback that runs (`:287`), so its message can be handed on after newer ones of the
  next subscription of the channel; `HandedInOrder` is claimed within a subscription,
  and says that nothing else can be late;
* a `Broadcast` accepts map channels, which `Publish` refuses (`internal/api`);
* a Service Bus session that is lost in the middle can be continued by another
  receiver before its first one has stopped (`azure_service_bus.go:192`), so its
  order can be inverted; `GroupInOrder` is claimed for SQS;
* in raw mode two channels can get one subject: the second `Subscribe` finds it in
  the map and does nothing (`natsbroker/broker.go:353`), so messages go to the first
  channel only, whose `Unsubscribe` ends both, although "Broker keeps reverse
  mapping to the original channel to broadcast to proper channels"
  (`configtypes/types.go:278`); `NatsServes` is claimed for channels that have
  their subject alone (`Alone`);
* the Redis+NATS broker ignores the error of `PublishWithStreamPosition`
  (`redisnatsbroker/broker.go:41`), which in raw mode is certain: what goes through
  Redis then reaches no subscriber;
* with wildcards allowed a join or leave is handed on once for every subscription
  that matches (`natsbroker/broker.go:326`).

## 4. Fairness

Fairness is stated for the component that moves: the fair actions of the others
are not enabled.

* `StreamOutbox`: weak fairness of `Dispatch` and `Wake` (goroutines run, the poll
  timer fires), of `Replicate` (a replica keeps replaying), and strong fairness of
  `Fetch`: a query that is possible again and again succeeds some time, since
  errors may interrupt it any number of times. Sessions get none; they may hold
  their locks for ever.
* `LockWorker`: weak fairness of a worker's own steps and of the server's noticing
  a dead client (TCP keep-alive). Faults, shutdown and appends are not fair.
* `OutboxNotify`: weak fairness of the workers' steps and timers; none for the
  listener, which is only a convenience.
* `Partitioner`: weak fairness of passes (a ticker per node); failing statements
  are bounded by `MaxErrors`.
* `KafkaConsumer`: weak fairness of the poll loop, the callbacks and the worker of
  every member (a dispatch is retried without limit and faults are bounded, so it
  succeeds in the end), of the expiry of a dead owner's session, and of the
  coordinator assigning a free partition. Rebalances, errors, shutdown and crashes
  are not fair.
* `PostgresConsumer`: weak fairness of each worker's own steps (its poll timer
  fires); inserts, their commits and faults are not fair.
* `SchemaSetup`: a start goes on, a process that died is started again (a
  supervisor), and strong fairness of the migration lock, for which PostgreSQL
  keeps a queue.
* `NodeOutbox`: transactions that began end, workers and position checks run.
  Elections are not fair by themselves: without a leader the position check brings
  subscribers up to date.
* `BrokerPools`, `MapWorkers`: holders whose context ended let go, `Close` goes on,
  tickers fire. Requests are not fair.
* `RedisQueue`: loops, workers and callers go on, and the visibility timeout of an
  entry nobody works on passes. Strong fairness where two goroutines compete: of
  `ReclaimStop`, where Go's `select` chooses between the stop and the ticker, both
  ready again and again, and of `poll`'s send and of its check while there is room,
  because otherwise `reclaim`, with an entry that fails each time, could win every
  free slot of the queue for ever, which neither Go's channels, that keep their
  senders in a queue, nor its mutex allow. Not assumed: that a round of `reclaim`
  ends (see above).
* `QueueConsumers`: receivers and lanes go on, a lease nobody holds ends, the
  JetStream consumer is created again. Failures and lost heartbeats are bounded.
* `OptionsCache`: time passes and a started lookup stores. `SubscribeStream`: a
  reader whose context ended notices. `UniTransports`, `UniWebSocket`: goroutines
  go on when their mutex or channel allows it, and deadlines pass; peers and the
  server's own closing are not fair.
* `AppLifecycle`: the main goroutine goes on unless a server or the node hangs,
  which no fairness rules out; the shutdown timer fires.

Deadlock checking is off where the system may really stop: a node that is closed,
a process that exited, a connection that ended, or a model whose bounded clock and
publishes are used up.

## 5. Theorems

All theorems hold for every value of the constants that satisfies the named `ASSUME`s,
and are about the components' own specifications (`StreamOutboxSpec`, `PublishSpec`,
`SchemaSpec`, `MapSpec`, `LockSpec`, `PartSpec`, `ConsumerSpec`, `KafkaSpec`,
`NotifySpec`, `OutboxSpec`, `PoolsSpec`, `SessionSpec`, `TokensSpec`, `TrackSpec`,
`ApiSpec`, `UniWSSpec`, `UniSpec`, `CacheSpec`, `StreamSpec`, `QSpec`, `RQSpec`,
`AppSpec`, `NatsSpec`). Most assumptions say that bounds are natural numbers, that
`ShardOf` maps channels to shards, and that sentinels are not members of the sets they
stand beside. Those that say more are what the code checks or builds:

* `TTLAssumption` (`MapState`): the meta TTL is not below the key TTL, and
  permanent for permanent keys, as the validation of the options demands;
* `VerifierAssumption` (`TokenVerifier`): keys of the configuration are of the
  domain `static`, since a key of an endpoint never gets into it;
* `NatsAssumption` (`NatsBroker`): the replacement of characters that makes a
  subject does not make a wildcard of a channel without one;
* `ConsumedSingly` (`ApiServer`): a consumed message is one command, which is what a
  consumer hands to the dispatcher;
* `HandshakesAssumption` (`WebSocketConn`): the peer sends frames, in any order and
  with any flags.

`PartitionSafety` and `LookaheadSafe` need `TolerableSkew`, `NoWakeupLost` a node with
one outbox worker.

* `StreamOutbox_proofs`: `TypeCorrect`, `CommitOrder`, `NoRowSkipped`,
  `OutboxImplementsFeed` and `OutboxSafety`. The inductive invariant `Inv` is needed
  because `NoSkippedRow` says nothing about what may still happen below a cursor. Its
  parts follow the argument: `LockInv` (a transaction holds the locks of the shards
  it has rows in, and nobody else does), hence `DraftInv` (an uncommitted row has a
  larger id than every committed row of its shard), hence `LogInv` (commit order is
  id order, and ids are unique); `BatchInv` and `BatchComplete` (nothing of the
  shard is missing below a row of a batch, because the batch was read from a prefix
  of the log), and `DeliveredInv`, which together give the refinement: a
  `Dispatch` step is a `Receive` step of the feed, `Commit` an `Append`, and all
  other worker steps stutter. `OutboxSafety` needs the same argument for offsets:
  `OffsetInv` says that the offsets of a channel are 1, 2, … along its committed rows
  (`CommittedOffsets`) and go on without a gap along the drafts of the one
  transaction that has its shard's lock (`DraftOffsets`), so that what a node received
  of a channel since it registered is an interval (`DeliveredPrefix`).
* `Workers_proofs`, the lock: `LockSafety`, from `NoLeak` and `LeaderUnique`, which
  follow from `LockInv`. `OneLiveLeader` is not inductive: it does not say who holds
  the lock when a second node asks. `LeaderHoldsLock` (a worker in its session over a
  live connection is the holder) is the missing part.
* `Workers_proofs`, partitions: `RetentionFloor` (rows live at least
  `RetentionDays - 1` days less the skew), `NeverDropped` (without a retention nothing
  is dropped), `LookaheadSafe` (with a skew of at most
  `(RetentionDays - 1) * DayLength`, `TolerableSkew`, no node drops a partition of
  today or later), and `PartitionSafety`, the property of the run, which puts them
  together with the place of each pass (`PassInv`). `DropInv` carries the fact that
  outlives the moment of listing: every partition on a list was behind the cutoff of
  some clock, and time only makes it older.
* `Workers_proofs`, outbox table: `AtLeastOnce`, `HolderFresh` and, with the types,
  `ConsumerSafety`. The invariant adds to the properties that a transaction starts
  empty-handed (`CleanBegin`), that the holder of the lock is inside its transaction
  (`HolderIsInside`), and that every row to be deleted was dispatched
  (`MarkedWasDispatched`). `TableImplementsQueue`, the refinement of `CommandQueue`,
  needs one more fact about workers that lost their session and do not know it: what
  they still dispatch is or was in the table (`SelectedWasSent`). A visible insert is
  an `Enqueue`, a dispatch a `Process`, a commit a `Settle`, all else stutters.
* `Workers_proofs`, wakeups: `NoWakeupLost`. A lone worker that waits has seen, in its
  last read, every row that was announced before it, and each later announcement
  left a notification, a token in `notifyCh`, or a fault; `WakeupPending` says so and
  is inductive together with the types.
* `KafkaConsumer_proofs`: `AtLeastOnce`, `InOrder` and, together,
  `DeliveryAlways`, from one inductive `Inv`. Neither property says what a worker is
  about to dispatch, so `Inv` follows the records on their way: `BatchInv` (between
  poll and push no callback can move the fetch position), `QueueInv` (the queue of a
  live worker is contiguous up to what is pushed next and starts after the current
  batch, or after what was dispatched), `CurInv` (all that precedes the record in
  hand was dispatched), and `MapInv` (a live worker is in the map, and the map has
  one only while the partition is held and no callback runs), which is why the
  client can forget its positions without a live worker noticing. A killed worker
  keeps only `CurInv`: it may repeat a record, never overtake one.
  `PartitionAlways` rests on three more invariants: `MovesInv` (per member, which
  worker states go with a registered, cancelled or forgotten consumer, and who will
  resume a paused partition), `LogInv` (positions and queues stay within the
  log) and `BoundsInv`. The last bounds `Room`: the batches in the queue, in the hands
  of the loop and in those of the worker, and the one the next poll may add while the
  partition is not paused. A resume gives back what the finished batch took, and a
  poll that does not pause has counted more records than there are batches
  (`RecordsCount`: the batches are disjoint, `OrderInv`), so there is room for two.
  `GroupImplementsQueue` is the refinement of `CommandQueue`, where the settled
  records are those up to the committed offset: that the offset never goes back needs
  `OwnerInv`, that the owner who still holds the partition has marked at least what is
  committed, also when a worker of an earlier assignment marks behind it.
* `Postgres_proofs`, publishing: `PublishSafety` from `StreamInv`. That positions are
  never reused needs the meta row to be the end of everything ever published in its
  epoch (`Numbered`, `AtEnd`) and new epochs to be new; that versions increase and
  delta bases are predecessors needs what the meta row remembers to be what was
  published last under it (`VersionKept`, `LastKept`, `Increasing`). `HistorySafety`
  adds, for a read in progress, that the end it has seen is not ahead of the channel
  (`Behind`) and that the rows up to it are there or were removed (`EndCovered`).
* `Postgres_proofs`, schema: `SchemaSafety` from `SchemaInv`. The version row is
  honest because of what each place of each node's program counter has seen:
  whoever is about to set the version has run the migrations up to it, or created
  the tables itself (`Created`, `Settled`), and tables never lose columns
  (`VersionInv`, with `HonestDb` and `CoveredDb`). The exception is exact: only a node
  in `fresh` can set a version above the tables, and then it has met older ones
  (`mixed`). Who is past the reconciliation of `shard_lock` finds its rows, if all
  nodes want the same (`ShardInv`). `VersionsNeverBack` is the action property that a
  rolling deploy does not undo an upgrade, from `BackInv`: between two binaries whoever
  is on the slow path is of the newer one or was installing, and only the latter can
  write a smaller version.
* `Postgres_proofs`, nodes: `OutboxDelivers` (`NoReplay` and `PositionFollowsCursor`)
  from `OutboxInv`: the shard's row lock makes rows commit in the order of their ids and
  offsets (`SerialInv`, `OffsetInv`), what a node handed over once lies between its base
  and its cursor (`HandledInv`), and behind the cursor subscribers have the offset
  (`CursorInv`).
* `Postgres_proofs`, pools: `RoutesInRange`, arithmetic on `abs32(hash) % shards %
  replicas` with Go's remainder, which takes the sign of the dividend.
* `MapState_proofs`: `MapSyncs` (a client that is live has exactly the state table up
  to its position, and the state is the fold of the stream) and `MapPositionSafety`,
  both from `MapInv`. `TablesOk` relates everything that was ever published to the
  tables: `LiveOk` (each key of the state is its last entry of this epoch and not a
  removal), `RowsOk` (the stream is a suffix of the epoch), `MetaOk`, `ClrOk` (a
  `Clear` in progress), `WinsOk` (who won a compare-and-set, and against what), and
  `ClientOk`. The last is the heart of it: for a client between two pages, a key
  behind the page cursor is `Settled` (what the client has of it is what it was at
  some position not before the first page, and the stream from there repeats the
  rest). `IdemOk` is the same for remembered results.
* `Server_proofs`: `DomainsSeparated` (a key of another trust domain is not
  accepted through the shared cache) from `DomainInv`: the variables a verification
  carries are its own issuer's, whichever expressions extracted them and whichever
  endpoint they fill, and so is what it holds in each later step (`CallInv`); the cache
  files each key under the endpoint that served it (`Filed`). `TrackSafety` from
  `SecretInv`: a command verifies with secrets that were configured since it began
  (`CommandInv`), and what it tracks was signed with one of them (`Vouched`).
* `Server_proofs`, API: `DispatchedSafety` from `ApiInv`: the broker's memory and what it
  applied agree, key by key (`KeysInv`), what ran without an internal error is in its
  channel (`DoneInv`), hence what was acknowledged is (`AckedInv`), and outside of
  parallel batches every command but the last one started is done (`OrderInv`).
* `Server_proofs`, WebSocket: `FramesSafety` from `UniWSInv`. Writing: the wire is inside a
  message exactly while the writer is between its two frames (`WireInv`), and each
  goroutine's job is one of the few the handler makes (`JobsInv`). Reading: what is
  unread is the rest of the peer's frames, and the reader has judged the frames before
  as the protocol does (`ReadInv`, index by index, without recursion over the script).
* `Server_proofs`, transports, cache and streams: `NoLateWrite` (while messages are
  written the handler has not closed the channel that lets `WriteMany` return, `UniInv`),
  `RingHolds` (below the wrap the index counts the stores, `RingInv`) and `NothingEarly`
  (a subscribe command and a registered subscription exclude each other and are of the
  last stream opened, and a stream that is ready has had its subscription,
  `StreamsInv`).
* `ClientSession_proofs`: `TokenSubsSafety`, `EntriesSafety` and `RulesSafety`, all
  from `SessionInv`. `ConnsInv` says which handler can be in progress at which
  stage, that what a connect command has collected from a token the token lists,
  and that a map command waits for a proxy only on a channel for which some valid
  configuration forces no key (`Unforced`): validation refuses a forced key beside a
  map proxy, and lookups answer from valid configurations only (`ServerInv`), which is
  why a late answer cannot write under a forced key. `ServerInv` also says that before
  the first reload the proxies are those of the configuration, so a missing one is new.
  The rules need no more than the order of the early returns: `FirstRule` and
  `SomeRule` say what the first match of any list of rules is.
* `Background_proofs`, queues: `QueueSafety` (settled only after processing; a FIFO
  group in order; no lost lane) from `QueueInv`, in which a lane owns its messages and
  its pending ones are all of its group behind the one in hand (`LaneOk`).
  `HostedImplementsQueue`, the refinement of `CommandQueue`, adds that a deleted message
  stays deleted (`DeletedStays`): only a lease that still runs is given back or expires,
  also when two receivers work on one message.
* `Background_proofs`, application: `AppSafety` from `AppInv`: servers and services go
  through start and stop with the main goroutine (`ServersInv`), the parts of a
  reload happen in their order (`ReloadInv`), and endpoints are those of the
  configuration (`ConfiguredEndpoints`).
* `Background_proofs`, NATS: `NatsSafety` from `NatsInv`: every subscription in NATS
  has an owner, a map entry or a call in progress (`OwnedInv`, `PhaseInv`), and what a
  live subscription has still to call back with comes after everything that was handed
  on or is in a callback for its subject, in whichever subscription (`OrderInv` in
  `FlowInv`).
* `Background_proofs`, Redis: `QueueWakes`. `inflight` is raised late, so it may understate
  the messages in work, never overstate them: together with the sends not yet counted it
  is their number (`Balanced`), and a loop sleeps at the limit only (`SleepsAtLimit`).

Proofs by induction over numbers are replaced by arguments with a least element
(`WFMin`) or by invariants that carry the accumulated fact.

Proving some of them for every constant corrected what was claimed, or the model:

* the conditions of `ClampCoversHistory`, `ShardsLocked`, `VersionNeverBack` and
  `ServicesStopLast` were satisfied by every small instance and are now stated, and
  `PanicNeedsNewName` asked the last configuration for the new name, which one more
  reload takes away: it now asks the configuration whose options the command used;
* a consumed message may be suppressed in a channel because another request came
  with the same idempotency key; `DispatchedRight` now says that the channel has what
  came with the key;
* of several outbox workers on one node one may take the signal meant for another, so
  `NoWakeupLost` is about one worker; the timer covers the rest;
* the Kafka client keeps the largest offset it was asked to mark. A mark that simply
  replaced the last one let the committed offset go back when a shutdown left a worker
  behind, which no run had met and `OwnerInv` did not survive.

Only model-checked: the liveness properties and the liveness parts of the others
(fairness and `ENABLED` are outside the prover's reach), the only kind of property
`MapWorkers` has. `RedisQueue` is not shown to implement `CommandQueue`: its batches are
sorted sequences of a set, and what such a sequence holds takes an induction over
sets. No module uses recursive operators, so all of them
can be proved about.

## 6. Not modelled

Left out for good: SQL text and row decoding, metrics and logging, the admin
pages, generated code, compression and masking of frames, encodings of the
transports, signature algorithms, and the `centrifuge` library itself, whose event
handler, one command at a time per client and single closer per connection are
boundaries marked external. Hash functions are constants, except where their range
matters (`ReplicaIndex`). The Redis shards configure a client library that
holds their state. The reasons for each component are in `PROJECT.json`.

Assumptions about PostgreSQL: read committed snapshots, row locks held to the end
of the transaction, sequence values taken outside of transactions, replicas that
replay commits in order, advisory locks bound to a session, a statement batch
without parameters as one transaction.

## 7. Plan

Done: the modules of section 2 and the theorems of section 5. Next, in this order:

1. `CommandQueue` for `RedisQueue`, once what its batches hold is a fact that can be
   proved, and with a history variable for what was processed;
2. nodes that disagree on `NumShards`; reads of map channels from replicas;
3. control messages of the NATS broker and the survey handlers of the API.
