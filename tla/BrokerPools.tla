---------------------------- MODULE BrokerPools ----------------------------
(***************************************************************************)
(* The connection pools of the PostgreSQL map broker, stream broker and    *)
(* controller: New... opens them one by one, requests and background       *)
(* goroutines hold connections of them, Close (Run of the controller)      *)
(* closes them.  Closing a pool of pgx waits for every connection that is  *)
(* out, so Close returns only if all holders let go.                       *)
(*                                                                         *)
(* External: pgxpool (acquire from an open pool, wait on Close).           *)
(***************************************************************************)
EXTENDS Integers, Sequences, FiniteSets

CONSTANTS
    PoolKinds,     \* "map", "stream", "controller" or some of them
    ReplicaCounts, \* numbers of replica DSNs
    HashBits,      \* width of the channel hash (32 in the code)
    ShardCounts    \* configured NumShards; 0 means not set

ASSUME PoolsAssumption == HashBits \in Nat \ {0} /\ ReplicaCounts \subseteq Nat /\ ShardCounts \subseteq Int

VARIABLES
    pconf,    \* [kind, replicas, notifyDSN, shards]
    ppc,      \* "off" "opening" "running" "cancelled" "closing" "closed" "failed"
    popen,    \* pools that are open
    pnext,    \* pools still to open or to close, in order
    poolHeld,     \* poolHeld[p]: who has a connection of pool p
    ctxEnded  \* cancelFunc has been called

pools == <<pconf, ppc, popen, pnext, poolHeld, ctxEnded>>

Replica(i) == <<"replica", i>>
Primary == <<"primary", 0>>
Notify == <<"notify", 0>>
AllPools == {Primary, Notify} \cup {Replica(i) : i \in 0..2}
ReplicaPools(c) == [i \in 1..c.replicas |-> Replica(i - 1)]
NotifyPools(c) == IF c.notifyDSN THEN <<Notify>> ELSE <<>>
Goroutines == {"listener", "worker", "request"}

\* setDefaults: NumShards.
NumShards(c) == IF c.shards <= 0 THEN 8 ELSE c.shards

\* NewPostgresMapBroker, NewPostgresStreamBroker, NewPostgresController: the
\* order in which pools are opened.
OpenOrder(c) ==
    CASE c.kind = "map"        -> <<Primary>> \o NotifyPools(c) \o ReplicaPools(c)
      [] c.kind = "stream"     -> <<Primary>> \o ReplicaPools(c) \o NotifyPools(c)
      [] c.kind = "controller" -> <<Primary>> \o NotifyPools(c)

\* Close: readPools, notifyPool, pool.
CloseOrder(c) == (IF c.kind = "controller" THEN <<>> ELSE ReplicaPools(c)) \o NotifyPools(c) \o <<Primary>>

PoolsInit ==
    /\ pconf \in [kind : PoolKinds, replicas : ReplicaCounts, notifyDSN : BOOLEAN, shards : ShardCounts]
    /\ pconf.kind = "controller" => pconf.replicas = 0
    /\ ppc = "off" /\ popen = {} /\ pnext = <<>> /\ ctxEnded = FALSE
    /\ poolHeld = [p \in AllPools |-> {}]

StartOpening ==
    /\ ppc = "off" /\ ppc' = "opening" /\ pnext' = OpenOrder(pconf)
    /\ UNCHANGED <<pconf, popen, poolHeld, ctxEnded>>

OpenPool ==
    /\ ppc = "opening" /\ pnext # <<>>
    /\ popen' = popen \cup {Head(pnext)} /\ pnext' = Tail(pnext)
    /\ UNCHANGED <<pconf, ppc, poolHeld, ctxEnded>>

\* A DSN that does not parse, a TLS file, the ping: what is open gets
\* closed.  The map broker's notify pool is not in that list.
OpenFails ==
    /\ ppc = "opening" /\ pnext # <<>>
    /\ ppc' = "failed" /\ popen' = popen \cap {Notify} /\ pnext' = <<>>
    /\ UNCHANGED <<pconf, poolHeld, ctxEnded>>

Opened ==
    /\ ppc = "opening" /\ pnext = <<>> /\ ppc' = "running"
    /\ UNCHANGED <<pconf, popen, pnext, poolHeld, ctxEnded>>

-----------------------------------------------------------------------------
(* Who uses which pool                                                     *)

\* int32 arithmetic, HashBits wide: -MinInt is MinInt.
MinHash == -(2^(HashBits - 1))
Hashes == MinHash..(-MinHash - 1)
abs32(h) == IF h < 0 /\ h # MinHash THEN -h ELSE h
Remainder(a, b) == IF a < 0 THEN -((-a) % b) ELSE a % b      \* Go's %

\* getReadPool: by shard to a replica, if the caller allows it.
ReplicaIndex(h, c) == Remainder(Remainder(abs32(h), NumShards(c)), c.replicas)
ReadPool(h, cached) ==
    IF ~cached \/ pconf.replicas = 0 THEN Primary ELSE Replica(ReplicaIndex(h, pconf))

\* The pools a goroutine takes connections from: requests by getReadPool,
\* the outbox workers by shard, the listener its own pool if there is one.
PoolsOf(g) ==
    CASE g = "request"  -> {ReadPool(h, TRUE) : h \in {x \in Hashes : pconf.replicas = 0 \/ ReplicaIndex(x, pconf) >= 0}} \cup {Primary}
      [] g = "worker"   -> {Primary} \cup (IF pconf.replicas = 0 THEN {} ELSE {Replica(i) : i \in 0..(pconf.replicas - 1)})
      [] g = "listener" -> {IF pconf.notifyDSN THEN Notify ELSE Primary}

Acquire(g) ==
    /\ ppc \in {"running", "cancelled", "closing"} /\ \A p \in AllPools : g \notin poolHeld[p]
    /\ g # "request" => ~ctxEnded
    /\ \E p \in PoolsOf(g) \cap popen : poolHeld' = [poolHeld EXCEPT ![p] = @ \cup {g}]
    /\ UNCHANGED <<pconf, ppc, popen, pnext, ctxEnded>>

\* A query ends; the listener waits for a notification until the context ends.
Release(g) ==
    /\ g = "listener" => ctxEnded
    /\ \E p \in AllPools : g \in poolHeld[p] /\ poolHeld' = [poolHeld EXCEPT ![p] = @ \ {g}]
    /\ UNCHANGED <<pconf, ppc, popen, pnext, ctxEnded>>

-----------------------------------------------------------------------------
(* Close                                                                   *)

BeginCloseMutant ==
    /\ ppc = "running" /\ ppc' = "closing" /\ pnext' = CloseOrder(pconf)
    /\ UNCHANGED <<pconf, popen, poolHeld, ctxEnded>>

\* closeOnce: cancelFunc and close(closeCh), then the pools.
BeginClose ==
    /\ ppc = "running" /\ ppc' = "closing" /\ ctxEnded' = TRUE /\ pnext' = CloseOrder(pconf)
    /\ UNCHANGED <<pconf, popen, poolHeld>>

\* pgxpool.Close: no connection is handed out from here on ...
ClosePool ==
    /\ ppc = "closing" /\ pnext # <<>> /\ Head(pnext) \in popen
    /\ popen' = popen \ {Head(pnext)}
    /\ UNCHANGED <<pconf, ppc, pnext, poolHeld, ctxEnded>>

\* ... and it returns when the last one has come back.
PoolClosed ==
    /\ ppc = "closing" /\ pnext # <<>> /\ Head(pnext) \notin popen /\ poolHeld[Head(pnext)] = {}
    /\ pnext' = Tail(pnext) /\ ppc' = IF Len(pnext) = 1 THEN "closed" ELSE ppc
    /\ UNCHANGED <<pconf, popen, poolHeld, ctxEnded>>

PoolsNext ==
    \/ StartOpening \/ OpenPool \/ OpenFails \/ Opened \/ BeginClose \/ ClosePool \/ PoolClosed
    \/ \E g \in Goroutines : Acquire(g) \/ Release(g)

PoolsSpec == PoolsInit /\ [][PoolsNext]_pools

\* Close goes on when it can; queries end.
PoolsFairness ==
    /\ WF_pools((ClosePool \/ PoolClosed))
    /\ \A g \in Goroutines : WF_pools(Release(g))

-----------------------------------------------------------------------------
(* Properties                                                              *)

\* Close returns, although it waits for every connection and the listener
\* holds one for as long as no notification comes.
CloseReturns == []<>(ppc # "closing")

\* Every channel's reads go to a replica that exists: also the channel whose
\* hash has no absolute value, as long as NumShards divides 2^31.
RouteInRange ==
    \A h \in Hashes : (pconf.replicas > 0 /\ (h = MinHash => (-h) % NumShards(pconf) = 0))
        => ReplicaIndex(h, pconf) \in 0..(pconf.replicas - 1)

\* A broker's pools are usable from New to Close: reads find their replica,
\* and Close comes back.
PoolsWork == []RouteInRange /\ CloseReturns
=============================================================================
