---------------------------- MODULE StreamPublish ----------------------------
(***************************************************************************)
(* What one publish to one channel of the PostgreSQL stream broker does:   *)
(* the SQL functions publish and publish_strict with their idempotency and *)
(* version checks, offsets, epochs and expiry times; the cleanup pass that *)
(* deletes expired rows behind their back; and History, which reads the    *)
(* channel in two statements.  Channels share nothing but the shard lock,  *)
(* so one channel is enough; the outbox that delivers the rows is          *)
(* StreamOutbox.                                                           *)
(*                                                                         *)
(* NOW() is the start time of the transaction, so a transaction opened     *)
(* early and published late writes old time stamps.                        *)
(***************************************************************************)
EXTENDS Integers, FiniteSets

CONSTANTS
    Publishers,   \* sessions that publish
    Keys,         \* idempotency keys
    NoKey,        \* no idempotency key
    PublishArgs,  \* parameter combinations of publish, see Args
    ReadArgs,     \* parameter combinations of History, see Filters
    DefaultMetaTTL, \* '7 days': TTL of a meta row created or without TTLs
    MaxTime,      \* bound: clock ticks
    MaxPublishes  \* bound: publish calls

Infinity == 1000000

VARIABLES
    now,       \* database clock
    meta,      \* the channel's meta row
    rows,      \* publications in the stream table
    idem,      \* idempotency rows
    began,     \* start time of each session's open transaction, 0: none
    victim,    \* epoch of the meta row a cleanup DELETE has selected, 0: none
    reader,    \* a History call between its two statements
    result,    \* what the last History call returned
    ever,      \* history variable: every publication ever appended
    replies,   \* history variable: replies of the publish calls
    epochs     \* epochs handed out so far

publishVars == <<now, meta, rows, idem, began, victim, reader, result, ever, replies, epochs>>

\* Version epochs, and the empty one of a publish that gives none.
NoVE == ""
VEs == {NoVE, "A", "B"}

Args == [key: Keys \cup {NoKey}, ver: Nat, ve: VEs, httl: Nat, size: Nat,
         mttl: Int, ittl: Nat, strict: BOOLEAN, delta: BOOLEAN]
Filters == [since: Nat, limit: Nat, reverse: BOOLEAN]

ASSUME ArgsAssumption == PublishArgs \subseteq Args /\ ReadArgs \subseteq Filters
ASSUME TimesAssumption ==
    /\ DefaultMetaTTL \in Nat \ {0}
    /\ MaxTime \in Nat /\ MaxPublishes \in Nat
ASSUME KeyAssumption == NoKey \notin Keys

Meta == [off: Nat, epoch: Nat, httl: Nat, size: Nat, ver: Nat, ve: VEs,
         expires: Nat]
NoMeta == [off |-> 0, epoch |-> 0, httl |-> 0, size |-> 0, ver |-> 0, ve |-> NoVE,
           expires |-> 0]
Publication == [off: Nat, epoch: Nat, at: Nat, prev: Nat, ver: Nat, ve: VEs,
                key: Keys \cup {NoKey}, ittl: Nat]
IdemRow == [off: Nat, epoch: Nat, expires: Nat]
NoIdem == [off |-> 0, epoch |-> 0, expires |-> 0]
NotReading == [busy |-> FALSE]
NoResult == [pubs |-> {}, off |-> 0, epoch |-> 0, from |-> 1]

-----------------------------------------------------------------------------
(* The publish function.                                                   *)

GreatestOf(x, y) == IF x >= y THEN x ELSE y

\* GREATEST(COALESCE(p_meta_ttl, 0), COALESCE(p_history_ttl, 0)); 0 becomes
\* the default.
EffectiveMetaTTL(g) ==
    LET e == GreatestOf(g.mttl, g.httl)
    IN  IF e = 0 THEN DefaultMetaTTL ELSE e

LockedMetaMutant(t) ==
    IF meta.epoch # 0 THEN meta
    ELSE [off |-> 0, epoch |-> 1, httl |-> 1, size |-> 100, ver |-> 0,
          ve |-> NoVE, expires |-> t + DefaultMetaTTL]

\* INSERT ... ON CONFLICT DO UPDATE: the existing row, or a fresh one with a
\* new random epoch and the column defaults.
LockedMeta(t) ==
    IF meta.epoch # 0 THEN meta
    ELSE [off |-> 0, epoch |-> epochs + 1, httl |-> 1, size |-> 100, ver |-> 0,
          ve |-> NoVE, expires |-> t + DefaultMetaTTL]

IdempotencyHit(g, t) == g.key # NoKey /\ idem[g.key].expires > t

VersionStale(g, m) ==
    /\ g.ver > 0 /\ m.ver > 0
    /\ g.ve = NoVE \/ g.ve = m.ve
    /\ g.ver <= m.ver

\* The data of the newest publication of the epoch, for delta compression.
PrevData(g, m) ==
    IF ~g.delta THEN {0}
    ELSE LET s == {r \in rows : r.epoch = m.epoch}
         IN  IF s = {} THEN {0} ELSE {r.off : r \in {q \in s : \A x \in s : x.off <= q.off}}

\* UPDATE meta: the offset always advances, TTL and size when given, version
\* fields only for a versioned publish.
AdvancedMeta(g, m, t) ==
    [off     |-> m.off + 1,
     epoch   |-> m.epoch,
     httl    |-> IF g.httl > 0 THEN g.httl ELSE m.httl,
     size    |-> IF g.size > 0 THEN g.size ELSE m.size,
     ver     |-> IF g.ver > 0 THEN g.ver ELSE m.ver,
     ve      |-> IF g.ver > 0 /\ g.ve # NoVE THEN g.ve ELSE m.ve,
     expires |-> IF EffectiveMetaTTL(g) < 0 THEN Infinity ELSE t + EffectiveMetaTTL(g)]

\* INSERT INTO idempotency ... ON CONFLICT DO NOTHING: an expired row that is
\* still there wins over the new result.
SavedIdem(g, off, epoch, t) ==
    IF g.key = NoKey \/ idem[g.key] # NoIdem THEN idem
    ELSE [idem EXCEPT ![g.key] = [off |-> off, epoch |-> epoch, expires |-> t + g.ittl]]

Reply(g, off, epoch, reason) ==
    replies' = replies \cup {[n |-> Cardinality(replies), key |-> g.key, off |-> off,
                              epoch |-> epoch, reason |-> reason]}

\* BEGIN: the time stamp of everything the transaction writes.
Begin(p) ==
    /\ began[p] = 0
    /\ Cardinality(replies) < MaxPublishes
    /\ began' = [began EXCEPT ![p] = now]
    /\ UNCHANGED <<now, meta, rows, idem, victim, reader, result, ever, replies, epochs>>

\* publish and its commit.  Time may pass since BEGIN: while the statement waits
\* for the shard lock, or while an application's transaction does other work.
\* publish_strict raises an exception when the publish is suppressed, which
\* rolls everything back.
Publish(p, g) ==
    LET t == began[p]
        m == LockedMeta(t)
        suppressed == IdempotencyHit(g, t) \/ VersionStale(g, m)
    IN  /\ t # 0
        /\ Cardinality(replies) < MaxPublishes
        /\ began' = [began EXCEPT ![p] = 0]
        /\ IF ~suppressed
           THEN \E prev \in PrevData(g, m) :
                  LET r == [off |-> m.off + 1, epoch |-> m.epoch, at |-> t, prev |-> prev,
                            ver |-> g.ver, ve |-> AdvancedMeta(g, m, t).ve,
                            key |-> g.key, ittl |-> g.ittl]
                  IN  /\ meta' = AdvancedMeta(g, m, t)
                      /\ rows' = rows \cup {r}
                      /\ ever' = ever \cup {r}
                      /\ idem' = SavedIdem(g, r.off, r.epoch, t)
                      /\ Reply(g, r.off, r.epoch, "none")
                      /\ epochs' = GreatestOf(epochs, m.epoch)
           ELSE /\ IF IdempotencyHit(g, t)
                   THEN Reply(g, idem[g.key].off, idem[g.key].epoch, "idempotency")
                   ELSE Reply(g, m.off, m.epoch, "version")
                /\ IF g.strict
                   THEN UNCHANGED <<meta, epochs>>
                   ELSE meta' = m /\ epochs' = GreatestOf(epochs, m.epoch)
                /\ UNCHANGED <<rows, ever, idem>>
        /\ UNCHANGED <<now, victim, reader, result>>

\* remove_history: publications go, the position stays.
RemoveChannelHistory ==
    /\ rows # {}
    /\ rows' = {}
    /\ UNCHANGED <<now, meta, idem, began, victim, reader, result, ever, replies, epochs>>

-----------------------------------------------------------------------------
(* Cleanup and time.                                                       *)

Tick ==
    /\ now < MaxTime
    /\ now' = now + 1
    /\ UNCHANGED <<meta, rows, idem, began, victim, reader, result, ever, replies, epochs>>

\* DELETE FROM meta WHERE channel IN (SELECT ... expires_at < NOW() LIMIT n):
\* the sub-select runs on the statement's snapshot ...
CleanupMetaSelect ==
    /\ victim = 0
    /\ meta.epoch # 0 /\ meta.expires < now
    /\ victim' = meta.epoch
    /\ UNCHANGED <<now, meta, rows, idem, began, reader, result, ever, replies, epochs>>

\* ... and the row is deleted when its lock is free, also in a newer version:
\* after waiting for a concurrent update only "channel IN (...)" is checked
\* again, against the same sub-select.
CleanupMetaDelete ==
    /\ victim # 0
    /\ victim' = 0
    /\ meta' = IF meta.epoch = victim THEN NoMeta ELSE meta
    /\ UNCHANGED <<now, rows, idem, began, reader, result, ever, replies, epochs>>

\* Idempotency rows are never updated, so one step is enough for them.
CleanupIdempotency ==
    /\ \E k \in Keys : idem[k] # NoIdem /\ idem[k].expires < now
    /\ idem' = [k \in Keys |-> IF idem[k].expires < now THEN NoIdem ELSE idem[k]]
    /\ UNCHANGED <<now, meta, rows, began, victim, reader, result, ever, replies, epochs>>

-----------------------------------------------------------------------------
(* History.                                                                *)

\* First statement: the meta row.  Without one, or with a zero limit, the
\* call returns at once.
HistoryMeta(f) ==
    /\ ~reader.busy
    /\ IF meta.epoch = 0 \/ f.limit = 0
       THEN /\ result' = [NoResult EXCEPT !.off = meta.off, !.epoch = meta.epoch]
            /\ UNCHANGED reader
       ELSE /\ reader' = [busy |-> TRUE, f |-> f, off |-> meta.off, epoch |-> meta.epoch,
                          httl |-> meta.httl, size |-> meta.size]
            /\ result' = NoResult
    /\ UNCHANGED <<now, meta, rows, idem, began, victim, ever, replies, epochs>>

\* First offset the reader wants: after Since and inside the size window.
EffectiveStart(x) ==
    GreatestOf(x.f.since + 1,
               IF x.size > 0 /\ x.off >= x.size THEN x.off - x.size + 1 ELSE 1)

EffectiveLimit(x) ==
    IF x.size > 0 /\ x.size < x.f.limit THEN x.size ELSE x.f.limit

MatchingMutant(x) ==
    {r \in rows : /\ r.epoch = x.epoch
                  /\ \/ r.off = EffectiveStart(x)
                     \/ /\ EffectiveStart(x) <= r.off /\ r.off <= x.off
                        /\ x.httl > 0 => r.at > now - x.httl}

\* The rows of the second statement before ORDER BY and LIMIT.
Matching(x) ==
    {r \in rows : /\ EffectiveStart(x) <= r.off /\ r.off <= x.off
                  /\ r.epoch = x.epoch
                  /\ x.httl > 0 => r.at > now - x.httl}

\* ORDER BY channel_offset ASC or DESC, LIMIT.
Limited(x, s) ==
    {r \in s : Cardinality({q \in s : IF x.f.reverse THEN q.off > r.off ELSE q.off < r.off})
               < EffectiveLimit(x)}

HistoryRows ==
    /\ reader.busy
    /\ result' = [pubs |-> Limited(reader, Matching(reader)), off |-> reader.off,
                  epoch |-> reader.epoch, from |-> EffectiveStart(reader)]
    /\ reader' = NotReading
    /\ UNCHANGED <<now, meta, rows, idem, began, victim, ever, replies, epochs>>

-----------------------------------------------------------------------------
PublishInit ==
    /\ now = 1
    /\ meta = NoMeta /\ rows = {} /\ idem = [k \in Keys |-> NoIdem]
    /\ began = [p \in Publishers |-> 0]
    /\ victim = 0
    /\ reader = NotReading /\ result = NoResult
    /\ ever = {} /\ replies = {} /\ epochs = 0

PublishNext ==
    \/ \E p \in Publishers : Begin(p) \/ \E g \in PublishArgs : Publish(p, g)
    \/ RemoveChannelHistory
    \/ Tick
    \/ CleanupMetaSelect \/ CleanupMetaDelete \/ CleanupIdempotency
    \/ \E f \in ReadArgs : HistoryMeta(f)
    \/ HistoryRows

PublishSpec == PublishInit /\ [][PublishNext]_publishVars

-----------------------------------------------------------------------------
(* Properties.                                                             *)

\* Every variable keeps its type.
PublishTypeOK ==
    /\ now \in Nat /\ epochs \in Nat /\ victim \in Nat
    /\ meta \in Meta
    /\ rows \subseteq Publication /\ ever \subseteq Publication
    /\ idem \in [Keys -> IdemRow]
    /\ began \in [Publishers -> Nat]
    /\ reader.busy \in BOOLEAN
    /\ result.pubs \subseteq Publication

\* A position names one publication: no two publications of the channel ever
\* share epoch and offset, and the offsets of an epoch have no holes.
PositionsNeverReused ==
    /\ \A r, q \in ever : r.epoch = q.epoch /\ r.off = q.off => r = q
    /\ \A r \in ever : \A o \in 1 .. r.off : \E q \in ever : q.epoch = r.epoch /\ q.off = o
    /\ \A r \in ever : r.epoch = meta.epoch => r.off <= meta.off

\* The reply to a repeated key names the publication the key was first used
\* for, also after the channel was forgotten and recreated under a new epoch.
ReplayNamesOriginal ==
    \A y \in replies : y.reason = "idempotency" =>
        \E r \in ever : r.key = y.key /\ r.epoch = y.epoch /\ r.off = y.off

\* Versions of an epoch go up: of two versioned publications that follow each
\* other under the same version epoch the later has the larger version.
VersionsIncrease ==
    \A r, q \in ever :
        /\ r.epoch = q.epoch /\ r.off < q.off
        /\ r.ver > 0 /\ q.ver > 0
        /\ \A x \in ever : x.epoch = r.epoch /\ r.off <= x.off /\ x.off <= q.off => x.ve = r.ve
        => r.ver < q.ver

\* A delta is computed against the direct predecessor in the same epoch, or
\* against nothing.
DeltaBaseIsPredecessor ==
    \A r \in ever : r.prev \in {0, r.off - 1}

\* Transactions published in the order in which they began.
StampsInOrder ==
    \A r, q \in rows : r.epoch = q.epoch /\ r.off < q.off => r.at <= q.at

\* "the meta row always survives at least as long as the recoverable history":
\* when every publish gives a history TTL and none was opened before and
\* published after another, the expiry time of the meta row is never before
\* the last moment History can return one of its publications.
ClampCoversHistory ==
    (\A g \in PublishArgs : g.httl > 0) /\ meta.epoch # 0 /\ StampsInOrder =>
        \A r \in rows : r.epoch = meta.epoch /\ r.off > meta.off - meta.size =>
            r.at + meta.httl <= meta.expires

\* What a client that recovers from History relies on: between two
\* publications of an answer nothing is missing that the table still holds.
RecoveredHasNoHole ==
    \A r, q \in result.pubs : \A o \in r.off .. q.off :
        \/ \E x \in result.pubs : x.off = o
        \/ ~ \E x \in rows : x.epoch = result.epoch /\ x.off = o

\* The condition under which History keeps that promise: the expiry filter
\* goes by time stamp and the answer by offset, so as long as time stamps
\* follow the offsets the answer is a contiguous stretch of the stream, also
\* when publishes, cleanup and remove_history run between the two statements.
OrderedStampsNoHole == StampsInOrder => RecoveredHasNoHole

\* What a publisher is told: positions, versions, idempotent replies and delta
\* bases stay right over concurrent publishes, cleanup and new epochs.
PublishSafe ==
    /\ PublishTypeOK
    /\ PositionsNeverReused
    /\ ReplayNamesOriginal
    /\ VersionsIncrease
    /\ DeltaBaseIsPredecessor

\* What a reader of the history is told.
HistorySafe == ClampCoversHistory /\ OrderedStampsNoHole
=============================================================================
