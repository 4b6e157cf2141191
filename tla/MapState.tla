------------------------------- MODULE MapState -------------------------------
(***************************************************************************)
(* One channel of the PostgreSQL map broker: a keyed state table, the      *)
(* change stream beside it and the meta row that ties both to an epoch.    *)
(* Publishes, removals, key expiry, meta cleanup and Clear change them;    *)
(* a client reads the state page by page and then catches up on the        *)
(* stream.  Delivery of stream rows to live subscribers is StreamOutbox.   *)
(*                                                                         *)
(* The SQL functions run under the shard lock, so each is one step here;   *)
(* Clear and the meta cleanup do not take that lock and are split at       *)
(* their statements.  Data are abstracted to the offset they were          *)
(* published at.                                                           *)
(***************************************************************************)
EXTENDS Naturals, FiniteSets

CONSTANTS
    NumKeys,      \* keys of the channel are 1 .. NumKeys, in reading order
    IdemKeys,     \* idempotency keys
    MapNoKey,        \* no idempotency key
    MapPublishArgs,  \* parameter combinations of publish, see PubArgs
    RemoveArgs,   \* parameter combinations of remove, see RemArgs
    KeyTTL, MetaTTL,  \* of the channel, 0: NULL
    IdemTTL,      \* IdempotentResultTTL
    ExpireBatch,  \* p_batch_size of expire_keys
    PageLimit,    \* Limit of ReadState
    StreamLimit,  \* Limit of ReadStream
    ClearUsed,    \* whether somebody calls Clear
    MapMaxTime,      \* bound: clock
    MaxEntries,   \* bound: stream entries ever
    MaxEpochs     \* bound: meta rows ever created

MapKeys == 1 .. NumKeys
Never == 1000000
NoVersionEpoch == ""  \* the caller names none
VersionEpochs == {NoVersionEpoch, "A", "B"}

PubArgs == [key: MapKeys, mode: {"replace", "if_new", "if_exists"}, cas: BOOLEAN,
            ver: Nat, ve: VersionEpochs, idk: IdemKeys \cup {MapNoKey},
            refresh: BOOLEAN, strict: BOOLEAN]
RemArgs == [key: MapKeys, cas: BOOLEAN, idk: IdemKeys \cup {MapNoKey}]

ASSUME MapArgsAssumption == MapPublishArgs \subseteq PubArgs /\ RemoveArgs \subseteq RemArgs
ASSUME MapKeyAssumption == MapNoKey \notin IdemKeys
\* "meta_ttl must be >= key_ttl", and permanent for permanent keys.
ASSUME TTLAssumption ==
    /\ KeyTTL \in Nat /\ MetaTTL \in Nat /\ IdemTTL \in Nat
    /\ MetaTTL # 0 => KeyTTL # 0 /\ MetaTTL >= KeyTTL
ASSUME BoundAssumption ==
    /\ NumKeys \in Nat /\ ExpireBatch \in Nat \ {0}
    /\ PageLimit \in Nat \ {0} /\ StreamLimit \in Nat \ {0} /\ ClearUsed \in BOOLEAN
    /\ MapMaxTime \in Nat /\ MaxEntries \in Nat /\ MaxEpochs \in Nat

VARIABLES
    mapNow,     \* database clock
    mapMeta,    \* meta row: position and expiry
    state,   \* state table: a row or NoRow per key
    stream,  \* stream rows
    mapIdem,    \* idempotency rows
    mapVictim,  \* epoch of the meta row a cleanup DELETE has selected, 0: none
    clr,     \* a Clear transaction and the rows it has locked
    client,  \* a client that synchronizes
    mapEver,    \* history variable: every entry ever written to the stream
    wins,    \* history variable: successful compare-and-set publishes
    mapEpochs   \* epochs handed out

mapVars == <<mapNow, mapMeta, state, stream, mapIdem, mapVictim, clr, client, mapEver, wins, mapEpochs>>
tables == <<mapMeta, state, stream, mapIdem>>

MapNoMeta == [off |-> 0, epoch |-> 0, expires |-> 0]
NoRow == [off |-> 0, epoch |-> 0, ver |-> 0, ve |-> NoVersionEpoch, expires |-> 0]
MapNoIdem == [off |-> 0, epoch |-> 0, expires |-> 0]
NoPos == [off |-> 0, epoch |-> 0]
NoClear == [pc |-> "no", rows |-> {}, keys |-> {}, epoch |-> 0]
Unsynced == [pc |-> "idle", pos |-> NoPos, view |-> [k \in MapKeys |-> 0], cursor |-> 0]

Exists(row) == row # NoRow
After(ttl) == IF ttl = 0 THEN Never ELSE mapNow + ttl
MetaExpiry(m) == IF MetaTTL = 0 THEN m.expires ELSE mapNow + MetaTTL

-----------------------------------------------------------------------------
(* publish and publish_strict.                                             *)

MapIdempotencyHit(idk) == idk # MapNoKey /\ mapIdem[idk].expires > mapNow

MapSavedIdem(idk, off, epoch) ==
    IF idk = MapNoKey \/ mapIdem[idk] # MapNoIdem THEN mapIdem
    ELSE [mapIdem EXCEPT ![idk] = [off |-> off, epoch |-> epoch, expires |-> mapNow + IdemTTL]]

\* A version is stale when the stored one is at least as new, under the same
\* version epoch or when the caller names none.
MapVersionStale(g, row) ==
    /\ g.ver > 0 /\ row.ver > 0
    /\ g.ve = NoVersionEpoch \/ g.ve = row.ve
    /\ g.ver <= row.ver

\* ExpectedPosition against the stored key; epoch 0 stands for no epoch given.
PositionMismatch(x, row, epoch) ==
    x # NoPos /\ (~Exists(row) \/ row.off # x.off \/ (x.epoch # 0 /\ x.epoch # epoch))

\* Positions a caller can know of, with or without their epoch.
KnownPositions ==
    UNION {{[off |-> e.off, epoch |-> e.epoch], [off |-> e.off, epoch |-> 0]} : e \in mapEver}

\* Why a publish is suppressed: the checks in their order.
Suppression(g, x, row, epoch) ==
    CASE MapIdempotencyHit(g.idk)                    -> "idempotency"
      [] ~MapIdempotencyHit(g.idk) /\ MapVersionStale(g, row) -> "version"
      [] OTHER ->
           IF g.mode = "if_new" /\ Exists(row) THEN "key_exists"
           ELSE IF g.mode = "if_exists" /\ ~Exists(row) THEN "key_not_found"
           ELSE IF PositionMismatch(x, row, epoch) THEN "position_mismatch"
           ELSE "none"

\* A meta row that was just inserted: state rows of an earlier epoch go.
Wiped == IF mapMeta.epoch = 0 THEN [k \in MapKeys |-> NoRow] ELSE state

MapLockedMetaMutant == IF mapMeta.epoch # 0 THEN mapMeta
                    ELSE [off |-> 0, epoch |-> 1, expires |-> Never]

\* The meta row: the one found, or a new one with a random epoch and no expiry.
MapLockedMeta == IF mapMeta.epoch # 0 THEN mapMeta
              ELSE [off |-> 0, epoch |-> mapEpochs + 1, expires |-> Never]

\* Rows a Clear has deleted and not committed make the SQL functions wait.
NotBlocked(ks) ==
    /\ clr.epoch = 0
    /\ clr.keys \cap ks = {}
    /\ mapMeta.epoch = 0 => clr.keys = {}

NewEpochs == IF mapMeta.epoch = 0 THEN mapEpochs + 1 ELSE mapEpochs

Entry(off, epoch, key, removed) ==
    [off |-> off, epoch |-> epoch, key |-> key, removed |-> removed]

AddEntries(es) ==
    /\ Cardinality(mapEver) + Cardinality(es) <= MaxEntries
    /\ stream' = stream \cup es
    /\ mapEver' = mapEver \cup es

\* publish_strict raises on every suppression and so rolls back.
StrictRaises(g, reason) == g.strict /\ reason # "none"

MapPublish(g, x) ==
    LET m == MapLockedMeta
        s == Wiped
        row == s[g.key]
        reason == Suppression(g, x, row, m.epoch)
        refreshed == g.refresh /\ KeyTTL # 0 /\ reason = "key_exists"
    IN  /\ NotBlocked({g.key})
        /\ m.epoch <= MaxEpochs
        /\ \/ /\ reason = "none"
              /\ mapMeta' = [off |-> m.off + 1, epoch |-> m.epoch, expires |-> MetaExpiry(m)]
              /\ state' = [s EXCEPT ![g.key] =
                    [off |-> m.off + 1, epoch |-> m.epoch,
                     ver |-> IF g.ver > 0 THEN g.ver ELSE row.ver,
                     ve |-> IF g.ver > 0 /\ g.ve # NoVersionEpoch THEN g.ve ELSE row.ve,
                     expires |-> After(KeyTTL)]]
              /\ AddEntries({Entry(m.off + 1, m.epoch, g.key, FALSE)})
              /\ mapIdem' = MapSavedIdem(g.idk, m.off + 1, m.epoch)
              /\ wins' = IF x = NoPos THEN wins
                         ELSE wins \cup {[key |-> g.key, expected |-> x,
                                          off |-> m.off + 1, epoch |-> m.epoch]}
              /\ mapEpochs' = NewEpochs
           \/ /\ reason # "none" /\ ~StrictRaises(g, reason)
              /\ mapMeta' = IF refreshed THEN [m EXCEPT !.expires = MetaExpiry(m)] ELSE m
              /\ state' = IF refreshed THEN [s EXCEPT ![g.key].expires = mapNow + KeyTTL] ELSE s
              /\ mapEpochs' = NewEpochs
              /\ UNCHANGED <<stream, mapIdem, mapEver, wins>>
           \/ /\ StrictRaises(g, reason)
              /\ UNCHANGED <<tables, mapEver, wins, mapEpochs>>
        /\ UNCHANGED <<mapNow, mapVictim, clr, client>>

-----------------------------------------------------------------------------
(* remove and remove_strict.                                               *)

RemoveReason(g, x) ==
    LET row == state[g.key]
    IN  IF mapMeta.epoch = 0 THEN "no_meta"
        ELSE IF MapIdempotencyHit(g.idk) THEN "idempotency"
        ELSE IF PositionMismatch(x, row, mapMeta.epoch) THEN "position_mismatch"
        ELSE IF ~Exists(row) \/ row.expires <= mapNow THEN "key_not_found"
        ELSE "none"

\* A suppressed removal changes nothing, so remove_strict differs from remove
\* only in raising an error instead of replying.
Remove(g, x) ==
    /\ NotBlocked({g.key})
    /\ RemoveReason(g, x) = "none"
    /\ mapMeta' = [mapMeta EXCEPT !.off = @ + 1, !.expires = MetaExpiry(mapMeta)]
    /\ state' = [state EXCEPT ![g.key] = NoRow]
    /\ AddEntries({Entry(mapMeta.off + 1, mapMeta.epoch, g.key, TRUE)})
    /\ mapIdem' = MapSavedIdem(g.idk, mapMeta.off + 1, mapMeta.epoch)
    /\ UNCHANGED <<mapNow, mapVictim, clr, client, wins, mapEpochs>>

-----------------------------------------------------------------------------
(* Background work: key expiry, cleanup of meta and idempotency rows.      *)

Expired == {k \in MapKeys : Exists(state[k]) /\ state[k].expires <= mapNow}

\* expire_keys for this channel: with no meta row the expired keys go
\* silently; otherwise up to a batch of them, except keys others have locked,
\* become removal entries at consecutive offsets.
ExpireKeys ==
    /\ Expired # {} /\ NotBlocked({})
    /\ \/ /\ mapMeta.epoch = 0
          /\ state' = [k \in MapKeys |-> IF k \in Expired THEN NoRow ELSE state[k]]
          /\ UNCHANGED <<mapMeta, stream, mapEver>>
       \/ /\ mapMeta.epoch # 0
          /\ LET free == Expired \ clr.keys
                 n == IF Cardinality(free) < ExpireBatch THEN Cardinality(free) ELSE ExpireBatch
             IN  /\ n > 0
                 /\ \E ks \in [1 .. n -> free] :
                      LET gone == {ks[i] : i \in 1 .. n}
                      IN  /\ Cardinality(gone) = n
                          /\ mapMeta' = [mapMeta EXCEPT !.off = @ + n, !.expires = MetaExpiry(mapMeta)]
                          /\ state' = [k \in MapKeys |-> IF k \in gone THEN NoRow ELSE state[k]]
                          /\ AddEntries({Entry(mapMeta.off + i, mapMeta.epoch, ks[i], TRUE) :
                                            i \in 1 .. n})
    /\ UNCHANGED <<mapNow, mapIdem, mapVictim, clr, client, wins, mapEpochs>>

\* The DELETE ... WHERE channel IN (SELECT ...) of cleanupEntries picks its
\* rows from a snapshot; a row updated meanwhile is still deleted.
MapCleanupMetaSelect ==
    /\ mapVictim = 0 /\ mapMeta.epoch # 0 /\ mapMeta.expires < mapNow
    /\ mapVictim' = mapMeta.epoch
    /\ UNCHANGED <<mapNow, tables, clr, client, mapEver, wins, mapEpochs>>

MapCleanupMetaDelete ==
    /\ mapVictim # 0 /\ clr.epoch = 0
    /\ mapMeta' = IF mapMeta.epoch = mapVictim THEN MapNoMeta ELSE mapMeta
    /\ mapVictim' = 0
    /\ UNCHANGED <<mapNow, state, stream, mapIdem, clr, client, mapEver, wins, mapEpochs>>

MapCleanupIdempotency ==
    /\ \E i \in IdemKeys : mapIdem[i] # MapNoIdem /\ mapIdem[i].expires < mapNow
    /\ mapIdem' = [i \in IdemKeys |-> IF mapIdem[i].expires < mapNow THEN MapNoIdem ELSE mapIdem[i]]
    /\ UNCHANGED <<mapNow, mapMeta, state, stream, mapVictim, clr, client, mapEver, wins, mapEpochs>>

-----------------------------------------------------------------------------
(* Clear: four DELETEs in one transaction that takes no shard lock.  Each   *)
(* sees what was committed before it; the rows go at the commit.            *)

ClearStream ==
    /\ ClearUsed /\ clr.pc = "no"
    /\ clr' = [clr EXCEPT !.pc = "stream", !.rows = stream]
    /\ UNCHANGED <<mapNow, tables, mapVictim, client, mapEver, wins, mapEpochs>>

ClearState ==
    /\ clr.pc = "stream"
    /\ clr' = [clr EXCEPT !.pc = "state", !.keys = {k \in MapKeys : Exists(state[k])}]
    /\ UNCHANGED <<mapNow, tables, mapVictim, client, mapEver, wins, mapEpochs>>

ClearMeta ==
    /\ clr.pc = "state"
    /\ clr' = [clr EXCEPT !.pc = "meta", !.epoch = mapMeta.epoch]
    /\ UNCHANGED <<mapNow, tables, mapVictim, client, mapEver, wins, mapEpochs>>

ClearCommit ==
    /\ clr.pc = "meta"
    /\ stream' = stream \ clr.rows
    /\ state' = [k \in MapKeys |-> IF k \in clr.keys THEN NoRow ELSE state[k]]
    /\ mapMeta' = IF clr.epoch # 0 THEN MapNoMeta ELSE mapMeta
    /\ mapIdem' = [i \in IdemKeys |-> MapNoIdem]
    /\ clr' = NoClear
    /\ UNCHANGED <<mapNow, mapVictim, client, mapEver, wins, mapEpochs>>

\* An error of any statement, a deadlock with a publish included.
ClearRollback ==
    /\ clr.pc # "no"
    /\ clr' = NoClear
    /\ UNCHANGED <<mapNow, tables, mapVictim, client, mapEver, wins, mapEpochs>>

-----------------------------------------------------------------------------
(* A client: pages of ReadState under the first page's epoch, then          *)
(* ReadStream from the first page's position.                               *)

KeysFoundMutant(cursor) == {k \in MapKeys : Exists(state[k]) /\ state[k].expires > mapNow /\ k > cursor}

\* The keys after the cursor, expired or not: until expire_keys writes their
\* removal they are part of the channel.
KeysFound(cursor) == {k \in MapKeys : Exists(state[k]) /\ k > cursor}

Page(cursor) ==
    {k \in KeysFound(cursor) : Cardinality({j \in KeysFound(cursor) : j <= k}) <= PageLimit}

\* There is a next page when the query found a row beyond the limit.
NextCursor(cursor) ==
    IF KeysFound(cursor) = Page(cursor) THEN 0
    ELSE CHOOSE k \in Page(cursor) : \A j \in Page(cursor) : j <= k

ReadPage ==
    /\ client.pc \in {"idle", "paging"}
    /\ mapMeta.epoch # 0
    /\ client.pc = "paging" => client.pos.epoch = mapMeta.epoch
    /\ client' =
         [pc |-> IF NextCursor(client.cursor) = 0 THEN "live" ELSE "paging",
          pos |-> IF client.pc = "idle" THEN [off |-> mapMeta.off, epoch |-> mapMeta.epoch]
                  ELSE client.pos,
          view |-> [k \in MapKeys |-> IF k \in Page(client.cursor) THEN state[k].off
                                   ELSE client.view[k]],
          cursor |-> NextCursor(client.cursor)]
    /\ UNCHANGED <<mapNow, tables, mapVictim, clr, mapEver, wins, mapEpochs>>

\* ErrorUnrecoverablePosition from ReadState or ReadStream: the client starts
\* over.  ReadStream answers a missing meta row with an empty result instead.
Unrecoverable ==
    /\ \/ client.pc = "paging"
       \/ client.pc = "live" /\ mapMeta.epoch # 0
    /\ client.pos.epoch # mapMeta.epoch
    /\ client' = Unsynced
    /\ UNCHANGED <<mapNow, tables, mapVictim, clr, mapEver, wins, mapEpochs>>

\* Rows after the position, of the live epoch, the first StreamLimit of them.
SincePosition ==
    LET after == {e \in stream : e.epoch = mapMeta.epoch /\ e.off > client.pos.off}
    IN  {e \in after : Cardinality({f \in after : f.off <= e.off}) <= StreamLimit}

ReadStream ==
    LET pubs == SincePosition
        last(k) == CHOOSE e \in pubs : e.key = k /\ \A f \in pubs : f.key = k => f.off <= e.off
    IN  /\ client.pc = "live" /\ mapMeta.epoch # 0 /\ client.pos.epoch = mapMeta.epoch
        /\ pubs # {}
        /\ client' = [client EXCEPT
             !.pos.off = (CHOOSE e \in pubs : \A f \in pubs : f.off <= e.off).off,
             !.view = [k \in MapKeys |->
                 IF \E e \in pubs : e.key = k
                 THEN IF last(k).removed THEN 0 ELSE last(k).off
                 ELSE client.view[k]]]
        /\ UNCHANGED <<mapNow, tables, mapVictim, clr, mapEver, wins, mapEpochs>>

-----------------------------------------------------------------------------
MapTick ==
    /\ mapNow < MapMaxTime
    /\ mapNow' = mapNow + 1
    /\ UNCHANGED <<tables, mapVictim, clr, client, mapEver, wins, mapEpochs>>

MapInit ==
    /\ mapNow = 1 /\ mapMeta = MapNoMeta /\ state = [k \in MapKeys |-> NoRow]
    /\ stream = {} /\ mapIdem = [i \in IdemKeys |-> MapNoIdem]
    /\ mapVictim = 0 /\ clr = NoClear /\ client = Unsynced
    /\ mapEver = {} /\ wins = {} /\ mapEpochs = 0

\* The expected position of a request: none, or one the caller has seen.
Expected(g) == IF g.cas THEN KnownPositions ELSE {NoPos}

MapNext ==
    \/ \E g \in MapPublishArgs : \E x \in Expected(g) : MapPublish(g, x)
    \/ \E g \in RemoveArgs : \E x \in Expected(g) : Remove(g, x)
    \/ ExpireKeys \/ MapCleanupMetaSelect \/ MapCleanupMetaDelete \/ MapCleanupIdempotency
    \/ ClearStream \/ ClearState \/ ClearMeta \/ ClearCommit \/ ClearRollback
    \/ ReadPage \/ Unrecoverable \/ ReadStream
    \/ MapTick

MapSpec == MapInit /\ [][MapNext]_mapVars

-----------------------------------------------------------------------------
(* Properties.                                                              *)

\* The tables, the Clear transaction and the client hold what the schema and
\* the Go code allow, and a row of the state table carries the offset of an
\* entry ever written.
MapTypeOK ==
    /\ mapNow \in Nat /\ mapEpochs \in Nat
    /\ mapMeta \in [off: Nat, epoch: 0 .. mapEpochs, expires: Nat]
    /\ \A k \in MapKeys : Exists(state[k]) =>
          \E e \in mapEver : e.off = state[k].off /\ e.epoch = state[k].epoch /\ e.key = k
    /\ stream \subseteq mapEver
    /\ \A i \in IdemKeys : mapIdem[i] = MapNoIdem \/ mapIdem[i].off \in Nat \ {0}
    /\ mapVictim \in Nat
    /\ clr.pc \in {"no", "stream", "state", "meta"} /\ clr.keys \subseteq MapKeys
    /\ client.pc \in {"idle", "paging", "live"}
    /\ client.view \in [MapKeys -> Nat]

\* A client that has read all pages and caught up with the stream to the top
\* position of the live epoch sees exactly the keys of the state table, each
\* with its latest publication: pages may be read at different positions, keys
\* may be published, removed, refreshed or expired between them.
ClientConverges ==
    client.pc = "live" /\ mapMeta.epoch # 0
        /\ client.pos = [off |-> mapMeta.off, epoch |-> mapMeta.epoch]
    => \A k \in MapKeys : client.view[k] = state[k].off

\* The state table is what the stream of the live epoch folds to: a key is
\* there exactly when its last entry is not a removal, with that entry's
\* offset; rows of a dead epoch never show beside a live meta row.
StateIsFoldOfStream ==
    mapMeta.epoch # 0 =>
      \A k \in MapKeys :
        LET es == {e \in mapEver : e.epoch = mapMeta.epoch /\ e.key = k}
            latest == CHOOSE e \in es : \A f \in es : f.off <= e.off
        IN  IF es = {} \/ latest.removed THEN ~Exists(state[k])
            ELSE state[k].off = latest.off /\ state[k].epoch = mapMeta.epoch

\* Of all compare-and-set publishes that name one position of one key, epoch
\* included, at most one succeeds, over epochs that restart offsets at 1.
CASOnce ==
    \A v, w \in wins :
        v.key = w.key /\ v.expected = w.expected /\ v.expected.epoch # 0 => v = w

\* A position is given to one entry only: two publishers, expiry and Clear
\* never make (epoch, offset) name two changes.
PositionsUnique ==
    \A e, f \in mapEver : e.epoch = f.epoch /\ e.off = f.off => e = f

\* A subscriber of a map ends with the map: the state table is the fold of
\* the stream, and pages read between changes catch up to it.
MapSynced == MapTypeOK /\ ClientConverges /\ StateIsFoldOfStream

\* Positions identify changes, so compare-and-set succeeds at most once each.
MapPositions == CASOnce /\ PositionsUnique
=============================================================================
