---------------------------- MODULE OptionsCache ----------------------------
(***************************************************************************)
(* Container.ChannelOptions (internal/config/container.go) with its        *)
(* rolling cache (cache.go): readers look a channel up in the ring of its  *)
(* shard, and on a miss load the configuration and store what it says.     *)
(* Loading and storing are two steps, so a slow reader stores the options  *)
(* of a configuration that was replaced meanwhile.  The ring index is a    *)
(* signed counter of Width bits that is never reset (an int32 in the       *)
(* code).  One shard; a configuration is its version.                      *)
(***************************************************************************)
EXTENDS Integers, FiniteSets

CONSTANTS
    Readers, CachedChannels,
    Size,          \* slots of a shard (channelOptionsCacheSize)
    Width,         \* bits of the index
    CacheTTL,      \* ChannelOptionsCacheTTL in ticks
    MaxVersions    \* reloads

ASSUME CacheAssumption == Size \in Nat \ {0} /\ 2 ^ (Width - 1) \in Nat \ {0}

VARIABLES
    current,    \* configValue
    index,      \* shard.index
    ring,       \* ring[i]: [channel, value, left], left = ticks until it expires
    reader,     \* reader[r]: the lookup in progress or its last answer
    sets,       \* ghost: number of Sets
    cachePanic  \* a Set used a slot outside of the ring

cache == <<current, index, ring, reader, sets, cachePanic>>

Empty == [channel |-> "", value |-> 0, left |-> 0]
Slots == 0..(Size - 1)

CacheInit ==
    /\ current = 1 /\ index = 0 /\ sets = 0 /\ cachePanic = FALSE
    /\ ring = [i \in Slots |-> Empty]
    /\ reader = [r \in Readers |-> [pc |-> "idle", channel |-> "", value |-> 0]]

\* Container.Reload: the new configuration; the cache is left as it is.
ReloadConfig ==
    /\ current <= MaxVersions /\ current' = current + 1
    /\ UNCHANGED <<index, ring, reader, sets, cachePanic>>

\* Time passes: items come closer to their expiry.
CacheTick ==
    /\ \E i \in Slots : ring[i].left > 0
    /\ ring' = [i \in Slots |-> IF ring[i].left > 0 THEN [ring[i] EXCEPT !.left = @ - 1]
                                                    ELSE ring[i]]
    /\ UNCHANGED <<current, index, reader, sets, cachePanic>>

Live(ch) == {i \in Slots : ring[i].channel = ch /\ ring[i].left > 0}

\* rollingCache.Get: the first live item of the channel.
CacheGet(ch) == ring[CHOOSE i \in Live(ch) : \A j \in Live(ch) : i <= j].value

LookupMutant(r, ch) ==
    /\ reader[r].pc = "idle"
    /\ reader' = [reader EXCEPT ![r] =
         IF Live(ch) # {} THEN [pc |-> "idle", channel |-> ch, value |-> CacheGet(ch)]
                          ELSE [pc |-> "loaded", channel |-> ch, value |-> current]]
    /\ ring' = [i \in Slots |-> IF i \in Live(ch) THEN [ring[i] EXCEPT !.left = CacheTTL]
                                                  ELSE ring[i]]
    /\ UNCHANGED <<current, index, sets, cachePanic>>

\* ChannelOptions up to the cache and, on a miss, the load of the
\* configuration.
Lookup(r, ch) ==
    /\ reader[r].pc = "idle"
    /\ reader' = [reader EXCEPT ![r] =
         IF Live(ch) # {} THEN [pc |-> "idle", channel |-> ch, value |-> CacheGet(ch)]
                          ELSE [pc |-> "loaded", channel |-> ch, value |-> current]]
    /\ UNCHANGED <<current, index, ring, sets, cachePanic>>

\* atomic.AddInt32(&index, 1): the counter wraps to the smallest integer.
Half == 2 ^ (Width - 1)
Increment(n) == IF n = Half - 1 THEN -Half ELSE n + 1

\* Go's %: the remainder has the sign of the dividend.
Remainder(n, m) == IF n >= 0 THEN n % m ELSE -((-n) % m)

SlotOf(n) == Remainder(n, Size)

\* rollingCache.Set, and the return of ChannelOptions.
CacheSet(r) ==
    /\ reader[r].pc = "loaded" /\ ~cachePanic
    /\ index' = Increment(index) /\ sets' = IF sets < Half THEN sets + 1 ELSE sets
    /\ IF SlotOf(index') \in Slots
       THEN /\ ring' = [ring EXCEPT ![SlotOf(index')] =
                          [channel |-> reader[r].channel, value |-> reader[r].value,
                           left |-> CacheTTL]]
            /\ UNCHANGED cachePanic
       ELSE cachePanic' = TRUE /\ UNCHANGED ring
    /\ reader' = [reader EXCEPT ![r].pc = "idle"]
    /\ UNCHANGED current

CacheNext ==
    \/ ReloadConfig \/ CacheTick
    \/ \E r \in Readers : CacheSet(r) \/ \E ch \in CachedChannels : Lookup(r, ch)

\* A reader's store is the rest of a function that runs, and time passes;
\* nobody is obliged to look a channel up.
CacheFairness == WF_cache(CacheTick) /\ \A r \in Readers : WF_cache(CacheSet(r))

CacheSpec == CacheInit /\ [][CacheNext]_cache /\ CacheFairness

-----------------------------------------------------------------------------
(* Properties                                                              *)

StaleAnswerPossible ==
    \/ \E i \in Slots : ring[i].left > 0 /\ ring[i].value < current
    \/ \E r \in Readers : reader[r].pc = "loaded" /\ reader[r].value < current

\* A reload takes effect for every channel: the items of the configurations
\* before it, and those that slow readers still store, run out (unless the
\* counter wrapped and a store failed).
ReloadTakesEffect ==
    \A v \in 2..(MaxVersions + 1) : []<>(current = v => ~StaleAnswerPossible \/ cachePanic)

\* The ring is only ever left after the counter wrapped: fewer Sets than half
\* of its range never fail.
RingHoldsUntilWrap == cachePanic => sets >= Half

\* The cache neither fails nor hides a reload for longer than its TTL.
CacheFresh == []RingHoldsUntilWrap /\ ReloadTakesEffect
=============================================================================
