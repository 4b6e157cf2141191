----------------------------- MODULE MapWorkers -----------------------------
(***************************************************************************)
(* The two periodic workers of the PostgreSQL map broker over many         *)
(* channels: key expiry, which looks at a bounded number of channels per   *)
(* tick and skips those whose options do not resolve, and the batched      *)
(* cleanup of expired meta and idempotency rows.  What expire_keys and the *)
(* DELETEs do within one channel is MapState.                              *)
(*                                                                         *)
(* External: which channels SELECT DISTINCT ... LIMIT returns.             *)
(***************************************************************************)
EXTENDS Naturals, FiniteSets, FiniteSetsExt

CONSTANTS
    WChannels,     \* channels
    ChannelLimit,  \* LIMIT of the channel query (100 in the code)
    KeyBatch,      \* keys expired per call (1000)
    RowBatch,      \* CleanupBatchSize
    MaxExpired,    \* bound: expired keys of a channel, expired rows of a table
    MaxWFaults     \* bound: failed queries

ASSUME WorkersAssumption == {ChannelLimit, KeyBatch, RowBatch} \subseteq Nat \ {0}

VARIABLES
    unresolved,  \* channels whose options do not resolve (a namespace removed by a reload)
    stale,       \* stale[c]: expired keys of channel c
    ttl,         \* the expiry worker: [pc, todo]
    expiredRows, \* expired rows of "meta" and "idempotency"
    clean,       \* the cleanup worker: [pc, table]
    wclosed,
    wfaults

mapWorkers == <<unresolved, stale, ttl, expiredRows, clean, wclosed, wfaults>>

Tables == {"meta", "idempotency"}
Few(n, batch) == IF n < batch THEN n ELSE batch
WFault == wfaults < MaxWFaults /\ wfaults' = wfaults + 1

WorkersInit ==
    /\ unresolved \in SUBSET WChannels /\ stale = [c \in WChannels |-> 0]
    /\ ttl = [pc |-> "off", todo |-> {}] /\ clean = [pc |-> "off", table |-> "meta"]
    /\ expiredRows = [t \in Tables |-> 0] /\ wclosed = FALSE /\ wfaults = 0

StartWorkers ==
    /\ ttl.pc = "off" /\ ttl' = [ttl EXCEPT !.pc = "tick"] /\ clean' = [clean EXCEPT !.pc = "tick"]
    /\ stale' \in [WChannels -> {0, MaxExpired}] /\ expiredRows' = [t \in Tables |-> MaxExpired]
    /\ UNCHANGED <<unresolved, wclosed, wfaults>>

\* More keys expire; a client refreshes one and keeps it.
KeyExpires(c) ==
    /\ ttl.pc # "off" /\ WFault /\ stale[c] < MaxExpired /\ stale' = [stale EXCEPT ![c] = @ + 1]
    /\ UNCHANGED <<unresolved, ttl, expiredRows, clean, wclosed>>

CloseWorkers ==
    /\ ttl.pc # "off" /\ ~wclosed /\ WFault /\ wclosed' = TRUE
    /\ UNCHANGED <<unresolved, stale, ttl, expiredRows, clean>>

-----------------------------------------------------------------------------
(* runTTLExpirationWorker, expireKeys                                      *)

Overdue == {c \in WChannels : stale[c] > 0}
Listed == {S \in SUBSET Overdue : Cardinality(S) = Few(Cardinality(Overdue), ChannelLimit)}

\* A tick lists channels with expired keys; a failed query waits for the next.
ListChannels ==
    /\ ttl.pc = "tick" /\ ~wclosed /\ Overdue # {}
    /\ \E S \in Listed : ttl' = [pc |-> "channels", todo |-> S]
    /\ UNCHANGED <<unresolved, stale, expiredRows, clean, wclosed, wfaults>>

ExpireChannelMutant(c) ==
    /\ ttl.pc = "channels" /\ c \in ttl.todo
    /\ IF c \in unresolved \/ wclosed THEN UNCHANGED <<stale, wfaults>> /\ ttl' = [pc |-> "tick", todo |-> {}]
       ELSE /\ \/ stale' = [stale EXCEPT ![c] = @ - Few(@, KeyBatch)] /\ UNCHANGED wfaults
               \/ WFault /\ UNCHANGED stale
            /\ ttl' = [ttl EXCEPT !.todo = @ \ {c}]
    /\ UNCHANGED <<unresolved, expiredRows, clean, wclosed>>

\* Each listed channel in turn: one whose options do not resolve, or whose
\* expire_keys fails (always so once the context has ended), is skipped.
ExpireChannel(c) ==
    /\ ttl.pc = "channels" /\ c \in ttl.todo /\ ttl' = [ttl EXCEPT !.todo = @ \ {c}]
    /\ IF c \in unresolved \/ wclosed THEN UNCHANGED <<stale, wfaults>>
       ELSE \/ stale' = [stale EXCEPT ![c] = @ - Few(@, KeyBatch)] /\ UNCHANGED wfaults
            \/ WFault /\ UNCHANGED stale
    /\ UNCHANGED <<unresolved, expiredRows, clean, wclosed>>

TickDone ==
    /\ ttl.pc = "channels" /\ ttl.todo = {} /\ ttl' = [ttl EXCEPT !.pc = "tick"]
    /\ UNCHANGED <<unresolved, stale, expiredRows, clean, wclosed, wfaults>>
ExpiryStops ==
    /\ ttl.pc = "tick" /\ wclosed /\ ttl' = [ttl EXCEPT !.pc = "stopped"]
    /\ UNCHANGED <<unresolved, stale, expiredRows, clean, wclosed, wfaults>>
ExpiryStep == ListChannels \/ (\E c \in WChannels : ExpireChannel(c)) \/ TickDone \/ ExpiryStops

-----------------------------------------------------------------------------
(* runCleanupWorker, cleanupEntries, cleanupExpiredBatched                 *)

BeginCleanup ==
    /\ clean.pc = "tick" /\ ~wclosed /\ \E t \in Tables : expiredRows[t] > 0
    /\ clean' = [pc |-> "batch", table |-> "meta"]
    /\ UNCHANGED <<unresolved, stale, ttl, expiredRows, wclosed, wfaults>>

NextTable == IF clean.table = "meta" THEN [pc |-> "batch", table |-> "idempotency"] ELSE [pc |-> "tick", table |-> "meta"]

\* A short batch is the last one.
LastBatch(deleted) == deleted < RowBatch

DeleteBatch ==
    /\ clean.pc = "batch"
    /\ LET d == IF wclosed THEN 0 ELSE Few(expiredRows[clean.table], RowBatch)
       IN  \/ /\ expiredRows' = [expiredRows EXCEPT ![clean.table] = @ - d]
              /\ clean' = IF LastBatch(d) THEN NextTable ELSE [clean EXCEPT !.pc = "pause"]
              /\ UNCHANGED wfaults
           \/ WFault /\ clean' = NextTable /\ UNCHANGED expiredRows
    /\ UNCHANGED <<unresolved, stale, ttl, wclosed>>

\* CleanupChunkPause, cut short by Close.
AfterPause ==
    /\ clean.pc = "pause" /\ clean' = IF wclosed THEN NextTable ELSE [clean EXCEPT !.pc = "batch"]
    /\ UNCHANGED <<unresolved, stale, ttl, expiredRows, wclosed, wfaults>>
CleanupStops ==
    /\ clean.pc = "tick" /\ wclosed /\ clean' = [clean EXCEPT !.pc = "stopped"]
    /\ UNCHANGED <<unresolved, stale, ttl, expiredRows, wclosed, wfaults>>
CleanupStep == BeginCleanup \/ DeleteBatch \/ AfterPause \/ CleanupStops

WorkersNext ==
    \/ StartWorkers \/ CloseWorkers
    \/ \E c \in WChannels : KeyExpires(c) \/ ExpireChannel(c)
    \/ ListChannels \/ TickDone \/ ExpiryStops
    \/ BeginCleanup \/ DeleteBatch \/ AfterPause \/ CleanupStops

\* Tickers fire and queries return.
WorkersFairness == WF_mapWorkers(ExpiryStep) /\ WF_mapWorkers(CleanupStep)

-----------------------------------------------------------------------------
(* Properties                                                              *)

\* Expired keys of a channel are removed in the end, although other channels
\* cannot be expired at all - as long as those are fewer than one query
\* lists: they are never removed and would fill every list.
ExpiredAreRemoved ==
    []<>(\/ ttl.pc = "off" \/ wclosed
         \/ Cardinality(unresolved) >= ChannelLimit
         \/ \A c \in WChannels \ unresolved : stale[c] = 0)
=============================================================================
