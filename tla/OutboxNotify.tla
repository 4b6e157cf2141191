----------------------------- MODULE OutboxNotify -----------------------------
(***************************************************************************)
(* How an idle outbox worker learns of a new row: NOTIFY at commit, the    *)
(* NotificationListener, the wakeup channel of capacity one that all       *)
(* workers of a node share, and the poll interval as fallback.  Rows are   *)
(* counted per worker (each owns one shard): committed and read.  Workers  *)
(* poll the primary here; the lag of a replica is part of StreamOutbox.    *)
(***************************************************************************)
EXTENDS Naturals

CONSTANTS
    Workers,    \* outbox workers of the node, one per shard
    NotifyBatch,  \* Outbox.BatchSize
    MaxRows,    \* bound: rows per shard
    MaxNotifyFaults   \* bound: failing calls

ASSUME RowsAssumption == NotifyBatch \in Nat \ {0} /\ MaxRows \in Nat /\ MaxNotifyFaults \in Nat

VARIABLES
    committed,  \* rows committed, per worker's shard
    read,       \* rows the worker has read
    notifyPc,         \* worker: "drain" or "wait" (idle select)
    idle,       \* worker: its local variable idle
    listener,   \* "connect", "listening" or "backoff"
    inbox,      \* notifications queued on the LISTEN connection
    notifyCh,   \* signals in the channel, capacity 1
    unheard,    \* history variable: shards with a row committed while no LISTEN was bound
    notifyFaults

notifyVars == <<committed, read, notifyPc, idle, listener, inbox, notifyCh, unheard, notifyFaults>>
rowVars == <<committed, read, unheard>>
workerVars == <<notifyPc, idle>>
listenerVars == <<listener, inbox>>

NotifyFault == notifyFaults < MaxNotifyFaults /\ notifyFaults' = notifyFaults + 1

-----------------------------------------------------------------------------
(* The database.                                                           *)

\* A publication of w's shard commits and its pg_notify is delivered to the
\* session that listens at that moment.
CommitRow(w) ==
    /\ committed[w] < MaxRows
    /\ committed' = [committed EXCEPT ![w] = @ + 1]
    /\ inbox' = IF listener = "listening" THEN inbox + 1 ELSE inbox
    /\ unheard' = IF listener = "listening" THEN unheard ELSE unheard \cup {w}
    /\ UNCHANGED <<read, workerVars, listener, notifyCh, notifyFaults>>

-----------------------------------------------------------------------------
(* NotificationListener.Run.                                               *)

\* LISTEN is bound; what was committed before is not announced.
Listen ==
    /\ listener = "connect"
    /\ listener' = "listening"
    /\ UNCHANGED <<rowVars, workerVars, inbox, notifyCh, notifyFaults>>

\* Acquire or LISTEN fails.
ListenError ==
    /\ listener = "connect"
    /\ NotifyFault
    /\ listener' = "backoff"
    /\ UNCHANGED <<rowVars, workerVars, inbox, notifyCh>>

\* A notification becomes a signal unless one is in the channel already.
Receive ==
    /\ listener = "listening" /\ inbox > 0
    /\ inbox' = inbox - 1
    /\ notifyCh' = 1
    /\ UNCHANGED <<rowVars, workerVars, listener, notifyFaults>>

\* WaitForNotification fails: notifications on the way are lost.
WaitError ==
    /\ listener = "listening"
    /\ NotifyFault
    /\ listener' = "backoff"
    /\ inbox' = 0
    /\ UNCHANGED <<rowVars, workerVars, notifyCh>>

Backoff ==
    /\ listener = "backoff"
    /\ listener' = "connect"
    /\ UNCHANGED <<rowVars, workerVars, inbox, notifyCh, notifyFaults>>

-----------------------------------------------------------------------------
(* Worker.Run.                                                             *)

ProcessBatch(w) ==
    /\ notifyPc[w] = "drain" /\ read[w] < committed[w]
    /\ read' = [read EXCEPT ![w] =
                  IF committed[w] - @ > NotifyBatch THEN @ + NotifyBatch ELSE committed[w]]
    /\ idle' = [idle EXCEPT ![w] = FALSE]
    /\ UNCHANGED <<committed, unheard, notifyPc, listenerVars, notifyCh, notifyFaults>>

\* The end of a drain pass: a pass that read something is followed by another.
DrainEnds(w) ==
    /\ notifyPc' = [notifyPc EXCEPT ![w] = IF idle[w] THEN "wait" ELSE "drain"]
    /\ idle' = [idle EXCEPT ![w] = TRUE]

ProcessNothing(w) ==
    /\ notifyPc[w] = "drain" /\ read[w] = committed[w]
    /\ DrainEnds(w)
    /\ UNCHANGED <<rowVars, listenerVars, notifyCh, notifyFaults>>

\* Log and continue: after an error the worker waits, rows or not.
ProcessError(w) ==
    /\ notifyPc[w] = "drain"
    /\ NotifyFault
    /\ DrainEnds(w)
    /\ UNCHANGED <<rowVars, listenerVars, notifyCh>>

\* One waiting worker, whichever the runtime picks, takes the signal.
WakeBySignal(w) ==
    /\ notifyPc[w] = "wait" /\ notifyCh = 1
    /\ notifyCh' = 0
    /\ notifyPc' = [notifyPc EXCEPT ![w] = "drain"]
    /\ UNCHANGED <<rowVars, idle, listenerVars, notifyFaults>>

WakeByTimerMutant(w) ==
    /\ notifyPc[w] = "wait"
    /\ notifyPc' = [notifyPc EXCEPT ![w] = IF notifyCh = 1 THEN "drain" ELSE "wait"]
    /\ UNCHANGED <<rowVars, idle, listenerVars, notifyCh, notifyFaults>>

\* time.After(PollInterval).
WakeByTimer(w) ==
    /\ notifyPc[w] = "wait"
    /\ notifyPc' = [notifyPc EXCEPT ![w] = "drain"]
    /\ UNCHANGED <<rowVars, idle, listenerVars, notifyCh, notifyFaults>>

-----------------------------------------------------------------------------
NotifyInit ==
    /\ committed = [w \in Workers |-> 0]
    /\ read = committed
    /\ notifyPc = [w \in Workers |-> "drain"]
    /\ idle = [w \in Workers |-> TRUE]
    /\ listener = "connect" /\ inbox = 0 /\ notifyCh = 0
    /\ unheard = {}
    /\ notifyFaults = 0

NotifyNext ==
    \/ Listen \/ ListenError \/ Receive \/ WaitError \/ Backoff
    \/ \E w \in Workers : \/ CommitRow(w)
                          \/ ProcessBatch(w) \/ ProcessNothing(w) \/ ProcessError(w)
                          \/ WakeBySignal(w) \/ WakeByTimer(w)

NotifySpec == NotifyInit /\ [][NotifyNext]_notifyVars

-----------------------------------------------------------------------------
(* Properties.                                                             *)

\* Every variable keeps its type, and nothing is read before it is committed.
NotifyTypeOK ==
    /\ committed \in [Workers -> 0 .. MaxRows]
    /\ \A w \in Workers : read[w] \in 0 .. committed[w]
    /\ notifyPc \in [Workers -> {"drain", "wait"}]
    /\ idle \in [Workers -> BOOLEAN]
    /\ listener \in {"connect", "listening", "backoff"}
    /\ inbox \in Nat
    /\ notifyCh \in 0 .. 1
    /\ unheard \subseteq Workers
    /\ notifyFaults \in 0 .. MaxNotifyFaults

\* "A non-blocking send on this channel wakes the idle wait": as long as no
\* call failed and every row was announced, no worker sits in its idle wait
\* with a row to read unless a signal or a notification is on its way.
WakeupPending ==
    \A w \in Workers :
        notifyFaults = 0 /\ w \notin unheard /\ notifyPc[w] = "wait" /\ read[w] < committed[w]
            => notifyCh = 1 \/ inbox > 0

\* Whatever the listener does, no committed row waits for ever to be read.
EveryRowReadInTheEnd ==
    \A w \in Workers : \A k \in 1 .. MaxRows : []<>(committed[w] >= k => read[w] >= k)

\* Notifications make the worker prompt and the timer makes it reliable.
NotifyWorks == []NotifyTypeOK /\ []WakeupPending /\ EveryRowReadInTheEnd
=============================================================================
