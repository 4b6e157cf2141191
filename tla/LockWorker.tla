------------------------------ MODULE LockWorker ------------------------------
(***************************************************************************)
(* The fan-out variant of the outbox poller (pgoutbox.LockWorker) for one  *)
(* shard: every node runs one, and a session-scoped PostgreSQL advisory    *)
(* lock decides whose session polls and forwards rows to the inner broker. *)
(*                                                                         *)
(* The lock belongs to the database session behind the pinned connection,  *)
(* not to the worker.  The server may end that session without the worker  *)
(* noticing, and the worker may give a connection up while its session     *)
(* lives on in the server, so lock and worker are separate state here.     *)
(* Rows are abstracted to the number a session still has ahead of its      *)
(* cursor; what a batch does with rows is StreamOutbox.                    *)
(***************************************************************************)
EXTENDS Naturals

CONSTANTS
    LockNodes,
    NoOne,       \* nobody holds the lock
    Orphan,      \* a server session no worker is attached to any more
    LeaderBatchSize,   \* Outbox.BatchSize
    MaxBacklog,  \* bound: rows ahead of a cursor
    MaxLockFaults    \* bound: failing calls and ended connections

ASSUME HolderAssumption == NoOne \notin LockNodes /\ Orphan \notin LockNodes /\ NoOne # Orphan
ASSUME BoundAssumption ==
    LeaderBatchSize \in Nat \ {0} /\ MaxBacklog \in Nat /\ MaxLockFaults \in Nat

VARIABLES
    lockPc,       \* where the worker of each node is
    lockIdle,     \* its local variable idle: the drain pass saw no row
    conn,     \* the pinned connection: "none", "live", or "dead" (session ended)
    backlog,  \* visible rows of the shard ahead of the session's cursor
    holder,   \* the session that holds the advisory lock
    closed,   \* closeCh closed and ctx cancelled
    lockFaults    \* faults so far

lockVars == <<lockPc, lockIdle, conn, backlog, holder, closed, lockFaults>>

Session == {"init", "drain", "ping", "wait", "release"}
Places == {"acquire", "trylock", "sleep", "stopped"} \cup Session

InSession(n) == lockPc[n] \in Session
Polling(n) == lockPc[n] \in {"drain", "ping", "wait"}

LockFault == lockFaults < MaxLockFaults /\ lockFaults' = lockFaults + 1

WorkerGoto(n, place) == lockPc' = [lockPc EXCEPT ![n] = place]

\* Losing the client end of n's connection: the server session, and a lock it
\* holds, outlive it.
Abandoned(n) == IF holder = n THEN Orphan ELSE holder

-----------------------------------------------------------------------------
(* Run: obtaining the lock.                                                *)

Acquire(n) ==
    /\ lockPc[n] = "acquire" /\ ~closed[n]
    /\ WorkerGoto(n, "trylock")
    /\ conn' = [conn EXCEPT ![n] = "live"]
    /\ UNCHANGED <<lockIdle, backlog, holder, closed, lockFaults>>

AcquireError(n) ==
    /\ lockPc[n] = "acquire" /\ ~closed[n]
    /\ LockFault
    /\ WorkerGoto(n, "sleep")
    /\ UNCHANGED <<lockIdle, conn, backlog, holder, closed>>

\* pg_try_advisory_lock; without the lock the connection goes back to the pool.
TryLock(n) ==
    /\ lockPc[n] = "trylock" /\ conn[n] = "live"
    /\ \/ /\ holder = NoOne
          /\ holder' = n
          /\ WorkerGoto(n, "init")
          /\ UNCHANGED conn
       \/ /\ holder # NoOne
          /\ WorkerGoto(n, "sleep")
          /\ conn' = [conn EXCEPT ![n] = "none"]
          /\ UNCHANGED holder
    /\ UNCHANGED <<lockIdle, backlog, closed, lockFaults>>

\* The call fails: the session is gone, or the answer is lost or given up on
\* at shutdown and the lock may have been granted to a session nobody uses.
TryLockError(n) ==
    /\ lockPc[n] = "trylock"
    /\ \/ conn[n] = "dead" /\ UNCHANGED <<holder, lockFaults>>
       \/ /\ conn[n] = "live"
          /\ IF closed[n] THEN UNCHANGED lockFaults ELSE LockFault
          /\ holder' \in {holder, IF holder = NoOne THEN Orphan ELSE holder}
    /\ conn' = [conn EXCEPT ![n] = "none"]
    /\ WorkerGoto(n, IF closed[n] THEN "stopped" ELSE "sleep")
    /\ UNCHANGED <<lockIdle, backlog, closed>>

Sleep(n) ==
    /\ lockPc[n] = "sleep" /\ ~closed[n]
    /\ WorkerGoto(n, "acquire")
    /\ UNCHANGED <<lockIdle, conn, backlog, holder, closed, lockFaults>>

\* The selects of Run and sleep see the shutdown.
Exit(n) ==
    /\ lockPc[n] \in {"acquire", "sleep"} /\ closed[n]
    /\ WorkerGoto(n, "stopped")
    /\ UNCHANGED <<lockIdle, conn, backlog, holder, closed, lockFaults>>

-----------------------------------------------------------------------------
(* runLockedSession.                                                       *)

\* MAX(id), read in a pool that may lag behind what was fanned out already.
InitCursor(n) ==
    /\ lockPc[n] = "init" /\ ~closed[n]
    /\ WorkerGoto(n, "drain")
    /\ lockIdle' = [lockIdle EXCEPT ![n] = TRUE]
    /\ \E k \in 0 .. MaxBacklog : backlog' = [backlog EXCEPT ![n] = k]
    /\ UNCHANGED <<conn, holder, closed, lockFaults>>

\* A batch forwards at most BatchSize rows and moves the cursor past them.
LeaderBatch(n) ==
    /\ lockPc[n] = "drain" /\ ~closed[n] /\ backlog[n] > 0
    /\ lockIdle' = [lockIdle EXCEPT ![n] = FALSE]
    /\ backlog' = [backlog EXCEPT ![n] = IF @ > LeaderBatchSize THEN @ - LeaderBatchSize ELSE 0]
    /\ UNCHANGED <<lockPc, conn, holder, closed, lockFaults>>

\* An empty batch ends the pass: after progress another one starts at once,
\* and only an idle pass goes on to the ping.
LeaderNothing(n) ==
    /\ lockPc[n] = "drain" /\ ~closed[n] /\ backlog[n] = 0
    /\ IF lockIdle[n] THEN WorkerGoto(n, "ping") ELSE UNCHANGED lockPc
    /\ lockIdle' = [lockIdle EXCEPT ![n] = TRUE]
    /\ UNCHANGED <<conn, backlog, holder, closed, lockFaults>>

\* InitCursor or ProcessBatch fails: drop the session.
CallError(n) ==
    /\ lockPc[n] \in {"init", "drain"} /\ ~closed[n]
    /\ LockFault
    /\ WorkerGoto(n, "release")
    /\ UNCHANGED <<lockIdle, conn, backlog, holder, closed>>

PingMutant(n) ==
    /\ lockPc[n] = "ping" /\ ~closed[n]
    /\ WorkerGoto(n, "wait")
    /\ UNCHANGED <<lockIdle, conn, backlog, holder, closed, lockFaults>>

Ping(n) ==
    /\ lockPc[n] = "ping" /\ ~closed[n]
    /\ WorkerGoto(n, IF conn[n] = "live" THEN "wait" ELSE "release")
    /\ UNCHANGED <<lockIdle, conn, backlog, holder, closed, lockFaults>>

\* A ping that times out closes the client end of a live session.
PingTimeout(n) ==
    /\ lockPc[n] = "ping" /\ ~closed[n] /\ conn[n] = "live"
    /\ LockFault
    /\ WorkerGoto(n, "release")
    /\ conn' = [conn EXCEPT ![n] = "dead"]
    /\ holder' = Abandoned(n)
    /\ UNCHANGED <<lockIdle, backlog, closed>>

WaitPollInterval(n) ==
    /\ lockPc[n] = "wait" /\ ~closed[n]
    /\ WorkerGoto(n, "drain")
    /\ UNCHANGED <<lockIdle, conn, backlog, holder, closed, lockFaults>>

\* Shutdown ends a session; a ping in flight takes the connection with it.
EndSession(n) ==
    /\ lockPc[n] \in {"init", "drain", "ping", "wait"} /\ closed[n]
    /\ WorkerGoto(n, "release")
    /\ \/ UNCHANGED <<conn, holder>>
       \/ /\ lockPc[n] = "ping" /\ conn[n] = "live"
          /\ conn' = [conn EXCEPT ![n] = "dead"]
          /\ holder' = Abandoned(n)
    /\ UNCHANGED <<lockIdle, backlog, closed, lockFaults>>

ReleaseMutant(n) ==
    /\ lockPc[n] = "release"
    /\ conn' = [conn EXCEPT ![n] = "none"]
    /\ WorkerGoto(n, IF closed[n] THEN "stopped" ELSE "sleep")
    /\ UNCHANGED <<lockIdle, backlog, holder, closed, lockFaults>>

\* releaseAdvisoryLock and conn.Release.  An unlock that fails is only logged:
\* the pool drops the broken connection.
Release(n) ==
    /\ lockPc[n] = "release"
    /\ \/ /\ holder' = IF conn[n] = "live" /\ holder = n THEN NoOne ELSE holder
          /\ UNCHANGED lockFaults
       \/ conn[n] = "live" /\ LockFault /\ holder' = Abandoned(n)
    /\ conn' = [conn EXCEPT ![n] = "none"]
    /\ WorkerGoto(n, IF closed[n] THEN "stopped" ELSE "sleep")
    /\ UNCHANGED <<lockIdle, backlog, closed>>

Close(n) ==
    /\ ~closed[n]
    /\ closed' = [closed EXCEPT ![n] = TRUE]
    /\ UNCHANGED <<lockPc, lockIdle, conn, backlog, holder, lockFaults>>

-----------------------------------------------------------------------------
(* The database.                                                           *)

\* A session ends in the server (reaped, restarted, cut off): its lock is
\* free at once, its worker has not noticed.
SessionEnds(n) ==
    /\ conn[n] = "live"
    /\ LockFault
    /\ conn' = [conn EXCEPT ![n] = "dead"]
    /\ holder' = IF holder = n THEN NoOne ELSE holder
    /\ UNCHANGED <<lockPc, lockIdle, backlog, closed>>

\* The server notices that a client is gone.
OrphanEnds ==
    /\ holder = Orphan
    /\ holder' = NoOne
    /\ UNCHANGED <<lockPc, lockIdle, conn, backlog, closed, lockFaults>>

\* A publication of the shard commits.
AppendRow ==
    /\ \A n \in LockNodes : Polling(n) => backlog[n] < MaxBacklog
    /\ \E n \in LockNodes : Polling(n)
    /\ backlog' = [n \in LockNodes |-> IF Polling(n) THEN backlog[n] + 1 ELSE backlog[n]]
    /\ UNCHANGED <<lockPc, lockIdle, conn, holder, closed, lockFaults>>

-----------------------------------------------------------------------------
LockInit ==
    /\ lockPc = [n \in LockNodes |-> "acquire"]
    /\ lockIdle = [n \in LockNodes |-> TRUE]
    /\ conn = [n \in LockNodes |-> "none"]
    /\ backlog = [n \in LockNodes |-> 0]
    /\ holder = NoOne
    /\ closed = [n \in LockNodes |-> FALSE]
    /\ lockFaults = 0

\* Steps a worker takes on its own.
Work(n) ==
    \/ Acquire(n) \/ TryLock(n) \/ TryLockError(n) \/ Sleep(n) \/ Exit(n)
    \/ InitCursor(n) \/ LeaderBatch(n) \/ LeaderNothing(n)
    \/ Ping(n) \/ WaitPollInterval(n) \/ EndSession(n) \/ Release(n)

LockNext ==
    \/ \E n \in LockNodes : \/ Work(n)
                        \/ AcquireError(n) \/ CallError(n) \/ PingTimeout(n)
                        \/ Close(n) \/ SessionEnds(n)
    \/ OrphanEnds
    \/ AppendRow

LockSpec == LockInit /\ [][LockNext]_lockVars

-----------------------------------------------------------------------------
(* Properties.                                                             *)

\* Every variable keeps its type.
LockTypeOK ==
    /\ lockPc \in [LockNodes -> Places]
    /\ lockIdle \in [LockNodes -> BOOLEAN]
    /\ conn \in [LockNodes -> {"none", "live", "dead"}]
    /\ backlog \in [LockNodes -> 0 .. MaxBacklog]
    /\ holder \in LockNodes \cup {NoOne, Orphan}
    /\ closed \in [LockNodes -> BOOLEAN]
    /\ lockFaults \in 0 .. MaxLockFaults

\* A connection never goes back to the pool with the lock: the holder is in a
\* session of its own over a live connection, so a worker that sleeps, retries
\* or stopped blocks nobody.
LockNotLeaked ==
    holder \in LockNodes => InSession(holder) /\ conn[holder] = "live"

\* Two nodes poll at the same time only if one of them has lost its lock
\* connection: with live connections runLockedSession is exclusive.
OneLiveLeader ==
    \A m, n \in LockNodes :
        InSession(m) /\ InSession(n) /\ conn[m] = "live" /\ conn[n] = "live" => m = n

\* The advisory lock does its work: no leak into the pool, and no two leaders
\* with live connections, whatever fails.
LockSafe == LockTypeOK /\ LockNotLeaked /\ OneLiveLeader

Stale(n) == Polling(n) /\ conn[n] = "dead"

\* "The ping turns that into an explicit lock lost, restoring single-writer
\* semantics": a poller without its lock connection leaves its session.
StalePollerStops == \A n \in LockNodes : []<>~Stale(n)

\* The same, provided publications pause for good at some time.
StalePollerStopsWhenQuiet == <>[][~AppendRow]_lockVars => StalePollerStops

\* Some node polls the shard, or all of them are closed.
Polled == (\A n \in LockNodes : closed[n]) \/ \E n \in LockNodes : Polling(n)
=============================================================================
