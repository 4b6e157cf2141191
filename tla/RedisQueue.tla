----------------------------- MODULE RedisQueue -----------------------------
(***************************************************************************)
(* The consumer of a Redis stream (internal/redisqueue) under the Redis    *)
(* stream consumer (internal/consuming/redis_stream.go).  Two loops feed a *)
(* bounded queue: poll reads new entries of the consumer group, reclaim    *)
(* claims entries that were delivered but not acknowledged for longer than *)
(* VisibilityTimeout.  Concurrency workers process and acknowledge.  Both  *)
(* loops wait on a condition variable while `inflight' is at its limit;    *)
(* inflight is raised outside the lock, after the send on the queue.       *)
(*                                                                         *)
(* Redis is external: an entry of the group is new, pending or acknowledged*)
(* and a pending one becomes idle when VisibilityTimeout has passed; a     *)
(* group that was destroyed is created again at the end of the stream and  *)
(* passes over the entries before it.  The process may crash; the restarted*)
(* one is another consumer of the group.                                   *)
(***************************************************************************)
EXTENDS Naturals, Sequences, FiniteSets, FiniteSetsExt, SequencesExt, ConsumedMessages

CONSTANTS
    MaxEntry,     \* entries are 1..MaxEntry in stream order
    EntryContent, \* EntryContent[m]: the message, as in ConsumedMessages
    Concurrency,  \* num_workers
    MaxRQFaults   \* failed commands and dispatches, slow ones, crashes

ASSUME QueueAssumption == Concurrency \in Nat \ {0}

VARIABLES
    entries,      \* entries[m]: [st, idle]
    queue,        \* c.queue
    inflight,     \* c.inflight
    loop,         \* the poll and the reclaim goroutine: [pc, count, batch, start]
    worker,       \* the work goroutines: [pc, msg]
    stopReclaim, stopPoll,  \* tokens in the channels (buffer 1)
    stopWorkers,  \* closed
    caller,       \* who calls Shutdown: the signal handler and the context
    rqFaults

redisQueue == <<entries, queue, inflight, loop, worker, stopReclaim, stopPoll, stopWorkers, caller, rqFaults>>

Entries == 1..MaxEntry
\* Entries whose properties do not parse: an error each time.
Poison == {m \in Entries : ContentOf("redis", EntryContent[m]) = "error"}
Workers == 1..Concurrency
Loops == {"poll", "reclaim"}
Callers == {"signal", "context"}

\* Run: the goroutines of one consumer.  Without a VisibilityTimeout, which
\* the configuration may set to zero, reclaim returns at once.
Started(visibility) ==
    [queue |-> <<>>,
     loop |-> [l \in Loops |-> [pc |-> IF l = "poll" THEN "check" ELSE IF visibility THEN "tick" ELSE "never",
                                count |-> 0, batch |-> <<>>, start |-> 0]],
     worker |-> [w \in Workers |-> [pc |-> "idle", msg |-> 0]]]
Reclaims == loop["reclaim"].pc # "never"

\* NewConsumer: the group starts at the end of the stream.
RQInit ==
    /\ entries = [m \in Entries |-> [st |-> "absent", idle |-> FALSE]]
    /\ queue = Started(TRUE).queue /\ worker = Started(TRUE).worker
    /\ loop = [l \in Loops |-> [Started(TRUE).loop[l] EXCEPT !.pc = "off"]]
    /\ inflight = 0 /\ stopReclaim = 0 /\ stopPoll = 0 /\ stopWorkers = FALSE
    /\ caller = [c \in Callers |-> "off"] /\ rqFaults = 0

RunQueue ==
    /\ loop["poll"].pc = "off" /\ \E visibility \in BOOLEAN : loop' = Started(visibility).loop
    /\ UNCHANGED <<entries, queue, inflight, worker, stopReclaim, stopPoll, stopWorkers, caller, rqFaults>>

InState(st) == {m \in Entries : entries[m].st = st}
InProcess(m) ==
    \/ m \in ToSet(queue) \/ \E w \in Workers : worker[w].msg = m
    \/ \E l \in Loops : m \in ToSet(loop[l].batch)

\* Producer.Enqueue: XADD.
Enqueue ==
    /\ loop["poll"].pc # "off"
    /\ \E m \in InState("absent") :
        /\ m = Min(InState("absent")) /\ entries' = [entries EXCEPT ![m].st = "new"]
    /\ UNCHANGED <<queue, inflight, loop, worker, stopReclaim, stopPoll, stopWorkers, caller, rqFaults>>

\* External: VisibilityTimeout passes for a pending entry, at any point of a
\* round of reclaim: for one nobody holds, or for one whose message is still
\* queued or worked on.
BecomesIdle(m) ==
    /\ Reclaims /\ entries[m].st = "pending" /\ ~entries[m].idle
    /\ \/ ~InProcess(m) /\ UNCHANGED rqFaults
       \/ InProcess(m) /\ rqFaults < MaxRQFaults /\ rqFaults' = rqFaults + 1
    /\ entries' = [entries EXCEPT ![m].idle = TRUE]
    /\ UNCHANGED <<queue, inflight, loop, worker, stopReclaim, stopPoll, stopWorkers, caller>>

\* Read or claim: the entries are pending for this consumer as of now.
Delivered(batch) ==
    [m \in Entries |-> IF m \in ToSet(batch) THEN [entries[m] EXCEPT !.st = "pending", !.idle = FALSE]
                                             ELSE entries[m]]

-----------------------------------------------------------------------------
(* The loops                                                               *)

\* A turn of poll, or of reclaim's inner loop: poll first looks at its stop
\* channel; both wait while inflight is at the limit, else fix the count.
Check(l) ==
    /\ loop[l].pc = "check"
    /\ IF l = "poll" /\ stopPoll > 0
       THEN stopPoll' = stopPoll - 1 /\ loop' = [loop EXCEPT ![l].pc = "done"]
       ELSE /\ UNCHANGED stopPoll
            /\ loop' = IF inflight >= Concurrency THEN [loop EXCEPT ![l].pc = "wait"]
                       ELSE [loop EXCEPT ![l].pc = "read", ![l].count = Concurrency - Len(queue)]
    /\ UNCHANGED <<entries, queue, inflight, worker, stopReclaim, stopWorkers, caller, rqFaults>>

\* cond.Broadcast.
Woken(lp) == [l \in Loops |-> IF lp[l].pc = "wait" THEN [lp[l] EXCEPT !.pc = "check"] ELSE lp[l]]

FirstOf(S, n) == SubSeq(SetToSortSeq(S, <), 1, IF n = 0 \/ n > Cardinality(S) THEN Cardinality(S) ELSE n)

\* XREADGROUP: up to count new entries (0: all of them); none is a timeout.
PollRead ==
    /\ loop["poll"].pc = "read"
    /\ LET batch == FirstOf(InState("new"), loop["poll"].count)
       IN  /\ entries' = Delivered(batch)
           /\ loop' = [loop EXCEPT !["poll"] = [@ EXCEPT !.pc = IF batch = <<>> THEN "check" ELSE "send",
                                                         !.batch = batch, !.count = 0]]
    /\ UNCHANGED <<queue, inflight, worker, stopReclaim, stopPoll, stopWorkers, caller, rqFaults>>

\* The reclaim ticker fires: claiming begins at the oldest entry.
ReclaimTick ==
    /\ loop["reclaim"].pc = "tick"
    /\ loop' = [loop EXCEPT !["reclaim"] = [@ EXCEPT !.pc = "check", !.start = 0]]
    /\ UNCHANGED <<entries, queue, inflight, worker, stopReclaim, stopPoll, stopWorkers, caller, rqFaults>>

ReclaimStopMutant ==
    /\ loop["reclaim"].pc = "tick" /\ stopReclaim > 0 /\ stopPoll = 0
    /\ stopReclaim' = stopReclaim - 1
    /\ loop' = [loop EXCEPT !["reclaim"].pc = "done"]
    /\ UNCHANGED <<entries, queue, inflight, worker, stopPoll, stopWorkers, caller, rqFaults>>

\* The ticker, or a stop: poll is stopped after reclaim.
ReclaimStop ==
    /\ loop["reclaim"].pc = "tick" /\ stopReclaim > 0 /\ stopPoll = 0
    /\ stopReclaim' = stopReclaim - 1 /\ stopPoll' = 1
    /\ loop' = [loop EXCEPT !["reclaim"].pc = "done"]
    /\ UNCHANGED <<entries, queue, inflight, worker, stopWorkers, caller, rqFaults>>

\* XAUTOCLAIM from the cursor; an empty page ends the round.
ReclaimRead ==
    /\ loop["reclaim"].pc = "read"
    /\ LET idle == {m \in Entries : entries[m].st = "pending" /\ entries[m].idle /\ m >= loop["reclaim"].start}
           count == IF loop["reclaim"].count = 0 THEN 1 ELSE loop["reclaim"].count
           batch == FirstOf(idle, count)
       IN  /\ entries' = Delivered(batch)
           /\ loop' = [loop EXCEPT !["reclaim"] =
                          [@ EXCEPT !.pc = IF batch = <<>> THEN "tick" ELSE "send", !.batch = batch, !.count = 0,
                                    !.start = IF Cardinality(idle) > count THEN Last(batch) + 1 ELSE 0]]
    /\ UNCHANGED <<queue, inflight, worker, stopReclaim, stopPoll, stopWorkers, caller, rqFaults>>

\* NOGROUP: somebody has destroyed the group.  poll creates it again at the
\* end of the stream, which passes over what is in the stream, read or not.
NoGroup ==
    /\ loop["poll"].pc = "read" /\ rqFaults < MaxRQFaults /\ rqFaults' = rqFaults + 1
    /\ entries' = [m \in Entries |-> IF entries[m].st \in {"new", "pending"}
                                     THEN [st |-> "passed", idle |-> FALSE] ELSE entries[m]]
    /\ loop' = [loop EXCEPT !["poll"].pc = "check", !["poll"].count = 0]
    /\ UNCHANGED <<queue, inflight, worker, stopReclaim, stopPoll, stopWorkers, caller>>

\* A failed command: poll turns (after a pause that a stop ends, or at once
\* when a lost group could not be created), reclaim ends its round.
ReadError(l) ==
    /\ loop[l].pc = "read" /\ rqFaults < MaxRQFaults /\ rqFaults' = rqFaults + 1
    /\ loop' = [loop EXCEPT ![l].pc = IF l = "poll" THEN "check" ELSE "tick", ![l].count = 0]
    /\ UNCHANGED <<entries, queue, inflight, worker, stopReclaim, stopPoll, stopWorkers, caller>>

\* enqueue: a send on the queue, or the workers have been stopped.
Send(l) ==
    /\ loop[l].pc = "send"
    /\ \/ /\ Len(queue) < Concurrency
          /\ queue' = Append(queue, Head(loop[l].batch))
          /\ loop' = [loop EXCEPT ![l].pc = "sent", ![l].batch = Tail(@)]
       \/ /\ stopWorkers /\ UNCHANGED queue
          /\ loop' = [loop EXCEPT ![l].pc = "check", ![l].batch = <<>>]
    /\ UNCHANGED <<entries, inflight, worker, stopReclaim, stopPoll, stopWorkers, caller, rqFaults>>

Counted(l) ==
    /\ loop[l].pc = "sent" /\ inflight' = inflight + 1
    /\ loop' = [loop EXCEPT ![l].pc = IF loop[l].batch = <<>> THEN "check" ELSE "send"]
    /\ UNCHANGED <<entries, queue, worker, stopReclaim, stopPoll, stopWorkers, caller, rqFaults>>

-----------------------------------------------------------------------------
(* The workers                                                             *)

Take(w) ==
    /\ worker[w].pc = "idle" /\ queue # <<>>
    /\ worker' = [worker EXCEPT ![w] = [pc |-> "process", msg |-> Head(queue)]]
    /\ queue' = Tail(queue)
    /\ UNCHANGED <<entries, inflight, loop, stopReclaim, stopPoll, stopWorkers, caller, rqFaults>>

\* process: ConsumerFunc dispatches the message, or skips one without a
\* payload or channels; then, whatever it returned, inflight is lowered and
\* everyone woken.
Process(w, ok) ==
    /\ worker[w].pc = "process"
    /\ IF ok THEN worker[w].msg \notin Poison /\ UNCHANGED rqFaults
       ELSE IF worker[w].msg \in Poison THEN UNCHANGED rqFaults
       ELSE rqFaults < MaxRQFaults /\ rqFaults' = rqFaults + 1
    /\ worker' = [worker EXCEPT ![w] = IF ok THEN [@ EXCEPT !.pc = "ack"] ELSE [pc |-> "idle", msg |-> 0]]
    /\ inflight' = inflight - 1 /\ loop' = Woken(loop)
    /\ UNCHANGED <<entries, queue, stopReclaim, stopPoll, stopWorkers, caller>>

\* XACK, of no effect on an entry the group does not know; an error leaves
\* the entry pending.
Ack(w) ==
    /\ worker[w].pc = "ack"
    /\ \/ /\ entries' = [entries EXCEPT ![worker[w].msg] =
                            IF @.st = "pending" THEN [st |-> "acked", idle |-> FALSE] ELSE @]
          /\ UNCHANGED rqFaults
       \/ rqFaults < MaxRQFaults /\ rqFaults' = rqFaults + 1 /\ UNCHANGED entries
    /\ worker' = [worker EXCEPT ![w] = [pc |-> "idle", msg |-> 0]]
    /\ UNCHANGED <<queue, inflight, loop, stopReclaim, stopPoll, stopWorkers, caller>>

\* The select of work may prefer the stop to a message.
Exit(w) ==
    /\ worker[w].pc = "idle" /\ stopWorkers
    /\ worker' = [worker EXCEPT ![w].pc = "done"]
    /\ UNCHANGED <<entries, queue, inflight, loop, stopReclaim, stopPoll, stopWorkers, caller, rqFaults>>

-----------------------------------------------------------------------------
(* Shutdown                                                                *)

\* SIGTERM reaches the queue's own handler, and through the application the
\* context of RedisStreamConsumer.Run.
Stop(c) ==
    /\ loop["poll"].pc # "off" /\ caller[c] = "off" /\ caller' = [caller EXCEPT ![c] = "stopReclaim"]
    /\ UNCHANGED <<entries, queue, inflight, loop, worker, stopReclaim, stopPoll, stopWorkers, rqFaults>>

\* Shutdown: the sends block while the buffers are full.
SendStop(c) ==
    /\ \/ /\ caller[c] = "stopReclaim" /\ stopReclaim = 0 /\ stopReclaim' = 1
          /\ caller' = [caller EXCEPT ![c] = IF Reclaims THEN "broadcast" ELSE "stopPoll"]
          /\ UNCHANGED stopPoll
       \/ /\ caller[c] = "stopPoll" /\ stopPoll = 0 /\ stopPoll' = 1
          /\ caller' = [caller EXCEPT ![c] = "broadcast"] /\ UNCHANGED stopReclaim
    /\ UNCHANGED <<entries, queue, inflight, loop, worker, stopWorkers, rqFaults>>

Broadcast(c) ==
    /\ caller[c] = "broadcast" /\ caller' = [caller EXCEPT ![c] = "done"] /\ loop' = Woken(loop)
    /\ UNCHANGED <<entries, queue, inflight, worker, stopReclaim, stopPoll, stopWorkers, rqFaults>>

\* Run after pollWg.Wait.
CloseWorkers ==
    /\ loop["poll"].pc = "done" /\ ~stopWorkers /\ stopWorkers' = TRUE
    /\ UNCHANGED <<entries, queue, inflight, loop, worker, stopReclaim, stopPoll, caller, rqFaults>>

\* External: the process dies and comes back under another consumer name.
RQCrash ==
    /\ loop["poll"].pc # "off" /\ rqFaults < MaxRQFaults /\ rqFaults' = rqFaults + 1
    /\ queue' = Started(Reclaims).queue /\ loop' = Started(Reclaims).loop /\ worker' = Started(Reclaims).worker
    /\ inflight' = 0 /\ stopReclaim' = 0 /\ stopPoll' = 0 /\ stopWorkers' = FALSE
    /\ caller' = [c \in Callers |-> "off"]
    /\ UNCHANGED entries

RunReturned == stopWorkers /\ \A w \in Workers : worker[w].pc = "done"

RQNext ==
    \/ RunQueue \/ Enqueue \/ (\E m \in Entries : BecomesIdle(m))
    \/ PollRead \/ NoGroup \/ ReclaimTick \/ ReclaimStop \/ ReclaimRead
    \/ \E l \in Loops : Check(l) \/ ReadError(l) \/ Send(l) \/ Counted(l)
    \/ \E w \in Workers : Take(w) \/ Ack(w) \/ Exit(w) \/ \E ok \in BOOLEAN : Process(w, ok)
    \/ \E c \in Callers : Stop(c) \/ SendStop(c) \/ Broadcast(c)
    \/ CloseWorkers \/ RQCrash

\* Every goroutine that can move moves.  Blocked senders of a channel get their
\* turn in order; poll and reclaim, woken by the same broadcast, race for the
\* lock and neither loses for ever; a select does not prefer the ticker for
\* ever to a pending stop.  Commands and dispatches answer; time passes.
\* Nobody owes a message, a stop or a crash.
LoopStep(l) ==
    \/ Check(l) \/ Send(l) \/ Counted(l)
    \/ l = "poll" /\ PollRead
    \/ l = "reclaim" /\ (ReclaimTick \/ ReclaimRead)
RQFairness ==
    /\ \A l \in Loops : WF_redisQueue(LoopStep(l))
    /\ SF_redisQueue(Send("poll") \/ (Check("poll") /\ inflight < Concurrency))
    /\ SF_redisQueue(ReclaimStop) /\ WF_redisQueue(CloseWorkers)
    /\ \A m \in Entries : WF_redisQueue(BecomesIdle(m) /\ ~InProcess(m))
    /\ \A w \in Workers : /\ WF_redisQueue(Take(w) \/ Ack(w) \/ \E ok \in BOOLEAN : Process(w, ok))
                          /\ WF_redisQueue(Exit(w))
    /\ \A c \in Callers : WF_redisQueue(SendStop(c) \/ Broadcast(c))

RQSpec == RQInit /\ [][RQNext]_redisQueue /\ RQFairness

-----------------------------------------------------------------------------
(* Properties                                                              *)

\* A loop only sleeps on the condition variable while somebody is left to
\* wake it: a queued message or one in a worker's hands.  inflight, raised
\* late, never overstates the messages in work.
NoLostWakeup ==
    \A l \in Loops : loop[l].pc = "wait" =>
        queue # <<>> \/ \E w \in Workers : worker[w].pc = "process"

\* An entry that a failure or a crash left pending stays so for ever when
\* nothing is reclaimed.
LeftPending(m) == ~Reclaims /\ entries[m].st = "pending" /\ ~InProcess(m)

\* Every entry of the group is acknowledged in the end, whatever failed or
\* crashed on the way, unless its content never parses, the group was
\* destroyed, nothing is reclaimed after a failure or the consumer is told to
\* stop: a poisoned entry does not hold the others back.
PendingIsAcked ==
    \A m \in Entries \ Poison :
        []<>(entries[m].st \in {"new", "pending"} => LeftPending(m) \/ \E c \in Callers : caller[c] # "off")

\* The rounds of reclaim end.  The code does not see to it: an entry that fails
\* and becomes idle faster than a round takes is claimed again in that round,
\* and a round does not look at the stop.
RoundsEnd == []<>(loop["reclaim"].pc \in {"off", "never", "tick", "done"})

\* Without a VisibilityTimeout nobody takes the first caller's token from
\* stopReclaim: a second caller is stuck behind it for ever, and with it the
\* Run of the consumer when it is the one of the context.
Stuck(c) == ~Reclaims /\ caller[c] = "stopReclaim" /\ \E d \in Callers \ {c} : caller[d] = "done"

\* A shutdown ends: after SIGTERM or the end of the context both callers of
\* Shutdown return, but for one that is stuck, and so does Run of the queue,
\* wherever the loops were, if rounds end and the process does not die first.
StopsWhenTold ==
    RoundsEnd =>
        []<>(\/ \A c \in Callers : caller[c] = "off"
             \/ RunReturned /\ \A c \in Callers : caller[c] \in {"off", "done"} \/ Stuck(c))

\* The queue neither stalls nor loses what it can see again, and ends when
\* told, but for the caller that is stuck.
RedisQueueWorks == []NoLostWakeup /\ PendingIsAcked /\ StopsWhenTold
=============================================================================
