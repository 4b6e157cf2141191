-------------------------- MODULE KafkaConsumer_proofs --------------------------
(***************************************************************************)
(* Theorems about KafkaConsumer for any group, partition, poll and queue   *)
(* size: at-least-once delivery and the order of first dispatches, pauses  *)
(* that end, workers that do not outlive their assignment, a bound on the  *)
(* partition queue, and the committed offset of an abstract queue.         *)
(***************************************************************************)
EXTENDS KafkaConsumer, FiniteSetTheorems, TLAPS

Range0 == [first : Nat \ {0}, last : Nat]

Types ==
    /\ partitionLog \in Nat /\ committed \in Nat /\ dispatched \subseteq Nat
    /\ loop \in [Members -> {"poll", "pause", "push", "stopwait", "close", "init", "stopped"}]
    /\ fetched \in [Members -> Range0] /\ cur \in [Members -> Range0]
    /\ polled \in [Members -> BOOLEAN] /\ done \in [Members -> BOOLEAN]
    /\ held \in [Members -> BOOLEAN] /\ paused \in [Members -> BOOLEAN]
    /\ inMap \in [Members -> BOOLEAN] /\ cancelled \in [Members -> BOOLEAN]
    /\ token \in [Members -> BOOLEAN]
    /\ cb \in [Members -> {"idle", "revoke", "lost", "commit"}]
    /\ fetchPos \in [Members -> Nat \ {0}] /\ marked \in [Members -> Nat]
    /\ worker \in [Members -> {"none", "wait", "drain", "dispatch", "resume", "exit"}]
    /\ queue \in [Members -> Seq(Range0)]

\* Everything up to offset n has been dispatched.
Prefix(n) == 1 .. n \subseteq dispatched

\* A worker that nobody has killed.
Live(m) == worker[m] # "none" /\ ~cancelled[m]

\* A live worker is in the map, and the map has one only between assigned and
\* the callback that ends the assignment.
MapInv(m) ==
    /\ Live(m) => inMap[m]
    /\ inMap[m] => held[m] /\ cb[m] = "idle"

\* Between PollRecords and Push callbacks are held back, so the batch ends
\* where the next fetch begins.
BatchInv(m) ==
    loop[m] \in {"pause", "push"} =>
        /\ polled[m] /\ inMap[m]
        /\ fetched[m].first <= fetched[m].last
        /\ fetchPos[m] = fetched[m].last + 1

\* The record in the hands of the worker is the next one after what has been
\* dispatched, or has been dispatched before.
CurInv(m) ==
    worker[m] = "dispatch" => cur[m].first <= cur[m].last /\ Prefix(cur[m].first - 1)

\* The offset that the next batch pushed to the queue begins with.
NextIn(m) == IF loop[m] \in {"pause", "push"} THEN fetched[m].first ELSE fetchPos[m]

\* The offset that the worker takes after its current batch.
NextOut(m) == IF queue[m] = <<>> THEN NextIn(m) ELSE queue[m][1].first

\* The queue of a live worker is a contiguous run of offsets that ends where
\* the next batch begins; it begins after the current batch or after what was
\* dispatched.
QueueInv(m) ==
    Live(m) =>
      /\ \A i \in 1 .. Len(queue[m]) : queue[m][i].first <= queue[m][i].last
      /\ \A i \in 1 .. Len(queue[m]) - 1 : queue[m][i + 1].first = queue[m][i].last + 1
      /\ queue[m] # <<>> => NextIn(m) = queue[m][Len(queue[m])].last + 1
      /\ IF worker[m] = "dispatch"
           THEN NextOut(m) = cur[m].last + 1
           ELSE Prefix(NextOut(m) - 1)

MemberInv(m) == Prefix(marked[m]) /\ MapInv(m) /\ BatchInv(m) /\ CurInv(m) /\ QueueInv(m)

Inv ==
    /\ Types
    /\ CommittedWasDispatched /\ FirstDispatchInOrder
    /\ \A m \in Members : MemberInv(m)

\* The variables MemberInv(n) reads at n do not change.
Same(n) ==
    /\ loop'[n] = loop[n] /\ fetched'[n] = fetched[n] /\ polled'[n] = polled[n] /\ held'[n] = held[n]
    /\ cb'[n] = cb[n] /\ fetchPos'[n] = fetchPos[n] /\ marked'[n] = marked[n]
    /\ inMap'[n] = inMap[n] /\ cancelled'[n] = cancelled[n] /\ queue'[n] = queue[n]
    /\ worker'[n] = worker[n] /\ cur'[n] = cur[n]

\* A member that takes no part in a step keeps its invariant, since dispatched
\* only grows.
LEMMA Frame ==
  ASSUME NEW n \in Members, MemberInv(n), Same(n), dispatched \subseteq dispatched'
  PROVE  MemberInv(n)'
<1>1. ASSUME NEW k, Prefix(k) PROVE Prefix(k)'
  BY <1>1 DEF Prefix
<1>2. NextIn(n)' = NextIn(n) /\ NextOut(n)' = NextOut(n) /\ (Live(n)' <=> Live(n))
  BY DEF Same, NextIn, NextOut, Live
<1>3. Prefix(marked[n])' /\ MapInv(n)' /\ BatchInv(n)' /\ CurInv(n)'
  BY <1>1, <1>2 DEF Same, MemberInv, MapInv, BatchInv, CurInv, Prefix
<1>4. QueueInv(n)'
  BY <1>1, <1>2 DEF Same, MemberInv, QueueInv, Prefix
<1> QED BY <1>3, <1>4 DEF MemberInv

-----------------------------------------------------------------------------
\* A range without its first record is a range (Dispatch).
LEMMA RangeNext ==
  ASSUME NEW r \in Range0 PROVE [r EXCEPT !.first = @ + 1] \in Range0
<1>1. r.first + 1 \in Nat \ {0} /\ r.last \in Nat /\ r = [first |-> r.first, last |-> r.last]
  BY DEF Range0
<1>2. [r EXCEPT !.first = @ + 1] = [first |-> r.first + 1, last |-> r.last]
  BY <1>1
<1> QED BY <1>1, <1>2 DEF Range0

\* LetGo keeps the types of what the client forgets.
LEMMA LetGoTypes ==
  ASSUME NEW m \in Members, Types, LetGo(m)
  PROVE  /\ held' \in [Members -> BOOLEAN] /\ fetchPos' \in [Members -> Nat \ {0}]
         /\ marked' \in [Members -> Nat]
BY DEF Types, LetGo

\* The types are inductive.
LEMMA TypesStep == Types /\ [KafkaNext]_kafkaVars => Types'
<1> SUFFICES ASSUME Types, [KafkaNext]_kafkaVars PROVE Types'
  OBVIOUS
<1> USE KafkaAssumption DEF Types, groupVars, loopVars, clientVars, workerVars
<1>0. NoBatch \in Range0
  BY DEF NoBatch, Range0
<1>1. CASE Produce
  BY <1>1 DEF Produce
<1>2. ASSUME NEW m \in Members, LoopStep(m) PROVE Types'
  <2>1. CASE Poll(m)
    <3>1. fetched' \in [Members -> Range0] /\ fetchPos' \in [Members -> Nat \ {0}]
      <4>1. PICK n \in 1 .. MaxPollRecords :
              /\ fetched' = [fetched EXCEPT ![m] = [first |-> fetchPos[m], last |-> fetchPos[m] + n - 1]]
              /\ fetchPos' = [fetchPos EXCEPT ![m] = @ + n]
        BY <2>1 DEF Poll
      <4>2. /\ [first |-> fetchPos[m], last |-> fetchPos[m] + n - 1] \in Range0
            /\ fetchPos[m] + n \in Nat \ {0}
        BY DEF Range0
      <4> QED BY <4>1, <4>2
    <3>2. loop' \in [Members -> {"poll", "pause", "push", "stopwait", "close", "init", "stopped"}]
      BY <2>1 DEF Poll
    <3> QED BY <2>1, <3>1, <3>2 DEF Poll
  <2>2. CASE PauseFetch(m) BY <2>2 DEF PauseFetch
  <2>3. CASE Push(m)
    <3>1. Append(queue[m], fetched[m]) \in Seq(Range0)
      OBVIOUS
    <3>0. /\ fetched' \in [Members -> Range0] /\ polled' \in [Members -> BOOLEAN]
          /\ loop' \in [Members -> {"poll", "pause", "push", "stopwait", "close", "init", "stopped"}]
      BY <1>0, <2>3 DEF Push
    <3>2. CASE cancelled[m]
      <4>1. paused' \in [Members -> BOOLEAN] /\ UNCHANGED <<queue, token>> BY <2>3, <3>2 DEF Push
      <4> QED BY <2>3, <3>0, <4>1 DEF Push
    <3>3. CASE ~cancelled[m]
      <4>1. queue' \in [Members -> Seq(Range0)] BY <2>3, <3>1, <3>3 DEF Push
      <4>2. token' \in [Members -> BOOLEAN] /\ UNCHANGED paused BY <2>3, <3>3 DEF Push
      <4> QED BY <2>3, <3>0, <4>1, <4>2 DEF Push
    <3> QED BY <3>2, <3>3
  <2>4. CASE StopWait(m) BY <2>4 DEF StopWait
  <2>5. CASE CloseDone(m) BY <2>5 DEF CloseDone
  <2>6. CASE ReInitClient(m) BY <2>6 DEF ReInitClient
  <2> QED BY <1>2, <2>1, <2>2, <2>3, <2>4, <2>5, <2>6 DEF LoopStep
<1>3. ASSUME NEW m \in Members, FatalError(m) PROVE Types'
  BY <1>3 DEF FatalError
<1>4. ASSUME NEW m \in Members, StopMember(m) PROVE Types'
  <2>1. CASE loop[m] = "poll"
    <3>1. polled' \in [Members -> BOOLEAN] /\ Kill(m)
      BY <1>4, <2>1 DEF StopMember
    <3>2. loop' \in [Members -> {"poll", "pause", "push", "stopwait", "close", "init", "stopped"}]
      BY <1>4, <2>1 DEF StopMember
    <3>3. inMap' \in [Members -> BOOLEAN] /\ cancelled' \in [Members -> BOOLEAN]
      BY <3>1 DEF Kill
    <3> QED BY <1>4, <3>1, <3>2, <3>3 DEF StopMember, Kill
  <2>2. CASE loop[m] = "init" BY <1>4, <2>2 DEF StopMember
  <2> QED BY <1>4, <2>1, <2>2 DEF StopMember
<1>5. ASSUME NEW m \in Members, Crash(m) PROVE Types'
  BY <1>0, <1>5 DEF Crash, LetGo
<1>6. ASSUME NEW m \in Members, Assigned(m) PROVE Types'
  <2>1. CASE done[m] BY <1>6, <2>1 DEF Assigned
  <2>2. CASE ~done[m]
    <3>1. <<>> \in Seq(Range0) /\ committed + 1 \in Nat \ {0} OBVIOUS
    <3>2. queue' = [queue EXCEPT ![m] = <<>>] BY <1>6, <2>2 DEF Assigned
    <3>3. queue' \in [Members -> Seq(Range0)] BY <3>1, <3>2
    <3>4. fetchPos' \in [Members -> Nat \ {0}] /\ marked' \in [Members -> Nat]
      BY <1>6, <3>1 DEF Assigned
    <3>5. /\ held' \in [Members -> BOOLEAN] /\ inMap' \in [Members -> BOOLEAN]
          /\ cancelled' \in [Members -> BOOLEAN] /\ token' \in [Members -> BOOLEAN]
      BY <1>6, <2>2 DEF Assigned
    <3>6. worker' \in [Members -> {"none", "wait", "drain", "dispatch", "resume", "exit"}]
      BY <1>6, <2>2 DEF Assigned
    <3> QED BY <1>6, <2>2, <3>3, <3>4, <3>5, <3>6 DEF Assigned
  <2> QED BY <2>1, <2>2
<1>7. ASSUME NEW m \in Members, Revoked(m) PROVE Types'
  BY <1>7 DEF Revoked, Kill
<1>8. ASSUME NEW m \in Members, Lost(m) PROVE Types'
  <2>1. CASE inMap[m] BY <1>8, <2>1 DEF Lost, Kill
  <2>2. CASE ~inMap[m]
    <3>1. LetGo(m) BY <1>8, <2>2 DEF Lost
    <3> QED BY <1>8, <2>2, <3>1, LetGoTypes DEF Lost, Kill
  <2> QED BY <2>1, <2>2
<1>9. ASSUME NEW m \in Members, Killed(m) PROVE Types'
  <2>1. CASE cb[m] = "revoke" BY <1>9, <2>1 DEF Killed
  <2>2. CASE cb[m] # "revoke"
    <3>1. LetGo(m) BY <1>9, <2>2 DEF Killed
    <3> QED BY <1>9, <2>2, <3>1, LetGoTypes DEF Killed
  <2> QED BY <2>1, <2>2
<1>10. ASSUME NEW m \in Members, CommitOnRevoke(m) PROVE Types'
  BY <1>10 DEF CommitOnRevoke, LetGo
<1>11. ASSUME NEW m \in Members, WorkerStep(m) PROVE Types'
  <2>1. CASE WakeWorker(m) BY <2>1 DEF WakeWorker
  <2>2. CASE Pop(m)
    <3>1. CASE cancelled[m] \/ queue[m] = <<>> BY <2>2, <3>1 DEF Pop
    <3>2. CASE ~(cancelled[m] \/ queue[m] = <<>>)
      <4>1. Head(queue[m]) \in Range0 /\ Tail(queue[m]) \in Seq(Range0) BY <3>2
      <4>2. /\ cur' = [cur EXCEPT ![m] = Head(queue[m])]
            /\ queue' = [queue EXCEPT ![m] = Tail(queue[m])]
        BY <2>2, <3>2 DEF Pop
      <4>3. cur' \in [Members -> Range0] /\ queue' \in [Members -> Seq(Range0)]
        BY <4>1, <4>2
      <4> QED BY <2>2, <3>2, <4>3 DEF Pop
    <3> QED BY <3>1, <3>2
  <2>3. CASE DispatchRecord(m)
    <3>1. cur[m].first \in Nat \ {0} /\ cur[m].last \in Nat BY DEF Range0
    <3>2. cur[m] \in Range0 OBVIOUS
    <3>3. [cur[m] EXCEPT !.first = @ + 1] \in Range0 BY <3>2, RangeNext
    <3>4. cur' \in [Members -> Range0] BY <2>3, <3>3 DEF DispatchRecord
    <3>5. marked' \in [Members -> Nat] /\ dispatched' \subseteq Nat BY <2>3, <3>1 DEF DispatchRecord
    <3>6. worker' \in [Members -> {"none", "wait", "drain", "dispatch", "resume", "exit"}]
      BY <2>3 DEF DispatchRecord
    <3> QED BY <2>3, <3>4, <3>5, <3>6 DEF DispatchRecord
  <2>4. CASE ResumeConsuming(m) BY <1>0, <2>4 DEF ResumeConsuming
  <2>5. CASE Exit(m) BY <2>5 DEF Exit
  <2> QED BY <1>11, <2>1, <2>2, <2>3, <2>4, <2>5 DEF WorkerStep
<1>12. ASSUME NEW m \in Members, DispatchError(m) PROVE Types'
  BY <1>12 DEF DispatchError, Range0
<1>13. ASSUME NEW m \in Members, DispatchCancelled(m) PROVE Types'
  BY <1>13 DEF DispatchCancelled, Range0
<1>14. ASSUME NEW m \in Members, SessionExpires(m) \/ AutoCommit(m) PROVE Types'
  <2>1. CASE SessionExpires(m) BY <2>1 DEF SessionExpires
  <2>2. CASE AutoCommit(m)
    <3>1. committed' \in Nat BY <2>2 DEF AutoCommit
    <3> QED BY <2>2, <3>1 DEF AutoCommit
  <2> QED BY <1>14, <2>1, <2>2
<1>15. CASE UNCHANGED kafkaVars
  BY <1>15 DEF kafkaVars
<1> QED
  BY <1>1, <1>2, <1>3, <1>4, <1>5, <1>6, <1>7, <1>8, <1>9, <1>10, <1>11, <1>12, <1>13,
     <1>14, <1>15 DEF KafkaNext
-----------------------------------------------------------------------------
(* One lemma per group of actions: the member that moves keeps its part of *)
(* the invariant.                                                          *)

\* No live worker: the queue does not matter any more.
LEMMA NotLive ==
  ASSUME NEW m \in Members, ~Live(m)', MapInv(m)', BatchInv(m)', CurInv(m)', Prefix(marked[m])'
  PROVE  MemberInv(m)'
BY DEF MemberInv, QueueInv

\* The poll loop up to Push, and its way out and back (pollUntilFatal, Run).
LEMMA LoopKeeps ==
  ASSUME NEW m \in Members, Types, Types', MemberInv(m), UNCHANGED dispatched,
         Poll(m) \/ PauseFetch(m) \/ StopWait(m) \/ CloseDone(m) \/ ReInitClient(m) \/ FatalError(m)
  PROVE  MemberInv(m)'
<1>1. CASE Poll(m)
  <2>1. PICK n \in 1 .. MaxPollRecords :
          /\ fetched' = [fetched EXCEPT ![m] = [first |-> fetchPos[m], last |-> fetchPos[m] + n - 1]]
          /\ fetchPos' = [fetchPos EXCEPT ![m] = @ + n]
    BY <1>1 DEF Poll
  <2>2. /\ fetched'[m].first = fetchPos[m] /\ fetched'[m].last = fetchPos[m] + n - 1
        /\ fetchPos'[m] = fetchPos[m] + n /\ loop'[m] \in {"pause", "push"} /\ loop[m] = "poll"
        /\ polled'[m] /\ inMap[m]
    BY <1>1, <2>1 DEF Poll, Types
  <2>3. UNCHANGED <<held, cb, marked, inMap, cancelled, queue, worker, cur>>
    BY <1>1 DEF Poll, workerVars
  <2>4. NextIn(m)' = NextIn(m) /\ NextOut(m)' = NextOut(m)
    BY <2>2, <2>3 DEF NextIn, NextOut
  <2>5. BatchInv(m)'
    BY <2>2, <2>3, KafkaAssumption DEF BatchInv, Types
  <2> QED BY <2>3, <2>4, <2>5 DEF MemberInv, MapInv, CurInv, QueueInv, Live, Prefix
<1>2. CASE PauseFetch(m)
  <2>1. loop[m] = "pause" /\ loop'[m] = "push"
    BY <1>2 DEF PauseFetch, Types
  <2>2. UNCHANGED <<fetched, polled, held, cb, fetchPos, marked, inMap, cancelled, queue, worker, cur>>
    BY <1>2 DEF PauseFetch, workerVars
  <2>3. NextIn(m)' = NextIn(m) /\ NextOut(m)' = NextOut(m)
    BY <2>1, <2>2 DEF NextIn, NextOut
  <2> QED BY <2>1, <2>2, <2>3 DEF MemberInv, MapInv, BatchInv, CurInv, QueueInv, Live, Prefix
<1>3. CASE StopWait(m) \/ CloseDone(m) \/ ReInitClient(m) \/ FatalError(m)
  <2>1. loop[m] \notin {"pause", "push"} /\ loop'[m] \notin {"pause", "push"}
    BY <1>3 DEF StopWait, CloseDone, ReInitClient, FatalError, Types
  <2>2. UNCHANGED <<fetched, held, cb, fetchPos, marked, inMap, cancelled, queue, worker, cur>>
    BY <1>3 DEF StopWait, CloseDone, ReInitClient, FatalError, workerVars, clientVars
  <2>3. NextIn(m)' = NextIn(m) /\ NextOut(m)' = NextOut(m)
    BY <2>1, <2>2 DEF NextIn, NextOut
  <2> QED BY <2>1, <2>2, <2>3 DEF MemberInv, MapInv, BatchInv, CurInv, QueueInv, Live, Prefix
<1> QED BY <1>1, <1>2, <1>3

\* Push appends the polled batch to the contiguous queue, or drops it when the
\* worker was killed.
LEMMA PushKeeps ==
  ASSUME NEW m \in Members, Types, Types', MemberInv(m), UNCHANGED dispatched, Push(m)
  PROVE  MemberInv(m)'
<1>1. loop[m] = "push" /\ loop'[m] = "poll"
  BY DEF Push, Types
<1>2. UNCHANGED <<held, cb, fetchPos, marked, inMap, cancelled, worker, cur>>
  BY DEF Push
<1>3. Prefix(marked[m])' /\ MapInv(m)' /\ BatchInv(m)' /\ CurInv(m)'
  BY <1>1, <1>2 DEF MemberInv, MapInv, BatchInv, CurInv, Live, Prefix
<1>4. CASE ~Live(m)
  BY <1>2, <1>3, <1>4, NotLive DEF Live
<1>5. CASE Live(m)
  <2> DEFINE q == queue[m]  b == fetched[m]
  <2>1. queue'[m] = Append(q, b) /\ q \in Seq(Range0) /\ b \in Range0
    BY <1>5 DEF Push, Live, Types
  <2>2. b.first <= b.last /\ fetchPos[m] = b.last + 1
    BY <1>1 DEF MemberInv, BatchInv
  <2>3. NextIn(m) = b.first /\ NextIn(m)' = b.last + 1
    BY <1>1, <1>2, <2>2 DEF NextIn
  <2>4. /\ Len(queue'[m]) = Len(q) + 1 /\ queue'[m][Len(q) + 1] = b
        /\ \A i \in 1 .. Len(q) : queue'[m][i] = q[i]
        /\ queue'[m] # <<>> /\ Len(q) \in Nat
    BY <2>1
  <2>5. \A i \in 1 .. Len(queue'[m]) : queue'[m][i].first <= queue'[m][i].last
    BY <1>5, <2>2, <2>4 DEF MemberInv, QueueInv
  <2>6. \A i \in 1 .. Len(queue'[m]) - 1 : queue'[m][i + 1].first = queue'[m][i].last + 1
    <3> SUFFICES ASSUME NEW i \in 1 .. Len(queue'[m]) - 1
                 PROVE  queue'[m][i + 1].first = queue'[m][i].last + 1
      OBVIOUS
    <3>1. CASE i < Len(q)
      BY <1>5, <2>4, <3>1 DEF MemberInv, QueueInv
    <3>2. CASE i = Len(q)
      <4>1. q # <<>> BY <2>1, <3>2
      <4> QED BY <1>5, <2>3, <2>4, <3>2, <4>1 DEF MemberInv, QueueInv
    <3> QED BY <2>4, <3>1, <3>2
  <2>7. NextOut(m)' = NextOut(m)
    <3>1. CASE q = <<>> BY <2>3, <2>4, <3>1 DEF NextOut
    <3>2. CASE q # <<>>
      <4>1. 1 \in 1 .. Len(q) BY <2>1, <3>2
      <4> QED BY <2>4, <3>2, <4>1 DEF NextOut
    <3> QED BY <3>1, <3>2
  <2>8. QueueInv(m)'
    BY <1>2, <1>5, <2>3, <2>4, <2>5, <2>6, <2>7 DEF MemberInv, QueueInv, Live, Prefix
  <2> QED BY <1>3, <2>8 DEF MemberInv
<1> QED BY <1>4, <1>5

\* assigned starts a worker at the committed offset; revoked and lost kill it
\* before the client forgets its positions.
LEMMA CallbackKeeps ==
  ASSUME NEW m \in Members, Types, Types', MemberInv(m), UNCHANGED dispatched,
         CommittedWasDispatched,
         Assigned(m) \/ Revoked(m) \/ Lost(m) \/ Killed(m) \/ CommitOnRevoke(m)
  PROVE  MemberInv(m)'
<1>0. Prefix(0)'
  BY DEF Prefix
<1>1. CASE Assigned(m)
  <2>1. /\ ~held[m] /\ cb[m] = "idle" /\ loop[m] \notin {"pause", "push"}
        /\ held'[m] /\ fetchPos'[m] = committed + 1 /\ marked'[m] = committed
        /\ UNCHANGED <<committed, loop, fetched, cb>>
    BY <1>1 DEF Assigned, Types, loopVars
  <2>2. Prefix(committed)' /\ Prefix(marked[m])' /\ BatchInv(m)' /\ ~inMap[m] /\ ~Live(m)
    BY <2>1 DEF MemberInv, MapInv, BatchInv, CommittedWasDispatched, Prefix
  <2>3. CASE done[m]
    <3>1. UNCHANGED <<inMap, cancelled, worker, cur>> BY <1>1, <2>3 DEF Assigned, workerVars
    <3>2. MapInv(m)' /\ CurInv(m)' /\ ~Live(m)'
      BY <2>2, <3>1 DEF MemberInv, MapInv, CurInv, Live, Prefix
    <3> QED BY <2>2, <3>2, NotLive
  <2>4. CASE ~done[m]
    <3>1. inMap'[m] /\ queue'[m] = <<>> /\ worker'[m] = "wait"
      BY <1>1, <2>4 DEF Assigned, Types
    <3>2. NextIn(m)' = committed + 1 /\ NextOut(m)' = committed + 1 /\ Len(queue'[m]) = 0
      BY <2>1, <3>1 DEF NextIn, NextOut
    <3>3. NextOut(m)' - 1 = committed' /\ queue'[m] = <<>> /\ worker'[m] # "dispatch"
      BY <2>1, <3>1, <3>2 DEF Types
    <3>4. QueueInv(m)'
      BY <2>2, <3>2, <3>3 DEF QueueInv, Prefix
    <3> QED BY <2>1, <2>2, <3>1, <3>4 DEF MemberInv, MapInv, CurInv
  <2> QED BY <2>3, <2>4
<1>2. CASE Revoked(m) \/ Lost(m)
  <2>1. Kill(m) /\ ~polled[m] /\ UNCHANGED <<loop, fetched, polled>>
    BY <1>2 DEF Revoked, Lost, loopVars
  <2>2. ~inMap'[m] /\ (cancelled'[m] <=> cancelled[m] \/ inMap[m]) /\ UNCHANGED <<worker, cur>>
    BY <2>1 DEF Kill, Types
  <2>3. ~Live(m)' /\ MapInv(m)' /\ BatchInv(m)' /\ CurInv(m)'
    BY <2>1, <2>2 DEF MemberInv, MapInv, BatchInv, CurInv, Live, Prefix
  <2>4. marked'[m] \in {marked[m], 0}
    BY <1>2 DEF Revoked, Lost, LetGo, Types
  <2>5. Prefix(marked[m])'
    BY <1>0, <2>4 DEF MemberInv, Prefix
  <2> QED BY <2>3, <2>5, NotLive
<1>3. CASE Killed(m) \/ CommitOnRevoke(m)
  <2>1. cb[m] # "idle" /\ UNCHANGED <<loop, fetched, polled, inMap, cancelled, worker, cur>>
    BY <1>3 DEF Killed, CommitOnRevoke, loopVars, workerVars
  <2>2. ~inMap[m] /\ loop[m] \notin {"pause", "push"} /\ ~Live(m)
    BY <2>1 DEF MemberInv, MapInv, BatchInv
  <2>3. ~Live(m)' /\ MapInv(m)' /\ BatchInv(m)' /\ CurInv(m)'
    BY <2>1, <2>2 DEF MemberInv, MapInv, BatchInv, CurInv, Live, Prefix
  <2>4. marked'[m] \in {marked[m], 0}
    BY <1>3 DEF Killed, CommitOnRevoke, LetGo, Types
  <2>5. Prefix(marked[m])'
    BY <1>0, <2>4 DEF MemberInv, Prefix
  <2> QED BY <2>3, <2>5, NotLive
<1> QED BY <1>1, <1>2, <1>3

\* Shutdown and crash leave no live worker.
LEMMA StopKeeps ==
  ASSUME NEW m \in Members, Types, Types', MemberInv(m), UNCHANGED dispatched,
         StopMember(m) \/ Crash(m)
  PROVE  MemberInv(m)'
<1>1. CASE StopMember(m) /\ loop[m] = "poll"
  <2>1. Kill(m) /\ loop'[m] \in {"stopwait", "close"} /\ UNCHANGED <<cb, marked>>
    BY <1>1 DEF StopMember, Types, clientVars
  <2>2. ~inMap'[m] /\ (cancelled'[m] <=> cancelled[m] \/ inMap[m]) /\ UNCHANGED <<worker, cur>>
    BY <2>1 DEF Kill, Types
  <2>3. ~Live(m)' /\ MapInv(m)' /\ BatchInv(m)' /\ CurInv(m)' /\ Prefix(marked[m])'
    BY <2>1, <2>2 DEF MemberInv, MapInv, BatchInv, CurInv, Live, Prefix
  <2> QED BY <2>3, NotLive
<1>2. CASE StopMember(m) /\ loop[m] # "poll"
  <2>1. loop[m] = "init" /\ loop'[m] = "stopped"
    BY <1>2 DEF StopMember, Types
  <2>2. UNCHANGED <<held, cb, fetchPos, marked, inMap, cancelled, queue, worker, cur>>
    BY <1>2 DEF StopMember, workerVars, clientVars
  <2>3. NextIn(m)' = NextIn(m) /\ NextOut(m)' = NextOut(m)
    BY <2>1, <2>2 DEF NextIn, NextOut
  <2> QED BY <2>1, <2>2, <2>3 DEF MemberInv, MapInv, BatchInv, CurInv, QueueInv, Live, Prefix
<1>3. CASE Crash(m)
  <2>1. worker'[m] = "none" /\ ~inMap'[m] /\ loop'[m] = "stopped" /\ marked'[m] = 0
    BY <1>3 DEF Crash, LetGo, Types
  <2>2. ~Live(m)' /\ MapInv(m)' /\ BatchInv(m)' /\ CurInv(m)' /\ Prefix(marked[m])'
    BY <2>1 DEF MapInv, BatchInv, CurInv, Live, Prefix
  <2> QED BY <2>2, NotLive
<1> QED BY <1>1, <1>2, <1>3

\* A sequence that is not empty has one element or more.
LEMMA NonEmpty ==
  ASSUME NEW S, NEW q \in Seq(S), q # <<>> PROVE Len(q) = 1 \/ Len(q) > 1
<1>1. \A n \in Nat \ {0} : n = 1 \/ n > 1
  OBVIOUS
<1>2. Len(q) \in Nat \ {0}
  OBVIOUS
<1> QED BY <1>1, <1>2, Zenon

\* What Pop leaves in the queue.
LEMMA TailFacts ==
  ASSUME NEW S, NEW q \in Seq(S), q # <<>>
  PROVE  /\ Len(q) = 1 => Tail(q) = <<>>
         /\ Len(q) > 1 => /\ Tail(q) # <<>> /\ Tail(q)[1] = q[2]
                          /\ Tail(q)[Len(Tail(q))] = q[Len(q)]
<1>1. Len(q) \in Nat \ {0} /\ Tail(q) \in Seq(S) /\ Len(Tail(q)) = Len(q) - 1
  OBVIOUS
<1>2. \A i \in 1 .. Len(q) - 1 : Tail(q)[i] = q[i + 1]
  OBVIOUS
<1>3. Len(q) = 1 => Tail(q) = <<>>
  <2>1. \A n \in Nat : n = 1 => n - 1 = 0 /\ ~(n - 1 = 1 \/ n - 1 > 1)
    OBVIOUS
  <2>2. ASSUME Len(q) = 1, Tail(q) # <<>> PROVE FALSE
    <3>1. Len(Tail(q)) = 1 \/ Len(Tail(q)) > 1
      BY <1>1, <2>2, NonEmpty, Zenon
    <3> QED BY <1>1, <2>1, <2>2, <3>1, Zenon
  <2> QED BY <2>2
<1>4. ASSUME Len(q) > 1
      PROVE  Tail(q) # <<>> /\ Tail(q)[1] = q[2] /\ Tail(q)[Len(Tail(q))] = q[Len(q)]
  <2>1. 1 \in 1 .. Len(q) - 1 /\ Len(q) - 1 \in 1 .. Len(q) - 1 BY <1>1, <1>4
  <2>2. Tail(q)[1] = q[1 + 1] /\ Tail(q)[Len(q) - 1] = q[Len(q) - 1 + 1] BY <1>2, <2>1
  <2>3. Len(q) - 1 + 1 = Len(q) BY <1>1
  <2>4. Tail(q) # <<>>
    <3>1. \A n \in Nat : n > 1 => n - 1 # 0 OBVIOUS
    <3>2. Len(Tail(q)) # 0 BY <1>1, <1>4, <3>1, Zenon
    <3>3. Len(<<>>) = 0 OBVIOUS
    <3> QED BY <3>2, <3>3, Zenon
  <2> QED BY <1>1, <2>2, <2>3, <2>4
<1> QED BY <1>3, <1>4

\* Pop hands the worker the batch that follows the dispatched prefix.
LEMMA PopKeeps ==
  ASSUME NEW m \in Members, Types, Types', MemberInv(m), UNCHANGED dispatched, Pop(m)
  PROVE  MemberInv(m)'
<1>1. worker[m] = "drain"
      /\ UNCHANGED <<loop, fetched, polled, held, cb, fetchPos, marked, inMap, cancelled>>
  BY DEF Pop, loopVars, clientVars
<1>2. worker'[m] # "none" /\ NextIn(m)' = NextIn(m)
  BY <1>1 DEF Pop, NextIn, Types
<1>3. Prefix(marked[m])' /\ MapInv(m)' /\ BatchInv(m)'
  BY <1>1, <1>2 DEF MemberInv, MapInv, BatchInv, Live, Prefix
<1>4. CASE cancelled[m] \/ queue[m] = <<>>
  <2>1. worker'[m] \in {"exit", "wait"} /\ UNCHANGED <<queue, cur>>
    BY <1>4 DEF Pop, Types
  <2> QED BY <1>1, <1>2, <1>3, <2>1 DEF MemberInv, CurInv, QueueInv, NextOut, Live, Prefix
<1>5. CASE ~(cancelled[m] \/ queue[m] = <<>>)
  <2> DEFINE q == queue[m]
  <2>1. worker'[m] = "dispatch" /\ cur'[m] = Head(q) /\ queue'[m] = Tail(q) /\ Live(m)
    BY <1>1, <1>5 DEF Pop, Live, Types
  <2>2. /\ q \in Seq(Range0) /\ Len(q) \in Nat \ {0} /\ Head(q) = q[1]
        /\ Len(Tail(q)) = Len(q) - 1 /\ \A i \in 1 .. Len(q) - 1 : Tail(q)[i] = q[i + 1]
    BY <1>5 DEF Types
  <2>3. CurInv(m)'
    BY <1>1, <1>5, <2>1, <2>2 DEF MemberInv, CurInv, QueueInv, NextOut, Prefix
  <2>4. /\ \A i \in 1 .. Len(Tail(q)) : Tail(q)[i].first <= Tail(q)[i].last
        /\ \A i \in 1 .. Len(Tail(q)) - 1 : Tail(q)[i + 1].first = Tail(q)[i].last + 1
    BY <2>1, <2>2 DEF MemberInv, QueueInv
  <2>5. CASE Len(q) = 1
    <3>1. Tail(q) = <<>> BY <1>5, <2>2, <2>5, TailFacts
    <3>2. NextOut(m)' = q[1].last + 1
      BY <1>2, <1>5, <2>1, <2>5, <3>1 DEF MemberInv, QueueInv, NextOut
    <3> QED BY <1>3, <2>1, <2>2, <2>3, <2>4, <3>1, <3>2 DEF MemberInv, QueueInv
  <2>6. CASE Len(q) > 1
    <3>1. Tail(q) # <<>> /\ Tail(q)[1] = q[2] /\ Tail(q)[Len(Tail(q))] = q[Len(q)]
      BY <1>5, <2>2, <2>6, TailFacts
    <3>2. q[2].first = q[1].last + 1
      <4>1. 1 \in 1 .. Len(q) - 1 BY <2>2, <2>6
      <4>2. q[1 + 1].first = q[1].last + 1 BY <2>1, <4>1 DEF MemberInv, QueueInv
      <4> QED BY <4>2
    <3>3. NextOut(m)' = q[1].last + 1
      BY <2>1, <3>1, <3>2 DEF NextOut
    <3>4. NextIn(m)' = q[Len(q)].last + 1
      BY <1>2, <1>5, <2>1 DEF MemberInv, QueueInv
    <3> QED BY <1>3, <2>1, <2>2, <2>3, <2>4, <3>1, <3>3, <3>4 DEF MemberInv, QueueInv
  <2>7. Len(q) = 1 \/ Len(q) > 1 BY <1>5, NonEmpty DEF Types
  <2> QED BY <2>5, <2>6, <2>7
<1> QED BY <1>4, <1>5

\* The steps of consume between batches, and its end.
LEMMA WorkerKeeps ==
  ASSUME NEW m \in Members, Types, Types', MemberInv(m), UNCHANGED dispatched,
         WakeWorker(m) \/ ResumeConsuming(m) \/ Exit(m)
  PROVE  MemberInv(m)'
<1>1. UNCHANGED <<loop, fetched, polled, held, cb, fetchPos, marked, inMap>>
  BY DEF WakeWorker, ResumeConsuming, Exit, loopVars, clientVars
<1>2. Prefix(marked[m])' /\ BatchInv(m)'
  BY <1>1 DEF MemberInv, BatchInv, Prefix
<1>3. CASE WakeWorker(m) \/ ResumeConsuming(m)
  <2>1. worker[m] \notin {"dispatch", "none"} /\ worker'[m] \in {"exit", "drain"}
        /\ UNCHANGED <<queue, cancelled>>
    <3>1. CASE WakeWorker(m) BY <3>1 DEF WakeWorker, Types
    <3>2. CASE ResumeConsuming(m) BY <3>2 DEF ResumeConsuming, Types
    <3> QED BY <1>3, <3>1, <3>2
  <2>2. NextIn(m)' = NextIn(m) /\ NextOut(m)' = NextOut(m) /\ (Live(m)' <=> Live(m))
    BY <1>1, <2>1 DEF NextIn, NextOut, Live
  <2>3. MapInv(m)'
    BY <1>1, <2>2 DEF MemberInv, MapInv
  <2>4. CurInv(m)'
    BY <2>1 DEF CurInv
  <2>5. QueueInv(m)'
    BY <1>1, <2>1, <2>2 DEF MemberInv, QueueInv, Prefix
  <2> QED BY <1>2, <2>3, <2>4, <2>5 DEF MemberInv
<1>4. CASE Exit(m)
  <2>1. worker'[m] = "none" BY <1>4 DEF Exit, Types
  <2>2. ~Live(m)' /\ MapInv(m)' /\ CurInv(m)'
    BY <1>1, <2>1 DEF MemberInv, MapInv, CurInv, Live
  <2> QED BY <1>2, <2>2, NotLive
<1> QED BY <1>3, <1>4

\* Dispatching the record after a dispatched prefix makes a longer prefix and
\* keeps the order of first dispatches.
LEMMA DispatchOne ==
  ASSUME NEW m \in Members, Types, FirstDispatchInOrder, CommittedWasDispatched, CurInv(m),
         worker[m] = "dispatch",
         dispatched' \in {dispatched, dispatched \cup {cur[m].first}}
  PROVE  /\ dispatched \subseteq dispatched' /\ FirstDispatchInOrder'
         /\ cur[m].first \in dispatched' => 1 .. cur[m].first \subseteq dispatched'
<1> DEFINE f == cur[m].first
<1>1. f \in Nat \ {0} BY DEF Types, Range0
<1>2. 1 .. f - 1 \subseteq dispatched BY DEF CurInv, Prefix
<1>3. 1 .. f \subseteq (1 .. f - 1) \cup {f} BY <1>1
<1>4. dispatched \subseteq dispatched' OBVIOUS
<1>5. f \in dispatched' => 1 .. f \subseteq dispatched' BY <1>2, <1>3, <1>4
<1>6. \A o \in dispatched : 1 .. o \subseteq dispatched BY DEF FirstDispatchInOrder
<1>7. \A o \in dispatched' : 1 .. o \subseteq dispatched' BY <1>4, <1>5, <1>6
<1> QED BY <1>4, <1>5, <1>7 DEF FirstDispatchInOrder

\* Dispatch extends the dispatched prefix by the record the worker holds.
LEMMA DispatchKeeps ==
  ASSUME NEW m \in Members, Types, Types', MemberInv(m), FirstDispatchInOrder,
         CommittedWasDispatched, DispatchRecord(m)
  PROVE  MemberInv(m)'
<1> DEFINE f == cur[m].first  l == cur[m].last
<1>1. /\ worker[m] = "dispatch" /\ marked'[m] \in {marked[m], f} /\ dispatched' = dispatched \cup {f}
      /\ UNCHANGED <<loop, fetched, polled, held, cb, fetchPos, inMap, cancelled, queue>>
  BY DEF DispatchRecord, Types, loopVars
<1>2. f \in Nat \ {0} /\ l \in Nat /\ cur[m] \in Range0 BY DEF Types, Range0
<1>3. cur'[m].first = f + 1 /\ cur'[m].last = l
  <2>1. cur'[m] = [cur[m] EXCEPT !.first = @ + 1] BY DEF DispatchRecord, Types
  <2> QED BY <1>2, <2>1 DEF Range0
<1>4. worker'[m] = IF cancelled[m] \/ l + 1 - f = 1 THEN "resume" ELSE "dispatch"
  BY DEF DispatchRecord, Types, Len1
<1>5. f <= l BY <1>1 DEF MemberInv, CurInv
<1>6. 1 .. f \subseteq dispatched' BY <1>1, DispatchOne DEF MemberInv
<1>7. f + 1 - 1 = f BY <1>2
<1>8. Prefix(marked[m])'
  BY <1>1, <1>6 DEF Prefix, MemberInv
<1>9. BatchInv(m)' /\ MapInv(m)' /\ (Live(m)' <=> Live(m))
  BY <1>1, <1>4 DEF MemberInv, BatchInv, MapInv, Live
<1>10. CurInv(m)'
  <2>1. Prefix(cur[m].first - 1)'
    <3>1. cur'[m].first - 1 = f BY <1>2, <1>3
    <3> QED BY <1>6, <3>1 DEF Prefix
  <2>2. ASSUME worker'[m] = "dispatch" PROVE cur'[m].first <= cur'[m].last
    <3>1. l + 1 - f # 1 BY <1>4, <2>2
    <3> QED BY <1>2, <1>3, <1>5, <3>1
  <2> QED BY <2>1, <2>2 DEF CurInv
<1>11. NextIn(m)' = NextIn(m) /\ NextOut(m)' = NextOut(m)
  BY <1>1 DEF NextIn, NextOut
<1>12. QueueInv(m)'
  <2> SUFFICES ASSUME Live(m) PROVE QueueInv(m)'
    BY <1>9 DEF QueueInv
  <2>1. NextOut(m) = l + 1 BY <1>1 DEF MemberInv, QueueInv
  <2>2. CASE worker'[m] = "dispatch"
    BY <1>1, <1>3, <1>11, <2>1, <2>2 DEF MemberInv, QueueInv
  <2>3. CASE worker'[m] # "dispatch"
    <3>1. l = f
      <4>1. l + 1 - f = 1 BY <1>4, <2>3 DEF Live
      <4> QED BY <1>2, <4>1
    <3>2. NextOut(m)' - 1 = f BY <1>2, <1>11, <2>1, <3>1
    <3>4. Prefix(NextOut(m) - 1)' BY <1>6, <3>2 DEF Prefix
    <3> QED BY <1>1, <1>11, <2>3, <3>4 DEF MemberInv, QueueInv
  <2> QED BY <2>2, <2>3
<1> QED BY <1>8, <1>9, <1>10, <1>12 DEF MemberInv

\* A failed or cancelled dispatch marks nothing.
LEMMA DispatchFailKeeps ==
  ASSUME NEW m \in Members, Types, Types', MemberInv(m), FirstDispatchInOrder,
         CommittedWasDispatched, DispatchError(m) \/ DispatchCancelled(m)
  PROVE  MemberInv(m)'
<1>1. /\ worker[m] = "dispatch" /\ dispatched' \in {dispatched, dispatched \cup {cur[m].first}}
      /\ UNCHANGED <<loop, fetched, polled, held, cb, fetchPos, marked, inMap, cancelled, queue, cur>>
  BY DEF DispatchError, DispatchCancelled, loopVars, clientVars, workerVars
<1>2. dispatched \subseteq dispatched' BY <1>1
<1>3. CASE DispatchError(m)
  <2>1. Same(m) BY <1>1, <1>3 DEF DispatchError, Same, workerVars
  <2> QED BY <1>2, <2>1, Frame
<1>4. CASE DispatchCancelled(m)
  <2>1. cancelled[m] /\ worker'[m] = "resume" BY <1>4 DEF DispatchCancelled, Types
  <2>2. ~Live(m)' /\ MapInv(m)' /\ BatchInv(m)' /\ CurInv(m)' /\ Prefix(marked[m])'
    BY <1>1, <1>2, <2>1 DEF MemberInv, MapInv, BatchInv, CurInv, Live, Prefix
  <2> QED BY <2>2, NotLive
<1> QED BY <1>3, <1>4

-----------------------------------------------------------------------------
\* A step in which only member m takes part and that commits nothing it has
\* not marked keeps the invariant once member m does.
LEMMA OneMember ==
  ASSUME Inv, Types', NEW m \in Members, MemberInv(m)', \A n \in Members \ {m} : Same(n),
         dispatched \subseteq dispatched', FirstDispatchInOrder',
         committed' \in {committed, marked[m]}
  PROVE  Inv'
<1>1. ASSUME NEW n \in Members PROVE MemberInv(n)'
  BY <1>1, Frame DEF Inv
<1>2. CommittedWasDispatched'
  BY DEF Inv, MemberInv, Prefix, CommittedWasDispatched
<1> QED BY <1>1, <1>2 DEF Inv

\* The invariant is inductive.
LEMMA InvStep == Inv /\ [KafkaNext]_kafkaVars => Inv'
<1> SUFFICES ASSUME Inv, [KafkaNext]_kafkaVars PROVE Inv'
  OBVIOUS
<1>0. Types /\ Types' /\ CommittedWasDispatched /\ FirstDispatchInOrder
  BY TypesStep DEF Inv
<1>m. ASSUME NEW m \in Members PROVE MemberInv(m)
  BY DEF Inv
<1>s. ASSUME UNCHANGED dispatched PROVE FirstDispatchInOrder' /\ dispatched \subseteq dispatched'
  BY <1>0, <1>s DEF FirstDispatchInOrder
<1>1. CASE Produce \/ UNCHANGED kafkaVars
  <2>1. UNCHANGED <<dispatched, committed>> /\ \A n \in Members : Same(n)
    BY <1>1 DEF Produce, kafkaVars, groupVars, loopVars, clientVars, workerVars, Same
  <2>2. \A n \in Members : MemberInv(n)' BY <1>m, <1>s, <2>1, Frame
  <2> QED BY <1>0, <1>s, <2>1, <2>2 DEF Inv, CommittedWasDispatched
<1>2. ASSUME NEW m \in Members, LoopStep(m) \/ FatalError(m) PROVE Inv'
  <2>1. UNCHANGED <<dispatched, committed>>
    BY <1>2 DEF LoopStep, Poll, PauseFetch, Push, StopWait, CloseDone, ReInitClient, FatalError,
                groupVars
  <2>2. \A n \in Members \ {m} : Same(n)
    <3> USE <1>0 DEF Same, loopVars, clientVars, workerVars, Types
    <3>1. CASE Poll(m) BY <3>1 DEF Poll
    <3>2. CASE PauseFetch(m) \/ StopWait(m) BY <3>2 DEF PauseFetch, StopWait
    <3>3. CASE Push(m) BY <3>3 DEF Push
    <3>4. CASE CloseDone(m) \/ ReInitClient(m) \/ FatalError(m)
      BY <3>4 DEF CloseDone, ReInitClient, FatalError
    <3> QED BY <1>2, <3>1, <3>2, <3>3, <3>4 DEF LoopStep
  <2>3. MemberInv(m)' BY <1>0, <1>m, <1>2, <2>1, LoopKeeps, PushKeeps DEF LoopStep
  <2> QED BY <1>0, <1>s, <2>1, <2>2, <2>3, OneMember
<1>3. ASSUME NEW m \in Members, StopMember(m) \/ Crash(m) PROVE Inv'
  <2>1. UNCHANGED <<dispatched, committed>> BY <1>3 DEF StopMember, Crash, groupVars
  <2>2. \A n \in Members \ {m} : Same(n)
    BY <1>0, <1>3 DEF StopMember, Crash, Kill, LetGo, Same, loopVars, clientVars, workerVars, Types
  <2>3. MemberInv(m)' BY <1>0, <1>m, <1>3, <2>1, StopKeeps
  <2> QED BY <1>0, <1>s, <2>1, <2>2, <2>3, OneMember
<1>4. ASSUME NEW m \in Members,
             Assigned(m) \/ Revoked(m) \/ Lost(m) \/ Killed(m) \/ CommitOnRevoke(m)
      PROVE  Inv'
  <2>1. UNCHANGED dispatched /\ committed' \in {committed, marked[m]}
    BY <1>4 DEF Assigned, Revoked, Lost, Killed, CommitOnRevoke, groupVars
  <2>2. \A n \in Members \ {m} : Same(n)
    <3>1. CASE Assigned(m) BY <1>0, <3>1 DEF Assigned, Same, loopVars, workerVars, Types
    <3>2. CASE Revoked(m) BY <1>0, <3>2 DEF Revoked, Kill, Same, loopVars, Types
    <3>3. CASE Lost(m) BY <1>0, <3>3 DEF Lost, Kill, LetGo, Same, loopVars, Types
    <3>4. CASE Killed(m) BY <1>0, <3>4 DEF Killed, LetGo, Same, loopVars, workerVars, Types
    <3>5. CASE CommitOnRevoke(m)
      BY <1>0, <3>5 DEF CommitOnRevoke, LetGo, Same, loopVars, workerVars, Types
    <3> QED BY <1>4, <3>1, <3>2, <3>3, <3>4, <3>5
  <2>3. MemberInv(m)' BY <1>0, <1>m, <1>4, <2>1, CallbackKeeps
  <2> QED BY <1>0, <1>s, <2>1, <2>2, <2>3, OneMember
<1>5. ASSUME NEW m \in Members, WakeWorker(m) \/ Pop(m) \/ ResumeConsuming(m) \/ Exit(m) PROVE Inv'
  <2>1. UNCHANGED <<dispatched, committed>>
    BY <1>5 DEF WakeWorker, Pop, ResumeConsuming, Exit, groupVars
  <2>2. \A n \in Members \ {m} : Same(n)
    BY <1>0, <1>5 DEF WakeWorker, Pop, ResumeConsuming, Exit, Same, loopVars, clientVars, Types
  <2>3. MemberInv(m)' BY <1>0, <1>m, <1>5, <2>1, WorkerKeeps, PopKeeps
  <2> QED BY <1>0, <1>s, <2>1, <2>2, <2>3, OneMember
<1>6. ASSUME NEW m \in Members, DispatchRecord(m) \/ DispatchError(m) \/ DispatchCancelled(m) PROVE Inv'
  <2>1. /\ UNCHANGED committed /\ worker[m] = "dispatch"
        /\ dispatched' \in {dispatched, dispatched \cup {cur[m].first}}
    BY <1>6 DEF DispatchRecord, DispatchError, DispatchCancelled, groupVars
  <2>2. \A n \in Members \ {m} : Same(n)
    BY <1>0, <1>6 DEF DispatchRecord, DispatchError, DispatchCancelled, Same, loopVars, clientVars,
                      workerVars, Types
  <2>3. MemberInv(m)' BY <1>0, <1>m, <1>6, DispatchKeeps, DispatchFailKeeps
  <2>4. CurInv(m) BY <1>m DEF MemberInv
  <2>5. dispatched \subseteq dispatched' /\ FirstDispatchInOrder'
    BY <1>0, <2>1, <2>4, DispatchOne
  <2> QED BY <1>0, <2>1, <2>2, <2>3, <2>5, OneMember
<1>7. ASSUME NEW m \in Members, SessionExpires(m) \/ AutoCommit(m) PROVE Inv'
  <2>1. UNCHANGED dispatched /\ committed' \in {committed, marked[m]} /\ \A n \in Members : Same(n)
    BY <1>7 DEF SessionExpires, AutoCommit, Same, loopVars, clientVars, workerVars
  <2>2. MemberInv(m)' BY <1>m, <1>s, <2>1, Frame
  <2> QED BY <1>0, <1>s, <2>1, <2>2, OneMember
<1> QED
  BY <1>1, <1>2, <1>3, <1>4, <1>5, <1>6, <1>7 DEF KafkaNext, WorkerStep

\* The invariant holds initially.
LEMMA InvInit == KafkaInit => Inv
<1> SUFFICES ASSUME KafkaInit PROVE Inv
  OBVIOUS
<1>1. NoBatch \in Range0 /\ <<>> \in Seq(Range0)
  BY DEF NoBatch, Range0
<1>2. Types
  BY <1>1 DEF KafkaInit, Types
<1>3. ASSUME NEW m \in Members PROVE MemberInv(m)
  BY DEF KafkaInit, MemberInv, Prefix, MapInv, BatchInv, CurInv, QueueInv, Live
<1>4. CommittedWasDispatched /\ FirstDispatchInOrder
  BY DEF KafkaInit, CommittedWasDispatched, FirstDispatchInOrder
<1> QED BY <1>2, <1>3, <1>4 DEF Inv

\* At least once for any group, partition, poll and queue size: an offset the
\* group has committed was dispatched, whatever rebalances, lost sessions,
\* failed dispatches, client re-inits and crashes happen in between.
THEOREM AtLeastOnce == KafkaSpec => []CommittedWasDispatched
<1>1. Inv => CommittedWasDispatched
  BY DEF Inv
<1> QED BY InvInit, InvStep, <1>1, PTL DEF KafkaSpec

\* No record overtakes another on its first dispatch: the queue of a live
\* worker stays contiguous from the dispatched prefix to the fetch position.
THEOREM InOrder == KafkaSpec => []FirstDispatchInOrder
<1>1. Inv => FirstDispatchInOrder
  BY DEF Inv
<1> QED BY InvInit, InvStep, <1>1, PTL DEF KafkaSpec

\* At least once and in order, together: what the runs check of the offsets a
\* partition consumer marks, for any group, partition, poll and queue size.
THEOREM DeliveryAlways == KafkaSpec => []KafkaDelivery
<1> QED BY AtLeastOnce, InOrder, PTL DEF KafkaDelivery

-----------------------------------------------------------------------------
(* The partition keeps moving: who holds a worker, and who ends a pause.   *)

\* A worker in the map runs and has not been killed, one that leaves was
\* killed; outside of shutdown a worker out of the map has a callback waiting
\* for it, and the assignment lasts until the callback is over.
RunInv(m) ==
    /\ inMap[m] => ~cancelled[m] /\ worker[m] # "none"
    /\ worker[m] = "exit" => cancelled[m]
    /\ cb[m] # "idle" => held[m]
    /\ worker[m] # "none" /\ ~done[m] => inMap[m] \/ cb[m] \in {"revoke", "lost"}

\* PauseWillEnd for one member.
PauseEnds(m) ==
    paused[m] => \/ loop[m] = "push"
                 \/ queue[m] # <<>> /\ worker[m] = "drain"
                 \/ queue[m] # <<>> /\ worker[m] = "wait" /\ token[m]
                 \/ worker[m] \in {"dispatch", "resume", "exit"}
                 \/ worker[m] # "none" /\ cancelled[m]

\* A queue that something was pushed to is not empty.
LEMMA AppendNotEmpty ==
  ASSUME NEW S, NEW q \in Seq(S), NEW e \in S PROVE Append(q, e) # <<>>
<1>1. Len(Append(q, e)) = Len(q) + 1 /\ Len(q) \in Nat
  OBVIOUS
<1> QED BY <1>1

\* The poll loop: a pause begins with the batch in the hands of the loop, and
\* Push hands it to a worker that runs, since the map has it.
LEMMA LoopMoves ==
  ASSUME NEW m \in Members, Types, MemberInv(m), RunInv(m), PauseEnds(m),
         LoopStep(m) \/ FatalError(m)
  PROVE  RunInv(m)' /\ PauseEnds(m)'
<1>0. Append(queue[m], fetched[m]) # <<>>
  <2>1. queue[m] \in Seq(Range0) /\ fetched[m] \in Range0
    BY DEF Types
  <2> QED BY <2>1, AppendNotEmpty, Zenon
<1> USE DEF RunInv, PauseEnds, Types
<1>1. CASE Poll(m)
  <2>1. UNCHANGED <<inMap, cancelled, worker, cb, held, done, paused, queue, token>> /\ ~paused[m]
    BY <1>1 DEF Poll, workerVars
  <2> QED BY <2>1
<1>2. CASE PauseFetch(m)
  <2>1. UNCHANGED <<inMap, cancelled, worker, cb, held, done>> /\ loop'[m] = "push"
    BY <1>2 DEF PauseFetch, workerVars
  <2> QED BY <2>1
<1>3. CASE Push(m)
  <2>1. UNCHANGED <<inMap, cancelled, worker, cb, held, done>> /\ inMap[m]
    BY <1>3 DEF Push, MemberInv, BatchInv
  <2>2. queue'[m] = Append(queue[m], fetched[m]) /\ token'[m]
    BY <1>3, <2>1 DEF Push
  <2>3. queue'[m] # <<>>
    BY <1>0, <2>2
  <2>4. worker[m] \in {"wait", "drain", "dispatch", "resume", "exit"}
    BY <2>1
  <2> QED BY <2>1, <2>2, <2>3, <2>4
<1>4. CASE StopWait(m) \/ CloseDone(m) \/ FatalError(m)
  <2>1. UNCHANGED <<inMap, cancelled, worker, cb, held, done, paused, queue, token>>
    BY <1>4 DEF StopWait, CloseDone, FatalError, workerVars, clientVars
  <2>2. loop[m] # "push"
    BY <1>4 DEF StopWait, CloseDone, FatalError
  <2> QED BY <2>1, <2>2
<1>5. CASE ReInitClient(m)
  <2>1. UNCHANGED <<inMap, cancelled, worker, cb, held, done>> /\ ~paused'[m]
    BY <1>5 DEF ReInitClient, workerVars
  <2> QED BY <2>1
<1> QED BY <1>1, <1>2, <1>3, <1>4, <1>5 DEF LoopStep

\* Shutdown and crash: a worker that is killed resumes on its way out.
LEMMA StopMoves ==
  ASSUME NEW m \in Members, Types, MemberInv(m), RunInv(m), PauseEnds(m),
         StopMember(m) \/ Crash(m)
  PROVE  RunInv(m)' /\ PauseEnds(m)'
<1> USE DEF RunInv, PauseEnds, Types
<1>1. CASE StopMember(m)
  <2>1. UNCHANGED <<cb, held, paused, queue, token, worker>> /\ done'[m] /\ loop[m] # "push"
    BY <1>1 DEF StopMember, clientVars, workerVars, Kill
  <2>2. CASE loop[m] = "poll"
    <3>1. ~inMap'[m] /\ (cancelled'[m] <=> cancelled[m] \/ inMap[m])
      BY <1>1, <2>2 DEF StopMember, Kill
    <3> QED BY <2>1, <3>1
  <2>3. CASE loop[m] # "poll"
    <3>1. UNCHANGED <<inMap, cancelled>>
      BY <1>1, <2>3 DEF StopMember, workerVars
    <3> QED BY <2>1, <3>1
  <2> QED BY <2>2, <2>3
<1>2. CASE Crash(m)
  <2>1. ~inMap'[m] /\ worker'[m] = "none" /\ cb'[m] = "idle" /\ ~paused'[m]
    BY <1>2 DEF Crash
  <2> QED BY <2>1
<1> QED BY <1>1, <1>2

\* The callbacks wait for the worker they killed, so a new assignment finds
\* none, and nothing is paused.
LEMMA CallbackMoves ==
  ASSUME NEW m \in Members, Types, MemberInv(m), RunInv(m), PauseEnds(m),
         Assigned(m) \/ Revoked(m) \/ Lost(m) \/ Killed(m) \/ CommitOnRevoke(m)
  PROVE  RunInv(m)' /\ PauseEnds(m)'
<1> USE DEF RunInv, PauseEnds, Types
<1>0. inMap[m] => held[m] /\ cb[m] = "idle"
  BY DEF MemberInv, MapInv
<1>1. CASE Assigned(m)
  <2>1. UNCHANGED <<loop, cb, done, paused>> /\ held'[m] /\ cb[m] = "idle" /\ ~held[m] /\ loop[m] # "push"
    BY <1>1 DEF Assigned, loopVars
  <2>2. CASE done[m]
    <3>1. UNCHANGED <<inMap, cancelled, worker, queue, token>>
      BY <1>1, <2>2 DEF Assigned, workerVars
    <3> QED BY <2>1, <2>2, <3>1
  <2>3. CASE ~done[m]
    <3>1. inMap'[m] /\ ~cancelled'[m] /\ worker'[m] = "wait"
      BY <1>1, <2>3 DEF Assigned
    <3>2. worker[m] = "none"
      BY <1>0, <2>1, <2>3
    <3>3. ~paused[m]
      BY <2>1, <3>2
    <3> QED BY <2>1, <3>1, <3>3
  <2> QED BY <2>2, <2>3
<1>2. CASE Revoked(m) \/ Lost(m)
  <2>1. UNCHANGED <<loop, done, paused, queue, token, worker>> /\ held[m] /\ cb[m] = "idle"
    BY <1>2 DEF Revoked, Lost, Kill, loopVars
  <2>2. ~inMap'[m] /\ (cancelled'[m] <=> cancelled[m] \/ inMap[m])
    BY <1>2 DEF Revoked, Lost, Kill
  <2>3. CASE inMap[m]
    <3>1. cb'[m] \in {"revoke", "lost"} /\ held'[m]
      BY <1>2, <2>1, <2>3 DEF Revoked, Lost
    <3> QED BY <2>1, <2>2, <2>3, <3>1
  <2>4. CASE ~inMap[m]
    <3>1. cb'[m] = "idle" \/ (cb'[m] = "commit" /\ held'[m])
      BY <1>2, <2>1, <2>4 DEF Revoked, Lost
    <3>2. worker[m] = "none" \/ done[m]
      BY <2>1, <2>4
    <3> QED BY <2>1, <2>2, <2>4, <3>1, <3>2
  <2> QED BY <2>3, <2>4
<1>3. CASE Killed(m)
  <2>1. UNCHANGED <<loop, done, paused, queue, token, worker, inMap, cancelled>> /\ worker[m] = "none"
    BY <1>3 DEF Killed, loopVars, workerVars
  <2>2. cb'[m] = "idle" \/ held'[m]
    BY <1>3 DEF Killed
  <2> QED BY <2>1, <2>2
<1>4. CASE CommitOnRevoke(m)
  <2>1. UNCHANGED <<loop, done, paused, queue, token, worker, inMap, cancelled>> /\ cb[m] = "commit"
    BY <1>4 DEF CommitOnRevoke, loopVars, workerVars
  <2>2. cb'[m] = "idle" /\ (worker[m] = "none" \/ done[m])
    BY <1>0, <1>4, <2>1 DEF CommitOnRevoke
  <2> QED BY <2>1, <2>2
<1> QED BY <1>1, <1>2, <1>3, <1>4

\* The worker: it stops working through its queue only when the queue is
\* empty, resumes after every batch and once more at its end.
LEMMA WorkerMoves ==
  ASSUME NEW m \in Members, Types, MemberInv(m), RunInv(m), PauseEnds(m),
         WorkerStep(m) \/ DispatchError(m) \/ DispatchCancelled(m)
  PROVE  RunInv(m)' /\ PauseEnds(m)'
<1> USE DEF RunInv, PauseEnds, Types
<1>1. UNCHANGED <<loop, done, held, cb, inMap>>
  BY DEF WorkerStep, WakeWorker, Pop, DispatchRecord, ResumeConsuming, Exit, DispatchError,
         DispatchCancelled, loopVars, clientVars, workerVars
<1>2. CASE WakeWorker(m)
  <2>1. UNCHANGED <<paused, queue, cancelled>> /\ worker[m] = "wait" /\ (cancelled[m] \/ token[m])
    BY <1>2 DEF WakeWorker, clientVars
  <2>2. worker'[m] = IF cancelled[m] THEN "exit" ELSE "drain"
    BY <1>2 DEF WakeWorker
  <2> QED BY <1>1, <2>1, <2>2
<1>3. CASE Pop(m)
  <2>1. UNCHANGED <<paused, token, cancelled>> /\ worker[m] = "drain"
    BY <1>3 DEF Pop, clientVars
  <2>2. CASE cancelled[m] \/ queue[m] = <<>>
    <3>1. worker'[m] = (IF cancelled[m] THEN "exit" ELSE "wait") /\ UNCHANGED queue
      BY <1>3, <2>2 DEF Pop
    <3> QED BY <1>1, <2>1, <2>2, <3>1
  <2>3. CASE ~(cancelled[m] \/ queue[m] = <<>>)
    <3>1. worker'[m] = "dispatch"
      BY <1>3, <2>3 DEF Pop
    <3> QED BY <1>1, <2>1, <2>3, <3>1
  <2> QED BY <2>2, <2>3
<1>4. CASE DispatchRecord(m) \/ DispatchError(m) \/ DispatchCancelled(m)
  <2>1. UNCHANGED <<paused, token, cancelled, queue>> /\ worker[m] = "dispatch"
        /\ worker'[m] \in {"dispatch", "resume"}
    BY <1>4 DEF DispatchRecord, DispatchError, DispatchCancelled, clientVars, workerVars
  <2> QED BY <1>1, <2>1
<1>5. CASE ResumeConsuming(m)
  <2>1. UNCHANGED cancelled /\ worker[m] = "resume" /\ worker'[m] = "drain" /\ ~paused'[m]
    BY <1>5 DEF ResumeConsuming
  <2> QED BY <1>1, <2>1
<1>6. CASE Exit(m)
  <2>1. worker[m] = "exit" /\ worker'[m] = "none" /\ ~paused'[m]
    BY <1>6 DEF Exit
  <2> QED BY <1>1, <2>1
<1> QED BY <1>2, <1>3, <1>4, <1>5, <1>6 DEF WorkerStep

\* The variables RunInv(n) and PauseEnds(n) read at n do not change.
SameRun(n) ==
    /\ loop'[n] = loop[n] /\ held'[n] = held[n] /\ cb'[n] = cb[n] /\ done'[n] = done[n]
    /\ paused'[n] = paused[n] /\ inMap'[n] = inMap[n] /\ cancelled'[n] = cancelled[n]
    /\ queue'[n] = queue[n] /\ token'[n] = token[n] /\ worker'[n] = worker[n]

\* Every step is one member's.
LEMMA OthersRun ==
  ASSUME Types, NEW m \in Members, NEW n \in Members \ {m},
         \/ LoopStep(m) \/ FatalError(m) \/ StopMember(m) \/ Crash(m)
         \/ Assigned(m) \/ Revoked(m) \/ Lost(m) \/ Killed(m) \/ CommitOnRevoke(m)
         \/ WorkerStep(m) \/ DispatchError(m) \/ DispatchCancelled(m)
         \/ SessionExpires(m) \/ AutoCommit(m)
  PROVE  SameRun(n)
<1> USE DEF SameRun, Types, loopVars, clientVars, workerVars
<1>1. CASE LoopStep(m) \/ FatalError(m)
  BY <1>1 DEF LoopStep, Poll, PauseFetch, Push, StopWait, CloseDone, ReInitClient, FatalError
<1>2. CASE StopMember(m) \/ Crash(m)
  BY <1>2 DEF StopMember, Crash, Kill, LetGo
<1>3. CASE Assigned(m) \/ Revoked(m)
  BY <1>3 DEF Assigned, Revoked, Kill
<1>4. CASE Lost(m) \/ Killed(m) \/ CommitOnRevoke(m)
  BY <1>4 DEF Lost, Killed, CommitOnRevoke, Kill, LetGo
<1>5. CASE WorkerStep(m) \/ DispatchError(m) \/ DispatchCancelled(m)
  BY <1>5 DEF WorkerStep, WakeWorker, Pop, DispatchRecord, ResumeConsuming, Exit, DispatchError,
              DispatchCancelled
<1>6. CASE SessionExpires(m) \/ AutoCommit(m)
  BY <1>6 DEF SessionExpires, AutoCommit
<1> QED BY <1>1, <1>2, <1>3, <1>4, <1>5, <1>6

MovesInv == \A m \in Members : RunInv(m) /\ PauseEnds(m)

LEMMA MovesStep == Inv /\ MovesInv /\ [KafkaNext]_kafkaVars => MovesInv'
<1> SUFFICES ASSUME Inv, MovesInv, [KafkaNext]_kafkaVars, NEW n \in Members
             PROVE  RunInv(n)' /\ PauseEnds(n)'
  BY DEF MovesInv
<1>0. Types /\ MemberInv(n) /\ RunInv(n) /\ PauseEnds(n)
  BY DEF Inv, MovesInv
<1>s. ASSUME SameRun(n) PROVE RunInv(n)' /\ PauseEnds(n)'
  BY <1>0, <1>s DEF SameRun, RunInv, PauseEnds
<1>1. CASE Produce \/ UNCHANGED kafkaVars
  <2>1. SameRun(n)
    BY <1>1 DEF Produce, kafkaVars, loopVars, clientVars, workerVars, SameRun
  <2> QED BY <1>s, <2>1
<1>2. ASSUME NEW m \in Members,
             \/ LoopStep(m) \/ FatalError(m) \/ StopMember(m) \/ Crash(m)
             \/ Assigned(m) \/ Revoked(m) \/ Lost(m) \/ Killed(m) \/ CommitOnRevoke(m)
             \/ WorkerStep(m) \/ DispatchError(m) \/ DispatchCancelled(m)
             \/ SessionExpires(m) \/ AutoCommit(m)
      PROVE  RunInv(n)' /\ PauseEnds(n)'
  <2>1. CASE n # m
    <3>1. SameRun(n) BY <1>0, <1>2, <2>1, OthersRun
    <3> QED BY <1>s, <3>1
  <2>2. CASE n = m /\ (SessionExpires(m) \/ AutoCommit(m))
    <3>1. SameRun(n)
      BY <2>2 DEF SessionExpires, AutoCommit, loopVars, clientVars, workerVars, SameRun
    <3> QED BY <1>s, <3>1
  <2>3. CASE n = m /\ ~(SessionExpires(m) \/ AutoCommit(m))
    BY <1>0, <1>2, <2>3, LoopMoves, StopMoves, CallbackMoves, WorkerMoves
  <2> QED BY <2>1, <2>2, <2>3
<1> QED BY <1>1, <1>2 DEF KafkaNext

\* Every offset in hand is one of the log: what was fetched, queued and
\* dispatched, and the position after it.
InLog(r) == r.first <= partitionLog + 1 /\ r.last <= partitionLog

LogInv ==
    /\ partitionLog <= MaxLog /\ kafkaFaults \in 0 .. MaxKafkaFaults
    /\ owner \in Members \cup {NoMember}
    /\ dispatched \subseteq 1 .. partitionLog
    /\ \A m \in Members :
         /\ fetchPos[m] <= partitionLog + 1 /\ InLog(fetched[m]) /\ InLog(cur[m])
         /\ \A i \in 1 .. Len(queue[m]) : InLog(queue[m][i])

\* A dispatched prefix lies in the log.
LEMMA PrefixInLog ==
  ASSUME NEW n \in Nat, Prefix(n), dispatched \subseteq 1 .. partitionLog, partitionLog \in Nat
  PROVE  n <= partitionLog
<1>1. CASE n = 0 BY <1>1
<1>2. CASE n # 0
  <2>1. n \in 1 .. n BY <1>2
  <2> QED BY <2>1 DEF Prefix
<1> QED BY <1>1, <1>2

\* The elements of the queue after Push and Pop.
LEMMA QueueInLog ==
  ASSUME NEW m \in Members, Types, LogInv, UNCHANGED partitionLog,
         \/ queue'[m] = queue[m] \/ queue'[m] = <<>> \/ queue'[m] = Append(queue[m], fetched[m])
         \/ queue[m] # <<>> /\ queue'[m] = Tail(queue[m])
  PROVE  \A i \in 1 .. Len(queue'[m]) : InLog(queue[m][i])'
<1>1. CASE queue'[m] = queue[m] \/ queue'[m] = <<>>
  BY <1>1 DEF LogInv, InLog
<1>2. CASE queue'[m] = Append(queue[m], fetched[m])
  BY <1>2 DEF LogInv, InLog, Types
<1>3. CASE queue[m] # <<>> /\ queue'[m] = Tail(queue[m])
  <2>1. /\ queue[m] \in Seq(Range0) /\ Len(queue[m]) \in Nat \ {0}
        /\ Len(Tail(queue[m])) = Len(queue[m]) - 1
        /\ \A i \in 1 .. Len(queue[m]) - 1 : Tail(queue[m])[i] = queue[m][i + 1]
    BY <1>3 DEF Types
  <2> QED BY <1>3, <2>1 DEF LogInv, InLog
<1> QED BY <1>1, <1>2, <1>3

LEMMA LogStep == Inv /\ LogInv /\ [KafkaNext]_kafkaVars => LogInv'
<1> SUFFICES ASSUME Inv, LogInv, [KafkaNext]_kafkaVars PROVE LogInv'
  OBVIOUS
<1>0. Types /\ Types' /\ \A m \in Members : MemberInv(m)
  BY TypesStep DEF Inv
<1>b. 1 <= partitionLog + 1 /\ 0 <= partitionLog
  BY <1>0 DEF Types
<1>d. NoBatch.first = 1 /\ NoBatch.last = 0
  BY DEF NoBatch
<1>c. committed <= partitionLog
  BY <1>0, PrefixInLog DEF Inv, Types, LogInv, Prefix, CommittedWasDispatched
<1>1. CASE Produce
  <2>1. /\ partitionLog' = partitionLog + 1 /\ partitionLog' <= MaxLog
        /\ UNCHANGED <<kafkaFaults, owner, dispatched, fetchPos, fetched, cur, queue>>
    BY <1>0, <1>1, KafkaAssumption DEF Produce, groupVars, loopVars, clientVars, workerVars, Types
  <2>2. ASSUME NEW m \in Members
        PROVE  /\ fetchPos'[m] <= partitionLog' + 1 /\ InLog(fetched[m])' /\ InLog(cur[m])'
               /\ \A i \in 1 .. Len(queue'[m]) : InLog(queue[m][i])'
    <3>1. fetched[m] \in Range0 /\ cur[m] \in Range0 /\ fetchPos[m] \in Nat /\ partitionLog \in Nat
          /\ queue[m] \in Seq(Range0)
      BY <1>0 DEF Types
    <3>2. \A r \in Range0 : InLog(r) => r.first <= partitionLog' + 1 /\ r.last <= partitionLog'
      BY <2>1, <3>1 DEF InLog, Range0
    <3>3. \A i \in 1 .. Len(queue[m]) : queue[m][i] \in Range0
      BY <3>1
    <3> QED BY <2>1, <3>1, <3>2, <3>3 DEF LogInv, InLog
  <2>3. dispatched' \subseteq 1 .. partitionLog'
    BY <1>0, <2>1 DEF LogInv, Types
  <2> QED BY <2>1, <2>2, <2>3 DEF LogInv
<1>u. CASE UNCHANGED kafkaVars
  BY <1>u DEF kafkaVars, groupVars, loopVars, clientVars, workerVars, LogInv, InLog
<1>2. ASSUME NEW m \in Members, UNCHANGED partitionLog,
             kafkaFaults' \in {kafkaFaults} \cup (0 .. MaxKafkaFaults),
             owner' \in {owner, m, NoMember}, dispatched' \subseteq 1 .. partitionLog,
             fetchPos'[m] <= partitionLog + 1, InLog(fetched[m])', InLog(cur[m])',
             \A i \in 1 .. Len(queue'[m]) : InLog(queue[m][i])',
             \A n \in Members \ {m} :
                 fetchPos'[n] = fetchPos[n] /\ fetched'[n] = fetched[n] /\ cur'[n] = cur[n]
                 /\ queue'[n] = queue[n]
      PROVE  LogInv'
  <2>1. ASSUME NEW n \in Members
        PROVE  /\ fetchPos'[n] <= partitionLog' + 1 /\ InLog(fetched[n])' /\ InLog(cur[n])'
               /\ \A i \in 1 .. Len(queue'[n]) : InLog(queue[n][i])'
    <3>1. CASE n = m BY <1>2, <3>1 DEF InLog
    <3>2. CASE n # m BY <1>2, <3>2 DEF LogInv, InLog
    <3> QED BY <3>1, <3>2
  <2> QED BY <1>2, <2>1 DEF LogInv
<1>3. ASSUME NEW m \in Members,
             LoopStep(m) \/ FatalError(m) \/ StopMember(m)
      PROVE  LogInv'
  <2>1. UNCHANGED <<partitionLog, owner, dispatched, cur>>
    BY <1>3 DEF LoopStep, Poll, PauseFetch, Push, StopWait, CloseDone, ReInitClient, FatalError,
                StopMember, Kill, groupVars, workerVars
  <2>2. kafkaFaults' \in {kafkaFaults} \cup (0 .. MaxKafkaFaults)
    BY <1>3, KafkaAssumption DEF LoopStep, Poll, PauseFetch, Push, StopWait, CloseDone,
                ReInitClient, FatalError, StopMember, Fault, LogInv
  <2>3. CASE Poll(m)
    <3>1. PICK n \in 1 .. MaxPollRecords :
            /\ fetchPos[m] + n <= partitionLog + 1
            /\ fetched' = [fetched EXCEPT ![m] = [first |-> fetchPos[m], last |-> fetchPos[m] + n - 1]]
            /\ fetchPos' = [fetchPos EXCEPT ![m] = @ + n]
      BY <2>3 DEF Poll
    <3>2. fetchPos[m] \in Nat \ {0} /\ n \in Nat /\ partitionLog \in Nat
      BY <1>0, KafkaAssumption DEF Types
    <3>3. fetchPos'[m] <= partitionLog + 1 /\ InLog(fetched[m])'
      BY <1>0, <2>1, <3>1, <3>2 DEF InLog, Types
    <3>4. UNCHANGED queue BY <2>3 DEF Poll, workerVars
    <3>5. \A k \in Members \ {m} : fetchPos'[k] = fetchPos[k] /\ fetched'[k] = fetched[k]
      BY <1>0, <3>1 DEF Types
    <3>6. InLog(cur[m])' BY <2>1 DEF LogInv, InLog
    <3> QED BY <1>0, <1>2, <2>1, <2>2, <3>3, <3>4, <3>5, <3>6, QueueInLog DEF LogInv
  <2>4. CASE Push(m)
    <3>1. UNCHANGED fetchPos /\ fetched' = [fetched EXCEPT ![m] = NoBatch]
      BY <2>4 DEF Push
    <3>2. fetched'[m] = NoBatch /\ \A k \in Members \ {m} : fetched'[k] = fetched[k]
      BY <1>0, <3>1 DEF Types
    <3>3. queue'[m] \in {queue[m], Append(queue[m], fetched[m])}
          /\ \A k \in Members \ {m} : queue'[k] = queue[k]
      BY <1>0, <2>4 DEF Push, Types
    <3>4. InLog(fetched[m])' /\ InLog(cur[m])' /\ fetchPos'[m] <= partitionLog + 1
      BY <1>b, <1>d, <2>1, <3>1, <3>2 DEF LogInv, InLog
    <3> QED BY <1>0, <1>2, <2>1, <2>2, <3>1, <3>2, <3>3, <3>4, QueueInLog DEF LogInv
  <2>5. CASE ~Poll(m) /\ ~Push(m)
    <3>1. UNCHANGED <<fetchPos, fetched, queue>>
      BY <1>3, <2>5 DEF LoopStep, PauseFetch, StopWait, CloseDone, ReInitClient, FatalError,
                  StopMember, Kill, clientVars, workerVars
    <3> QED BY <1>0, <1>2, <2>1, <2>2, <3>1, QueueInLog DEF LogInv, InLog
  <2> QED BY <2>3, <2>4, <2>5
<1>4. ASSUME NEW m \in Members, Crash(m) PROVE LogInv'
  <2>1. /\ UNCHANGED <<partitionLog, owner, dispatched>>
        /\ fetched'[m] = NoBatch /\ cur'[m] = NoBatch /\ queue'[m] = <<>> /\ fetchPos'[m] = 1
        /\ \A k \in Members \ {m} :
             fetchPos'[k] = fetchPos[k] /\ fetched'[k] = fetched[k] /\ cur'[k] = cur[k]
             /\ queue'[k] = queue[k]
    BY <1>0, <1>4 DEF Crash, LetGo, Types, groupVars
  <2>2. kafkaFaults' \in 0 .. MaxKafkaFaults
    BY <1>4, KafkaAssumption DEF Crash, Fault, LogInv
  <2>3. InLog(fetched[m])' /\ InLog(cur[m])' /\ fetchPos'[m] <= partitionLog + 1
    BY <1>0, <1>b, <1>d, <2>1 DEF InLog, Types
  <2> QED BY <1>0, <1>2, <2>1, <2>2, <2>3, QueueInLog DEF LogInv
<1>5. ASSUME NEW m \in Members,
             Assigned(m) \/ Revoked(m) \/ Lost(m) \/ Killed(m) \/ CommitOnRevoke(m)
      PROVE  LogInv'
  <2>1. UNCHANGED <<partitionLog, dispatched, fetched, cur>> /\ owner' \in {owner, m, NoMember}
    BY <1>5 DEF Assigned, Revoked, Lost, Killed, CommitOnRevoke, Kill, groupVars, loopVars, workerVars
  <2>2. kafkaFaults' \in {kafkaFaults} \cup (0 .. MaxKafkaFaults)
    BY <1>5, KafkaAssumption DEF Assigned, Revoked, Lost, Killed, CommitOnRevoke, Fault, LogInv
  <2>3. fetchPos'[m] \in {fetchPos[m], 1, committed + 1}
        /\ \A k \in Members \ {m} : fetchPos'[k] = fetchPos[k]
    <3> USE <1>0 DEF Types
    <3>1. CASE Assigned(m) BY <3>1 DEF Assigned
    <3>2. CASE Revoked(m) BY <3>2 DEF Revoked
    <3>3. CASE Lost(m) BY <3>3 DEF Lost, LetGo
    <3>4. CASE Killed(m) BY <3>4 DEF Killed, LetGo
    <3>5. CASE CommitOnRevoke(m) BY <3>5 DEF CommitOnRevoke, LetGo
    <3> QED BY <1>5, <3>1, <3>2, <3>3, <3>4, <3>5
  <2>4. queue'[m] \in {queue[m], <<>>} /\ \A k \in Members \ {m} : queue'[k] = queue[k]
    BY <1>0, <1>5 DEF Assigned, Revoked, Lost, Killed, CommitOnRevoke, Kill, workerVars, Types
  <2>5. InLog(fetched[m])' /\ InLog(cur[m])' /\ fetchPos'[m] <= partitionLog + 1
    BY <1>0, <1>c, <2>1, <2>3 DEF LogInv, InLog, Types
  <2> QED BY <1>0, <1>2, <2>1, <2>2, <2>3, <2>4, <2>5, QueueInLog DEF LogInv
<1>6. ASSUME NEW m \in Members, WakeWorker(m) \/ Pop(m) \/ ResumeConsuming(m) \/ Exit(m)
      PROVE  LogInv'
  <2>1. UNCHANGED <<partitionLog, dispatched, owner, fetched, fetchPos, kafkaFaults>>
    BY <1>6 DEF WakeWorker, Pop, ResumeConsuming, Exit, groupVars, loopVars, clientVars
  <2>2. \/ queue'[m] = queue[m] \/ queue'[m] = <<>>
        \/ queue[m] # <<>> /\ queue'[m] = Tail(queue[m])
    BY <1>0, <1>6 DEF WakeWorker, Pop, ResumeConsuming, Exit, Types
  <2>3. \/ cur'[m] = cur[m] \/ cur'[m] = NoBatch
        \/ queue[m] # <<>> /\ cur'[m] = Head(queue[m])
    BY <1>0, <1>6 DEF WakeWorker, Pop, ResumeConsuming, Exit, Types
  <2>4. \A k \in Members \ {m} : cur'[k] = cur[k] /\ queue'[k] = queue[k]
    <3>1. CASE WakeWorker(m) \/ ResumeConsuming(m)
      BY <1>0, <3>1 DEF WakeWorker, ResumeConsuming, Types
    <3>2. CASE Pop(m) BY <1>0, <3>2 DEF Pop, Types
    <3>3. CASE Exit(m) BY <1>0, <3>3 DEF Exit, Types
    <3> QED BY <1>6, <3>1, <3>2, <3>3
  <2>5. InLog(cur[m])'
    <3>1. ASSUME queue[m] # <<>> PROVE InLog(Head(queue[m]))
      <4>1. Head(queue[m]) = queue[m][1] /\ 1 \in 1 .. Len(queue[m])
        BY <1>0, <3>1 DEF Types
      <4> QED BY <4>1 DEF LogInv
    <3> QED BY <1>b, <1>d, <2>1, <2>3, <3>1 DEF LogInv, InLog
  <2>6. InLog(fetched[m])' /\ fetchPos'[m] <= partitionLog + 1
    BY <2>1 DEF LogInv, InLog
  <2> QED BY <1>0, <1>2, <2>1, <2>2, <2>4, <2>5, <2>6, QueueInLog DEF LogInv
<1>7. ASSUME NEW m \in Members, DispatchRecord(m) \/ DispatchError(m) \/ DispatchCancelled(m)
      PROVE  LogInv'
  <2>1. /\ UNCHANGED <<partitionLog, owner, fetched, fetchPos, queue>> /\ worker[m] = "dispatch"
        /\ dispatched' \subseteq dispatched \cup {cur[m].first}
    BY <1>7 DEF DispatchRecord, DispatchError, DispatchCancelled, groupVars, loopVars, clientVars,
                workerVars
  <2>2. cur[m] \in Range0 /\ cur[m].first \in Nat \ {0} /\ cur[m].last \in Nat /\ partitionLog \in Nat
    BY <1>0 DEF Types, Range0
  <2>3. cur[m].first <= cur[m].last /\ cur[m].last <= partitionLog
    BY <1>0, <2>1 DEF MemberInv, CurInv, LogInv, InLog
  <2>4. cur'[m].first \in {cur[m].first, cur[m].first + 1} /\ cur'[m].last = cur[m].last
        /\ \A k \in Members \ {m} : cur'[k] = cur[k]
    <3>1. CASE DispatchRecord(m)
      <4>1. cur' = [cur EXCEPT ![m] = [cur[m] EXCEPT !.first = @ + 1]]
        BY <3>1 DEF DispatchRecord
      <4> QED BY <1>0, <2>2, <4>1 DEF Range0, Types
    <3>2. CASE DispatchError(m) \/ DispatchCancelled(m)
      BY <3>2 DEF DispatchError, DispatchCancelled, workerVars
    <3> QED BY <1>7, <3>1, <3>2
  <2>5. InLog(cur[m])' /\ InLog(fetched[m])' /\ fetchPos'[m] <= partitionLog + 1
    BY <2>1, <2>2, <2>3, <2>4 DEF LogInv, InLog
  <2>6. dispatched' \subseteq 1 .. partitionLog
    BY <2>1, <2>2, <2>3 DEF LogInv
  <2>7. kafkaFaults' \in {kafkaFaults} \cup (0 .. MaxKafkaFaults)
    BY <1>7, KafkaAssumption DEF DispatchRecord, DispatchError, DispatchCancelled, Fault, LogInv
  <2> QED BY <1>0, <1>2, <2>1, <2>4, <2>5, <2>6, <2>7, QueueInLog
<1>8. ASSUME NEW m \in Members, SessionExpires(m) \/ AutoCommit(m) PROVE LogInv'
  <2>1. /\ UNCHANGED <<partitionLog, dispatched, fetched, fetchPos, queue, cur>>
        /\ owner' \in {owner, NoMember}
    BY <1>8 DEF SessionExpires, AutoCommit, loopVars, clientVars, workerVars
  <2>2. kafkaFaults' \in {kafkaFaults} \cup (0 .. MaxKafkaFaults)
    BY <1>8, KafkaAssumption DEF SessionExpires, AutoCommit, Fault, LogInv
  <2> QED BY <1>0, <1>2, <2>1, <2>2, QueueInLog DEF LogInv, InLog
<1> QED
  BY <1>1, <1>u, <1>3, <1>4, <1>5, <1>6, <1>7, <1>8 DEF KafkaNext, WorkerStep

\* The types of the runs, with their bounds: every position in use is one of
\* the log, marked and committed offsets included, since they are dispatched.
LEMMA InLogTypes == Inv /\ LogInv => KafkaTypeOK
<1> SUFFICES ASSUME Inv, LogInv PROVE KafkaTypeOK
  OBVIOUS
<1>1. Types /\ partitionLog \in 0 .. MaxLog /\ MaxLog \in Nat
  BY KafkaAssumption DEF Inv, LogInv, Types
<1>2. committed \in 0 .. MaxLog
  BY <1>1, PrefixInLog DEF Inv, Types, LogInv, Prefix, CommittedWasDispatched
<1>3. ASSUME NEW m \in Members PROVE marked[m] \in 0 .. MaxLog /\ fetchPos[m] \in 1 .. MaxLog + 1
  <2>1. Prefix(marked[m]) /\ marked[m] \in Nat BY <1>1 DEF Inv, MemberInv, Types
  <2> QED BY <1>1, <2>1, PrefixInLog DEF LogInv, Types
<1>4. ASSUME NEW r \in Range0, InLog(r) PROVE r \in Ranges
  <2>1. r = [first |-> r.first, last |-> r.last] /\ r.first \in Nat \ {0} /\ r.last \in Nat
    BY DEF Range0
  <2>2. r.first \in 1 .. MaxLog + 1 /\ r.last \in 0 .. MaxLog
    BY <1>1, <1>4, <2>1 DEF InLog
  <2> QED BY <2>1, <2>2 DEF Ranges
<1>5. fetched \in [Members -> Ranges] /\ cur \in [Members -> Ranges]
  BY <1>1, <1>4 DEF LogInv, Types
<1>6. ASSUME NEW m \in Members PROVE queue[m] \in Seq(Ranges)
  <2>1. queue[m] \in Seq(Range0) BY <1>1 DEF Types
  <2>2. \A i \in 1 .. Len(queue[m]) : queue[m][i] \in Ranges
    BY <1>4, <2>1 DEF LogInv
  <2> QED BY <2>1, <2>2
<1>7. \A f \in {polled, done, held, paused, inMap, cancelled, token} : f \in [Members -> BOOLEAN]
  BY <1>1 DEF Types
<1>8. marked \in [Members -> 0 .. MaxLog] /\ fetchPos \in [Members -> 1 .. MaxLog + 1]
  BY <1>1, <1>3 DEF Types
<1> QED BY <1>1, <1>2, <1>5, <1>6, <1>7, <1>8 DEF KafkaTypeOK, LogInv, Types

LEMMA MovesInit == KafkaInit => MovesInv
BY DEF KafkaInit, MovesInv, RunInv, PauseEnds

-----------------------------------------------------------------------------
(* The queue of a partition is bounded, although every batch resumes it.   *)

\* A batch in the hands of the poll loop, of the worker, and one that the next
\* poll may add: a loop on its way to pause adds none before the next resume.
Polled(m) == IF loop[m] \in {"pause", "push"} THEN 1 ELSE 0
Taken(m) == IF worker[m] \in {"dispatch", "resume"} THEN 1 ELSE 0
Open(m) == IF ~paused[m] /\ loop[m] # "pause" THEN 1 ELSE 0

Room(m) == Len(queue[m]) + Polled(m) + Taken(m) + Open(m)

\* No record is twice in the queue of a live worker.
OrderInv(m) ==
    Live(m) => \A i, j \in 1 .. Len(queue[m]) : i < j => queue[m][i].last < queue[m][j].first

\* A client is made again only after the callbacks of the old one have ended
\* its assignment: the pause it forgets had ended before.
InitInv(m) == loop[m] = "init" => ~held[m] /\ ~done[m]

BoundInv(m) == InitInv(m) /\ OrderInv(m) /\ Room(m) <= PartitionQueueMaxSize + 1

\* A queue has at least as many records as batches.
LEMMA RecordsCount ==
  ASSUME NEW m \in Members, Types, LogInv, Live(m), QueueInv(m), OrderInv(m)
  PROVE  NumRecords(m) \in Nat /\ Len(queue[m]) <= NumRecords(m)
<1> DEFINE q == queue[m]
           D == 1 .. Len(q)
           S == {o \in 1 .. partitionLog : \E i \in D : q[i].first <= o /\ o <= q[i].last}
           f == [i \in D |-> q[i].first]
<1>1. q \in Seq(Range0) /\ Len(q) \in Nat /\ partitionLog \in Nat
  BY DEF Types
<1>2. ASSUME NEW i \in D
      PROVE  /\ q[i].first \in Nat \ {0} /\ q[i].last \in Nat
             /\ q[i].first <= q[i].last /\ q[i].last <= partitionLog
  <2>1. q[i] \in Range0 BY <1>1
  <2>2. q[i].first \in Nat \ {0} /\ q[i].last \in Nat BY <2>1 DEF Range0
  <2>3. q[i].first <= q[i].last BY DEF QueueInv
  <2>4. q[i].last <= partitionLog BY DEF LogInv, InLog
  <2> QED BY <2>2, <2>3, <2>4
<1>3. IsFiniteSet(S)
  <2>1. IsFiniteSet(1 .. partitionLog) BY <1>1, FS_Interval
  <2>2. S \in SUBSET (1 .. partitionLog) OBVIOUS
  <2> QED BY <2>1, <2>2, FS_Subset
<1>4. ASSUME NEW i \in D PROVE q[i].first \in S
  BY <1>1, <1>2
<1>5. ASSUME NEW i \in D, NEW j \in D, q[i].first = q[j].first PROVE i = j
  <2>1. ASSUME NEW a \in D, NEW b \in D, a < b PROVE q[a].first < q[b].first
    <3>1. q[a].last < q[b].first BY <2>1 DEF OrderInv
    <3> QED BY <1>2, <3>1
  <2>2. i \in Nat /\ j \in Nat BY <1>1
  <2>3. ~(i < j) /\ ~(j < i)
    <3>1. CASE i < j BY <1>2, <1>5, <2>1, <3>1
    <3>2. CASE j < i BY <1>2, <1>5, <2>1, <3>2
    <3> QED BY <3>1, <3>2
  <2> QED BY <2>2, <2>3
<1>6. f \in Injection(D, S)
  <2>1. f \in [D -> S] BY <1>4
  <2>2. \A a, b \in D : f[a] = f[b] => a = b BY <1>5
  <2>3. DOMAIN f = D OBVIOUS
  <2> HIDE DEF f, S, D
  <2> QED BY <2>1, <2>2, <2>3 DEF Injection, IsInjective
<1>7. Cardinality(D) <= Cardinality(S)
  <2> HIDE DEF f, S, D
  <2> QED BY <1>3, <1>6, FS_Injection
<1>8. Cardinality(D) = Len(q)
  BY <1>1, FS_Interval
<1>9. Cardinality(S) \in Nat
  <2> HIDE DEF S
  <2> QED BY <1>3, FS_CardinalityType
<1>10. NumRecords(m) = Cardinality(S)
  BY DEF NumRecords
<1> QED BY <1>7, <1>8, <1>9, <1>10

\* Room in both states of a step.
LEMMA RoomParts ==
  ASSUME NEW m \in Members, Types, Types'
  PROVE  /\ Len(queue[m]) \in Nat /\ Len(queue'[m]) \in Nat
         /\ Polled(m) \in {0, 1} /\ Taken(m) \in {0, 1} /\ Open(m) \in {0, 1}
         /\ Polled(m)' \in {0, 1} /\ Taken(m)' \in {0, 1} /\ Open(m)' \in {0, 1}
         /\ Room(m) \in Nat /\ Room(m)' \in Nat
<1>1. Len(queue[m]) \in Nat /\ Len(queue'[m]) \in Nat
  BY DEF Types
<1>2. /\ Polled(m) \in {0, 1} /\ Taken(m) \in {0, 1} /\ Open(m) \in {0, 1}
      /\ Polled(m)' \in {0, 1} /\ Taken(m)' \in {0, 1} /\ Open(m)' \in {0, 1}
  BY DEF Polled, Taken, Open
<1>3. Room(m) \in Nat
  BY <1>1, <1>2 DEF Room
<1>4. Room(m)' \in Nat
  BY <1>1, <1>2 DEF Room
<1> QED BY <1>1, <1>2, <1>3, <1>4

\* The poll loop adds a batch only where the limit leaves room for it and for
\* one more.
LEMMA PollBound ==
  ASSUME NEW m \in Members, Types, Types', LogInv, MemberInv(m), RunInv(m), BoundInv(m), Poll(m)
  PROVE  BoundInv(m)'
<1>1. UNCHANGED <<queue, worker, paused, cancelled>> /\ loop[m] = "poll" /\ ~paused[m] /\ inMap[m]
  BY DEF Poll, workerVars
<1>2. PICK n \in 1 .. MaxPollRecords :
        loop' = [loop EXCEPT ![m] = IF NumRecords(m) + n >= PartitionQueueMaxSize THEN "pause" ELSE "push"]
  BY DEF Poll
<1>3. OrderInv(m)' /\ InitInv(m)'
  BY <1>1, <1>2 DEF BoundInv, OrderInv, InitInv, Live, Types
<1>4. Len(queue[m]) \in Nat /\ PartitionQueueMaxSize \in Nat /\ n \in Nat \ {0}
  BY KafkaAssumption DEF Types
<1>5. CASE NumRecords(m) + n >= PartitionQueueMaxSize
  <2>1. loop'[m] = "pause" BY <1>2, <1>5 DEF Types
  <2>2. Room(m)' = Room(m)
    <3>1. Polled(m) = 0 /\ Polled(m)' = 1 /\ Open(m) = 1 /\ Open(m)' = 0 /\ Taken(m)' = Taken(m)
      BY <1>1, <2>1 DEF Polled, Open, Taken
    <3> QED BY <1>1, <3>1, RoomParts DEF Room
  <2> QED BY <1>3, <2>2 DEF BoundInv
<1>6. CASE ~(NumRecords(m) + n >= PartitionQueueMaxSize)
  <2>1. loop'[m] = "push" BY <1>2, <1>6 DEF Types
  <2>2. Live(m) BY <1>1 DEF RunInv, Live
  <2>3. QueueInv(m) /\ OrderInv(m) BY DEF MemberInv, BoundInv
  <2>4. NumRecords(m) \in Nat /\ Len(queue[m]) <= NumRecords(m) BY <2>2, <2>3, RecordsCount
  <2>5. Len(queue[m]) + 3 <= PartitionQueueMaxSize + 1
    BY <1>4, <1>6, <2>4
  <2>6. Room(m)' <= Len(queue[m]) + 3
    <3>1. queue'[m] = queue[m] BY <1>1
    <3> QED BY <3>1, RoomParts DEF Room
  <2>7. Room(m)' \in Nat
    BY RoomParts
  <2>8. Room(m)' <= PartitionQueueMaxSize + 1
    BY <1>4, <2>5, <2>6, <2>7
  <2> QED BY <1>3, <2>8 DEF BoundInv
<1> QED BY <1>5, <1>6

\* A batch that is appended begins after all that are in the queue.
LEMMA AppendOrder ==
  ASSUME NEW q \in Seq(Range0), NEW b \in Range0,
         \A i, j \in 1 .. Len(q) : i < j => q[i].last < q[j].first,
         \A i \in 1 .. Len(q) : q[i].first <= q[i].last,
         q # <<>> => b.first = q[Len(q)].last + 1
  PROVE  LET p == Append(q, b) IN \A i, j \in 1 .. Len(p) : i < j => p[i].last < p[j].first
<1> DEFINE p == Append(q, b)
<1>1. /\ Len(q) \in Nat /\ Len(p) = Len(q) + 1 /\ p[Len(q) + 1] = b
      /\ \A i \in 1 .. Len(q) : p[i] = q[i]
  OBVIOUS
<1>2. ASSUME NEW i \in 1 .. Len(q) PROVE q[i].last < b.first
  <2>1. /\ Len(q) \in 1 .. Len(q) /\ q # <<>>
        /\ q[i] \in Range0 /\ q[Len(q)] \in Range0
    BY <1>1
  <2>2. /\ q[i].last \in Nat /\ q[Len(q)].last \in Nat /\ q[Len(q)].first \in Nat
    BY <2>1 DEF Range0
  <2>3. CASE i = Len(q) BY <2>1, <2>2, <2>3
  <2>4. CASE i # Len(q)
    <3>1. i < Len(q) BY <1>1, <2>4
    <3>2. q[i].last < q[Len(q)].first /\ q[Len(q)].first <= q[Len(q)].last BY <2>1, <3>1
    <3> QED BY <2>1, <2>2, <3>2
  <2> QED BY <2>3, <2>4
<1>3. ASSUME NEW i \in 1 .. Len(q) + 1, NEW j \in 1 .. Len(q) + 1, i < j PROVE p[i].last < p[j].first
  <2>1. i \in 1 .. Len(q) BY <1>1, <1>3
  <2>2. CASE j = Len(q) + 1
    <3>1. p[j] = b /\ p[i] = q[i] BY <1>1, <2>1, <2>2
    <3> QED BY <1>2, <2>1, <3>1
  <2>3. CASE j # Len(q) + 1
    <3>1. j \in 1 .. Len(q) BY <1>1, <2>3
    <3>2. p[j] = q[j] /\ p[i] = q[i] BY <1>1, <2>1, <3>1
    <3> QED BY <1>3, <2>1, <3>1, <3>2
  <2> QED BY <2>2, <2>3
<1> QED BY <1>1, <1>3

LEMMA PushBound ==
  ASSUME NEW m \in Members, Types, Types', MemberInv(m), RunInv(m), BoundInv(m), Push(m)
  PROVE  BoundInv(m)'
<1>1. UNCHANGED <<worker, cancelled>> /\ loop[m] = "push" /\ loop'[m] = "poll"
  BY DEF Push, Types
<1>2. inMap[m] /\ ~cancelled[m] /\ Live(m)
  BY <1>1 DEF MemberInv, BatchInv, RunInv, Live
<1>3. UNCHANGED paused /\ queue'[m] = Append(queue[m], fetched[m])
  BY <1>2 DEF Push, Types
<1>4. queue[m] \in Seq(Range0) /\ fetched[m] \in Range0
  BY DEF Types
<1>5. Len(queue'[m]) = Len(queue[m]) + 1 /\ Len(queue[m]) \in Nat
  BY <1>3, <1>4
<1>6. Room(m)' = Room(m)
  <2>1. Polled(m) = 1 /\ Polled(m)' = 0 /\ Open(m)' = Open(m) /\ Taken(m)' = Taken(m)
    BY <1>1, <1>3 DEF Polled, Open, Taken
  <2> QED BY <1>5, <2>1, RoomParts DEF Room
<1>7. OrderInv(m)'
  <2>1. \A i, j \in 1 .. Len(queue[m]) : i < j => queue[m][i].last < queue[m][j].first
    BY <1>2 DEF BoundInv, OrderInv
  <2>2. /\ \A i \in 1 .. Len(queue[m]) : queue[m][i].first <= queue[m][i].last
        /\ queue[m] # <<>> => fetched[m].first = queue[m][Len(queue[m])].last + 1
    BY <1>1, <1>2 DEF MemberInv, QueueInv, NextIn
  <2>3. LET p == Append(queue[m], fetched[m])
        IN  \A i, j \in 1 .. Len(p) : i < j => p[i].last < p[j].first
    BY <1>4, <2>1, <2>2, AppendOrder
  <2> QED BY <1>3, <2>3 DEF OrderInv
<1>8. InitInv(m)' BY <1>1 DEF InitInv
<1> QED BY <1>6, <1>7, <1>8 DEF BoundInv

\* The pause that a poll decided on, and the ways of the loop out and back.
LEMMA LoopBound ==
  ASSUME NEW m \in Members, Types, Types', MemberInv(m), RunInv(m), PauseEnds(m), BoundInv(m),
         PauseFetch(m) \/ StopWait(m) \/ CloseDone(m) \/ ReInitClient(m) \/ FatalError(m)
  PROVE  BoundInv(m)'
<1>0. UNCHANGED <<queue, worker, cancelled, held, done>> /\ Len(queue[m]) \in Nat
  BY DEF PauseFetch, StopWait, CloseDone, ReInitClient, FatalError, workerVars, clientVars, Types
<1>1. OrderInv(m)'
  BY <1>0 DEF BoundInv, OrderInv, Live
<1>2. CASE PauseFetch(m)
  <2>1. loop[m] = "pause" /\ loop'[m] = "push" /\ paused'[m]
    BY <1>2 DEF PauseFetch, Types
  <2>2. Room(m)' = Room(m)
    <3>1. Polled(m)' = Polled(m) /\ Open(m)' = Open(m) /\ Taken(m)' = Taken(m)
      BY <1>0, <2>1 DEF Polled, Open, Taken
    <3> QED BY <1>0, <3>1 DEF Room
  <2> QED BY <1>1, <2>1, <2>2 DEF BoundInv, InitInv
<1>3. CASE StopWait(m) \/ CloseDone(m) \/ FatalError(m)
  <2>1. loop[m] \notin {"pause", "push"} /\ loop'[m] \notin {"pause", "push"} /\ UNCHANGED paused
    BY <1>3 DEF StopWait, CloseDone, FatalError, clientVars, Types
  <2>2. Room(m)' = Room(m)
    BY <1>0, <2>1 DEF Room, Polled, Open, Taken
  <2>3. InitInv(m)'
    BY <1>0, <1>3 DEF StopWait, CloseDone, FatalError, InitInv, Types
  <2> QED BY <1>1, <2>2, <2>3 DEF BoundInv
<1>4. CASE ReInitClient(m)
  <2>1. loop[m] = "init" /\ loop'[m] = "poll" /\ ~paused'[m]
    BY <1>4 DEF ReInitClient, Types
  <2>2. ~held[m] /\ ~done[m] BY <2>1 DEF BoundInv, InitInv
  <2>3. worker[m] = "none" BY <2>2 DEF MemberInv, MapInv, RunInv
  <2>4. ~paused[m] BY <2>1, <2>3 DEF PauseEnds
  <2>5. Room(m)' = Room(m)
    BY <1>0, <2>1, <2>4 DEF Room, Polled, Open, Taken
  <2> QED BY <1>1, <2>1, <2>5 DEF BoundInv, InitInv
<1> QED BY <1>2, <1>3, <1>4

\* Shutdown, crash and the callbacks: the queue is left alone or emptied.
LEMMA GroupBound ==
  ASSUME NEW m \in Members, Types, Types', MemberInv(m), RunInv(m), PauseEnds(m), BoundInv(m),
         \/ StopMember(m) \/ Crash(m)
         \/ Assigned(m) \/ Revoked(m) \/ Lost(m) \/ Killed(m) \/ CommitOnRevoke(m)
  PROVE  BoundInv(m)'
<1>0. Len(queue[m]) \in Nat /\ PartitionQueueMaxSize \in Nat
  BY KafkaAssumption DEF Types
<1>1. ASSUME queue'[m] = <<>>, worker'[m] \in {"none", "wait"}, loop'[m] \notin {"pause", "push", "init"}
      PROVE  BoundInv(m)'
  <2>1. Len(queue'[m]) = 0 BY <1>1
  <2>2. Room(m)' <= 1 /\ Room(m)' \in Nat
    <3>1. Polled(m)' = 0 /\ Taken(m)' = 0 BY <1>1 DEF Polled, Taken
    <3> QED BY <2>1, <3>1, RoomParts DEF Room
  <2> QED BY <1>0, <1>1, <2>1, <2>2 DEF BoundInv, OrderInv, InitInv
<1>2. ASSUME UNCHANGED <<queue, worker, paused>>, InitInv(m)', cancelled[m] => cancelled'[m],
             loop'[m] = loop[m] \/ (loop[m] \in {"poll", "init"} /\ loop'[m] \notin {"pause", "push"})
      PROVE  BoundInv(m)'
  <2>1. Room(m)' = Room(m)
    BY <1>0, <1>2 DEF Room, Polled, Open, Taken
  <2>2. OrderInv(m)'
    BY <1>2 DEF BoundInv, OrderInv, Live
  <2> QED BY <1>2, <2>1, <2>2 DEF BoundInv
<1>3. CASE StopMember(m)
  <2>1. UNCHANGED <<queue, worker, paused>> /\ (cancelled[m] => cancelled'[m])
    BY <1>3 DEF StopMember, clientVars, workerVars, Kill, Types
  <2>2. loop[m] \in {"poll", "init"} /\ loop'[m] \in {"stopwait", "close", "stopped"}
    BY <1>3 DEF StopMember, Types
  <2> QED BY <1>2, <2>1, <2>2 DEF InitInv
<1>4. CASE Crash(m)
  <2>1. queue'[m] = <<>> /\ worker'[m] = "none" /\ loop'[m] = "stopped"
    BY <1>4 DEF Crash, Types
  <2> QED BY <1>1, <2>1
<1>5. CASE Assigned(m)
  <2>1. loop[m] \in {"poll", "stopwait"} /\ UNCHANGED <<loop, paused>>
    BY <1>5 DEF Assigned, loopVars
  <2>2. CASE done[m]
    <3>1. UNCHANGED <<queue, worker, cancelled>> BY <1>5, <2>2 DEF Assigned, workerVars
    <3> QED BY <1>2, <2>1, <3>1 DEF InitInv
  <2>3. CASE ~done[m]
    <3>1. queue'[m] = <<>> /\ worker'[m] = "wait" BY <1>5, <2>3 DEF Assigned, Types
    <3> QED BY <1>1, <2>1, <3>1
  <2> QED BY <2>2, <2>3
<1>6. CASE Revoked(m) \/ Lost(m) \/ Killed(m) \/ CommitOnRevoke(m)
  <2>1. UNCHANGED <<queue, worker, paused, loop, done>> /\ (cancelled[m] => cancelled'[m])
    BY <1>6 DEF Revoked, Lost, Killed, CommitOnRevoke, Kill, loopVars, workerVars, Types
  <2>2. held'[m] => held[m]
    BY <1>6 DEF Revoked, Lost, Killed, CommitOnRevoke, LetGo, Types
  <2> QED BY <1>2, <2>1, <2>2 DEF BoundInv, InitInv
<1> QED BY <1>3, <1>4, <1>5, <1>6

\* What is left after Pop keeps its order.
LEMMA TailOrder ==
  ASSUME NEW q \in Seq(Range0), q # <<>>,
         \A i, j \in 1 .. Len(q) : i < j => q[i].last < q[j].first
  PROVE  LET p == Tail(q)
         IN  /\ Len(p) + 1 = Len(q) /\ Len(p) \in Nat
             /\ \A i, j \in 1 .. Len(p) : i < j => p[i].last < p[j].first
<1> DEFINE p == Tail(q)
<1>1. Len(q) \in Nat \ {0} /\ Len(p) = Len(q) - 1 /\ \A i \in 1 .. Len(q) - 1 : p[i] = q[i + 1]
  OBVIOUS
<1>2. ASSUME NEW i \in 1 .. Len(q) - 1, NEW j \in 1 .. Len(q) - 1, i < j PROVE p[i].last < p[j].first
  <2>1. i + 1 \in 1 .. Len(q) /\ j + 1 \in 1 .. Len(q) /\ i + 1 < j + 1
    BY <1>1, <1>2
  <2>2. q[i + 1].last < q[j + 1].first BY <2>1
  <2> QED BY <1>1, <2>2
<1> QED BY <1>1, <1>2

\* The worker: a batch it takes leaves the queue, and the fetch it resumes
\* takes the place of the batch it is done with.
LEMMA WorkerBound ==
  ASSUME NEW m \in Members, Types, Types', MemberInv(m), RunInv(m), BoundInv(m),
         WorkerStep(m) \/ DispatchError(m) \/ DispatchCancelled(m)
  PROVE  BoundInv(m)'
<1>0. /\ UNCHANGED <<loop, held, done, inMap>> /\ Len(queue[m]) \in Nat /\ queue[m] \in Seq(Range0)
      /\ PartitionQueueMaxSize \in Nat
  BY KafkaAssumption
     DEF WorkerStep, WakeWorker, Pop, DispatchRecord, ResumeConsuming, Exit, DispatchError,
         DispatchCancelled, loopVars, clientVars, workerVars, Types
<1>i. InitInv(m)'
  BY <1>0 DEF BoundInv, InitInv
<1>s. ASSUME UNCHANGED <<queue, paused, cancelled>>, worker[m] # "none",
             worker'[m] \in {"dispatch", "resume"} => worker[m] \in {"dispatch", "resume"}
      PROVE  BoundInv(m)'
  <2>1. OrderInv(m)' BY <1>s DEF BoundInv, OrderInv, Live
  <2>2. Room(m)' <= Room(m) /\ Room(m)' \in Nat /\ Room(m) \in Nat
    <3>1. Polled(m)' = Polled(m) /\ Open(m)' = Open(m) BY <1>0, <1>s DEF Polled, Open
    <3>2. Taken(m)' <= Taken(m) BY <1>s DEF Taken
    <3>3. queue'[m] = queue[m] BY <1>s
    <3> QED BY <3>1, <3>2, <3>3, RoomParts DEF Room
  <2> QED BY <1>0, <1>i, <2>1, <2>2 DEF BoundInv
<1>1. CASE WakeWorker(m)
  <2>1. UNCHANGED <<queue, paused, cancelled>> /\ worker[m] = "wait" /\ worker'[m] \in {"exit", "drain"}
    BY <1>1 DEF WakeWorker, clientVars, Types
  <2> QED BY <1>s, <2>1
<1>2. CASE Pop(m)
  <2>1. UNCHANGED <<paused, cancelled>> /\ worker[m] = "drain"
    BY <1>2 DEF Pop, clientVars
  <2>2. CASE cancelled[m] \/ queue[m] = <<>>
    <3>1. worker'[m] \in {"exit", "wait"} /\ UNCHANGED queue
      BY <1>2, <2>2 DEF Pop, Types
    <3> QED BY <1>s, <2>1, <3>1
  <2>3. CASE ~(cancelled[m] \/ queue[m] = <<>>)
    <3>1. worker'[m] = "dispatch" /\ queue'[m] = Tail(queue[m])
      BY <1>2, <2>3 DEF Pop, Types
    <3>2. \A i, j \in 1 .. Len(queue[m]) : i < j => queue[m][i].last < queue[m][j].first
      BY <2>1, <2>3 DEF BoundInv, OrderInv, Live
    <3>3. /\ Len(queue'[m]) + 1 = Len(queue[m]) /\ Len(queue'[m]) \in Nat
          /\ \A i, j \in 1 .. Len(queue'[m]) : i < j => queue'[m][i].last < queue'[m][j].first
      BY <1>0, <2>3, <3>1, <3>2, TailOrder
    <3>4. Room(m)' = Room(m)
      <4>1. Polled(m)' = Polled(m) /\ Open(m)' = Open(m) BY <1>0, <2>1 DEF Polled, Open
      <4>2. Taken(m) = 0 /\ Taken(m)' = 1 BY <2>1, <3>1 DEF Taken
      <4> QED BY <3>3, <4>1, <4>2, RoomParts DEF Room
    <3> QED BY <1>i, <3>3, <3>4 DEF BoundInv, OrderInv
  <2> QED BY <2>2, <2>3
<1>3. CASE DispatchRecord(m) \/ DispatchError(m) \/ DispatchCancelled(m)
  <2>1. UNCHANGED <<queue, paused, cancelled>> /\ worker[m] = "dispatch"
    BY <1>3 DEF DispatchRecord, DispatchError, DispatchCancelled, clientVars, workerVars
  <2> QED BY <1>s, <2>1
<1>4. CASE ResumeConsuming(m)
  <2>1. UNCHANGED <<queue, cancelled>> /\ worker[m] = "resume" /\ worker'[m] = "drain"
    BY <1>4 DEF ResumeConsuming, Types
  <2>2. OrderInv(m)' BY <2>1 DEF BoundInv, OrderInv, Live
  <2>3. Room(m)' <= Room(m) /\ Room(m)' \in Nat /\ Room(m) \in Nat
    <3>1. Polled(m)' = Polled(m) BY <1>0 DEF Polled
    <3>2. Taken(m) = 1 /\ Taken(m)' = 0 BY <2>1 DEF Taken
    <3>3. queue'[m] = queue[m] BY <2>1
    <3> QED BY <3>1, <3>2, <3>3, RoomParts DEF Room
  <2> QED BY <1>0, <1>i, <2>2, <2>3 DEF BoundInv
<1>5. CASE Exit(m)
  <2>1. queue'[m] = <<>> /\ worker[m] = "exit" /\ worker'[m] = "none"
    BY <1>5 DEF Exit, Types
  <2>2. ~inMap[m] BY <2>1 DEF RunInv
  <2>3. loop'[m] \notin {"pause", "push"} BY <1>0, <2>2 DEF MemberInv, BatchInv
  <2>4. Len(queue'[m]) = 0 BY <2>1
  <2>5. Room(m)' <= 1 /\ Room(m)' \in Nat
    <3>1. Polled(m)' = 0 /\ Taken(m)' = 0 BY <2>1, <2>3 DEF Polled, Taken
    <3> QED BY <2>4, <3>1, RoomParts DEF Room
  <2> QED BY <1>0, <1>i, <2>1, <2>5 DEF BoundInv, OrderInv, Live
<1> QED BY <1>1, <1>2, <1>3, <1>4, <1>5 DEF WorkerStep

LEMMA BoundStep ==
  ASSUME Inv, MovesInv, LogInv, \A m \in Members : BoundInv(m), [KafkaNext]_kafkaVars, NEW n \in Members
  PROVE  BoundInv(n)'
<1>0. Types /\ Types' /\ MemberInv(n) /\ RunInv(n) /\ PauseEnds(n) /\ BoundInv(n)
  BY TypesStep DEF Inv, MovesInv
<1>s. ASSUME SameRun(n) PROVE BoundInv(n)'
  BY <1>0, <1>s DEF SameRun, BoundInv, InitInv, OrderInv, Live, Room, Polled, Taken, Open
<1>1. CASE Produce \/ UNCHANGED kafkaVars
  <2>1. SameRun(n)
    BY <1>1 DEF Produce, kafkaVars, loopVars, clientVars, workerVars, SameRun
  <2> QED BY <1>s, <2>1
<1>2. ASSUME NEW m \in Members,
             \/ LoopStep(m) \/ FatalError(m) \/ StopMember(m) \/ Crash(m)
             \/ Assigned(m) \/ Revoked(m) \/ Lost(m) \/ Killed(m) \/ CommitOnRevoke(m)
             \/ WorkerStep(m) \/ DispatchError(m) \/ DispatchCancelled(m)
             \/ SessionExpires(m) \/ AutoCommit(m)
      PROVE  BoundInv(n)'
  <2>1. CASE n # m
    <3>1. SameRun(n) BY <1>0, <1>2, <2>1, OthersRun
    <3> QED BY <1>s, <3>1
  <2>2. CASE n = m /\ (SessionExpires(m) \/ AutoCommit(m))
    <3>1. SameRun(n)
      BY <2>2 DEF SessionExpires, AutoCommit, loopVars, clientVars, workerVars, SameRun
    <3> QED BY <1>s, <3>1
  <2>3. CASE n = m /\ ~(SessionExpires(m) \/ AutoCommit(m))
    BY <1>0, <1>2, <2>3, PollBound, PushBound, LoopBound, GroupBound, WorkerBound DEF LoopStep
  <2> QED BY <2>1, <2>2, <2>3
<1> QED BY <1>1, <1>2 DEF KafkaNext

BoundsInv == \A m \in Members : BoundInv(m)

\* What waits and what is in work is part of what Room counts.
LEMMA RoomBounds == Types /\ (\A m \in Members : BoundInv(m)) => QueueBounded
<1> SUFFICES ASSUME Types, NEW m \in Members, BoundInv(m) PROVE InWork(m) <= PartitionQueueMaxSize + 1
  BY DEF QueueBounded
<1>1. Len(queue[m]) \in Nat /\ PartitionQueueMaxSize \in Nat
  BY KafkaAssumption DEF Types
<1>2. InWork(m) <= Room(m) /\ Room(m) \in Nat /\ InWork(m) \in Nat
  <2>1. Polled(m) \in {0, 1} /\ Taken(m) \in {0, 1} /\ Open(m) \in {0, 1}
    BY DEF Polled, Taken, Open
  <2>2. InWork(m) = Len(queue[m]) + Taken(m)
    BY DEF InWork, Taken
  <2> QED BY <1>1, <2>1, <2>2 DEF Room
<1> QED BY <1>1, <1>2 DEF BoundInv

LEMMA BoundInit == KafkaInit => \A m \in Members : BoundInv(m)
<1> SUFFICES ASSUME KafkaInit, NEW m \in Members PROVE BoundInv(m)
  OBVIOUS
<1>1. /\ queue[m] = <<>> /\ loop[m] = "poll" /\ worker[m] = "none" /\ Len(<<>>) = 0
      /\ PartitionQueueMaxSize \in Nat
  BY KafkaAssumption DEF KafkaInit
<1>2. Room(m) <= 1 /\ Room(m) \in Nat
  BY <1>1 DEF Room, Polled, Taken, Open
<1> QED BY <1>1, <1>2 DEF BoundInv, InitInv, OrderInv, Live

\* What keeps a partition moving, for any group, partition, poll and queue
\* size: a paused partition has someone about to resume it; outside of
\* shutdown no worker outlives the assignment it was started for; and the
\* batches that wait or are in work never exceed the limit by more than one,
\* although resumeConsuming is called after every batch.
THEOREM PartitionAlways == KafkaSpec => []KafkaPartition
<1>1. KafkaInit => MovesInv /\ LogInv /\ BoundsInv
  BY MovesInit, BoundInit, KafkaAssumption DEF KafkaInit, LogInv, InLog, NoBatch, BoundsInv
<1>2. Inv /\ MovesInv /\ LogInv /\ BoundsInv => KafkaPartition
  <2> SUFFICES ASSUME Inv, MovesInv, LogInv, BoundsInv PROVE PauseWillEnd /\ NoOrphanWorker /\ QueueBounded
    BY InLogTypes DEF KafkaPartition
  <2>1. PauseWillEnd BY DEF MovesInv, PauseEnds, PauseWillEnd
  <2>2. NoOrphanWorker
    BY DEF NoOrphanWorker, MovesInv, RunInv, Inv, MemberInv, MapInv, Types
  <2>3. QueueBounded BY RoomBounds DEF Inv, BoundsInv
  <2> QED BY <2>1, <2>2, <2>3
<1>3. Inv /\ MovesInv /\ LogInv /\ BoundsInv /\ [KafkaNext]_kafkaVars => BoundsInv'
  BY BoundStep DEF BoundsInv
<1> QED BY InvInit, InvStep, MovesStep, LogStep, <1>1, <1>2, <1>3, PTL DEF KafkaSpec

-----------------------------------------------------------------------------
(* The group as a queue of commands: the committed offset never goes back. *)

\* The owner has marked what is committed, and whatever it marks later is
\* kept only if it is larger: a worker that a shutdown left behind when the
\* partition came back marks offsets that others have passed.
OwnerInv == \A m \in Members : owner = m /\ held[m] => marked[m] >= committed

LEMMA LetGoHolds ==
  ASSUME Types, NEW m \in Members, LetGo(m)
  PROVE  ~held'[m] /\ \A n \in Members : n # m => held'[n] = held[n] /\ marked'[n] = marked[n]
BY DEF LetGo, Types

LEMMA OwnerInvStep == Inv /\ OwnerInv /\ [KafkaNext]_kafkaVars => OwnerInv'
<1> SUFFICES ASSUME Inv, OwnerInv, [KafkaNext]_kafkaVars PROVE OwnerInv'
  OBVIOUS
<1>t. Types /\ committed \in Nat /\ marked \in [Members -> Nat] /\ held \in [Members -> BOOLEAN]
  BY DEF Inv, Types
<1>1. CASE UNCHANGED <<owner, held, marked, committed>>
  BY <1>1 DEF OwnerInv
<1>2. ASSUME NEW m \in Members, LetGo(m), owner' \in {owner, NoMember}, committed' = committed PROVE OwnerInv'
  BY <1>2, <1>t, LetGoHolds, KafkaAssumption DEF OwnerInv
<1>3. ASSUME NEW m \in Members, Assigned(m) PROVE OwnerInv'
  <2>1. owner' = m /\ committed' = committed /\ marked'[m] = committed
    BY <1>3, <1>t DEF Assigned
  <2> QED BY <2>1, <1>t DEF OwnerInv
<1>4. ASSUME NEW m \in Members, CommitOnRevoke(m) PROVE OwnerInv'
  <2>1. CASE owner = m
    BY <1>4, <2>1, KafkaAssumption DEF CommitOnRevoke, OwnerInv
  <2>2. CASE owner # m
    BY <1>2, <1>4, <2>2 DEF CommitOnRevoke
  <2> QED BY <2>1, <2>2
<1>5. ASSUME NEW m \in Members, AutoCommit(m) PROVE OwnerInv'
  <2>1. owner = m /\ owner' = owner /\ committed' = marked[m] /\ marked' = marked
    BY <1>5 DEF AutoCommit, clientVars
  <2> QED BY <2>1, <1>t DEF OwnerInv
<1>6. ASSUME NEW m \in Members, SessionExpires(m) PROVE OwnerInv'
  BY <1>6, KafkaAssumption DEF SessionExpires, OwnerInv
<1>7. ASSUME NEW m \in Members, DispatchRecord(m) PROVE OwnerInv'
  <2>1. PICK f : f = cur[m].first
    OBVIOUS
  <2>2. f \in Nat
    BY <2>1, <1>t DEF Types, Range0
  <2>3. /\ marked'[m] = (IF marked[m] < f THEN f ELSE marked[m])
        /\ \A n \in Members : n # m => marked'[n] = marked[n]
        /\ UNCHANGED <<owner, held, committed>>
    BY <1>7, <2>1, <1>t DEF DispatchRecord, groupVars
  <2>4. \A n \in Members : marked'[n] >= marked[n] /\ marked'[n] \in Nat /\ marked[n] \in Nat
    BY <2>2, <2>3, <1>t
  <2> QED BY <2>3, <2>4, <1>t DEF OwnerInv
<1>8. ASSUME NEW m \in Members, Lost(m) \/ Killed(m) \/ Crash(m) PROVE OwnerInv'
  <2>1. LetGo(m) \/ UNCHANGED <<held, marked>>
    BY <1>8 DEF Lost, Killed, Crash
  <2>2. UNCHANGED <<owner, committed>>
    BY <1>8 DEF Lost, Killed, Crash, groupVars
  <2> QED BY <2>1, <2>2, <1>1, <1>2
<1>9. ASSUME NEW m \in Members,
             \/ LoopStep(m) \/ FatalError(m) \/ StopMember(m) \/ Revoked(m)
             \/ WakeWorker(m) \/ Pop(m) \/ ResumeConsuming(m) \/ Exit(m) \/ DispatchError(m) \/ DispatchCancelled(m)
      PROVE  UNCHANGED <<owner, held, marked, committed>>
  BY <1>9 DEF LoopStep, Poll, PauseFetch, Push, StopWait, CloseDone, ReInitClient, FatalError, StopMember, Revoked,
              WakeWorker, Pop, ResumeConsuming, Exit, DispatchError, DispatchCancelled, groupVars, clientVars
<1>10. CASE Produce \/ UNCHANGED kafkaVars
  BY <1>1, <1>10 DEF Produce, kafkaVars, groupVars, clientVars
<1> QED BY <1>1, <1>3, <1>4, <1>5, <1>6, <1>7, <1>8, <1>9, <1>10 DEF KafkaNext, WorkerStep

\* An offset range that is settled stays settled, and was dispatched.
LEMMA CommitSettles ==
  ASSUME Inv', committed \in Nat, committed' \in Nat, committed' >= committed,
         UNCHANGED <<partitionLog, dispatched>>
  PROVE  KafkaCommands!Settle
<1>1. 1 .. committed \subseteq 1 .. committed'
  OBVIOUS
<1>2. 1 .. committed' \subseteq dispatched
  BY DEF Inv, CommittedWasDispatched
<1> QED BY <1>1, <1>2 DEF KafkaCommands!Settle

\* The record in a worker's hands is in the partition.
LEMMA DispatchProcesses ==
  ASSUME KafkaTypeOK', NEW o, dispatched' = dispatched \cup {o}, UNCHANGED <<partitionLog, committed>>
  PROVE  KafkaCommands!Process
<1>1. o \in 1 .. partitionLog
  BY DEF KafkaTypeOK
<1> QED BY <1>1 DEF KafkaCommands!Process

LEMMA CommandsStep ==
  ASSUME Inv, Inv', OwnerInv, MovesInv, KafkaTypeOK, KafkaTypeOK', [KafkaNext]_kafkaVars
  PROVE  [KafkaCommands!Next]_(KafkaCommands!commandVars)
<1> SUFFICES KafkaCommands!Next \/ UNCHANGED KafkaCommands!commandVars
  OBVIOUS
<1>t. /\ committed \in Nat /\ committed' \in Nat /\ marked \in [Members -> Nat]
      /\ partitionLog \in Nat /\ partitionLog' \in Nat
  BY KafkaAssumption DEF Inv, Types, KafkaTypeOK
<1>1. CASE UNCHANGED <<partitionLog, dispatched, committed>>
  BY <1>1 DEF KafkaCommands!commandVars
<1>2. CASE Produce
  <2>1. 1 .. partitionLog \subseteq 1 .. partitionLog' /\ UNCHANGED <<dispatched, committed>>
    BY <1>2, <1>t DEF Produce, groupVars
  <2> QED BY <2>1 DEF KafkaCommands!Next, KafkaCommands!Enqueue
<1>3. ASSUME NEW m \in Members, DispatchRecord(m) \/ DispatchError(m) \/ DispatchCancelled(m)
      PROVE  KafkaCommands!Next \/ UNCHANGED KafkaCommands!commandVars
  <2>1. /\ UNCHANGED <<partitionLog, committed>>
        /\ dispatched' \in {dispatched, dispatched \cup {cur[m].first}}
    BY <1>3 DEF DispatchRecord, DispatchError, DispatchCancelled, groupVars
  <2> QED BY <2>1, <1>1, DispatchProcesses DEF KafkaCommands!Next
<1>4. ASSUME NEW m \in Members, AutoCommit(m) \/ CommitOnRevoke(m)
      PROVE  KafkaCommands!Next \/ UNCHANGED KafkaCommands!commandVars
  <2>1. UNCHANGED <<partitionLog, dispatched>>
    BY <1>4 DEF AutoCommit, CommitOnRevoke
  <2>2. committed' = committed \/ (committed' = marked[m] /\ owner = m /\ held[m])
    BY <1>4 DEF AutoCommit, CommitOnRevoke, MovesInv, RunInv
  <2>3. committed' >= committed
    BY <2>2, <1>t DEF OwnerInv
  <2> QED BY <2>1, <2>3, <1>t, CommitSettles DEF KafkaCommands!Next
<1>5. ASSUME NEW m \in Members,
             \/ LoopStep(m) \/ FatalError(m) \/ StopMember(m) \/ Crash(m) \/ Assigned(m) \/ Revoked(m) \/ Lost(m)
             \/ Killed(m) \/ WakeWorker(m) \/ Pop(m) \/ ResumeConsuming(m) \/ Exit(m) \/ SessionExpires(m)
      PROVE  UNCHANGED <<partitionLog, dispatched, committed>>
  BY <1>5 DEF LoopStep, Poll, PauseFetch, Push, StopWait, CloseDone, ReInitClient, FatalError, StopMember, Crash,
              Assigned, Revoked, Lost, Killed, WakeWorker, Pop, ResumeConsuming, Exit, SessionExpires, groupVars
<1>6. CASE UNCHANGED kafkaVars
  BY <1>1, <1>6 DEF kafkaVars, groupVars
<1> QED BY <1>1, <1>2, <1>3, <1>4, <1>5, <1>6 DEF KafkaNext, WorkerStep

\* The members of a group implement the abstract queue of commands, for any
\* group, partition, poll and queue size: a record is settled only after its
\* dispatch, and the committed offset never goes back, although workers
\* outlive their assignment during a shutdown and sessions expire unnoticed.
THEOREM GroupImplementsQueue == KafkaSpec => KafkaImplementsQueue
<1>1. KafkaInit => KafkaCommands!Init /\ OwnerInv
  BY DEF KafkaInit, KafkaCommands!Init, OwnerInv
<1>2. KafkaSpec => [](Inv /\ OwnerInv)
  BY InvInit, InvStep, OwnerInvStep, <1>1, PTL DEF KafkaSpec
<1>3. KafkaSpec => []MovesInv
  BY InvInit, InvStep, MovesStep, MovesInit, PTL DEF KafkaSpec
<1>4. KafkaPartition => KafkaTypeOK
  BY DEF KafkaPartition
<1>5. KafkaSpec => [][KafkaCommands!Next]_(KafkaCommands!commandVars)
  BY <1>2, <1>3, <1>4, PartitionAlways, CommandsStep, PTL DEF KafkaSpec
<1> QED BY <1>1, <1>5, PTL DEF KafkaSpec, KafkaImplementsQueue, KafkaCommands!Spec
=============================================================================
