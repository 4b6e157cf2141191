----------------------------- MODULE Workers_proofs -----------------------------
(***************************************************************************)
(* Theorems about the workers that take turns on a PostgreSQL database, for *)
(* any number of nodes, rows and faults: the outbox worker behind an       *)
(* advisory lock and its wakeups, the partitioner and the outbox consumer. *)
(***************************************************************************)
EXTENDS LockWorker, Partitioner, PostgresConsumer, OutboxNotify, TLAPS

(* The lock and the session that holds it agree.                           *)

\* A worker in its session over a live connection is the one with the lock.
\* OneLiveLeader follows, but is not inductive: it does not say who holds the
\* lock when a second worker asks for it.
LeaderHoldsLock ==
    \A n \in LockNodes : InSession(n) /\ conn[n] = "live" => holder = n

LockInv == LockTypeOK /\ LockNotLeaked /\ LeaderHoldsLock

\* The initial state of LockWorker.Run on every node satisfies the invariant.
LEMMA LockInvInit == LockInit => LockInv
BY HolderAssumption, BoundAssumption
   DEF LockInit, LockInv, LockTypeOK, LockNotLeaked, LeaderHoldsLock, InSession, Session, Places

\* Every step of a worker and of the database keeps the types of the variables,
\* whatever the bounds are.
LEMMA LockTypeStep == LockTypeOK /\ [LockNext]_lockVars => LockTypeOK'
<1>1. SUFFICES ASSUME LockTypeOK, [LockNext]_lockVars PROVE LockTypeOK'
  OBVIOUS
<1>2. CASE UNCHANGED lockVars
  BY <1>1, <1>2 DEF LockTypeOK, lockVars
<1>3. ASSUME NEW n \in LockNodes, Work(n) PROVE LockTypeOK'
  <2>1. CASE Acquire(n) BY <1>1, <2>1 DEF LockTypeOK, Acquire, WorkerGoto, Places, Session
  <2>2. CASE TryLock(n) BY <1>1, <2>2 DEF LockTypeOK, TryLock, WorkerGoto, Places, Session
  <2>3. CASE TryLockError(n)
    BY <1>1, <2>3, BoundAssumption DEF LockTypeOK, TryLockError, WorkerGoto, LockFault, Places, Session
  <2>4. CASE Sleep(n) BY <1>1, <2>4 DEF LockTypeOK, Sleep, WorkerGoto, Places, Session
  <2>5. CASE Exit(n) BY <1>1, <2>5 DEF LockTypeOK, Exit, WorkerGoto, Places, Session
  <2>6. CASE InitCursor(n) BY <1>1, <2>6 DEF LockTypeOK, InitCursor, WorkerGoto, Places, Session
  <2>7. CASE LeaderBatch(n)
    BY <1>1, <2>7, BoundAssumption DEF LockTypeOK, LeaderBatch
  <2>8. CASE LeaderNothing(n)
    BY <1>1, <2>8 DEF LockTypeOK, LeaderNothing, WorkerGoto, Places, Session
  <2>9. CASE Ping(n) BY <1>1, <2>9 DEF LockTypeOK, Ping, WorkerGoto, Places, Session
  <2>10. CASE WaitPollInterval(n)
    BY <1>1, <2>10 DEF LockTypeOK, WaitPollInterval, WorkerGoto, Places, Session
  <2>11. CASE EndSession(n)
    BY <1>1, <2>11 DEF LockTypeOK, EndSession, WorkerGoto, Abandoned, Places, Session
  <2>12. CASE Release(n)
    BY <1>1, <2>12, BoundAssumption DEF LockTypeOK, Release, WorkerGoto, LockFault, Abandoned, Places, Session
  <2> QED BY <1>3, <2>1, <2>2, <2>3, <2>4, <2>5, <2>6, <2>7, <2>8, <2>9, <2>10, <2>11,
             <2>12 DEF Work
<1>4. ASSUME NEW n \in LockNodes,
             AcquireError(n) \/ CallError(n) \/ PingTimeout(n) \/ Close(n) \/ SessionEnds(n)
      PROVE LockTypeOK'
  <2>1. CASE AcquireError(n)
    BY <1>1, <2>1, BoundAssumption DEF LockTypeOK, AcquireError, WorkerGoto, LockFault, Places, Session
  <2>2. CASE CallError(n)
    BY <1>1, <2>2, BoundAssumption DEF LockTypeOK, CallError, WorkerGoto, LockFault, Places, Session
  <2>3. CASE PingTimeout(n)
    BY <1>1, <2>3, BoundAssumption
       DEF LockTypeOK, PingTimeout, WorkerGoto, LockFault, Abandoned, Places, Session
  <2>4. CASE Close(n) BY <1>1, <2>4 DEF LockTypeOK, Close
  <2>5. CASE SessionEnds(n)
    BY <1>1, <2>5, BoundAssumption DEF LockTypeOK, SessionEnds, LockFault
  <2> QED BY <1>4, <2>1, <2>2, <2>3, <2>4, <2>5
<1>5. CASE OrphanEnds BY <1>1, <1>5 DEF LockTypeOK, OrphanEnds
<1>6. CASE AppendRow BY <1>1, <1>6, BoundAssumption DEF LockTypeOK, AppendRow
<1> QED BY <1>1, <1>2, <1>3, <1>4, <1>5, <1>6 DEF LockNext

\* Every step of a worker and of the database keeps lock and sessions in
\* agreement.
LEMMA AgreementStep == LockInv /\ [LockNext]_lockVars => LockNotLeaked' /\ LeaderHoldsLock'
<1>1. SUFFICES ASSUME LockInv, [LockNext]_lockVars PROVE LockNotLeaked' /\ LeaderHoldsLock'
  OBVIOUS
<1> USE HolderAssumption
<1>2. CASE UNCHANGED lockVars
  BY <1>1, <1>2 DEF LockInv, LockNotLeaked, LeaderHoldsLock, InSession, lockVars
<1>3. ASSUME NEW n \in LockNodes, Work(n) PROVE LockNotLeaked' /\ LeaderHoldsLock'
  <2> USE DEF LockInv, LockTypeOK, LockNotLeaked, LeaderHoldsLock, InSession, Session, Places, WorkerGoto
  <2>1. CASE Acquire(n) BY <1>1, <2>1 DEF Acquire
  <2>2. CASE TryLock(n) BY <1>1, <2>2 DEF TryLock
  <2>3. CASE TryLockError(n) BY <1>1, <2>3 DEF TryLockError
  <2>4. CASE Sleep(n) BY <1>1, <2>4 DEF Sleep
  <2>5. CASE Exit(n) BY <1>1, <2>5 DEF Exit
  <2>6. CASE InitCursor(n) BY <1>1, <2>6 DEF InitCursor
  <2>7. CASE LeaderBatch(n) BY <1>1, <2>7 DEF LeaderBatch
  <2>8. CASE LeaderNothing(n) BY <1>1, <2>8 DEF LeaderNothing
  <2>9. CASE Ping(n) BY <1>1, <2>9 DEF Ping
  <2>10. CASE WaitPollInterval(n) BY <1>1, <2>10 DEF WaitPollInterval
  <2>11. CASE EndSession(n) BY <1>1, <2>11 DEF EndSession, Abandoned
  <2>12. CASE Release(n) BY <1>1, <2>12 DEF Release, Abandoned
  <2> QED BY <1>3, <2>1, <2>2, <2>3, <2>4, <2>5, <2>6, <2>7, <2>8, <2>9, <2>10, <2>11,
             <2>12 DEF Work
<1>4. ASSUME NEW n \in LockNodes,
             AcquireError(n) \/ CallError(n) \/ PingTimeout(n) \/ Close(n) \/ SessionEnds(n)
      PROVE LockNotLeaked' /\ LeaderHoldsLock'
  <2> USE DEF LockInv, LockTypeOK, LockNotLeaked, LeaderHoldsLock, InSession, Session, Places, WorkerGoto
  <2>1. CASE AcquireError(n) BY <1>1, <2>1 DEF AcquireError
  <2>2. CASE CallError(n) BY <1>1, <2>2 DEF CallError
  <2>3. CASE PingTimeout(n) BY <1>1, <2>3 DEF PingTimeout, Abandoned
  <2>4. CASE Close(n) BY <1>1, <2>4 DEF Close
  <2>5. CASE SessionEnds(n) BY <1>1, <2>5 DEF SessionEnds
  <2> QED BY <1>4, <2>1, <2>2, <2>3, <2>4, <2>5
<1>5. CASE OrphanEnds
  BY <1>1, <1>5 DEF OrphanEnds, LockInv, LockNotLeaked, LeaderHoldsLock, InSession
<1>6. CASE AppendRow
  BY <1>1, <1>6 DEF AppendRow, LockInv, LockNotLeaked, LeaderHoldsLock, InSession
<1> QED BY <1>1, <1>2, <1>3, <1>4, <1>5, <1>6 DEF LockNext

\* The invariant holds in every reachable state of the lock workers.
THEOREM LockInvAlways == LockSpec => []LockInv
<1>1. LockInv /\ [LockNext]_lockVars => LockInv'
  BY LockTypeStep, AgreementStep DEF LockInv
<1> QED BY LockInvInit, <1>1, PTL DEF LockSpec

\* A connection that goes back to the pool never takes the advisory lock with
\* it (releaseAdvisoryLock), for any number of nodes.
THEOREM NoLeak == LockSpec => []LockNotLeaked
<1>1. LockInv => LockNotLeaked BY DEF LockInv
<1> QED BY LockInvAlways, <1>1, PTL

\* runLockedSession is exclusive among workers whose lock connection lives,
\* for any number of nodes, faults and rows.
THEOREM LeaderUnique == LockSpec => []OneLiveLeader
<1>1. LockInv => OneLiveLeader BY DEF LockInv, LeaderHoldsLock, OneLiveLeader
<1> QED BY LockInvAlways, <1>1, PTL

\* What the runs check of the lock workers together, for any number of nodes,
\* faults and rows: well-typed states, no lock left on a pooled connection and
\* one live leader.
THEOREM LockSafety == LockSpec => []LockSafe
<1>1. LockInv => LockTypeOK BY DEF LockInv
<1> QED BY LockInvAlways, <1>1, NoLeak, LeaderUnique, PTL DEF LockSafe

-----------------------------------------------------------------------------
(* What DropOldPartitions can never take away, for every day length,       *)
(* retention, lookahead, clock skew and number of nodes.                   *)

\* A partition some pass is about to drop was behind the cutoff of a clock no
\* more than Skew ahead; time only makes it older.
Doomed(d) == RetentionDays > 0 /\ d * DayLength < now + Skew - RetentionDays * DayLength

\* What a row's age at its loss depends on: lists hold only doomed partitions,
\* and no row comes from the future.
DropInv ==
    /\ now \in Nat /\ now >= StartTime
    /\ created \subseteq Nat
    /\ storedRows \subseteq Nat /\ \A r \in storedRows : r <= now
    /\ parts \subseteq Partition
    /\ todo \in [PassNodes -> SUBSET Partition]
    /\ \A n \in PassNodes : \A p \in todo[n] : Doomed(p.day)
    /\ lost \subseteq [at: Nat, when: Nat]
    /\ KeptAlmostRetention

\* Days and the instants they contain: the arithmetic of midnight.
LEMMA DayBounds ==
    ASSUME NEW t \in Nat
    PROVE  /\ Day(t) \in Nat
           /\ Day(t) * DayLength <= t
           /\ t < Day(t) * DayLength + DayLength
<1>1. DayLength \in Nat /\ DayLength > 0 BY ClockAssumption
<1> QED BY <1>1 DEF Day

\* The ensured days are natural numbers, on clocks that lag by at most Skew.
LEMMA EnsuredNat ==
    ASSUME now \in Nat, now >= StartTime, NEW t \in Clocks
    PROVE  t \in Nat /\ t <= now + Skew /\ EnsuredDays(t) \subseteq Nat
<1>1. t \in Nat /\ t <= now + Skew BY ClockAssumption DEF Clocks
<1>2. Day(t) \in Nat BY <1>1, DayBounds
<1> QED BY <1>1, <1>2, ClockAssumption DEF EnsuredDays

\* The arithmetic of a drop: the rows of a doomed partition are at least
\* RetentionDays - 1 days old, up to the skew of the clock that doomed it.
LEMMA DoomedIsOld ==
    ASSUME now \in Nat, NEW r \in Nat, Doomed(Day(r))
    PROVE  now - r > (RetentionDays - 1) * DayLength - Skew
<1>1. Day(r) \in Nat /\ r < Day(r) * DayLength + DayLength BY DayBounds
<1>2. PICK k \in Int : k = Day(r) * DayLength BY <1>1, ClockAssumption
<1>3. PICK q \in Int : q = RetentionDays * DayLength BY ClockAssumption
<1>4. (RetentionDays - 1) * DayLength = q - DayLength BY <1>3, ClockAssumption
<1>5. k < now + Skew - q BY <1>2, <1>3 DEF Doomed
<1>6. r < k + DayLength BY <1>1, <1>2
<1> QED BY <1>4, <1>5, <1>6, ClockAssumption

\* The state EnsureSchema leaves behind satisfies the invariant.
LEMMA DropInvInit == PartInit => DropInv
<1>1. SUFFICES ASSUME PartInit PROVE DropInv OBVIOUS
<1>2. StartTime \in Nat BY ClockAssumption
<1>3. Day(StartTime) \in Nat BY <1>2, DayBounds
<1>4. EnsuredDays(StartTime) \subseteq Nat
  BY <1>2, <1>3, ClockAssumption DEF EnsuredDays
<1>5. parts \subseteq Partition
  BY <1>1, <1>4, UserAssumption DEF PartInit, Own, Partition, Names
<1> QED BY <1>1, <1>2, <1>4, <1>5 DEF PartInit, DropInv, KeptAlmostRetention

\* Every step keeps the invariant: only ListPartitions adds to a list, only
\* DropPartition loses rows, and the clock moves one way.
LEMMA DropInvStep == DropInv /\ [PartNext]_partVars => DropInv'
<1>1. SUFFICES ASSUME DropInv, [PartNext]_partVars PROVE DropInv'
  OBVIOUS
<1> USE ClockAssumption
<1>2. CASE UNCHANGED partVars
  BY <1>1, <1>2 DEF DropInv, Doomed, KeptAlmostRetention, partVars
<1>3. ASSUME NEW n \in PassNodes, EnsureLookaheadPartitions(n) PROVE DropInv'
  <2>1. PICK t \in Clocks : \E days \in SUBSET EnsuredDays(t) :
          parts' = parts \cup {Own(d) : d \in days} /\ created' = created \cup days
    BY <1>3 DEF EnsureLookaheadPartitions
  <2>2. EnsuredDays(t) \subseteq Nat BY <1>1, <2>1, EnsuredNat DEF DropInv
  <2>3. parts' \subseteq Partition /\ created' \subseteq Nat
    <3>1. PICK days \in SUBSET EnsuredDays(t) :
            parts' = parts \cup {Own(d) : d \in days} /\ created' = created \cup days
      BY <2>1
    <3>2. days \subseteq Nat BY <2>2, <3>1
    <3>3. \A d \in days : Own(d) \in Partition BY <3>2 DEF Own, Partition, Names
    <3> QED BY <1>1, <3>1, <3>2, <3>3 DEF DropInv
  <2>4. UNCHANGED <<now, storedRows, todo, lost>> BY <1>3 DEF EnsureLookaheadPartitions
  <2> QED BY <1>1, <2>3, <2>4 DEF DropInv, Doomed, KeptAlmostRetention
<1>4. ASSUME NEW n \in PassNodes, ListPartitions(n) PROVE DropInv'
  <2>1. UNCHANGED <<now, parts, storedRows, created, lost>> BY <1>4 DEF ListPartitions
  <2>2. CASE UNCHANGED todo
    BY <1>1, <2>1, <2>2 DEF DropInv, Doomed, KeptAlmostRetention
  <2>3. ASSUME NEW t \in Clocks,
               todo' = [todo EXCEPT ![n] = {p \in parts : RetentionDays > 0 /\ Old(p, t)}]
        PROVE  DropInv'
    <3>1. t \in Nat /\ t <= now + Skew BY <1>1, EnsuredNat DEF DropInv
    <3>2. ASSUME NEW p \in parts, RetentionDays > 0, Old(p, t) PROVE Doomed(p.day)
      <4>1. p.day \in Nat BY <1>1 DEF DropInv, Partition
      <4>2. PICK k \in Int : k = p.day * DayLength BY <4>1
      <4>3. PICK q \in Int : q = RetentionDays * DayLength OBVIOUS
      <4>4. k < t - q BY <3>2, <4>2, <4>3 DEF Old, Cutoff
      <4>5. k < now + Skew - q BY <1>1, <3>1, <4>4 DEF DropInv
      <4> QED BY <3>2, <4>2, <4>3, <4>5 DEF Doomed
    <3>3. todo' \in [PassNodes -> SUBSET Partition] BY <1>1, <2>3 DEF DropInv
    <3>4. \A m \in PassNodes : \A p \in todo'[m] : Doomed(p.day)
      BY <1>1, <2>3, <3>2 DEF DropInv
    <3>5. \A m \in PassNodes : \A p \in todo'[m] : Doomed(p.day)'
      BY <2>1, <3>4 DEF Doomed
    <3> QED BY <1>1, <2>1, <3>3, <3>5 DEF DropInv, KeptAlmostRetention
  <2> QED BY <1>4, <2>2, <2>3 DEF ListPartitions
<1>5. ASSUME NEW n \in PassNodes, NEW p \in todo[n], DropPartition(n, p) PROVE DropInv'
  <2>1. /\ UNCHANGED <<now, created>>
        /\ todo' = [todo EXCEPT ![n] = @ \ {p}]
    BY <1>5 DEF DropPartition
  <2>2. /\ todo' \in [PassNodes -> SUBSET Partition]
        /\ \A m \in PassNodes : \A x \in todo'[m] : Doomed(x.day)'
    BY <1>1, <2>1 DEF DropInv, Doomed
  <2>3. parts' \subseteq Partition /\ storedRows' \subseteq storedRows
    BY <1>1, <1>5 DEF DropInv, DropPartition
  <2>4. CASE UNCHANGED lost
    BY <1>1, <2>1, <2>2, <2>3, <2>4 DEF DropInv, KeptAlmostRetention
  <2>5. CASE /\ storedRows' = {r \in storedRows : Day(r) # p.day \/ p \notin parts}
             /\ lost' = lost \cup {[at |-> r, when |-> now] : r \in storedRows \ storedRows'}
    <3>1. Doomed(p.day) BY <1>1, <1>5 DEF DropInv
    <3>2. ASSUME NEW r \in storedRows \ storedRows'
          PROVE  r \in Nat /\ now - r > (RetentionDays - 1) * DayLength - Skew
      <4>1. r \in Nat /\ Day(r) = p.day BY <1>1, <2>5, <3>2 DEF DropInv
      <4> QED BY <1>1, <3>1, <4>1, DoomedIsOld DEF DropInv
    <3>3. now \in Nat BY <1>1 DEF DropInv
    <3>4. lost' \subseteq [at: Nat, when: Nat]
      BY <1>1, <2>5, <3>2, <3>3 DEF DropInv
    <3>5. \A x \in lost' : x.when - x.at > (RetentionDays - 1) * DayLength - Skew
      BY <1>1, <2>5, <3>2 DEF DropInv, KeptAlmostRetention
    <3> QED BY <1>1, <2>1, <2>2, <2>3, <3>4, <3>5 DEF DropInv, KeptAlmostRetention
  <2> QED BY <1>5, <2>4, <2>5 DEF DropPartition
<1>6. ASSUME NEW n \in PassNodes, EndPass(n) PROVE DropInv'
  BY <1>1, <1>6 DEF EndPass, DropInv, Doomed, KeptAlmostRetention
<1>7. CASE InsertRow
  BY <1>1, <1>7 DEF InsertRow, DropInv, Doomed, KeptAlmostRetention
<1>8. CASE Tick
  <2>1. now' = now + 1 /\ UNCHANGED <<parts, storedRows, todo, created, lost>>
    BY <1>8 DEF Tick
  <2>2. ASSUME NEW d \in Nat, Doomed(d) PROVE Doomed(d)'
    <3>1. PICK k \in Int : k = d * DayLength OBVIOUS
    <3>2. PICK q \in Int : q = RetentionDays * DayLength OBVIOUS
    <3> QED BY <1>1, <2>1, <2>2, <3>1, <3>2 DEF Doomed, DropInv
  <2>3. \A m \in PassNodes : \A x \in todo'[m] : x.day \in Nat /\ Doomed(x.day)
    BY <1>1, <2>1 DEF DropInv, Partition
  <2>4. \A m \in PassNodes : \A x \in todo'[m] : Doomed(x.day)'
    BY <2>2, <2>3
  <2> QED BY <1>1, <2>1, <2>4 DEF DropInv, KeptAlmostRetention
<1> QED BY <1>1, <1>2, <1>3, <1>4, <1>5, <1>6, <1>7, <1>8 DEF PartNext, Pass

\* The invariant of the dropping passes holds in every reachable state.
THEOREM DropInvAlways == PartSpec => []DropInv
BY DropInvInit, DropInvStep, PTL DEF PartSpec

\* DropOldPartitions never takes a row younger than RetentionDays - 1 days, up
\* to the skew of the nodes' clocks.
THEOREM RetentionFloor == PartSpec => []KeptAlmostRetention
<1>1. DropInv => KeptAlmostRetention BY DEF DropInv
<1> QED BY DropInvAlways, <1>1, PTL

\* A configuration without a retention ("lookahead only, never drop") keeps
\* every partition a pass has created: no list is ever filled.
THEOREM NeverDropped == PartSpec => []ZeroRetentionKeepsAll
<1>1. PartInit => ZeroRetentionKeepsAll BY DEF PartInit, ZeroRetentionKeepsAll
<1>2. ASSUME DropInv, ZeroRetentionKeepsAll, [PartNext]_partVars PROVE ZeroRetentionKeepsAll'
  <2> SUFFICES ASSUME RetentionDays <= 0 PROVE \A d \in created' : Own(d) \in parts'
    BY DEF ZeroRetentionKeepsAll
  <2>1. \A d \in created : Own(d) \in parts BY <1>2 DEF ZeroRetentionKeepsAll
  <2>2. CASE UNCHANGED <<parts, created>> BY <2>1, <2>2
  <2>3. ASSUME NEW n \in PassNodes, EnsureLookaheadPartitions(n)
        PROVE  \A d \in created' : Own(d) \in parts'
    BY <2>1, <2>3 DEF EnsureLookaheadPartitions
  <2>4. ASSUME NEW n \in PassNodes, NEW p \in todo[n], DropPartition(n, p) PROVE FALSE
    BY <1>2, <2>4, ClockAssumption DEF DropInv, Doomed
  <2> QED
    BY <1>2, <2>2, <2>3, <2>4
    DEF PartNext, Pass, ListPartitions, EndPass, InsertRow, Tick, partVars
<1> QED BY DropInvAlways, <1>1, <1>2, PTL DEF PartSpec

\* The clock skew a retention tolerates: with one day, only none at all.
TolerableSkew == Skew <= (RetentionDays - 1) * DayLength

\* The arithmetic of the lookahead: today and later days are not doomed.
LEMMA TodayNotDoomed ==
    ASSUME TolerableSkew, now \in Nat, NEW d \in Nat, d >= Day(now)
    PROVE  ~Doomed(d)
<1>1. Day(now) \in Nat /\ now < Day(now) * DayLength + DayLength BY DayBounds
<1>2. DayLength \in Nat /\ Skew \in Nat /\ RetentionDays \in Int BY ClockAssumption
<1>3. d * DayLength >= Day(now) * DayLength BY <1>1, <1>2
<1>4. PICK k \in Int : k = d * DayLength BY <1>2
<1>5. PICK j \in Int : j = Day(now) * DayLength BY <1>1, <1>2
<1>6. PICK q \in Int : q = RetentionDays * DayLength BY <1>2
<1>7. (RetentionDays - 1) * DayLength = q - DayLength BY <1>2, <1>6
<1>8. k >= j /\ now < j + DayLength /\ Skew <= q - DayLength
  BY <1>1, <1>3, <1>4, <1>5, <1>7 DEF TolerableSkew
<1>9. ~(k < now + Skew - q) BY <1>2, <1>8
<1> QED BY <1>4, <1>6, <1>9 DEF Doomed

\* Days stay over: what is today or later now was so before.
LEMMA DayMonotone ==
    ASSUME now \in Nat PROVE Day(now + 1) >= Day(now)
<1>1. DayLength \in Nat /\ DayLength > 0 BY ClockAssumption
<1>2. /\ Day(now) \in Nat /\ Day(now + 1) \in Nat
      /\ Day(now) * DayLength <= now
      /\ now + 1 < Day(now + 1) * DayLength + DayLength
  BY DayBounds
<1>3. SUFFICES ASSUME Day(now + 1) + 1 <= Day(now) PROVE FALSE
  BY <1>2
<1>4. (Day(now + 1) + 1) * DayLength <= Day(now) * DayLength
  BY <1>1, <1>2, <1>3
<1>5. (Day(now + 1) + 1) * DayLength = Day(now + 1) * DayLength + DayLength
  BY <1>1, <1>2
<1>6. PICK a \in Int : a = Day(now + 1) * DayLength BY <1>1, <1>2
<1>7. PICK b \in Int : b = Day(now) * DayLength BY <1>1, <1>2
<1>8. b <= now /\ now + 1 < a + DayLength /\ a + DayLength <= b
  BY <1>2, <1>4, <1>5, <1>6, <1>7
<1> QED BY <1>1, <1>8

\* A partition created for today or later is still there when its day comes:
\* no interleaving of passes drops it, if clocks are within the tolerable skew.
THEOREM LookaheadSafe == TolerableSkew /\ PartSpec => []LookaheadKept
<1> SUFFICES ASSUME TolerableSkew PROVE PartSpec => []LookaheadKept
  OBVIOUS
<1>1. PartInit => LookaheadKept
  BY DEF PartInit, LookaheadKept
<1>2. ASSUME DropInv, LookaheadKept, [PartNext]_partVars PROVE LookaheadKept'
  <2> USE DEF LookaheadKept
  <2>1. CASE UNCHANGED partVars BY <1>2, <2>1 DEF partVars
  <2>2. ASSUME NEW n \in PassNodes, EnsureLookaheadPartitions(n) PROVE LookaheadKept'
    BY <1>2, <2>2 DEF EnsureLookaheadPartitions
  <2>3. ASSUME NEW n \in PassNodes, ListPartitions(n) PROVE LookaheadKept'
    BY <1>2, <2>3 DEF ListPartitions
  <2>4. ASSUME NEW n \in PassNodes, NEW p \in todo[n], DropPartition(n, p) PROVE LookaheadKept'
    <3>1. UNCHANGED <<now, created>> /\ (UNCHANGED parts \/ parts' = parts \ {p})
      BY <2>4 DEF DropPartition
    <3>2. Doomed(p.day) BY <1>2, <2>4 DEF DropInv
    <3>3. ASSUME NEW d \in created, d >= Day(now) PROVE Own(d) # p
      <4>1. d \in Nat /\ ~Doomed(d) BY <1>2, <3>3, TodayNotDoomed DEF DropInv
      <4> QED BY <3>2, <4>1 DEF Own
    <3> QED BY <1>2, <3>1, <3>3
  <2>5. ASSUME NEW n \in PassNodes, EndPass(n) PROVE LookaheadKept'
    BY <1>2, <2>5 DEF EndPass
  <2>6. CASE InsertRow BY <1>2, <2>6 DEF InsertRow
  <2>7. CASE Tick
    <3>1. now \in Nat /\ now' = now + 1 /\ UNCHANGED <<parts, created>>
      BY <1>2, <2>7 DEF Tick, DropInv
    <3>2. Day(now + 1) >= Day(now) /\ Day(now) \in Nat /\ Day(now + 1) \in Nat
      BY <3>1, DayMonotone, DayBounds
    <3>3. created \subseteq Nat BY <1>2 DEF DropInv
    <3>4. \A d \in created : d >= Day(now + 1) => d >= Day(now) BY <3>2, <3>3
    <3> QED BY <1>2, <3>1, <3>4
  <2> QED BY <1>2, <2>1, <2>2, <2>3, <2>4, <2>5, <2>6, <2>7 DEF PartNext, Pass
<1> QED BY DropInvAlways, <1>1, <1>2, PTL DEF PartSpec

\* Where a pass of runPartitionWorker is: only one that has listed has
\* partitions left to drop, and the errors stay within their bound.
PassInv ==
    /\ errors \in 0 .. MaxErrors
    /\ passPc \in [PassNodes -> {"tick", "list", "drop"}]
    /\ \A n \in PassNodes : todo[n] # {} => passPc[n] = "drop"

\* Every step of a pass keeps its place and its list consistent.
LEMMA PassInvStep == DropInv /\ PassInv /\ [PartNext]_partVars => PassInv'
<1> SUFFICES ASSUME DropInv, PassInv, [PartNext]_partVars PROVE PassInv'
  OBVIOUS
<1> USE ClockAssumption DEF PassInv, DropInv, Error
<1>1. CASE UNCHANGED partVars BY <1>1 DEF partVars
<1>2. ASSUME NEW n \in PassNodes, EnsureLookaheadPartitions(n) PROVE PassInv'
  <2>1. /\ passPc' = [passPc EXCEPT ![n] = "list"] /\ passPc[n] = "tick" /\ UNCHANGED todo
        /\ UNCHANGED errors \/ (errors < MaxErrors /\ errors' = errors + 1)
    BY <1>2 DEF EnsureLookaheadPartitions
  <2> QED BY <2>1
<1>3. ASSUME NEW n \in PassNodes, ListPartitions(n) PROVE PassInv'
  <2>1. passPc[n] = "list" /\ \A m \in PassNodes \ {n} : todo'[m] = todo[m]
    BY <1>3 DEF ListPartitions
  <2>2. \/ passPc' = [passPc EXCEPT ![n] = "drop"] /\ UNCHANGED errors
        \/ /\ passPc' = [passPc EXCEPT ![n] = "tick"] /\ UNCHANGED todo
           /\ errors < MaxErrors /\ errors' = errors + 1
    BY <1>3 DEF ListPartitions
  <2> QED BY <2>1, <2>2
<1>4. ASSUME NEW n \in PassNodes, NEW p \in todo[n], DropPartition(n, p) PROVE PassInv'
  <2>1. /\ passPc[n] = "drop" /\ UNCHANGED passPc /\ todo' = [todo EXCEPT ![n] = @ \ {p}]
        /\ UNCHANGED errors \/ (errors < MaxErrors /\ errors' = errors + 1)
    BY <1>4 DEF DropPartition
  <2> QED BY <2>1
<1>5. ASSUME NEW n \in PassNodes, EndPass(n) PROVE PassInv'
  BY <1>5 DEF EndPass
<1>6. CASE InsertRow \/ Tick BY <1>6 DEF InsertRow, Tick
<1> QED BY <1>1, <1>2, <1>3, <1>4, <1>5, <1>6 DEF PartNext, Pass

\* What the runs check of the passes together, for every day length, retention,
\* lookahead and number of nodes whose clocks are within the tolerable skew.
THEOREM PartitionSafety == TolerableSkew /\ PartSpec => []PartitionsKept
<1> SUFFICES ASSUME TolerableSkew PROVE PartSpec => []PartitionsKept
  OBVIOUS
<1>1. PartInit => PassInv BY ClockAssumption DEF PartInit, PassInv
<1>2. DropInv /\ PassInv => PartTypeOK BY DEF DropInv, PassInv, PartTypeOK
<1>3. PartSpec => []LookaheadKept BY LookaheadSafe
<1> QED BY DropInvAlways, PassInvStep, RetentionFloor, <1>1, <1>2, <1>3, PTL
        DEF PartSpec, PartitionsKept

-----------------------------------------------------------------------------
(* The outbox consumer: at least once, by one worker at a time.            *)

\* A worker carries events and ids only between its select and its commit, so
\* that a transaction begins with nothing in hand.
CleanBegin ==
    \A w \in ConsumerNodes : consumerPc[w] \notin {"dispatch", "commit"} => events[w] = {} /\ ids[w] = {}

\* The lock is held by a worker inside processOnce.
HolderIsInside == \A w \in ConsumerNodes : lock = w => consumerPc[w] \in {"select", "dispatch", "commit"}

\* What a worker is going to delete has been dispatched.
MarkedWasDispatched == \A w \in ConsumerNodes : ids[w] \subseteq dispatched

ConsumerInv ==
    /\ ConsumerTypeOK /\ CleanBegin /\ HolderIsInside
    /\ MarkedWasDispatched /\ DeletedWasDispatched /\ HolderIsFresh

LEMMA ConsumerInvInit == ConsumerInit => ConsumerInv
  BY PostgresAssumption DEF ConsumerInit, ConsumerInv, ConsumerTypeOK, CleanBegin, HolderIsInside,
     MarkedWasDispatched, DeletedWasDispatched, HolderIsFresh, Ids

\* The type invariant is preserved by every action: a commit moves ids from
\* rows to deleted because the holder's ids are in the table.
LEMMA ConsumerTypeStep == ConsumerTypeOK /\ HolderIsFresh /\ [ConsumerNext]_consumerVars => ConsumerTypeOK'
<1> SUFFICES ASSUME ConsumerTypeOK, HolderIsFresh, [ConsumerNext]_consumerVars PROVE ConsumerTypeOK'
  OBVIOUS
<1> USE PostgresAssumption DEF ConsumerTypeOK, Ids, tableVars, ConsumerGoto, ConsumerFault
<1>1. CASE InsertMessage
  BY <1>1 DEF InsertMessage
<1>2. ASSUME NEW i \in Ids, EndInsert(i) PROVE ConsumerTypeOK'
  BY <1>2 DEF EndInsert
<1>3. ASSUME NEW w \in ConsumerNodes, WorkerStep(w) PROVE ConsumerTypeOK'
  <2>1. CASE TakeLock(w) BY <2>1 DEF TakeLock
  <2>2. CASE LockNotAcquired(w) BY <2>2 DEF LockNotAcquired
  <2>3. CASE Select(w) BY <2>3 DEF Select, SelectRows
  <2>4. CASE DispatchMessage(w) BY <2>4 DEF DispatchMessage
  <2>5. CASE DispatchedAll(w) BY <2>5 DEF DispatchedAll
  <2>6. CASE CommitTx(w)
    <3>1. AfterCommit(w) \in {"begin", "wait", "backoff"}
      BY DEF AfterCommit
    <3> QED BY <2>6, <3>1 DEF CommitTx, EndTx, HolderIsFresh
  <2>7. CASE FindOut(w) BY <2>7 DEF FindOut, EndTx
  <2>8. CASE WakeConsumer(w) BY <2>8 DEF WakeConsumer
  <2> QED BY <1>3, <2>1, <2>2, <2>3, <2>4, <2>5, <2>6, <2>7, <2>8 DEF WorkerStep
<1>4. ASSUME NEW w \in ConsumerNodes, DispatchError(w) PROVE ConsumerTypeOK'
  BY <1>4 DEF DispatchError
<1>5. ASSUME NEW w \in ConsumerNodes, CommitUnknown(w) PROVE ConsumerTypeOK'
  <2>1. ids[w] \subseteq consumerRows
    BY <1>5 DEF CommitUnknown, HolderIsFresh
  <2>2. deleted' \subseteq Ids \ (inserting \cup consumerRows)' /\ consumerRows' \subseteq consumerRows
    BY <1>5, <2>1 DEF CommitUnknown
  <2>3. \A i \in (inserting \cup consumerRows \cup deleted)' : i < nextId'
    BY <1>5, <2>1 DEF CommitUnknown
  <2>4. consumerFaults' \in 0 .. MaxConsumerFaults
    BY <1>5 DEF CommitUnknown
  <2>5. /\ events' \in [ConsumerNodes -> SUBSET Ids] /\ ids' \in [ConsumerNodes -> SUBSET Ids]
        /\ lock' \in ConsumerNodes \cup {NoNode}
    BY <1>5 DEF CommitUnknown, EndTx
  <2>6. consumerPc' \in [ConsumerNodes -> {"begin", "select", "dispatch", "commit", "wait", "backoff", "stopped"}]
    BY <1>5 DEF CommitUnknown
  <2>7. UNCHANGED <<nextId, inserting, dispatched>>
    BY <1>5 DEF CommitUnknown
  <2> QED BY <2>2, <2>3, <2>4, <2>5, <2>6, <2>7
<1>6. ASSUME NEW w \in ConsumerNodes, StatementError(w) PROVE ConsumerTypeOK'
  BY <1>6 DEF StatementError, EndTx
<1>7. ASSUME NEW w \in ConsumerNodes, ConsumerSessionEnds(w) PROVE ConsumerTypeOK'
  BY <1>7 DEF ConsumerSessionEnds
<1>8. ASSUME NEW w \in ConsumerNodes, StopConsumer(w) PROVE ConsumerTypeOK'
  BY <1>8 DEF StopConsumer, EndTx
<1>9. CASE UNCHANGED consumerVars
  BY <1>9 DEF consumerVars
<1> QED BY <1>1, <1>2, <1>3, <1>4, <1>5, <1>6, <1>7, <1>8, <1>9 DEF ConsumerNext

\* The other parts of the inductive invariant.
LEMMA ConsumerInvStep == ConsumerInv /\ [ConsumerNext]_consumerVars => ConsumerInv'
<1> SUFFICES ASSUME ConsumerInv, [ConsumerNext]_consumerVars PROVE ConsumerInv'
  OBVIOUS
<1>0. ConsumerTypeOK'
  BY ConsumerTypeStep DEF ConsumerInv
<1> DEFINE Rest == /\ CleanBegin /\ HolderIsInside
                   /\ MarkedWasDispatched /\ DeletedWasDispatched /\ HolderIsFresh
<1> SUFFICES Rest'
  BY <1>0 DEF ConsumerInv
<1> USE PostgresAssumption DEF ConsumerInv, ConsumerTypeOK, CleanBegin, HolderIsInside, MarkedWasDispatched,
        DeletedWasDispatched, HolderIsFresh, tableVars, ConsumerGoto
<1>1. CASE InsertMessage
  BY <1>1 DEF InsertMessage
<1>2. ASSUME NEW i \in Ids, EndInsert(i) PROVE Rest'
  BY <1>2 DEF EndInsert
<1>3. ASSUME NEW w \in ConsumerNodes, WorkerStep(w) PROVE Rest'
  <2>1. CASE TakeLock(w) BY <2>1 DEF TakeLock
  <2>2. CASE LockNotAcquired(w) BY <2>2 DEF LockNotAcquired
  <2>3. CASE Select(w)
    <3>1. SelectRows \subseteq consumerRows
      BY DEF SelectRows
    <3> QED BY <2>3, <3>1 DEF Select
  <2>4. CASE DispatchMessage(w) BY <2>4 DEF DispatchMessage
  <2>5. CASE DispatchedAll(w) BY <2>5 DEF DispatchedAll
  <2>6. CASE CommitTx(w)
    <3>1. AfterCommit(w) \in {"begin", "wait", "backoff"}
      BY DEF AfterCommit
    <3> QED BY <2>6, <3>1 DEF CommitTx, EndTx
  <2>7. CASE FindOut(w) BY <2>7 DEF FindOut, EndTx
  <2>8. CASE WakeConsumer(w) BY <2>8 DEF WakeConsumer
  <2> QED BY <1>3, <2>1, <2>2, <2>3, <2>4, <2>5, <2>6, <2>7, <2>8 DEF WorkerStep
<1>4. ASSUME NEW w \in ConsumerNodes, DispatchError(w) PROVE Rest'
  BY <1>4 DEF DispatchError
<1>5. ASSUME NEW w \in ConsumerNodes, CommitUnknown(w) PROVE Rest'
  BY <1>5 DEF CommitUnknown, EndTx
<1>6. ASSUME NEW w \in ConsumerNodes, StatementError(w) PROVE Rest'
  BY <1>6 DEF StatementError, EndTx
<1>7. ASSUME NEW w \in ConsumerNodes, ConsumerSessionEnds(w) PROVE Rest'
  BY <1>7 DEF ConsumerSessionEnds
<1>8. ASSUME NEW w \in ConsumerNodes, StopConsumer(w) PROVE Rest'
  BY <1>8 DEF StopConsumer, EndTx
<1>9. CASE UNCHANGED consumerVars
  BY <1>9 DEF consumerVars
<1> QED BY <1>1, <1>2, <1>3, <1>4, <1>5, <1>6, <1>7, <1>8, <1>9 DEF ConsumerNext

LEMMA ConsumerInvAlways == ConsumerSpec => []ConsumerInv
  BY ConsumerInvInit, ConsumerInvStep, PTL DEF ConsumerSpec

\* Whatever fails between dispatch and commit, and however many nodes share
\* the partition, no row is deleted that was not dispatched.
THEOREM AtLeastOnce == ConsumerSpec => []DeletedWasDispatched
<1>1. ConsumerInv => DeletedWasDispatched
  BY DEF ConsumerInv
<1> QED BY <1>1, ConsumerInvAlways, PTL

\* The rows in the hands of the worker whose transaction holds the advisory
\* lock are all still in the table.
THEOREM HolderFresh == ConsumerSpec => []HolderIsFresh
<1>1. ConsumerInv => HolderIsFresh
  BY DEF ConsumerInv
<1> QED BY <1>1, ConsumerInvAlways, PTL

\* What the runs check of the workers of one partition together, for any number
\* of nodes, rows, faults and any select limit.
THEOREM ConsumerSafety == ConsumerSpec => []ConsumerSafe
<1>1. ConsumerInv => ConsumerSafe
  BY DEF ConsumerInv, ConsumerSafe
<1> QED BY <1>1, ConsumerInvAlways, PTL

\* What a worker has selected is or was in the table, also when its session
\* has ended and another worker deletes the same rows.
SelectedWasSent == \A w \in ConsumerNodes : events[w] \subseteq consumerRows \cup deleted

\* Rows enter the table and move to the deleted ones; nothing else happens to
\* them.
LEMMA SelectedStep ==
  ConsumerInv /\ SelectedWasSent /\ [ConsumerNext]_consumerVars => SelectedWasSent'
<1> SUFFICES ASSUME ConsumerInv, SelectedWasSent, [ConsumerNext]_consumerVars PROVE SelectedWasSent'
  OBVIOUS
<1>t. events = [w \in ConsumerNodes |-> events[w]]
  BY DEF ConsumerInv, ConsumerTypeOK
<1>1. consumerRows \cup deleted \subseteq consumerRows' \cup deleted'
  BY DEF ConsumerNext, consumerVars, tableVars, InsertMessage, EndInsert, WorkerStep, TakeLock,
         LockNotAcquired, Select, DispatchMessage, DispatchedAll, CommitTx, FindOut, WakeConsumer,
         DispatchError, CommitUnknown, StatementError, ConsumerSessionEnds, StopConsumer
<1>2. \/ events' = events
      \/ \E w \in ConsumerNodes : \E S \in SUBSET (consumerRows \cup events[w]) : events' = [events EXCEPT ![w] = S]
  <2>1. ASSUME NEW w \in ConsumerNodes, EndTx(w)
        PROVE  \E S \in SUBSET (consumerRows \cup events[w]) : events' = [events EXCEPT ![w] = S]
    BY <2>1 DEF EndTx
  <2>2. ASSUME NEW w \in ConsumerNodes, Select(w)
        PROVE  \E S \in SUBSET (consumerRows \cup events[w]) : events' = [events EXCEPT ![w] = S]
    BY <2>2 DEF Select, SelectRows
  <2>3. ASSUME NEW w \in ConsumerNodes, DispatchMessage(w)
        PROVE  \E S \in SUBSET (consumerRows \cup events[w]) : events' = [events EXCEPT ![w] = S]
    <3>1. PICK i \in events[w] : events' = [events EXCEPT ![w] = @ \ {i}]
      BY <2>3 DEF DispatchMessage
    <3> QED BY <3>1
  <2> QED
    BY <2>1, <2>2, <2>3 DEF ConsumerNext, consumerVars, InsertMessage, EndInsert, WorkerStep, TakeLock,
       LockNotAcquired, DispatchedAll, CommitTx, FindOut, WakeConsumer, DispatchError, CommitUnknown,
       StatementError, ConsumerSessionEnds, StopConsumer
<1> QED BY <1>t, <1>1, <1>2 DEF SelectedWasSent

\* A step of the workers is one of the queue or leaves it alone.
LEMMA ConsumerCommandStep ==
  ASSUME ConsumerInv, SelectedWasSent, [ConsumerNext]_consumerVars
  PROVE  [ConsumerCommands!Next]_(ConsumerCommands!commandVars)
<1> SUFFICES ConsumerCommands!Next \/ UNCHANGED <<consumerRows \cup deleted, dispatched, deleted>>
  BY DEF ConsumerCommands!commandVars
<1>1. CASE UNCHANGED <<consumerRows, deleted, dispatched>>
  BY <1>1
<1>2. ASSUME NEW i \in Ids, EndInsert(i) PROVE ConsumerCommands!Enqueue
  BY <1>2 DEF EndInsert, ConsumerCommands!Enqueue
<1>3. ASSUME NEW w \in ConsumerNodes, NEW i \in events[w], dispatched' = dispatched \cup {i},
             UNCHANGED <<consumerRows, deleted>>
      PROVE  ConsumerCommands!Process
  BY <1>3 DEF SelectedWasSent, ConsumerCommands!Process
<1>4. ASSUME NEW w \in ConsumerNodes, lock = w, consumerRows' = consumerRows \ ids[w],
             deleted' = deleted \cup ids[w], dispatched' = dispatched
      PROVE  ConsumerCommands!Settle
  <2>1. ids[w] \subseteq consumerRows /\ ids[w] \subseteq dispatched /\ deleted \subseteq dispatched
    BY <1>4 DEF ConsumerInv, HolderIsFresh, MarkedWasDispatched, DeletedWasDispatched
  <2> QED BY <1>4, <2>1 DEF ConsumerCommands!Settle
<1>5. ASSUME NEW w \in ConsumerNodes, DispatchMessage(w) PROVE ConsumerCommands!Process
  BY <1>3, <1>5 DEF DispatchMessage, tableVars
<1>6. ASSUME NEW w \in ConsumerNodes, DispatchError(w)
      PROVE  ConsumerCommands!Process \/ UNCHANGED <<consumerRows, deleted, dispatched>>
  BY <1>3, <1>6 DEF DispatchError, tableVars
<1>7. ASSUME NEW w \in ConsumerNodes, CommitTx(w) \/ CommitUnknown(w) PROVE ConsumerCommands!Settle
  BY <1>4, <1>7 DEF CommitTx, CommitUnknown
<1>8. ASSUME NEW w \in ConsumerNodes,
             \/ TakeLock(w) \/ LockNotAcquired(w) \/ Select(w) \/ DispatchedAll(w) \/ FindOut(w)
             \/ WakeConsumer(w) \/ StatementError(w) \/ ConsumerSessionEnds(w) \/ StopConsumer(w)
      PROVE  UNCHANGED <<consumerRows, deleted, dispatched>>
  BY <1>8 DEF TakeLock, LockNotAcquired, Select, DispatchedAll, FindOut, WakeConsumer, StatementError,
              ConsumerSessionEnds, StopConsumer, tableVars
<1>9. CASE InsertMessage \/ UNCHANGED consumerVars
  BY <1>1, <1>9 DEF InsertMessage, consumerVars, tableVars
<1> QED BY <1>1, <1>2, <1>5, <1>6, <1>7, <1>8, <1>9 DEF ConsumerNext, WorkerStep, ConsumerCommands!Next

\* The workers of a partition implement the abstract queue of commands, for
\* any number of nodes, rows and faults: only a row that became visible is
\* dispatched, and one is gone for good only after its dispatch, although a
\* worker that lost its session goes on dispatching what another one deletes.
THEOREM TableImplementsQueue == ConsumerSpec => ConsumerImplementsQueue
<1>1. ConsumerInit => ConsumerCommands!Init /\ SelectedWasSent
  BY DEF ConsumerInit, ConsumerCommands!Init, SelectedWasSent
<1>2. ConsumerSpec => []SelectedWasSent
  BY ConsumerInvAlways, SelectedStep, <1>1, PTL DEF ConsumerSpec
<1>3. ConsumerSpec => [][ConsumerCommands!Next]_(ConsumerCommands!commandVars)
  BY ConsumerInvAlways, ConsumerCommandStep, <1>2, PTL DEF ConsumerSpec
<1> QED BY <1>1, <1>3, PTL DEF ConsumerSpec, ConsumerImplementsQueue, ConsumerCommands!Spec

-----------------------------------------------------------------------------
(* Wakeups of the outbox worker.                                           *)

LEMMA NotifyTypesNext == ASSUME NotifyTypeOK, [NotifyNext]_notifyVars PROVE NotifyTypeOK'
<1> USE RowsAssumption DEF NotifyTypeOK, rowVars, workerVars, listenerVars, NotifyFault
<1>1. CASE Listen
  BY <1>1 DEF Listen
<1>2. CASE ListenError
  BY <1>2 DEF ListenError
<1>3. CASE Receive
  BY <1>3 DEF Receive
<1>4. CASE WaitError
  BY <1>4 DEF WaitError
<1>5. CASE Backoff
  BY <1>5 DEF Backoff
<1>6. ASSUME NEW w \in Workers, CommitRow(w) PROVE NotifyTypeOK'
  BY <1>6 DEF CommitRow
<1>7. ASSUME NEW w \in Workers, ProcessBatch(w) PROVE NotifyTypeOK'
  BY <1>7 DEF ProcessBatch
<1>8. ASSUME NEW w \in Workers, ProcessNothing(w) PROVE NotifyTypeOK'
  BY <1>8 DEF ProcessNothing, DrainEnds
<1>9. ASSUME NEW w \in Workers, ProcessError(w) PROVE NotifyTypeOK'
  BY <1>9 DEF ProcessError, DrainEnds
<1>10. ASSUME NEW w \in Workers, WakeBySignal(w) PROVE NotifyTypeOK'
  BY <1>10 DEF WakeBySignal
<1>11. ASSUME NEW w \in Workers, WakeByTimer(w) PROVE NotifyTypeOK'
  BY <1>11 DEF WakeByTimer
<1>12. CASE UNCHANGED notifyVars
  BY <1>12 DEF notifyVars
<1> QED
  BY <1>1, <1>2, <1>3, <1>4, <1>5, <1>6, <1>7, <1>8, <1>9, <1>10, <1>11, <1>12 DEF NotifyNext

LEMMA WakeupNext ==
  ASSUME \A v, w \in Workers : v = w, NotifyTypeOK, WakeupPending, [NotifyNext]_notifyVars
  PROVE  WakeupPending'
<1> USE RowsAssumption DEF NotifyTypeOK, WakeupPending, rowVars, workerVars, listenerVars, NotifyFault
<1>1. CASE Listen
  BY <1>1 DEF Listen
<1>2. CASE ListenError \/ WaitError
  BY <1>2 DEF ListenError, WaitError
<1>3. CASE Receive
  BY <1>3 DEF Receive
<1>5. CASE Backoff
  BY <1>5 DEF Backoff
<1>6. ASSUME NEW w \in Workers, CommitRow(w) PROVE WakeupPending'
  BY <1>6 DEF CommitRow
<1>7. ASSUME NEW w \in Workers, ProcessBatch(w) PROVE WakeupPending'
  BY <1>7 DEF ProcessBatch
<1>8. ASSUME NEW w \in Workers, ProcessNothing(w) PROVE WakeupPending'
  BY <1>8 DEF ProcessNothing, DrainEnds
<1>9. ASSUME NEW w \in Workers, ProcessError(w) PROVE WakeupPending'
  BY <1>9 DEF ProcessError
<1>10. ASSUME NEW w \in Workers, WakeBySignal(w) PROVE WakeupPending'
  BY <1>10 DEF WakeBySignal
<1>11. ASSUME NEW w \in Workers, WakeByTimer(w) PROVE WakeupPending'
  BY <1>11 DEF WakeByTimer
<1>12. CASE UNCHANGED notifyVars
  BY <1>12 DEF notifyVars
<1> QED
  BY <1>1, <1>2, <1>3, <1>5, <1>6, <1>7, <1>8, <1>9, <1>10, <1>11, <1>12 DEF NotifyNext

LEMMA NotifyInitFacts == NotifyInit => NotifyTypeOK /\ WakeupPending
BY RowsAssumption DEF NotifyInit, NotifyTypeOK, WakeupPending

\* A node with one outbox worker: while no call fails, the worker never sits
\* in its idle wait with an announced row to read unless a signal or a
\* notification is on its way, for any batch size and any number of rows.
\* (Of several workers one may take the signal meant for another; those rows
\* wait for the timer.)
THEOREM NoWakeupLost == (\A v, w \in Workers : v = w) => (NotifySpec => []WakeupPending)
<1> SUFFICES ASSUME \A v, w \in Workers : v = w PROVE NotifySpec => []WakeupPending
  OBVIOUS
<1>1. NotifyInit => NotifyTypeOK /\ WakeupPending
  BY NotifyInitFacts
<1>2. NotifyTypeOK /\ WakeupPending /\ [NotifyNext]_notifyVars => (NotifyTypeOK /\ WakeupPending)'
  BY NotifyTypesNext, WakeupNext
<1> QED BY <1>1, <1>2, PTL DEF NotifySpec
==============================================================================
