--------------------------- MODULE Background_proofs ---------------------------
(***************************************************************************)
(* Theorems about what runs beside the clients of a node: the consumers of *)
(* hosted queues and of Redis streams, the life cycle of the application   *)
(* and the NATS broker, for any messages, receivers, workers,              *)
(* configurations, channels and numbers of faults.                         *)
(***************************************************************************)
EXTENDS Integers, AppLifecycle, QueueConsumers, NatsBroker, RedisQueue, FiniteSetTheorems,
        SequenceTheorems, WellFoundedInduction, TLAPS

(* Queue consumers: what a lane has processed and has still to do.         *)

LaneType ==
    [todo : SUBSET QIds, pc : {"wait", "dispatch", "backoff", "settle", "nak", "done"},
     retries : Nat, done : SUBSET QIds]

\* A lane l of a consumer of the kind, when the messages P were dispatched or
\* skipped: it has done only such messages, it settles one that is among them
\* (but for Service Bus), and of a FIFO group it misses no message before one
\* that it has still to do.
LaneOk(kind, P, l) ==
    /\ l.done \subseteq P
    /\ l.pc # "done" => l.todo # {}
    /\ l.pc = "settle" /\ kind \notin {"azure", "session"} => Current(l) \in P
    /\ kind = "sqs" =>
        /\ l.pc # "nak"
        /\ \A m \in l.todo, n \in QIds :
             GroupOf(n) = GroupOf(m) /\ GroupOf(m) # "" /\ n < m => n \in l.todo \cup P

LanesInv ==
    /\ lanes = [r \in Receivers |-> lanes[r]]
    /\ \A r \in Receivers :
        /\ lanes[r] = [i \in DOMAIN lanes[r] |-> lanes[r][i]]
        /\ \A i \in DOMAIN lanes[r] :
             lanes[r][i] \in LaneType /\ LaneOk(qkind, applied \cup skipped, lanes[r][i])

QueueInv ==
    /\ qmsg = [m \in QIds |-> qmsg[m]] /\ applied \subseteq QIds /\ LanesInv /\ QueueSafe

\* A non-empty set of naturals has a least element.
LEMMA NatMin ==
  ASSUME NEW T, T \subseteq Nat, T # {} PROVE \E x \in T : \A y \in T : x <= y
<1> DEFINE R == OpToRel(<, Nat)
<1>1. IsWellFoundedOn(R, Nat) BY NatLessThanWellFounded
<1>2. \A x, y \in Nat : y < x => <<y, x>> \in R BY DEF OpToRel
<1> HIDE DEF R
<1>3. \E x \in T : \A y \in T : ~ (<<y, x>> \in R) BY <1>1, WFMin
<1>4. PICK x \in T : \A y \in T : ~ (<<y, x>> \in R) BY <1>3
<1>5. ASSUME NEW y \in T PROVE x <= y
  <2>1. x \in Nat /\ y \in Nat OBVIOUS
  <2>2. ~(y < x) BY <1>2, <1>4, <2>1
  <2> QED BY <2>1, <2>2
<1> QED BY <1>5

LEMMA QIdOrder == \A m, n \in QIds : n < m => ~(m <= n)
BY LaneAssumption DEF QIds

LEMMA CurrentLeast ==
  ASSUME NEW l \in LaneType, l.todo # {}
  PROVE  Current(l) \in l.todo /\ \A n \in l.todo : Current(l) <= n
<1>1. l.todo \subseteq Nat BY LaneAssumption DEF LaneType, QIds
<1>2. \E m \in l.todo : \A n \in l.todo : m <= n BY <1>1, NatMin
<1> QED BY <1>2 DEF Current

\* The lane after its current message.
LEMMA NextLane ==
  ASSUME NEW l \in LaneType, l.todo # {}, NEW kind, NEW P, LaneOk(kind, P, l),
         kind = "sqs" => Current(l) \in P
  PROVE  NextOf(l) \in LaneType /\ LaneOk(kind, P, NextOf(l)) /\ NextOf(l).done = l.done
<1> DEFINE rest == l.todo \ {Current(l)}
           x == NextOf(l)
<1>1. /\ x.todo = rest /\ x.done = l.done /\ x.retries = 0
      /\ x.pc = IF rest = {} THEN "done" ELSE "dispatch"
      /\ x \in LaneType
  BY DEF NextOf, LaneType
<1> HIDE DEF x
<1> QED BY <1>1 DEF LaneOk, x

LEMMA LaneOkGrows ==
  ASSUME NEW l, NEW kind, NEW P, NEW Q, LaneOk(kind, P, l), P \subseteq Q
  PROVE  LaneOk(kind, Q, l)
BY DEF LaneOk

\* A step that writes one lane.
LEMMA OneLane ==
  ASSUME LanesInv, NEW r \in Receivers, NEW i \in DOMAIN lanes[r], NEW l \in LaneType,
         lanes' = [lanes EXCEPT ![r] = [lanes[r] EXCEPT ![i] = l]], qkind' = qkind,
         applied \subseteq applied', skipped \subseteq skipped',
         LaneOk(qkind, applied' \cup skipped', l)
  PROVE  LanesInv'
<1>1. lanes' = [q \in Receivers |-> IF q = r THEN [lanes[r] EXCEPT ![i] = l] ELSE lanes[q]]
  BY DEF LanesInv
<1>2. /\ lanes'[r] = [lanes[r] EXCEPT ![i] = l]
      /\ \A q \in Receivers \ {r} : lanes'[q] = lanes[q]
  BY <1>1
<1>3. lanes[r] = [j \in DOMAIN lanes[r] |-> lanes[r][j]] BY DEF LanesInv
<1>4. /\ lanes'[r] = [j \in DOMAIN lanes[r] |-> IF j = i THEN l ELSE lanes[r][j]]
      /\ DOMAIN lanes'[r] = DOMAIN lanes[r] /\ lanes'[r][i] = l
      /\ \A j \in DOMAIN lanes[r] \ {i} : lanes'[r][j] = lanes[r][j]
  BY <1>2, <1>3
<1>5. \A q \in Receivers : \A j \in DOMAIN lanes[q] : LaneOk(qkind, applied' \cup skipped', lanes[q][j])
  BY LaneOkGrows DEF LanesInv
<1>6. \A q \in Receivers : \A j \in DOMAIN lanes'[q] :
        lanes'[q][j] \in LaneType /\ LaneOk(qkind, applied' \cup skipped', lanes'[q][j])
  BY <1>2, <1>4, <1>5 DEF LanesInv
<1>7. \A q \in Receivers : lanes'[q] = [j \in DOMAIN lanes'[q] |-> lanes'[q][j]]
  BY <1>2, <1>4 DEF LanesInv
<1>8. lanes' = [q \in Receivers |-> lanes'[q]] BY <1>1
<1> QED BY <1>6, <1>7, <1>8 DEF LanesInv

\* A lane whose current message was dispatched or skipped.
LEMMA ProcessedLane ==
  ASSUME NEW l \in LaneType, l.todo # {}, NEW P, LaneOk(qkind, P, l), Current(l) \in P
  PROVE  Processed(l) \in LaneType /\ LaneOk(qkind, P, Processed(l))
<1>1. CASE qkind = "sqs"
  <2> DEFINE x == NextOf(l)
  <2>1. x \in LaneType /\ LaneOk(qkind, P, x) /\ x.done = l.done BY <1>1, NextLane
  <2>2. Current(l) \in QIds BY CurrentLeast DEF LaneType
  <2>3. Processed(l) = [x EXCEPT !.done = @ \cup {Current(l)}] BY <1>1 DEF Processed
  <2> HIDE DEF x
  <2>4. /\ Processed(l) \in LaneType /\ Processed(l).todo = x.todo /\ Processed(l).pc = x.pc
        /\ Processed(l).done = x.done \cup {Current(l)}
    BY <2>1, <2>2, <2>3 DEF LaneType
  <2> DEFINE y == Processed(l)
  <2> HIDE DEF y
  <2>5. Current(y) = Current(x) BY <2>4 DEF Current, y
  <2> QED BY <1>1, <2>1, <2>4, <2>5 DEF LaneOk, y
<1>2. CASE qkind # "sqs"
  <2> DEFINE y == Processed(l)
  <2>1. y \in LaneType /\ y.todo = l.todo /\ y.pc = "settle" /\ y.done = l.done
    BY <1>2 DEF Processed, LaneType
  <2> HIDE DEF y
  <2>2. Current(y) = Current(l) BY <2>1 DEF Current
  <2> QED BY <1>2, <2>1, <2>2 DEF LaneOk, y
<1> QED BY <1>1, <1>2

LEMMA RetriedLane ==
  ASSUME NEW l \in LaneType
  PROVE  LET y == [l EXCEPT !.pc = "backoff", !.retries = @ + 1]
         IN  y \in LaneType /\ y.todo = l.todo /\ y.done = l.done /\ y.pc = "backoff"
<1>1. l.retries + 1 \in Nat BY DEF LaneType
<1>2. \A x \in Nat : LET y == [l EXCEPT !.pc = "backoff", !.retries = x]
                     IN  y \in LaneType /\ y.todo = l.todo /\ y.done = l.done /\ y.pc = "backoff"
  BY DEF LaneType
<1> QED BY <1>1, <1>2

\* A lane that goes to another step with the same messages.
LEMMA LaneMoves ==
  ASSUME NEW l \in LaneType, l.todo # {}, NEW P, LaneOk(qkind, P, l), NEW y \in LaneType,
         y.todo = l.todo, y.done = l.done,
         y.pc = "settle" => qkind \in {"azure", "session"}, y.pc = "nak" => qkind # "sqs"
  PROVE  LaneOk(qkind, P, y)
BY DEF LaneOk

LEMMA AbortedLane ==
  ASSUME NEW l \in LaneType, NEW P, LaneOk(qkind, P, l)
  PROVE  Aborted(l) \in LaneType /\ LaneOk(qkind, P, Aborted(l))
<1> DEFINE y == Aborted(l)
<1>1. y \in LaneType /\ y.todo = {} /\ y.pc = "done" /\ y.done = l.done BY DEF Aborted, LaneType
<1> HIDE DEF y
<1> QED BY <1>1 DEF LaneOk, y

LEMMA FailedOk ==
  ASSUME NEW l \in LaneType, l.todo # {}, NEW P, LaneOk(qkind, P, l), NEW live
  PROVE  FailedLane(l, live) \in LaneType /\ LaneOk(qkind, P, FailedLane(l, live))
<1> DEFINE y == FailedLane(l, live)
<1>1. CASE qkind = "sqs" /\ y = Aborted(l) BY <1>1, AbortedLane
<1>2. CASE ~(qkind = "sqs" /\ y = Aborted(l))
  <2>1. CASE qkind = "sqs"
    <3>1. y = [l EXCEPT !.pc = "backoff", !.retries = @ + 1] BY <1>2, <2>1 DEF FailedLane
    <3> HIDE DEF y
    <3>2. y \in LaneType /\ y.todo = l.todo /\ y.done = l.done /\ y.pc = "backoff"
      BY <3>1, RetriedLane
    <3>3. LaneOk(qkind, P, y) BY <3>2, LaneMoves
    <3> QED BY <3>2, <3>3 DEF y
  <2>2. CASE qkind \in {"azure", "session"}
    <3>1. y = [l EXCEPT !.pc = "backoff", !.retries = @ + 1] \/ y = [l EXCEPT !.pc = "settle"]
      BY <2>2 DEF FailedLane
    <3> HIDE DEF y
    <3>2. y \in LaneType /\ y.todo = l.todo /\ y.done = l.done /\ y.pc \in {"backoff", "settle"}
      <4>1. CASE y = [l EXCEPT !.pc = "settle"] BY <4>1 DEF LaneType
      <4>2. CASE y = [l EXCEPT !.pc = "backoff", !.retries = @ + 1] BY <4>2, RetriedLane
      <4> QED BY <3>1, <4>1, <4>2
    <3>3. LaneOk(qkind, P, y) BY <2>2, <3>2, LaneMoves
    <3> QED BY <3>2, <3>3 DEF y
  <2>3. CASE qkind \notin {"sqs", "azure", "session"}
    <3>1. y = [l EXCEPT !.pc = "nak"] BY <2>3 DEF FailedLane
    <3> HIDE DEF y
    <3>2. y \in LaneType /\ y.todo = l.todo /\ y.done = l.done /\ y.pc = "nak"
      BY <3>1 DEF LaneType
    <3>3. LaneOk(qkind, P, y) BY <2>3, <3>2, LaneMoves
    <3> QED BY <3>2, <3>3 DEF y
  <2> QED BY <2>1, <2>2, <2>3
<1> QED BY <1>1, <1>2

\* The lanes of a new batch.
LEMMA ReceivedLanes ==
  ASSUME QueueInv, NEW S \in SUBSET QIds, Receivable(S), NEW k \in DOMAIN LanesOf(S)
  PROVE  LanesOf(S)[k] \in LaneType /\ LaneOk(qkind, applied \cup skipped, LanesOf(S)[k])
<1> DEFINE l == LanesOf(S)[k]
<1>1. k \in {LaneKey(m) : m \in S} BY DEF LanesOf
<1>2. PICK p : p = IF qkind = "sqs" THEN "wait" ELSE "dispatch" OBVIOUS
<1>t. l = [todo |-> {m \in S : LaneKey(m) = k}, pc |-> p, retries |-> 0, done |-> {}]
  BY <1>1, <1>2 DEF LanesOf
<1> HIDE DEF l
<1>3. l \in LaneType /\ l.todo = {m \in S : LaneKey(m) = k} /\ l.pc \in {"wait", "dispatch"} /\ l.done = {}
  BY <1>2, <1>t DEF LaneType
<1>4. l.todo # {} BY <1>1, <1>3
<1>5. ASSUME qkind = "sqs", NEW m \in l.todo, NEW n \in QIds,
             GroupOf(n) = GroupOf(m), GroupOf(m) # "", n < m
      PROVE  n \in l.todo \cup applied \cup skipped
  <2>1. LaneKey(n) = k BY <1>3, <1>5 DEF LaneKey
  <2>2. CASE qmsg[n] = "deleted" BY <1>5, <2>2 DEF QueueInv, QueueSafe, SettledWasProcessed
  <2>3. CASE qmsg[n] # "deleted"
    <3>1. n \in GroupMates(m) BY <1>5, <2>3 DEF GroupMates
    <3>2. n \in S BY <1>3, <1>5, <3>1 DEF Receivable, Grouped
    <3> QED BY <1>3, <2>1, <3>2
  <2> QED BY <2>2, <2>3
<1> QED BY <1>3, <1>4, <1>5 DEF LaneOk, l

\* What the queue deletes was processed, and what is processed keeps the
\* order of its group.
LEMMA StillSafe ==
  ASSUME QueueInv, qkind' = qkind, applied' = applied, skipped' = skipped,
         qkind \notin {"azure", "session"} => \A m \in QIds :
            qmsg'[m] = "deleted" => qmsg[m] = "deleted" \/ m \in applied \cup skipped
  PROVE  QueueSafe'
BY DEF QueueInv, QueueSafe, SettledWasProcessed, GroupInOrder

LEMMA QueueStep ==
  ASSUME QueueInv, [QNext]_queues
  PROVE  QueueInv'
<1>i. LanesInv /\ QueueSafe /\ qmsg = [m \in QIds |-> qmsg[m]] /\ applied \subseteq QIds BY DEF QueueInv
<1>l. \A r \in Receivers : \A i \in DOMAIN lanes[r] :
        lanes[r][i] \in LaneType /\ LaneOk(qkind, applied \cup skipped, lanes[r][i])
  BY <1>i DEF LanesInv
<1>f. lanes = [r \in Receivers |-> lanes[r]]
      /\ \A r \in Receivers : lanes[r] = [i \in DOMAIN lanes[r] |-> lanes[r][i]]
  BY <1>i DEF LanesInv
<1>1. CASE UNCHANGED <<qkind, qmsg, lanes, applied, skipped>>
  BY <1>1 DEF QueueInv, LanesInv, QueueSafe, SettledWasProcessed, GroupInOrder
<1>2. CASE \E m \in QIds : LeaseExpires(m)
  <2>1. PICK m \in QIds : qmsg' = [qmsg EXCEPT ![m] = "queued"] BY <1>2 DEF LeaseExpires
  <2>2. UNCHANGED <<qkind, lanes, applied, skipped>> BY <1>2 DEF LeaseExpires
  <2>3. qmsg' = [n \in QIds |-> qmsg'[n]] /\ \A n \in QIds : qmsg'[n] = "deleted" => qmsg[n] = "deleted"
    BY <1>i, <2>1
  <2>4. QueueSafe' BY <2>2, <2>3, StillSafe
  <2> QED BY <1>i, <2>2, <2>3, <2>4 DEF QueueInv, LanesInv
<1>3. ASSUME NEW r \in Receivers, Receive(r) PROVE QueueInv'
  <2>1. PICK S \in SUBSET QIds :
          /\ Receivable(S) /\ qmsg' = [m \in QIds |-> IF m \in S THEN "leased" ELSE qmsg[m]]
          /\ lanes' = [lanes EXCEPT ![r] = LanesOf(S)]
    BY <1>3 DEF Receive
  <2>2. UNCHANGED <<qkind, applied, skipped>> BY <1>3 DEF Receive
  <2>3. qmsg' = [n \in QIds |-> qmsg'[n]] /\ \A n \in QIds : qmsg'[n] = "deleted" => qmsg[n] = "deleted"
    BY <1>i, <2>1
  <2>4. QueueSafe' BY <2>2, <2>3, StillSafe
  <2>5. lanes' = [q \in Receivers |-> IF q = r THEN LanesOf(S) ELSE lanes[q]] BY <1>f, <2>1
  <2>6. LanesOf(S) = [k \in DOMAIN LanesOf(S) |-> LanesOf(S)[k]] BY DEF LanesOf
  <2>7. \A k \in DOMAIN LanesOf(S) :
          LanesOf(S)[k] \in LaneType /\ LaneOk(qkind, applied \cup skipped, LanesOf(S)[k])
    BY <2>1, ReceivedLanes
  <2>8. LanesInv' BY <1>i, <2>2, <2>5, <2>6, <2>7 DEF LanesInv
  <2> QED BY <1>i, <2>2, <2>3, <2>4, <2>8 DEF QueueInv
<1>4. ASSUME NEW r \in Receivers, FinishBatch(r) PROVE QueueInv'
  <2> DEFINE all == UNION {lanes[r][i].done : i \in DOMAIN lanes[r]}
  <2>1. UNCHANGED <<qkind, applied, skipped>> /\ lanes' = [lanes EXCEPT ![r] = <<>>]
    BY <1>4 DEF FinishBatch
  <2>2. PICK gone \in SUBSET all : qmsg' = [m \in QIds |-> IF m \in gone THEN "deleted" ELSE qmsg[m]]
    BY <1>4 DEF FinishBatch
  <2>3. all \subseteq applied \cup skipped BY <1>l DEF LaneOk
  <2> HIDE DEF all
  <2>4. /\ qmsg' = [n \in QIds |-> qmsg'[n]]
        /\ \A n \in QIds : qmsg'[n] = "deleted" => qmsg[n] = "deleted" \/ n \in applied \cup skipped
    BY <1>i, <2>2, <2>3
  <2>5. QueueSafe' BY <2>1, <2>4, StillSafe
  <2>6. lanes' = [q \in Receivers |-> IF q = r THEN <<>> ELSE lanes[q]] BY <1>f, <2>1
  <2>7. <<>> = [i \in DOMAIN <<>> |-> <<>>[i]] /\ DOMAIN <<>> = {} OBVIOUS
  <2>8. LanesInv' BY <1>i, <2>1, <2>6, <2>7 DEF LanesInv
  <2> QED BY <1>i, <2>1, <2>4, <2>5, <2>8 DEF QueueInv
<1>5. ASSUME NEW r \in Receivers, NEW i \in DOMAIN lanes[r],
             StartLane(r, i) \/ DispatchFails(r, i) \/ Backoff(r, i)
      PROVE  QueueInv'
  <2>1. UNCHANGED <<qkind, qmsg, applied, skipped>> BY <1>5 DEF StartLane, DispatchFails, Backoff
  <2> DEFINE l == lanes[r][i]
  <2>2. l \in LaneType /\ LaneOk(qkind, applied \cup skipped, l) BY <1>l
  <2>3. l.pc # "done" BY <1>5 DEF StartLane, DispatchFails, Backoff
  <2>4. l.todo # {} BY <2>2, <2>3 DEF LaneOk
  <2>5. \E y \in LaneType : LaneOk(qkind, applied \cup skipped, y)
                            /\ lanes' = [lanes EXCEPT ![r] = [lanes[r] EXCEPT ![i] = y]]
    <3>1. CASE lanes' = [lanes EXCEPT ![r][i].pc = "dispatch"]
      <4> DEFINE y == [l EXCEPT !.pc = "dispatch"]
      <4>1. lanes' = [lanes EXCEPT ![r] = [lanes[r] EXCEPT ![i] = y]] BY <3>1
      <4>2. y \in LaneType /\ y.todo = l.todo /\ y.done = l.done /\ y.pc = "dispatch" BY <2>2 DEF LaneType
      <4> HIDE DEF y, l
      <4>3. LaneOk(qkind, applied \cup skipped, y) BY <2>2, <2>4, <4>2, LaneMoves
      <4> QED BY <4>1, <4>2, <4>3
    <3>2. CASE DispatchFails(r, i)
      <4> DEFINE y == FailedLane(l, Live(r))
      <4>1. lanes' = [lanes EXCEPT ![r] = [lanes[r] EXCEPT ![i] = y]] BY <3>2 DEF DispatchFails
      <4>2. y \in LaneType /\ LaneOk(qkind, applied \cup skipped, y) BY <2>2, <2>4, FailedOk
      <4> HIDE DEF y
      <4> QED BY <4>1, <4>2
    <3>3. CASE lanes' = [lanes EXCEPT ![r][i] = IF qkind = "sqs" THEN Aborted(@) ELSE NextOf(@)]
      <4> DEFINE y == IF qkind = "sqs" THEN Aborted(l) ELSE NextOf(l)
      <4>1. lanes' = [lanes EXCEPT ![r] = [lanes[r] EXCEPT ![i] = y]] BY <3>3
      <4>2. y \in LaneType /\ LaneOk(qkind, applied \cup skipped, y)
        BY <2>2, <2>4, AbortedLane, NextLane
      <4> HIDE DEF y
      <4> QED BY <4>1, <4>2
    <3> QED BY <1>5, <3>1, <3>2, <3>3 DEF StartLane, Backoff
  <2>6. LanesInv' BY <1>i, <2>1, <2>5, OneLane
  <2>7. QueueSafe' BY <2>1, StillSafe
  <2> QED BY <1>i, <2>1, <2>6, <2>7 DEF QueueInv
<1>6. ASSUME NEW r \in Receivers, NEW i \in DOMAIN lanes[r], Skip(r, i) \/ Dispatch(r, i) PROVE QueueInv'
  <2> DEFINE l == lanes[r][i]
             m == Current(l)
  <2>1. UNCHANGED <<qkind, qmsg>> /\ lanes' = [lanes EXCEPT ![r] = [lanes[r] EXCEPT ![i] = Processed(l)]]
    BY <1>6 DEF Skip, Dispatch
  <2>2. \/ applied' = applied /\ skipped' = skipped \cup {m}
        \/ applied' = applied \cup {m} /\ skipped' = skipped
    BY <1>6 DEF Skip, Dispatch
  <2>3. l \in LaneType /\ LaneOk(qkind, applied \cup skipped, l) BY <1>l
  <2>4. l.pc # "done" BY <1>6 DEF Skip, Dispatch
  <2>5. l.todo # {} BY <2>3, <2>4 DEF LaneOk
  <2>6. m \in l.todo /\ \A n \in l.todo : m <= n BY <2>3, <2>5, CurrentLeast
  <2>7. m \in QIds BY <2>3, <2>6 DEF LaneType
  <2>8. LaneOk(qkind, applied' \cup skipped', l) /\ m \in applied' \cup skipped' BY <2>2, <2>3, LaneOkGrows
  <2>9. Processed(l) \in LaneType /\ LaneOk(qkind, applied' \cup skipped', Processed(l))
    BY <2>3, <2>5, <2>8, ProcessedLane
  <2>10. applied \subseteq applied' /\ skipped \subseteq skipped' /\ applied' \subseteq QIds BY <1>i, <2>2, <2>7
  <2>11. LanesInv' BY <1>i, <2>1, <2>9, <2>10, OneLane
  <2>12. SettledWasProcessed' BY <1>i, <2>1, <2>10 DEF QueueSafe, SettledWasProcessed
  <2>13. GroupInOrder'
    <3> SUFFICES ASSUME qkind = "sqs", NEW a \in applied', NEW n \in QIds,
                        GroupOf(n) = GroupOf(a), GroupOf(a) # "", n < a
                 PROVE  n \in applied' \cup skipped'
      BY <2>1 DEF GroupInOrder
    <3>1. CASE a \in applied BY <1>i, <2>10, <3>1 DEF QueueSafe, GroupInOrder
    <3>2. CASE a = m
      <4>1. n \in l.todo \cup applied \cup skipped BY <2>3, <2>6, <3>2 DEF LaneOk
      <4>2. n \notin l.todo
        <5> HIDE DEF m
        <5>1. n < m BY <3>2
        <5>2. ~(m <= n) BY <2>7, <5>1, QIdOrder
        <5> QED BY <2>6, <5>2
      <4> QED BY <2>10, <4>1, <4>2
    <3> QED BY <2>2, <3>1, <3>2
  <2> QED BY <1>i, <2>1, <2>10, <2>11, <2>12, <2>13 DEF QueueInv, QueueSafe
<1>7. ASSUME NEW r \in Receivers, NEW i \in DOMAIN lanes[r], Settle(r, i) \/ Nak(r, i) PROVE QueueInv'
  <2> DEFINE l == lanes[r][i]
             m == Current(l)
  <2>1. UNCHANGED <<qkind, applied, skipped>> /\ lanes' = [lanes EXCEPT ![r] = [lanes[r] EXCEPT ![i] = NextOf(l)]]
    BY <1>7 DEF Settle, Nak
  <2>3. l \in LaneType /\ LaneOk(qkind, applied \cup skipped, l) BY <1>l
  <2>4. l.pc \in {"settle", "nak"} BY <1>7 DEF Settle, Nak
  <2>5. l.todo # {} BY <2>3, <2>4 DEF LaneOk
  <2>6. qkind = "sqs" => m \in applied \cup skipped BY <2>3, <2>4 DEF LaneOk
  <2>7. NextOf(l) \in LaneType /\ LaneOk(qkind, applied \cup skipped, NextOf(l))
    BY <2>3, <2>5, <2>6, NextLane
  <2>8. LanesInv' BY <1>i, <2>1, <2>7, OneLane
  <2>9. /\ qmsg' = [n \in QIds |-> qmsg'[n]]
        /\ qkind \notin {"azure", "session"} => \A n \in QIds :
             qmsg'[n] = "deleted" => qmsg[n] = "deleted" \/ n \in applied \cup skipped
    <3>1. CASE Settle(r, i)
      <4>1. qmsg' = [qmsg EXCEPT ![m] = "deleted"] \/ qmsg' = qmsg BY <3>1 DEF Settle
      <4>2. qkind \notin {"azure", "session"} => m \in applied \cup skipped BY <2>3, <3>1 DEF Settle, LaneOk
      <4> HIDE DEF m, l
      <4> QED BY <1>i, <4>1, <4>2
    <3>2. CASE Nak(r, i)
      <4>1. qmsg' = [qmsg EXCEPT ![m] = IF @ = "leased" THEN "queued" ELSE @] \/ qmsg' = qmsg BY <3>2 DEF Nak
      <4> HIDE DEF m, l
      <4> QED BY <1>i, <4>1
    <3> QED BY <1>7, <3>1, <3>2
  <2>10. QueueSafe' BY <2>1, <2>9, StillSafe
  <2> QED BY <1>i, <2>1, <2>8, <2>9, <2>10 DEF QueueInv
<1>8. CASE RunConsumer \/ CancelRun \/ StartConsume \/ NoHeartbeat \/ Recreate
           \/ \E r \in Receivers : SessionLost(r) \/ ReceiveFails(r)
  BY <1>1, <1>8 DEF RunConsumer, CancelRun, StartConsume, NoHeartbeat, Recreate, SessionLost, ReceiveFails
<1>9. CASE UNCHANGED queues BY <1>1, <1>9 DEF queues
<1>10. ASSUME NEW r \in Receivers, NEW i \in DOMAIN lanes[r], PanicOnDelta(r, i) PROVE QueueInv'
  <2>1. UNCHANGED <<qkind, qmsg, applied, skipped>> /\ lanes' = [q \in Receivers |-> <<>>]
    BY <1>10 DEF PanicOnDelta
  <2>2. <<>> = [j \in DOMAIN <<>> |-> <<>>[j]] /\ DOMAIN <<>> = {} OBVIOUS
  <2>3. LanesInv' BY <2>1, <2>2 DEF LanesInv
  <2>4. QueueSafe' BY <2>1, StillSafe
  <2> QED BY <1>i, <2>1, <2>3, <2>4 DEF QueueInv
<1> QED BY <1>2, <1>3, <1>4, <1>5, <1>6, <1>7, <1>8, <1>9, <1>10 DEF QNext

\* The invariant of the queue holds from the start.
LEMMA QueueInvInit == QInit => QueueInv
<1> SUFFICES ASSUME QInit PROVE QueueInv OBVIOUS
<1>1. LanesInv
  <2>1. <<>> = [i \in DOMAIN <<>> |-> <<>>[i]] /\ DOMAIN <<>> = {} OBVIOUS
  <2> QED BY <2>1 DEF QInit, LanesInv
<1>2. QueueSafe BY DEF QInit, QueueSafe, SettledWasProcessed, GroupInOrder
<1> QED BY <1>1, <1>2 DEF QueueInv, QInit

\* The consumers of hosted queues lose nothing and keep the order of a FIFO
\* group: what leaves the queue of SQS, JetStream or Pub/Sub was dispatched or
\* skipped for its content, and no message of an SQS group is applied before
\* all its predecessors, for any messages, number of receivers, retries and
\* faults, whichever leases expire.
THEOREM QueueSafety == QSpec => []QueueSafe
<1>1. QueueInv => QueueSafe BY DEF QueueInv
<1> QED BY <1>1, QueueInvInit, QueueStep, PTL DEF QSpec

\* A deleted message stays deleted: only a lease that still runs is given back
\* or expires.
LEMMA DeletedStays ==
  ASSUME QueueInv, [QNext]_queues
  PROVE  qkind' = qkind /\ \A m \in QIds : qmsg[m] = "deleted" => qmsg'[m] = "deleted"
<1>i. qmsg = [m \in QIds |-> qmsg[m]] BY DEF QueueInv
<1>1. CASE \E m \in QIds : LeaseExpires(m)
  <2>1. PICK m \in QIds : qmsg[m] = "leased" /\ qmsg' = [qmsg EXCEPT ![m] = "queued"] BY <1>1 DEF LeaseExpires
  <2> QED BY <1>i, <1>1, <2>1 DEF LeaseExpires
<1>2. ASSUME NEW r \in Receivers, Receive(r)
      PROVE  qkind' = qkind /\ \A m \in QIds : qmsg[m] = "deleted" => qmsg'[m] = "deleted"
  BY <1>i, <1>2 DEF Receive, Receivable
<1>3. ASSUME NEW r \in Receivers, FinishBatch(r)
      PROVE  qkind' = qkind /\ \A m \in QIds : qmsg[m] = "deleted" => qmsg'[m] = "deleted"
  <2>1. \E gone : qmsg' = [m \in QIds |-> IF m \in gone THEN "deleted" ELSE qmsg[m]]
    BY <1>3 DEF FinishBatch
  <2>2. qkind' = qkind BY <1>3 DEF FinishBatch
  <2> QED BY <2>1, <2>2
<1>4. ASSUME NEW r \in Receivers, NEW i \in DOMAIN lanes[r], Settle(r, i) \/ Nak(r, i)
      PROVE  qkind' = qkind /\ \A m \in QIds : qmsg[m] = "deleted" => qmsg'[m] = "deleted"
  <2>1. PICK m : m = Current(lanes[r][i]) OBVIOUS
  <2>2. \/ qmsg' = [qmsg EXCEPT ![m] = "deleted"] \/ qmsg' = qmsg
        \/ qmsg' = [qmsg EXCEPT ![m] = IF @ = "leased" THEN "queued" ELSE @]
    BY <1>4, <2>1 DEF Settle, Nak
  <2>3. qkind' = qkind BY <1>4 DEF Settle, Nak
  <2> QED BY <1>i, <2>2, <2>3
<1>5. ASSUME NEW r \in Receivers, NEW i \in DOMAIN lanes[r],
             \/ StartLane(r, i) \/ Skip(r, i) \/ PanicOnDelta(r, i) \/ Dispatch(r, i)
             \/ DispatchFails(r, i) \/ Backoff(r, i)
      PROVE  qkind' = qkind /\ qmsg' = qmsg
  BY <1>5 DEF StartLane, Skip, PanicOnDelta, Dispatch, DispatchFails, Backoff
<1>6. CASE RunConsumer \/ CancelRun \/ StartConsume \/ NoHeartbeat \/ Recreate
           \/ \E r \in Receivers : SessionLost(r) \/ ReceiveFails(r)
  BY <1>6 DEF RunConsumer, CancelRun, StartConsume, NoHeartbeat, Recreate, SessionLost, ReceiveFails
<1>7. CASE UNCHANGED queues BY <1>7 DEF queues
<1> QED BY <1>1, <1>2, <1>3, <1>4, <1>5, <1>6, <1>7 DEF QNext

\* A step either processes the message a lane is at, or processes nothing.
LEMMA ProcessedStep ==
  ASSUME QueueInv, [QNext]_queues
  PROVE  \/ applied' = applied /\ skipped' = skipped
         \/ qmsg' = qmsg /\ \E m \in QIds : applied' \cup skipped' = applied \cup skipped \cup {m}
<1>1. ASSUME NEW r \in Receivers, NEW i \in DOMAIN lanes[r], Skip(r, i) \/ Dispatch(r, i)
      PROVE  qmsg' = qmsg /\ \E m \in QIds : applied' \cup skipped' = applied \cup skipped \cup {m}
  <2>1. PICK l : l = lanes[r][i] OBVIOUS
  <2>2. PICK m : m = Current(l) OBVIOUS
  <2>3. l \in LaneType /\ LaneOk(qkind, applied \cup skipped, l) BY <2>1 DEF QueueInv, LanesInv
  <2>4. l.todo # {} BY <1>1, <2>1, <2>3 DEF Skip, Dispatch, LaneOk
  <2>5. m \in QIds BY <2>2, <2>3, <2>4, CurrentLeast DEF LaneType
  <2>6. \/ applied' = applied /\ skipped' = skipped \cup {m}
        \/ applied' = applied \cup {m} /\ skipped' = skipped
    BY <1>1, <2>1, <2>2 DEF Skip, Dispatch
  <2> QED BY <1>1, <2>5, <2>6 DEF Skip, Dispatch
<1>2. ASSUME NEW r \in Receivers, NEW i \in DOMAIN lanes[r],
             \/ StartLane(r, i) \/ PanicOnDelta(r, i) \/ DispatchFails(r, i) \/ Backoff(r, i)
             \/ Settle(r, i) \/ Nak(r, i)
      PROVE  applied' = applied /\ skipped' = skipped
  BY <1>2 DEF StartLane, PanicOnDelta, DispatchFails, Backoff, Settle, Nak
<1>3. ASSUME NEW r \in Receivers, Receive(r) \/ ReceiveFails(r) \/ FinishBatch(r) \/ SessionLost(r)
      PROVE  applied' = applied /\ skipped' = skipped
  BY <1>3 DEF Receive, ReceiveFails, FinishBatch, SessionLost
<1>4. CASE RunConsumer \/ CancelRun \/ StartConsume \/ NoHeartbeat \/ Recreate \/ \E m \in QIds : LeaseExpires(m)
  BY <1>4 DEF RunConsumer, CancelRun, StartConsume, NoHeartbeat, Recreate, LeaseExpires
<1>5. CASE UNCHANGED queues BY <1>5 DEF queues
<1> QED BY <1>1, <1>2, <1>3, <1>4, <1>5 DEF QNext

\* The consumers of hosted queues implement the abstract queue of commands,
\* for any messages, receivers and faults: a message of SQS, JetStream or
\* Pub/Sub is settled only after it was processed and then for good, although
\* a lease that expires hands it to a second receiver while the first one
\* still works on it.
THEOREM HostedImplementsQueue == QSpec => QueueImplementsQueue
<1>1. QInit => QueueCommands!Init
  BY DEF QInit, QueueCommands!Init
<1>2. ASSUME QueueInv, QueueInv', [QNext]_queues
      PROVE  [QueueCommands!Next]_(QueueCommands!commandVars)
  <2> DEFINE gone == {m \in QIds : qmsg[m] = "deleted" /\ qkind \notin {"azure", "session"}}
  <2> SUFFICES QueueCommands!Next \/ UNCHANGED <<QIds, applied \cup skipped, gone>>
    BY DEF QueueCommands!commandVars
  <2>1. gone \subseteq gone'
    BY <1>2, DeletedStays
  <2>2. gone' \subseteq applied' \cup skipped'
    BY <1>2 DEF QueueInv, QueueSafe, SettledWasProcessed
  <2>3. QIds' = QIds
    BY DEF QIds
  <2>4. CASE applied' = applied /\ skipped' = skipped
    <3>1. QueueCommands!Settle
      BY <2>1, <2>2, <2>3, <2>4 DEF QueueCommands!Settle
    <3> QED BY <3>1 DEF QueueCommands!Next
  <2>5. CASE qmsg' = qmsg /\ \E m \in QIds : applied' \cup skipped' = applied \cup skipped \cup {m}
    <3>1. gone' = gone
      BY <1>2, <2>5, DeletedStays
    <3>2. QueueCommands!Process
      BY <2>3, <2>5, <3>1 DEF QueueCommands!Process
    <3> QED BY <3>2 DEF QueueCommands!Next
  <2> QED BY <1>2, <2>4, <2>5, ProcessedStep
<1>3. QSpec => []QueueInv
  BY QueueInvInit, QueueStep, PTL DEF QSpec
<1> QED BY <1>1, <1>2, <1>3, PTL DEF QSpec, QueueImplementsQueue, QueueCommands!Spec

-----------------------------------------------------------------------------
(* The life cycle of the application.                                      *)

Early == {"config", "proxies", "engines", "verifiers", "consumers", "node", "services", "grpcApi"}
Up == {"serving", "reloadVerifier", "reloadSub", "reloadContainer"}
Stopping == {"stopNode", "waitServers", "waitServices"}

AppTypes ==
    /\ main \in Early \cup {"grpcUni", "http", "exited"} \cup Up \cup Stopping
    /\ server = [s \in Servers |-> server[s]]
    /\ held \in [api : {None, "grpcApi", "grpcUni"}, uni : {None}]
    /\ versions \in [verifier : Nat, sub : Nat, container : Nat, newCfg : Nat]
    /\ sent.hup \in Nat

\* Once the process serves, handleSignals knows every server that serves, but
\* for the one whose variable was overwritten; what it knows it stops.
ServersInv ==
    /\ main \in Early => \A s \in Servers : server[s] = "off"
    /\ server["grpcApi"] # "off" => conf.grpcApi
    /\ \A s \in Servers : server[s] = "serving" =>
         s \in {held.api, "external", "internal"} \cup Overwritten
    /\ main \in Stopping => \A s \in Servers \ Overwritten : server[s] # "serving"
    /\ ~svcCtx => main \in {"waitServices", "exited"}
    /\ ServicesStopLast

\* A reload goes from the verifiers to the container, with a configuration
\* that is not older than any in use.
ReloadInv ==
    /\ versions.newCfg <= sent.hup
    /\ versions.verifier <= versions.newCfg /\ versions.sub <= versions.newCfg
    /\ versions.container <= versions.newCfg
    /\ main \in {"reloadSub", "reloadContainer"} => versions.verifier = versions.newCfg
    /\ main = "reloadContainer" /\ conf.sub => versions.sub = versions.newCfg
    /\ ConfigNeverAhead

ConfiguredEndpoints == [s \in Servers |-> [h \in HttpServers(conf)[s] |-> Middlewares(conf, h)]]

AppInv ==
    /\ AppTypes /\ ServersInv /\ ReloadInv
    /\ main \in Up => endpoints = ConfiguredEndpoints

LEMMA AfterSteps ==
    /\ After("config") = "proxies" /\ After("proxies") = "engines" /\ After("engines") = "verifiers"
    /\ After("verifiers") = "consumers" /\ After("consumers") = "node" /\ After("node") = "services"
    /\ After("services") = "grpcApi" /\ After("grpcApi") = "grpcUni" /\ After("grpcUni") = "http"
    /\ After("http") = "serving"
<1>1. /\ DOMAIN StartSteps = 1 .. 10 /\ Len(StartSteps) = 10
      /\ StartSteps[1] = "config" /\ StartSteps[2] = "proxies" /\ StartSteps[3] = "engines"
      /\ StartSteps[4] = "verifiers" /\ StartSteps[5] = "consumers" /\ StartSteps[6] = "node"
      /\ StartSteps[7] = "services" /\ StartSteps[8] = "grpcApi" /\ StartSteps[9] = "grpcUni"
      /\ StartSteps[10] = "http"
  BY DEF StartSteps
<1>2. \A i, j \in 1 .. 10 : StartSteps[i] = StartSteps[j] => i = j BY <1>1
<1>3. ASSUME NEW i \in 1 .. 9 PROVE After(StartSteps[i]) = StartSteps[i + 1]
  <2>1. (CHOOSE j \in DOMAIN StartSteps : StartSteps[j] = StartSteps[i]) = i BY <1>1, <1>2
  <2>2. i # 10 OBVIOUS
  <2> QED BY <1>1, <2>1, <2>2 DEF After
<1>4. After(StartSteps[10]) = "serving"
  <2>1. (CHOOSE j \in DOMAIN StartSteps : StartSteps[j] = StartSteps[10]) = 10 BY <1>1, <1>2
  <2> QED BY <1>1, <2>1 DEF After
<1> QED BY <1>1, <1>3, <1>4

LEMMA EndpointsRight ==
  ASSUME endpoints = ConfiguredEndpoints
  PROVE  EndpointsServedOnce
<1> DEFINE ext == HttpServers(conf)["external"]
           int == HttpServers(conf)["internal"]
<1>1. /\ endpoints["external"] = [h \in ext |-> Middlewares(conf, h)]
      /\ endpoints["internal"] = [h \in int |-> Middlewares(conf, h)]
  BY DEF ConfiguredEndpoints, Servers
<1>2. /\ ext = ExternalHandlers(conf) \cup IF conf.internalPort THEN {} ELSE InternalHandlers(conf)
      /\ int = IF conf.internalPort THEN InternalHandlers(conf) ELSE {}
  BY DEF HttpServers, Servers
<1> HIDE DEF ext, int
<1>3. /\ "api" \in ExternalHandlers(conf) <=> (conf.api /\ conf.apiExternal)
      /\ "admin" \in ExternalHandlers(conf) <=> (conf.admin /\ conf.adminExternal)
      /\ ExternalHandlers(conf) \cap {"prometheus", "swagger", "debug", "health"} = {}
  BY DEF ExternalHandlers, SetIf
<1>4. /\ "api" \in InternalHandlers(conf) <=> (conf.api /\ ~conf.apiExternal)
      /\ "admin" \in InternalHandlers(conf) <=> (conf.admin /\ ~conf.adminExternal)
      /\ InternalHandlers(conf) \subseteq {"api", "admin", "prometheus", "swagger", "debug", "health"}
  BY DEF InternalHandlers, SetIf
<1>5. ext \cap int = {} BY <1>2, <1>3, <1>4
<1>6. conf.api => "api" \in ext \/ "api" \in int BY <1>2, <1>3, <1>4
<1>7. "key" \in Middlewares(conf, "api") \/ conf.apiInsecure BY DEF Middlewares, SetIf
<1>8. conf.internalPort =>
        /\ ext \cap {"prometheus", "swagger", "debug", "health"} = {}
        /\ ("api" \in ext <=> conf.api /\ conf.apiExternal)
        /\ ("admin" \in ext <=> conf.admin /\ conf.adminExternal)
  BY <1>2, <1>3
<1>9. DOMAIN endpoints["external"] = ext /\ DOMAIN endpoints["internal"] = int BY <1>1
<1>10. conf.api => \E s \in {"external", "internal"} :
          /\ "api" \in DOMAIN endpoints[s]
          /\ ("key" \in endpoints[s]["api"] \/ conf.apiInsecure)
  BY <1>1, <1>6, <1>7, <1>9
<1> QED BY <1>5, <1>8, <1>9, <1>10 DEF EndpointsServedOnce

LEMMA StartStepSet ==
  {StartSteps[i] : i \in DOMAIN StartSteps} = Early \cup {"grpcUni", "http"}
BY DEF StartSteps, Early

\* What moves the main goroutine, and where to.
LEMMA MainMoves ==
  ASSUME AppTypes, [AppNext]_app
  PROVE  /\ conf' = conf
         /\ \/ main' = main \/ main' = "exited"
            \/ main \in Early /\ main' \in Early /\ UNCHANGED <<server, held, svcCtx, versions, sent>>
            \/ (StartGrpcApi /\ main' = "grpcUni") \/ (StartGrpcUni /\ main' = "http")
            \/ (StartHTTP /\ main' = "serving") \/ TakeHUP \/ Reload
            \/ TakeTERM \/ StopNode \/ CancelServices
<1>1. conf' = conf
  BY DEF AppNext, app, StartFails, StartPlain, StartEngines, StartConsumers, StartServices, StartGrpcApi,
     StartGrpcUni, StartHTTP, Signal, TakeHUP, Reload, TakeTERM, StopNode, CancelServices, ExitClean,
     ShutdownTimeout, ExitOnServiceError, ServiceFails, ServiceStops, ServerStopped
<1>2. CASE StartPlain \/ StartEngines \/ StartConsumers \/ StartServices
  BY <1>1, <1>2, AfterSteps DEF StartPlain, StartEngines, StartConsumers, StartServices, Early
<1>3. CASE StartGrpcApi \/ StartGrpcUni \/ StartHTTP
  BY <1>1, <1>3, AfterSteps DEF StartGrpcApi, StartGrpcUni, StartHTTP
<1>4. CASE StartFails \/ ExitClean \/ ShutdownTimeout \/ ExitOnServiceError
  BY <1>1, <1>4 DEF StartFails, ExitClean, ShutdownTimeout, ExitOnServiceError
<1>5. CASE (\E sig \in {"HUP", "TERM"} : Signal(sig)) \/ (\E s \in Services : ServiceFails(s) \/ ServiceStops(s))
           \/ (\E s \in Servers : ServerStopped(s)) \/ UNCHANGED app
  BY <1>1, <1>5 DEF Signal, ServiceFails, ServiceStops, ServerStopped, app
<1> QED BY <1>1, <1>2, <1>3, <1>4, <1>5 DEF AppNext

\* What writes the servers.
LEMMA ServerMoves ==
  ASSUME AppTypes, [AppNext]_app
  PROVE  \/ UNCHANGED <<server, held>> \/ StartGrpcApi \/ StartGrpcUni \/ StartHTTP \/ TakeTERM
         \/ (held' = held /\ main' = main /\ svcCtx' = svcCtx /\ \E s \in Servers : ServerStopped(s))
BY DEF AppNext, app, StartFails, StartPlain, StartEngines, StartConsumers, StartServices,
     Signal, TakeHUP, Reload, StopNode, CancelServices, ExitClean,
     ShutdownTimeout, ExitOnServiceError, ServiceFails, ServiceStops, ServerStopped

LEMMA ContextMoves ==
  ASSUME [AppNext]_app
  PROVE  svcCtx' = svcCtx \/ CancelServices
BY DEF AppNext, app, StartFails, StartPlain, StartEngines, StartConsumers, StartServices, StartGrpcApi,
     StartGrpcUni, StartHTTP, Signal, TakeHUP, Reload, TakeTERM, StopNode, ExitClean,
     ShutdownTimeout, ExitOnServiceError, ServiceFails, ServiceStops, ServerStopped

LEMMA VersionMoves ==
  ASSUME [AppNext]_app
  PROVE  /\ UNCHANGED versions \/ TakeHUP \/ Reload
         /\ UNCHANGED sent \/ (versions' = versions /\ main' = main /\ \E sig \in {"HUP", "TERM"} : Signal(sig))
BY DEF AppNext, app, StartFails, StartPlain, StartEngines, StartConsumers, StartServices, StartGrpcApi,
     StartGrpcUni, StartHTTP, Signal, TakeHUP, Reload, TakeTERM, StopNode, CancelServices, ExitClean,
     ShutdownTimeout, ExitOnServiceError, ServiceFails, ServiceStops, ServerStopped

LEMMA AppTypesStep ==
  ASSUME AppTypes, [AppNext]_app
  PROVE  AppTypes'
<1>1. main' \in Early \cup {"grpcUni", "http", "exited"} \cup Up \cup Stopping
  BY MainMoves DEF AppTypes, TakeHUP, Reload, ReloadNext, TakeTERM, StopNode, CancelServices, Up, Stopping
<1>2. server' = [s \in Servers |-> server'[s]] /\ held' \in [api : {None, "grpcApi", "grpcUni"}, uni : {None}]
  BY ServerMoves DEF AppTypes, StartGrpcApi, StartGrpcUni, StartHTTP, TakeTERM, ServerStopped
<1>3. sent'.hup \in Nat
  <2>1. CASE UNCHANGED sent BY <2>1 DEF AppTypes
  <2>2. CASE \E sig \in {"HUP", "TERM"} : Signal(sig)
    <3>1. sent'.hup = sent.hup + 1 \/ sent'.hup = sent.hup BY <2>2 DEF Signal
    <3> QED BY <3>1 DEF AppTypes
  <2> QED BY <2>1, <2>2, VersionMoves
<1>4. versions' \in [verifier : Nat, sub : Nat, container : Nat, newCfg : Nat]
  <2>1. CASE UNCHANGED versions BY <2>1 DEF AppTypes
  <2>2. CASE TakeHUP BY <2>2 DEF AppTypes, TakeHUP
  <2>3. CASE Reload
    <3>1. versions' = versions \/ \E f \in {"verifier", "sub", "container"} :
            versions' = [versions EXCEPT ![f] = versions.newCfg]
      BY <2>3 DEF Reload, Reloads
    <3> QED BY <3>1 DEF AppTypes
  <2> QED BY <2>1, <2>2, <2>3, VersionMoves
<1> QED BY <1>1, <1>2, <1>3, <1>4 DEF AppTypes

\* A step that writes no server keeps what is known of them.
LEMMA ServersKept ==
  ASSUME AppTypes, ServersInv, conf' = conf, UNCHANGED <<server, held, svcCtx>>,
         main' \in Early => main \in Early, main' \in Stopping => main \in Stopping,
         main \in {"waitServices", "exited"} => main' \in {"waitServices", "exited"}
  PROVE  ServersInv'
<1>1. Overwritten' = Overwritten BY DEF Overwritten
<1> QED BY <1>1 DEF ServersInv, ServicesStopLast

LEMMA ServersStep ==
  ASSUME AppTypes, ServersInv, [AppNext]_app, AppTypes'
  PROVE  ServersInv'
<1>c. conf' = conf /\ Overwritten' = Overwritten BY MainMoves DEF Overwritten
<1>d. /\ {"grpcUni", "http", "exited", "waitServices"} \cap Early = {}
      /\ Up \cap (Early \cup Stopping \cup {"exited"}) = {} /\ Stopping \cap (Early \cup {"grpcUni", "http", "exited"}) = {}
      /\ "grpcApi" \in Early /\ "serving" \in Up /\ "waitServers" \in Stopping /\ "stopNode" \in Stopping
      /\ "exited" \notin Early /\ "waitServices" \in Stopping
  BY DEF Early, Up, Stopping
<1>x. svcCtx \/ main \in {"waitServices", "exited"} BY DEF ServersInv
<1>s. server = [s \in Servers |-> server[s]] /\ {"grpcApi", "grpcUni", "external", "internal"} = Servers
  BY DEF AppTypes, Servers
<1>1. CASE StartGrpcApi
  <2>1. main = "grpcApi" /\ main' = "grpcUni" /\ svcCtx' = svcCtx BY <1>1, AfterSteps DEF StartGrpcApi
  <2>2. svcCtx /\ \A s \in Servers : server[s] = "off" BY <1>d, <1>x, <2>1 DEF ServersInv
  <2>3. CASE conf.grpcApi
    <3>1. server' = [server EXCEPT !["grpcApi"] = "serving"] /\ held' = [held EXCEPT !.api = "grpcApi"]
      BY <1>1, <2>3 DEF StartGrpcApi
    <3>2. server'["grpcApi"] = "serving" /\ \A s \in Servers \ {"grpcApi"} : server'[s] = "off"
      BY <1>s, <2>2, <3>1
    <3>3. held'.api = "grpcApi" BY <3>1 DEF AppTypes
    <3> QED BY <1>c, <1>d, <2>1, <2>2, <2>3, <3>2, <3>3 DEF ServersInv, ServicesStopLast
  <2>4. CASE ~conf.grpcApi
    <3>1. server' = server BY <1>1, <2>4 DEF StartGrpcApi
    <3>2. (\A s \in Servers : server'[s] = "off") /\ server'["grpcApi"] = "off" BY <1>s, <2>2, <3>1
    <3>3. \A s \in Servers : server'[s] # "serving" BY <3>2
    <3> QED BY <1>c, <1>d, <2>1, <2>2, <3>2, <3>3 DEF ServersInv, ServicesStopLast
  <2> QED BY <2>3, <2>4
<1>2. CASE StartGrpcUni
  <2>1. main = "grpcUni" /\ main' = "http" /\ svcCtx' = svcCtx BY <1>2, AfterSteps DEF StartGrpcUni
  <2>2. svcCtx BY <1>x, <2>1
  <2>3. CASE conf.grpcUni
    <3>1. server' = [server EXCEPT !["grpcUni"] = "serving"] /\ held' = [held EXCEPT !.api = "grpcUni"]
      BY <1>2, <2>3 DEF StartGrpcUni
    <3>2. server'["grpcUni"] = "serving" /\ \A s \in Servers \ {"grpcUni"} : server'[s] = server[s]
      BY <1>s, <3>1
    <3>3. held'.api = "grpcUni" /\ held.api \in {None, "grpcApi", "grpcUni"} BY <3>1 DEF AppTypes
    <3>4. server'["grpcApi"] = server["grpcApi"] BY <1>s, <3>2
    <3>5. conf.grpcApi => Overwritten = {"grpcApi"} BY <2>3 DEF Overwritten
    <3>6. ASSUME NEW s \in Servers, server'[s] = "serving"
          PROVE  s \in {"grpcUni", "external", "internal"} \cup Overwritten
      BY <1>s, <3>2, <3>3, <3>4, <3>5, <3>6 DEF ServersInv
    <3> QED BY <1>c, <1>d, <2>1, <2>2, <3>3, <3>4, <3>6 DEF ServersInv, ServicesStopLast
  <2>4. CASE ~conf.grpcUni
    <3>1. UNCHANGED <<server, held>> BY <1>2, <2>4 DEF StartGrpcUni
    <3> QED BY <1>c, <1>d, <2>1, <3>1, ServersKept
  <2> QED BY <2>3, <2>4
<1>3. CASE StartHTTP
  <2>1. main = "http" /\ main' = "serving" /\ svcCtx' = svcCtx /\ held' = held BY <1>3, AfterSteps DEF StartHTTP
  <2>2. svcCtx BY <1>x, <2>1
  <2>3. \A s \in Servers : s \notin {"external", "internal"} => HttpServers(conf)[s] = {} BY DEF HttpServers, Servers
  <2>4. \A s \in Servers : server'[s] = IF HttpServers(conf)[s] # {} THEN "serving" ELSE server[s]
    BY <1>3 DEF StartHTTP
  <2>5. server'["grpcApi"] = server["grpcApi"] BY <1>s, <2>3, <2>4
  <2>6. ASSUME NEW s \in Servers, server'[s] = "serving"
        PROVE  s \in {held.api, "external", "internal"} \cup Overwritten
    BY <2>3, <2>4, <2>6 DEF ServersInv
  <2> QED BY <1>c, <1>d, <2>1, <2>2, <2>5, <2>6 DEF ServersInv, ServicesStopLast
<1>4. CASE TakeTERM
  <2>1. main = "serving" /\ main' = "stopNode" /\ svcCtx' = svcCtx /\ held' = held BY <1>4 DEF TakeTERM
  <2>2. svcCtx BY <1>x, <2>1
  <2>3. \A s \in Servers : server'[s] = IF s \in Known THEN "stopping" ELSE server[s] BY <1>4 DEF TakeTERM
  <2>4. \A s \in Servers \ Overwritten : server[s] = "serving" => s \in Known BY DEF ServersInv, Known
  <2>5. \A s \in Servers : s \in Known => server[s] = "serving" BY DEF Known
  <2>6. server'["grpcApi"] # "off" => server["grpcApi"] # "off" BY <1>s, <2>3, <2>5
  <2> QED BY <1>c, <1>d, <2>1, <2>2, <2>3, <2>4, <2>6 DEF ServersInv, ServicesStopLast
<1>5. CASE held' = held /\ main' = main /\ svcCtx' = svcCtx /\ \E s \in Servers : ServerStopped(s)
  <2>1. PICK s \in Servers : server[s] = "stopping" /\ server' = [server EXCEPT ![s] = "stopped"]
    BY <1>5 DEF ServerStopped
  <2>2. server'[s] = "stopped" /\ \A t \in Servers \ {s} : server'[t] = server[t] BY <1>s, <2>1
  <2>3. server'["grpcApi"] # "off" => server["grpcApi"] # "off" BY <1>s, <2>1, <2>2
  <2>4. main \notin Early BY <2>1 DEF ServersInv
  <2> QED BY <1>c, <1>5, <2>2, <2>3, <2>4 DEF ServersInv, ServicesStopLast
<1>6. CASE UNCHANGED <<server, held>>
  <2>1. CASE CancelServices
    <3>1. main = "waitServers" /\ main' = "waitServices" /\ \A s \in Servers : server[s] # "stopping"
      BY <2>1 DEF CancelServices
    <3> QED BY <1>c, <1>d, <1>6, <3>1 DEF ServersInv, ServicesStopLast
  <2>2. CASE ~CancelServices
    <3>1. svcCtx' = svcCtx BY <2>2, ContextMoves
    <3>2. main' \in Early => main \in Early
      BY <1>d, <2>2, MainMoves DEF TakeHUP, Reload, ReloadNext, TakeTERM, StopNode, Up, Early
    <3>3. main' \in Stopping => main \in Stopping \/ TakeTERM
      BY <1>d, <2>2, MainMoves DEF TakeHUP, Reload, ReloadNext, StopNode, Up, Stopping, Early
    <3>4. main \in {"waitServices", "exited"} => main' \in {"waitServices", "exited"}
      BY <1>d, <2>2, MainMoves DEF TakeHUP, Reload, TakeTERM, StopNode, Early, StartGrpcApi, StartGrpcUni, StartHTTP
    <3> QED BY <1>c, <1>4, <1>6, <3>1, <3>2, <3>3, <3>4, ServersKept
  <2> QED BY <2>1, <2>2
<1> QED BY <1>1, <1>2, <1>3, <1>4, <1>5, <1>6, ServerMoves

LEMMA ReloadStep ==
  ASSUME AppTypes, ReloadInv, [AppNext]_app, AppTypes'
  PROVE  ReloadInv'
<1>c. conf' = conf BY MainMoves
<1>v. /\ versions.verifier \in Nat /\ versions.sub \in Nat /\ versions.container \in Nat
      /\ versions.newCfg \in Nat /\ sent.hup \in Nat
  BY DEF AppTypes
<1>1. CASE TakeHUP
  <2>1. main' \in {"serving", "reloadVerifier"} /\ sent' = sent /\ versions' = [versions EXCEPT !.newCfg = sent.hup]
    BY <1>1 DEF TakeHUP
  <2>2. /\ versions'.newCfg = sent.hup /\ versions'.verifier = versions.verifier
        /\ versions'.sub = versions.sub /\ versions'.container = versions.container
    BY <2>1 DEF AppTypes
  <2> QED BY <1>c, <1>v, <2>1, <2>2 DEF ReloadInv, ConfigNeverAhead
<1>2. CASE Reload
  <2>1. sent' = sent BY <1>2 DEF Reload
  <2>2. CASE versions' = versions /\ main' = "serving" BY <1>c, <2>1, <2>2 DEF ReloadInv, ConfigNeverAhead
  <2>3. CASE versions' = [versions EXCEPT ![Reloads(main)] = versions.newCfg] /\ main' = ReloadNext(main)
    <3>1. CASE main = "reloadVerifier"
      <4>1. main' \in {"reloadSub", "reloadContainer"} /\ (main' = "reloadContainer" => ~conf.sub)
        BY <2>3, <3>1 DEF ReloadNext
      <4>2. /\ versions'.newCfg = versions.newCfg /\ versions'.verifier = versions.newCfg
            /\ versions'.sub = versions.sub /\ versions'.container = versions.container
        BY <2>3, <3>1 DEF Reloads, AppTypes
      <4> QED BY <1>c, <1>v, <2>1, <4>1, <4>2 DEF ReloadInv, ConfigNeverAhead
    <3>2. CASE main = "reloadSub"
      <4>1. main' = "reloadContainer" BY <2>3, <3>2 DEF ReloadNext
      <4>2. /\ versions'.newCfg = versions.newCfg /\ versions'.verifier = versions.verifier
            /\ versions'.sub = versions.newCfg /\ versions'.container = versions.container
        BY <2>3, <3>2 DEF Reloads, AppTypes
      <4> QED BY <1>c, <1>v, <2>1, <3>2, <4>1, <4>2 DEF ReloadInv, ConfigNeverAhead
    <3>3. CASE main = "reloadContainer"
      <4>1. main' = "serving" BY <2>3, <3>3 DEF ReloadNext
      <4>2. /\ versions'.newCfg = versions.newCfg /\ versions'.verifier = versions.verifier
            /\ versions'.sub = versions.sub /\ versions'.container = versions.newCfg
        BY <2>3, <3>3 DEF Reloads, AppTypes
      <4> QED BY <1>c, <1>v, <2>1, <3>3, <4>1, <4>2 DEF ReloadInv, ConfigNeverAhead
    <3> QED BY <1>2, <3>1, <3>2, <3>3 DEF Reload
  <2> QED BY <1>2, <2>2, <2>3 DEF Reload
<1>3. CASE ~TakeHUP /\ ~Reload
  <2>1. versions' = versions BY <1>3, VersionMoves
  <2>2. sent'.hup \in Nat /\ sent.hup <= sent'.hup
    <3>1. CASE UNCHANGED sent BY <1>v, <3>1
    <3>2. CASE \E sig \in {"HUP", "TERM"} : Signal(sig)
      <4>1. sent'.hup = sent.hup + 1 \/ sent'.hup = sent.hup BY <3>2 DEF Signal
      <4> QED BY <1>v, <4>1
    <3> QED BY <3>1, <3>2, VersionMoves
  <2>3. versions.newCfg <= sent'.hup BY <1>v, <2>2 DEF ReloadInv
  <2>4. main' \in {"reloadSub", "reloadContainer"} => main' = main
    BY <1>3, MainMoves DEF TakeTERM, StopNode, CancelServices, Early
  <2> QED BY <1>c, <2>1, <2>3, <2>4 DEF ReloadInv, ConfigNeverAhead
<1> QED BY <1>1, <1>2, <1>3

LEMMA EndpointsStep ==
  ASSUME AppTypes, main \in Up => endpoints = ConfiguredEndpoints, [AppNext]_app
  PROVE  main' \in Up => endpoints' = ConfiguredEndpoints'
<1>c. conf' = conf /\ ConfiguredEndpoints' = ConfiguredEndpoints
  <2>1. conf' = conf BY MainMoves
  <2> QED BY <2>1 DEF ConfiguredEndpoints
<1>1. endpoints' = endpoints \/ StartHTTP
  BY DEF AppNext, app, StartFails, StartPlain, StartEngines, StartConsumers, StartServices, StartGrpcApi,
     StartGrpcUni, Signal, TakeHUP, Reload, TakeTERM, StopNode, CancelServices, ExitClean,
     ShutdownTimeout, ExitOnServiceError, ServiceFails, ServiceStops, ServerStopped
<1>2. CASE StartHTTP BY <1>c, <1>2 DEF StartHTTP, ConfiguredEndpoints
<1>3. CASE ~StartHTTP
  <2>1. main' \in Up => main \in Up
    BY <1>3, MainMoves DEF TakeHUP, Reload, TakeTERM, StopNode, CancelServices, Up, Early
  <2> QED BY <1>c, <1>1, <1>3, <2>1
<1> QED BY <1>2, <1>3

\* Start, reload and shutdown happen in the order that keeps requests served,
\* for every configuration: no service is canceled while a server that
\* handleSignals knows still serves; the options of a configuration are only
\* in force once the verifiers use its keys, through any number of reloads
\* that fail half way; and every endpoint is served at exactly one address.
THEOREM AppSafety == AppSpec => []AppOrder
<1>1. AppInit => AppInv
  <2> SUFFICES ASSUME AppInit PROVE AppInv OBVIOUS
  <2>1. AppTypes BY DEF AppInit, AppTypes, Early
  <2>2. ServersInv
    <3>1. \A s \in Servers : server[s] = "off" BY DEF AppInit
    <3>2. server["grpcApi"] = "off" BY <3>1 DEF Servers
    <3>3. main = "config" /\ svcCtx = TRUE BY DEF AppInit
    <3> QED BY <3>1, <3>2, <3>3 DEF ServersInv, ServicesStopLast, Stopping
  <2>3. ReloadInv BY DEF AppInit, ReloadInv, ConfigNeverAhead
  <2>4. main \notin Up BY DEF AppInit, Up
  <2> QED BY <2>1, <2>2, <2>3, <2>4 DEF AppInv
<1>2. AppInv /\ [AppNext]_app => AppInv'
  <2> SUFFICES ASSUME AppInv, [AppNext]_app PROVE AppInv' OBVIOUS
  <2>1. AppTypes /\ ServersInv /\ ReloadInv /\ (main \in Up => endpoints = ConfiguredEndpoints) BY DEF AppInv
  <2>2. AppTypes' BY <2>1, AppTypesStep
  <2> QED BY <2>1, <2>2, ServersStep, ReloadStep, EndpointsStep DEF AppInv
<1>3. AppInv => AppOrder
  <2> SUFFICES ASSUME AppInv PROVE AppOrder OBVIOUS
  <2>1. EndpointsServedOnce
    <3>1. CASE main = "serving" BY <3>1, EndpointsRight DEF AppInv, Up
    <3>2. CASE main # "serving" BY <3>2 DEF EndpointsServedOnce
    <3> QED BY <3>1, <3>2
  <2> QED BY <2>1 DEF AppInv, AppOrder, ServersInv, ReloadInv
<1> QED BY <1>1, <1>2, <1>3, PTL DEF AppSpec

-----------------------------------------------------------------------------
(* The map from subjects to subscriptions.                                 *)

NatsMsg == [n : Nat, ch : NatsChannels, kind : {"pub", "join"}, off : Nat]

NatsCallback == [sub : Nat, subject : NatsChannels, m : NatsMsg]

NatsCall ==
    [pc : {"idle", "subscribe", "store", "unsubscribe", "delete"}, sub : Nat]

CallTypes ==
    /\ nconf \in NatsConfigs /\ natsConn \in {"off", "open", "closed", "failed"}
    /\ local \subseteq nconf.used /\ leaving \subseteq nconf.used
    /\ natsCall \in [NatsChannels -> NatsCall]
    /\ subs \in [NatsChannels -> [sub : Nat, orig : NatsChannels \cup {""}]]
    /\ made \in 0 .. MaxNatsSubs
    /\ active \subseteq [id : 1 .. made, subject : NatsChannels]

FlowTypes ==
    /\ pending \in [1 .. MaxNatsSubs -> Seq(NatsMsg)]
    /\ messages \in Nat /\ redisTop \in [NatsChannels -> Nat]
    /\ publishing \subseteq [ch : nconf.used, off : Nat \ {0}]
    /\ callbacks \subseteq NatsCallback
    /\ handed \in Seq([to : NatsChannels, cb : NatsCallback])

NatsTypes == CallTypes /\ FlowTypes

\* The configuration stays, and with it the subjects.
LEMMA SubjectsStay ==
  ASSUME NatsTypes, nconf' = nconf
  PROVE  /\ \A ch : clientChannel(ch)' = clientChannel(ch) /\ (Alone(ch)' <=> Alone(ch))
         /\ \A ch \in NatsChannels : clientChannel(ch) \in NatsChannels
         /\ nconf.used \subseteq NatsChannels
BY NatsAssumption DEF NatsTypes, CallTypes, clientChannel, Alone

\* Subscriptions and the entries of the map belong to a channel in use with
\* their subject; one that a call or the map knows keeps its subject.
OwnedInv ==
    /\ active # {} => natsConn = "open"
    /\ \A s, t \in active : s.id = t.id => s = t
    /\ \A s \in active : \E d \in nconf.used :
         clientChannel(d) = s.subject /\ IsSupportedSubscribeChannel(d)
    /\ \A u \in NatsChannels : subs[u] # NoSub =>
         /\ subs[u].sub \in 1 .. made
         /\ subs[u].orig \in nconf.used /\ clientChannel(subs[u].orig) = u
         /\ \A s \in active : s.id = subs[u].sub => s.subject = u
    /\ \A ch \in NatsChannels : natsCall[ch].pc # "idle" =>
         ch \in nconf.used /\ (natsCall[ch].pc = "subscribe" => IsSupportedSubscribeChannel(ch))
    /\ \A ch \in NatsChannels : natsCall[ch].pc \in {"store", "unsubscribe", "delete"} =>
         /\ natsCall[ch].sub \in 1 .. made
         /\ \A s \in active : s.id = natsCall[ch].sub => s.subject = clientChannel(ch)

\* Of the subscriptions A, the subject u has the one with id x, or none if x
\* is 0.
OneOf(A, u, x) ==
    /\ \A s \in A : s.subject = u => s.id = x
    /\ x # 0 => \E s \in A : s.subject = u

\* A channel that shares its subject u with no other, at each point of its
\* calls: the map, with the entry e, lags behind NATS between the call of the
\* client and the write of the map.
Phase(c, e, A, u, here) ==
    /\ c.pc = "idle"        => OneOf(A, u, e.sub) /\ (here => e # NoSub)
    /\ c.pc = "subscribe"   => OneOf(A, u, 0) /\ e = NoSub
    /\ c.pc = "store"       => OneOf(A, u, c.sub) /\ e = NoSub
    /\ c.pc = "unsubscribe" => OneOf(A, u, c.sub) /\ e.sub = c.sub /\ ~here
    /\ c.pc = "delete"      => OneOf(A, u, 0) /\ ~here

PhaseOf(ch) == Phase(natsCall[ch], subs[clientChannel(ch)], active, clientChannel(ch), ch \in local)

PhaseInv ==
    natsConn \in {"off", "open"} => \A ch \in nconf.used : Alone(ch) => PhaseOf(ch)

\* A channel keeps its phase when another one moves.
LEMMA PhaseUndisturbed ==
  ASSUME NatsTypes, NEW ch \in nconf.used, PhaseOf(ch), nconf' = nconf,
         natsCall'[ch] = natsCall[ch], subs'[clientChannel(ch)] = subs[clientChannel(ch)],
         ch \in local' <=> ch \in local,
         \A s : s.subject = clientChannel(ch) => (s \in active' <=> s \in active)
  PROVE  PhaseOf(ch)'
<1>1. clientChannel(ch)' = clientChannel(ch) BY SubjectsStay
<1>2. \A x : OneOf(active, clientChannel(ch), x) => OneOf(active', clientChannel(ch), x) BY DEF OneOf
<1> QED BY <1>1, <1>2 DEF PhaseOf, Phase

\* What the steps of a call do to the types of the map and the calls.
LEMMA CallTypesStep ==
  ASSUME CallTypes, NEW ch \in nconf.used,
         \/ NatsSubscribe(ch) \/ SubscribeSubject(ch) \/ StoreSub(ch) \/ LastLeaves(ch)
         \/ NatsUnsubscribe(ch) \/ UnsubscribeSubject(ch) \/ DeleteSub(ch)
  PROVE  CallTypes' /\ nconf' = nconf
<1>u. ch \in NatsChannels /\ clientChannel(ch) \in NatsChannels /\ MaxNatsSubs \in Nat
  BY NatsAssumption DEF CallTypes, clientChannel
<1>c. nconf' = nconf /\ natsConn' = natsConn
  BY DEF NatsSubscribe, SubscribeSubject, StoreSub, LastLeaves, NatsUnsubscribe, UnsubscribeSubject,
         DeleteSub, NatsStays
<1>n. made \in Nat /\ made <= MaxNatsSubs /\ made + 1 # made
  <2>1. made \in 0 .. MaxNatsSubs BY DEF CallTypes
  <2> QED BY <1>u, <2>1
<1>k. natsCall \in [NatsChannels -> NatsCall] /\ natsCall[ch] \in NatsCall
  BY <1>u DEF CallTypes
<1> USE DEF CallTypes, NatsCall, NatsIdle
<1>3. CASE NatsSubscribe(ch) BY <1>u, <1>c, <1>3 DEF NatsSubscribe
<1>4. CASE SubscribeSubject(ch)
  <2>1. CASE made' = made + 1
    <3>1. /\ made < MaxNatsSubs /\ active' = active \cup {[id |-> made + 1, subject |-> clientChannel(ch)]}
          /\ natsCall' = [natsCall EXCEPT ![ch] = [pc |-> "store", sub |-> made + 1]]
          /\ UNCHANGED <<leaving, subs, local>>
      BY <2>1, <1>4, <1>n DEF SubscribeSubject, NatsStays
    <3> HIDE DEF CallTypes
    <3>2. made + 1 \in 0 .. MaxNatsSubs /\ made + 1 \in Nat BY <3>1, <1>n, <1>u
    <3>3. active \cup {[id |-> made + 1, subject |-> clientChannel(ch)]}
            \subseteq [id : 1 .. (made + 1), subject : NatsChannels]
      <4>1. \A s \in active : s \in [id : 1 .. made, subject : NatsChannels] BY DEF CallTypes
      <4>2. \A i \in 1 .. made : i \in 1 .. (made + 1) BY <1>n
      <4>3. made + 1 \in 1 .. (made + 1) BY <1>n
      <4> QED BY <1>u, <4>1, <4>2, <4>3
    <3>4. natsCall' \in [NatsChannels -> NatsCall] BY <1>u, <1>k, <3>1, <3>2
    <3> QED BY <1>c, <2>1, <3>1, <3>2, <3>3, <3>4 DEF CallTypes
  <2>2. CASE made' # made + 1
    <3>1. /\ local' = local \ {ch} /\ natsCall' = [natsCall EXCEPT ![ch] = NatsIdle]
          /\ UNCHANGED <<leaving, subs, active, made>>
      BY <2>2, <1>4 DEF SubscribeSubject, NatsStays
    <3> QED BY <1>u, <1>c, <3>1
  <2> QED BY <2>1, <2>2
<1>5. CASE StoreSub(ch)
  <2>1. [sub |-> natsCall[ch].sub, orig |-> ch] \in [sub : Nat, orig : NatsChannels \cup {""}]
    BY <1>u
  <2> QED BY <1>u, <1>c, <2>1, <1>5 DEF StoreSub
<1>6. CASE LastLeaves(ch) BY <1>u, <1>c, <1>6 DEF LastLeaves
<1>7. CASE NatsUnsubscribe(ch)
  <2>1. leaving' \subseteq nconf.used BY <1>7 DEF NatsUnsubscribe
  <2>2. [pc |-> "unsubscribe", sub |-> subs[clientChannel(ch)].sub] \in NatsCall BY <1>u
  <2>3. natsCall' \in [NatsChannels -> NatsCall]
    BY <1>u, <2>2, <1>7 DEF NatsUnsubscribe
  <2> QED BY <1>c, <2>1, <2>3, <1>7 DEF NatsUnsubscribe
<1>8. CASE UnsubscribeSubject(ch)
  <2>1. active' \subseteq active BY <1>8 DEF UnsubscribeSubject
  <2>2. natsCall' \in [NatsChannels -> NatsCall]
    <3>1. natsCall' = [natsCall EXCEPT ![ch].pc = "delete"] \/ natsCall' = [natsCall EXCEPT ![ch] = NatsIdle]
      BY <1>8 DEF UnsubscribeSubject
    <3> HIDE DEF CallTypes
    <3> QED BY <1>u, <1>k, <3>1
  <2> QED BY <1>c, <2>1, <2>2, <1>8 DEF UnsubscribeSubject
<1>9. CASE DeleteSub(ch)
  <2>1. natsCall' \in [NatsChannels -> NatsCall] BY <1>u, <1>9 DEF DeleteSub
  <2> QED BY <1>u, <1>c, <2>1, <1>9 DEF DeleteSub, NoSub
<1> QED BY <1>3, <1>4, <1>5, <1>6, <1>7, <1>8, <1>9

LEMMA PublishTypes ==
  ASSUME FlowTypes, NEW ch \in NatsChannels, NEW kind \in {"pub", "join"}, NEW off \in Nat,
         PublishTo(ch, kind, off)
  PROVE  pending' \in [1 .. MaxNatsSubs -> Seq(NatsMsg)] /\ messages' \in Nat
<1> DEFINE m == [n |-> messages + 1, ch |-> ch, kind |-> kind, off |-> off]
<1>1. m \in NatsMsg BY DEF NatsMsg, FlowTypes
<1>2. Published(m) /\ messages' = messages + 1 BY DEF PublishTo
<1> HIDE DEF m
<1>3. \A i \in 1 .. MaxNatsSubs : pending[i] \in Seq(NatsMsg) /\ Append(pending[i], m) \in Seq(NatsMsg)
  BY <1>1 DEF FlowTypes
<1>4. DOMAIN pending = 1 .. MaxNatsSubs BY DEF FlowTypes
<1> QED BY <1>2, <1>3, <1>4 DEF Published, FlowTypes

LEMMA NatsTypesStep ==
  ASSUME NatsTypes, OwnedInv, [NatsNext]_natsVars
  PROVE  NatsTypes' /\ nconf' = nconf
<1>t. CallTypes /\ FlowTypes BY DEF NatsTypes
<1>u. /\ nconf.used \subseteq NatsChannels /\ \A ch \in NatsChannels : clientChannel(ch) \in NatsChannels
      /\ MaxNatsSubs \in Nat
  BY <1>t, NatsAssumption DEF CallTypes, clientChannel
<1>e. [i \in 1 .. MaxNatsSubs |-> <<>>] \in [1 .. MaxNatsSubs -> Seq(NatsMsg)] OBVIOUS
<1>f. /\ \A s \in active : s.id \in 1 .. MaxNatsSubs /\ s.subject \in NatsChannels
      /\ \A s \in active : pending[s.id] # <<>> =>
           /\ Head(pending[s.id]) \in NatsMsg
           /\ [pending EXCEPT ![s.id] = Tail(@)] \in [1 .. MaxNatsSubs -> Seq(NatsMsg)]
  <2>1. \A s \in active : s.id \in 1 .. MaxNatsSubs /\ s.subject \in NatsChannels
    <3>1. \A s \in active : s.id \in 1 .. made /\ s.subject \in NatsChannels BY <1>t DEF CallTypes
    <3>2. made \in 0 .. MaxNatsSubs BY <1>t DEF CallTypes
    <3>3. \A i \in 1 .. made : i \in 1 .. MaxNatsSubs BY <1>u, <3>2
    <3> QED BY <3>1, <3>3
  <2>2. \A q \in Seq(NatsMsg) : q # <<>> => Head(q) \in NatsMsg /\ Tail(q) \in Seq(NatsMsg) OBVIOUS
  <2> QED BY <1>t, <2>1, <2>2 DEF FlowTypes
<1>1. CASE RegisterNats BY <1>t, <1>1 DEF RegisterNats, NatsTypes, CallTypes, FlowTypes, natsCalls, natsFlow
<1>2. CASE CloseNats
  <2>1. CallTypes' BY <1>t, <1>2 DEF CallTypes, CloseNats
  <2>2. FlowTypes' BY <1>t, <1>e, <1>2 DEF FlowTypes, CloseNats
  <2> QED BY <2>1, <2>2, <1>2 DEF NatsTypes, CloseNats
<1>3. ASSUME NEW ch \in nconf.used,
             \/ NatsSubscribe(ch) \/ SubscribeSubject(ch) \/ StoreSub(ch) \/ LastLeaves(ch)
             \/ NatsUnsubscribe(ch) \/ UnsubscribeSubject(ch) \/ DeleteSub(ch)
      PROVE  NatsTypes' /\ nconf' = nconf
  <2>1. CallTypes' /\ nconf' = nconf BY <1>t, <1>3, CallTypesStep
  <2>2. UNCHANGED <<callbacks, publishing, redisTop, messages, handed>>
    BY <1>3 DEF NatsSubscribe, SubscribeSubject, StoreSub, LastLeaves, NatsUnsubscribe, UnsubscribeSubject,
           DeleteSub, NatsStays
  <2>3. pending' \in [1 .. MaxNatsSubs -> Seq(NatsMsg)]
    <3>1. pending' = pending \/ pending' = [pending EXCEPT ![natsCall[ch].sub] = <<>>]
      BY <1>3 DEF NatsSubscribe, SubscribeSubject, StoreSub, LastLeaves, NatsUnsubscribe,
                  UnsubscribeSubject, DeleteSub
    <3>2. pending \in [1 .. MaxNatsSubs -> Seq(NatsMsg)] BY <1>t DEF FlowTypes
    <3>3. <<>> \in Seq(NatsMsg) OBVIOUS
    <3> QED BY <3>1, <3>2, <3>3
  <2> QED BY <1>t, <2>1, <2>2, <2>3 DEF NatsTypes, FlowTypes
<1>f1. ASSUME UNCHANGED <<nconf, natsConn, natsCalls>> PROVE CallTypes'
  BY <1>t, <1>f1 DEF CallTypes, natsCalls
<1>11. ASSUME NEW ch \in nconf.used, NEW kind \in {"pub", "join"}, PublishPlain(ch, kind)
       PROVE  NatsTypes' /\ nconf' = nconf
  <2>1. PublishTo(ch, kind, 0) BY <1>11 DEF PublishPlain
  <2>2. pending' \in [1 .. MaxNatsSubs -> Seq(NatsMsg)] /\ messages' \in Nat
    BY <1>t, <1>u, <2>1, PublishTypes
  <2> QED BY <1>t, <2>2, <1>11, <1>f1 DEF PublishPlain, NatsTypes, FlowTypes
<1>12. ASSUME NEW ch \in nconf.used, PublishRedis(ch) PROVE NatsTypes' /\ nconf' = nconf
  <2>1. redisTop' \in [NatsChannels -> Nat]
    <3>1. redisTop' = [redisTop EXCEPT ![ch] = @ + 1] BY <1>12 DEF PublishRedis
    <3>2. redisTop \in [NatsChannels -> Nat] BY <1>t DEF FlowTypes
    <3> QED BY <1>u, <3>1, <3>2
  <2>2. redisTop[ch] + 1 \in Nat \ {0} BY <1>t, <1>u DEF FlowTypes
  <2>3. publishing' \subseteq [ch : nconf.used, off : Nat \ {0}]
    BY <1>t, <2>2, <1>12 DEF PublishRedis, FlowTypes
  <2> QED BY <1>t, <2>1, <2>3, <1>12, <1>f1 DEF PublishRedis, NatsTypes, FlowTypes
<1>13. ASSUME NEW p \in publishing, PublishWithStreamPosition(p) PROVE NatsTypes' /\ nconf' = nconf
  <2>1. p.ch \in NatsChannels /\ p.off \in Nat BY <1>t, <1>u DEF FlowTypes
  <2>2. pending' \in [1 .. MaxNatsSubs -> Seq(NatsMsg)] /\ messages' \in Nat
    BY <1>t, <2>1, <1>13, PublishTypes DEF PublishWithStreamPosition, FlowTypes
  <2> QED BY <1>t, <2>2, <1>13, <1>f1 DEF PublishWithStreamPosition, NatsTypes, FlowTypes
<1>14. ASSUME NEW s \in active, StartCallback(s) PROVE NatsTypes' /\ nconf' = nconf
  <2>1. pending[s.id] # <<>> BY <1>14 DEF StartCallback
  <2>2. PICK m \in NatsMsg : m = Head(pending[s.id]) BY <2>1, <1>f
  <2>3. s.id \in Nat /\ s.subject \in NatsChannels BY <1>f, <1>u
  <2>4. [sub |-> s.id, subject |-> s.subject, m |-> m] \in NatsCallback BY <2>2, <2>3 DEF NatsCallback
  <2>5. callbacks' = callbacks \cup {[sub |-> s.id, subject |-> s.subject, m |-> m]}
    BY <1>14, <2>2 DEF StartCallback
  <2>6. callbacks' \subseteq NatsCallback BY <1>t, <2>4, <2>5 DEF FlowTypes
  <2>7. pending' \in [1 .. MaxNatsSubs -> Seq(NatsMsg)] BY <2>1, <1>f, <1>14 DEF StartCallback
  <2> QED BY <1>t, <2>6, <2>7, <1>14, <1>f1 DEF StartCallback, NatsTypes, FlowTypes
<1>15. ASSUME NEW c \in callbacks, HandleClientMessage(c) PROVE NatsTypes' /\ nconf' = nconf
  <2> DEFINE to == IF nconf.raw THEN subs[c.subject].orig
                   ELSE IF c.m.kind = "pub" /\ nconf.wildcards THEN c.subject
                   ELSE c.m.ch
  <2>1. c \in NatsCallback BY <1>t DEF FlowTypes
  <2>2. c.m.ch \in NatsChannels /\ c.subject \in NatsChannels BY <2>1 DEF NatsCallback, NatsMsg
  <2>3. subs[c.subject] # NoSub => subs[c.subject].orig \in NatsChannels
    BY <1>u, <2>2 DEF OwnedInv
  <2>4. ~(nconf.raw /\ subs[c.subject] = NoSub) => to \in NatsChannels
    BY <2>2, <2>3
  <2>5. handed' = IF nconf.raw /\ subs[c.subject] = NoSub THEN handed
                  ELSE Append(handed, [to |-> to, cb |-> c])
    BY <1>15 DEF HandleClientMessage
  <2> HIDE DEF to
  <2>6. handed' \in Seq([to : NatsChannels, cb : NatsCallback])
    <3>1. ~(nconf.raw /\ subs[c.subject] = NoSub) =>
            [to |-> to, cb |-> c] \in [to : NatsChannels, cb : NatsCallback]
      BY <2>1, <2>4
    <3>2. handed \in Seq([to : NatsChannels, cb : NatsCallback]) BY <1>t DEF FlowTypes
    <3>3. ASSUME NEW R, NEW h \in Seq(R), NEW r \in R PROVE Append(h, r) \in Seq(R) OBVIOUS
    <3>4. CASE nconf.raw /\ subs[c.subject] = NoSub BY <3>2, <3>4, <2>5
    <3>5. CASE ~(nconf.raw /\ subs[c.subject] = NoSub)
      <4>1. handed' = Append(handed, [to |-> to, cb |-> c]) BY <3>5, <2>5
      <4> QED BY <3>1, <3>2, <3>3, <3>5, <4>1
    <3> QED BY <3>4, <3>5
  <2>7. callbacks' \subseteq NatsCallback BY <1>t, <1>15 DEF HandleClientMessage, FlowTypes
  <2> QED BY <1>t, <2>6, <2>7, <1>15, <1>f1 DEF HandleClientMessage, NatsTypes, FlowTypes
<1>16. ASSUME NEW s \in active, LoseMessage(s) PROVE NatsTypes' /\ nconf' = nconf
  <2>1. pending' \in [1 .. MaxNatsSubs -> Seq(NatsMsg)] BY <1>f, <1>16 DEF LoseMessage
  <2> QED BY <1>t, <2>1, <1>16, <1>f1 DEF LoseMessage, NatsTypes, FlowTypes
<1>17. CASE UNCHANGED natsVars
  BY <1>t, <1>17 DEF natsVars, natsFlow, natsCalls, NatsTypes, CallTypes, FlowTypes
<1> QED BY <1>1, <1>2, <1>3, <1>11, <1>12, <1>13, <1>14, <1>15, <1>16, <1>17 DEF NatsNext

\* The steps of the calls of a channel, and the steps that only move messages.
CallOf(ch) ==
    \/ NatsSubscribe(ch) \/ SubscribeSubject(ch) \/ StoreSub(ch) \/ LastLeaves(ch)
    \/ NatsUnsubscribe(ch) \/ UnsubscribeSubject(ch) \/ DeleteSub(ch)

LEMMA NatsSteps ==
  ASSUME [NatsNext]_natsVars
  PROVE  \/ RegisterNats \/ CloseNats \/ \E ch \in nconf.used : CallOf(ch)
         \/ UNCHANGED <<nconf, natsConn, natsCalls>>
BY DEF NatsNext, CallOf, natsVars, PublishPlain, PublishRedis, PublishWithStreamPosition,
       StartCallback, HandleClientMessage, LoseMessage

LEMMA CallWrite ==
  ASSUME natsCall \in [NatsChannels -> NatsCall], NEW ch \in NatsChannels
  PROVE  /\ \A c : LET f == [natsCall EXCEPT ![ch] = c]
                   IN  f[ch] = c /\ \A d \in NatsChannels \ {ch} : f[d] = natsCall[d]
         /\ \A pc : LET f == [natsCall EXCEPT ![ch].pc = pc]
                    IN  /\ f[ch].pc = pc /\ f[ch].sub = natsCall[ch].sub
                        /\ \A d \in NatsChannels \ {ch} : f[d] = natsCall[d]
BY DEF NatsCall

LEMMA OwnedStep ==
  ASSUME NatsTypes, OwnedInv, [NatsNext]_natsVars, NatsTypes', nconf' = nconf
  PROVE  OwnedInv'
<1>s. /\ \A ch : clientChannel(ch)' = clientChannel(ch)
      /\ \A ch \in NatsChannels : clientChannel(ch) \in NatsChannels
      /\ nconf.used \subseteq NatsChannels
  BY SubjectsStay
<1>i. \A ch : IsSupportedSubscribeChannel(ch)' <=> IsSupportedSubscribeChannel(ch)
  BY DEF IsSupportedSubscribeChannel
<1>k. /\ natsCall \in [NatsChannels -> NatsCall]
      /\ subs \in [NatsChannels -> [sub : Nat, orig : NatsChannels \cup {""}]]
  BY DEF NatsTypes, CallTypes
<1>n. made \in Nat /\ made + 1 # made
  <2>1. made \in 0 .. MaxNatsSubs BY DEF NatsTypes, CallTypes
  <2> QED BY <2>1, NatsAssumption
<1>l. \A s \in active : s.id \in 1 .. made BY DEF NatsTypes, CallTypes
<1>1. CASE RegisterNats BY <1>1, <1>s, <1>i DEF RegisterNats, natsCalls, OwnedInv
<1>2. CASE CloseNats BY <1>2, <1>s, <1>i DEF CloseNats, OwnedInv
<1>3. ASSUME NEW ch \in nconf.used, CallOf(ch) PROVE OwnedInv'
  <2>c. ch \in NatsChannels /\ natsConn' = natsConn /\ clientChannel(ch) \in NatsChannels
    BY <1>3, <1>s DEF CallOf, NatsSubscribe, SubscribeSubject, StoreSub, LastLeaves, NatsUnsubscribe,
       UnsubscribeSubject, DeleteSub, NatsStays
  <2>1. CASE NatsSubscribe(ch)
    <3>1. UNCHANGED <<subs, active, made>> BY <2>1 DEF NatsSubscribe
    <3>2. /\ natsCall'[ch].pc \in {"idle", "subscribe"} /\ IsSupportedSubscribeChannel(ch)
          /\ \A d \in NatsChannels \ {ch} : natsCall'[d] = natsCall[d]
      BY <2>1, <2>c, <1>k DEF NatsSubscribe, NatsCall
    <3> QED BY <1>s, <1>i, <2>c, <3>1, <3>2 DEF OwnedInv
  <2>2. CASE SubscribeSubject(ch)
    <3>1. UNCHANGED <<subs>> BY <2>2 DEF SubscribeSubject
    <3>2. /\ natsCall'[ch].pc \in {"idle", "store"}
          /\ \A d \in NatsChannels \ {ch} : natsCall'[d] = natsCall[d]
      <4>1. \/ natsCall' = [natsCall EXCEPT ![ch] = [pc |-> "store", sub |-> made + 1]]
            \/ natsCall' = [natsCall EXCEPT ![ch] = NatsIdle]
        BY <2>2 DEF SubscribeSubject
      <4>2. CASE natsCall' = [natsCall EXCEPT ![ch] = [pc |-> "store", sub |-> made + 1]]
        BY <2>c, <1>k, <4>2
      <4>3. CASE natsCall' = [natsCall EXCEPT ![ch] = NatsIdle] BY <2>c, <1>k, <4>3 DEF NatsIdle
      <4> QED BY <4>1, <4>2, <4>3
    <3>3. IsSupportedSubscribeChannel(ch) BY <2>2, <2>c DEF SubscribeSubject, OwnedInv
    <3>4. CASE made' = made + 1
      <4> DEFINE new == [id |-> made + 1, subject |-> clientChannel(ch)]
      <4>1. /\ natsConn = "open" /\ active' = active \cup {new}
            /\ natsCall'[ch] = [pc |-> "store", sub |-> made + 1]
        BY <2>2, <2>c, <1>k, <1>n, <3>4 DEF SubscribeSubject, NatsCall
      <4>2. new.id = made + 1 /\ new.subject = clientChannel(ch) OBVIOUS
      <4>3. \A x \in 1 .. made : x \in 1 .. made' /\ x # made + 1
        <5>1. \A x \in 1 .. made : x \in 1 .. (made + 1) /\ x # made + 1 BY <1>n
        <5> QED BY <3>4, <5>1
      <4>4. made + 1 \in 1 .. made'
        <5>1. made + 1 \in 1 .. (made + 1) BY <1>n
        <5> QED BY <3>4, <5>1
      <4> HIDE DEF new
      <4>5. active' # {} => natsConn' = "open" BY <2>c, <4>1
      <4>6. \A s, t \in active' : s.id = t.id => s = t BY <4>1, <4>2, <4>3, <1>l DEF OwnedInv
      <4>7. \A s \in active' : \E d \in nconf.used : clientChannel(d) = s.subject /\ IsSupportedSubscribeChannel(d)
        BY <4>1, <4>2, <3>3 DEF OwnedInv
      <4>8. \A u \in NatsChannels : subs[u] # NoSub =>
               /\ subs[u].sub \in 1 .. made'
               /\ subs[u].orig \in nconf.used /\ clientChannel(subs[u].orig) = u
               /\ \A s \in active' : s.id = subs[u].sub => s.subject = u
        BY <4>1, <4>2, <4>3 DEF OwnedInv
      <4>9. \A d \in NatsChannels : natsCall'[d].pc \in {"store", "unsubscribe", "delete"} =>
               /\ natsCall'[d].sub \in 1 .. made'
               /\ \A s \in active' : s.id = natsCall'[d].sub => s.subject = clientChannel(d)
        <5>1. ASSUME NEW s \in active, s.id = made + 1 PROVE FALSE BY <1>l, <4>3, <5>1
        <5> QED BY <4>1, <4>2, <4>3, <4>4, <3>2, <5>1 DEF OwnedInv
      <4> QED BY <1>s, <1>i, <2>c, <3>1, <3>2, <4>5, <4>6, <4>7, <4>8, <4>9 DEF OwnedInv
    <3>5. CASE made' # made + 1
      <4>1. UNCHANGED <<active, made>> /\ natsCall'[ch].pc = "idle"
        <5>1. UNCHANGED <<active, made>> /\ natsCall' = [natsCall EXCEPT ![ch] = NatsIdle]
          BY <2>2, <3>5 DEF SubscribeSubject
        <5> QED BY <2>c, <1>k, <5>1, CallWrite DEF NatsIdle
      <4> QED BY <1>s, <1>i, <2>c, <3>1, <3>2, <4>1 DEF OwnedInv
    <3> QED BY <3>4, <3>5
  <2>3. CASE StoreSub(ch)
    <3>1. UNCHANGED <<active, made>> BY <2>3 DEF StoreSub
    <3>2. /\ natsCall'[ch].pc = "idle" /\ natsCall[ch].pc = "store"
          /\ \A d \in NatsChannels \ {ch} : natsCall'[d] = natsCall[d]
      BY <2>3, <2>c, <1>k DEF StoreSub, NatsIdle
    <3>3. /\ subs'[clientChannel(ch)] = [sub |-> natsCall[ch].sub, orig |-> ch]
          /\ \A u \in NatsChannels \ {clientChannel(ch)} : subs'[u] = subs[u]
      BY <2>3, <2>c, <1>k DEF StoreSub
    <3>4. /\ subs'[clientChannel(ch)].sub \in 1 .. made /\ subs'[clientChannel(ch)].orig = ch
          /\ \A s \in active : s.id = subs'[clientChannel(ch)].sub => s.subject = clientChannel(ch)
      BY <2>c, <3>2, <3>3 DEF OwnedInv
    <3> QED BY <1>s, <1>i, <2>c, <3>1, <3>2, <3>3, <3>4 DEF OwnedInv
  <2>4. CASE LastLeaves(ch)
    <3>1. UNCHANGED <<subs, active, made, natsCall>> BY <2>4 DEF LastLeaves
    <3> QED BY <1>s, <1>i, <2>c, <3>1 DEF OwnedInv
  <2>5. CASE NatsUnsubscribe(ch)
    <3>1. UNCHANGED <<subs, active, made>> BY <2>5 DEF NatsUnsubscribe
    <3>2. \A d \in NatsChannels \ {ch} : natsCall'[d] = natsCall[d]
      BY <2>5, <2>c, <1>k DEF NatsUnsubscribe
    <3>3. CASE natsCall' = natsCall BY <1>s, <1>i, <2>c, <3>1, <3>3 DEF OwnedInv
    <3>4. CASE natsCall' # natsCall
      <4>1. /\ natsCall'[ch] = [pc |-> "unsubscribe", sub |-> subs[clientChannel(ch)].sub]
            /\ subs[clientChannel(ch)] # NoSub
        BY <2>5, <2>c, <1>k, <3>4 DEF NatsUnsubscribe
      <4>2. /\ natsCall'[ch].pc = "unsubscribe" /\ natsCall'[ch].sub \in 1 .. made
            /\ \A s \in active : s.id = natsCall'[ch].sub => s.subject = clientChannel(ch)
        BY <2>c, <4>1 DEF OwnedInv
      <4> QED BY <1>s, <1>i, <2>c, <3>1, <3>2, <4>2 DEF OwnedInv
    <3> QED BY <3>3, <3>4
  <2>6. CASE UnsubscribeSubject(ch)
    <3>1. UNCHANGED <<subs, made>> /\ active' \subseteq active BY <2>6 DEF UnsubscribeSubject
    <3>2. \A d \in NatsChannels \ {ch} : natsCall'[d] = natsCall[d]
      BY <2>6, <2>c, <1>k DEF UnsubscribeSubject
    <3>3. /\ natsCall'[ch].pc = "idle" \/ (natsCall'[ch].pc = "delete" /\ natsCall'[ch].sub = natsCall[ch].sub)
          /\ natsCall[ch].pc = "unsubscribe"
      <4>1. natsCall' = [natsCall EXCEPT ![ch].pc = "delete"] \/ natsCall' = [natsCall EXCEPT ![ch] = NatsIdle]
        BY <2>6 DEF UnsubscribeSubject
      <4>2. natsCall[ch].pc = "unsubscribe" BY <2>6 DEF UnsubscribeSubject
      <4>3. CASE natsCall' = [natsCall EXCEPT ![ch].pc = "delete"] BY <2>c, <1>k, <4>2, <4>3, CallWrite
      <4>4. CASE natsCall' = [natsCall EXCEPT ![ch] = NatsIdle] BY <2>c, <1>k, <4>2, <4>4 DEF NatsIdle
      <4> QED BY <4>1, <4>3, <4>4
    <3> QED BY <1>s, <1>i, <2>c, <3>1, <3>2, <3>3 DEF OwnedInv
  <2>7. CASE DeleteSub(ch)
    <3>1. UNCHANGED <<active, made>> BY <2>7 DEF DeleteSub
    <3>2. /\ natsCall'[ch].pc = "idle"
          /\ \A d \in NatsChannels \ {ch} : natsCall'[d] = natsCall[d]
      BY <2>7, <2>c, <1>k DEF DeleteSub, NatsIdle
    <3>3. /\ subs'[clientChannel(ch)] = NoSub
          /\ \A u \in NatsChannels \ {clientChannel(ch)} : subs'[u] = subs[u]
      BY <2>7, <2>c, <1>k DEF DeleteSub
    <3> QED BY <1>s, <1>i, <2>c, <3>1, <3>2, <3>3 DEF OwnedInv
  <2> QED BY <1>3, <2>1, <2>2, <2>3, <2>4, <2>5, <2>6, <2>7 DEF CallOf
<1>4. CASE UNCHANGED <<nconf, natsConn, natsCalls>> BY <1>4, <1>s, <1>i DEF OwnedInv, natsCalls
<1> QED BY <1>1, <1>2, <1>3, <1>4, NatsSteps

\* A call touches nothing of the channels with other subjects.
LEMMA CallKeepsOthers ==
  ASSUME NatsTypes, OwnedInv, NEW ch \in nconf.used, CallOf(ch),
         NEW d \in nconf.used, d # ch, clientChannel(d) # clientChannel(ch)
  PROVE  /\ natsCall'[d] = natsCall[d] /\ subs'[clientChannel(d)] = subs[clientChannel(d)]
         /\ d \in local' <=> d \in local
         /\ \A s : s.subject = clientChannel(d) => (s \in active' <=> s \in active)
<1>c. /\ ch \in NatsChannels /\ clientChannel(ch) \in NatsChannels
      /\ d \in NatsChannels /\ clientChannel(d) \in NatsChannels
  BY NatsAssumption DEF NatsTypes, CallTypes, clientChannel
<1>k. /\ natsCall \in [NatsChannels -> NatsCall]
      /\ subs \in [NatsChannels -> [sub : Nat, orig : NatsChannels \cup {""}]]
  BY DEF NatsTypes, CallTypes
<1>1. natsCall'[d] = natsCall[d]
  BY <1>c, <1>k DEF CallOf, NatsSubscribe, SubscribeSubject, StoreSub, LastLeaves, NatsUnsubscribe,
     UnsubscribeSubject, DeleteSub
<1>2. subs'[clientChannel(d)] = subs[clientChannel(d)]
  BY <1>c, <1>k DEF CallOf, NatsSubscribe, SubscribeSubject, StoreSub, LastLeaves, NatsUnsubscribe,
     UnsubscribeSubject, DeleteSub
<1>3. d \in local' <=> d \in local
  BY DEF CallOf, NatsSubscribe, SubscribeSubject, StoreSub, LastLeaves, NatsUnsubscribe,
     UnsubscribeSubject, DeleteSub
<1>4. ASSUME NEW s, s.subject = clientChannel(d) PROVE s \in active' <=> s \in active
  <2>1. CASE SubscribeSubject(ch)
    <3>1. s # [id |-> made + 1, subject |-> clientChannel(ch)] BY <1>4
    <3> QED BY <2>1, <3>1 DEF SubscribeSubject
  <2>2. CASE UnsubscribeSubject(ch)
    <3>1. natsCall[ch].pc = "unsubscribe" BY <2>2 DEF UnsubscribeSubject
    <3>2. \A t \in active : t.id = natsCall[ch].sub => t.subject = clientChannel(ch)
      BY <1>c, <3>1 DEF OwnedInv
    <3> QED BY <1>4, <2>2, <3>2 DEF UnsubscribeSubject
  <2>3. CASE ~SubscribeSubject(ch) /\ ~UnsubscribeSubject(ch)
    BY <2>3 DEF CallOf, NatsSubscribe, StoreSub, LastLeaves, NatsUnsubscribe, DeleteSub
  <2> QED BY <2>1, <2>2, <2>3
<1> QED BY <1>1, <1>2, <1>3, <1>4

\* A channel that is alone on its subject goes from phase to phase.
LEMMA PhaseMoves ==
  ASSUME NatsTypes, OwnedInv, nconf' = nconf, NEW ch \in nconf.used, CallOf(ch), PhaseOf(ch)
  PROVE  PhaseOf(ch)'
<1> DEFINE u == clientChannel(ch)
           c == natsCall[ch]
           e == subs[u]
           c1 == natsCall'[ch]
           e1 == subs'[u]
<1>c. ch \in NatsChannels /\ u \in NatsChannels /\ clientChannel(ch)' = u
  BY SubjectsStay
<1>k. /\ natsCall \in [NatsChannels -> NatsCall] /\ natsCall[ch] \in NatsCall
      /\ subs \in [NatsChannels -> [sub : Nat, orig : NatsChannels \cup {""}]]
  BY <1>c DEF NatsTypes, CallTypes
<1>z. NoSub.sub = 0 BY DEF NoSub
<1>n. made \in Nat
  <2>1. made \in 0 .. MaxNatsSubs BY DEF NatsTypes, CallTypes
  <2> QED BY <2>1, NatsAssumption
<1>p. Phase(c, e, active, u, ch \in local) BY DEF PhaseOf
<1>q. SUFFICES Phase(c1, e1, active', u, ch \in local') BY <1>c DEF PhaseOf
<1>1. CASE NatsSubscribe(ch)
  <2>1. active' = active /\ e1 = e /\ c.pc = "idle" BY <1>1 DEF NatsSubscribe
  <2> DEFINE pc == IF e = NoSub THEN "subscribe" ELSE "idle"
  <2>2. natsCall' = [natsCall EXCEPT ![ch].pc = pc] BY <1>1 DEF NatsSubscribe
  <2> HIDE DEF pc
  <2>3. c1.pc = pc BY <1>c, <1>k, <2>2, CallWrite
  <2> HIDE DEF c, c1, e, e1, u
  <2> QED BY <1>p, <1>z, <2>1, <2>3 DEF Phase, pc
<1>2. CASE SubscribeSubject(ch)
  <2>1. c.pc = "subscribe" /\ e1 = e BY <1>2 DEF SubscribeSubject
  <2>2. CASE made' = made
    <3>1. /\ active' = active /\ local' = local \ {ch}
          /\ natsCall' = [natsCall EXCEPT ![ch] = NatsIdle]
      BY <1>2, <1>n, <2>2 DEF SubscribeSubject
    <3>2. c1.pc = "idle" BY <1>c, <1>k, <3>1 DEF NatsIdle
    <3>3. ch \notin local' BY <3>1
    <3> HIDE DEF c, c1, e, e1, u
    <3> QED BY <1>p, <1>z, <2>1, <3>1, <3>2, <3>3 DEF Phase
  <2>3. CASE made' # made
    <3> DEFINE new == [id |-> made + 1, subject |-> u]
    <3>1. active' = active \cup {new} /\ natsCall' = [natsCall EXCEPT ![ch] = [pc |-> "store", sub |-> made + 1]]
      BY <1>2, <2>3 DEF SubscribeSubject
    <3>2. c1.pc = "store" /\ c1.sub = made + 1 BY <1>c, <1>k, <3>1
    <3>3. new.id = made + 1 /\ new.subject = u OBVIOUS
    <3>4. \A s \in active : s.id # 0
      <4>1. \A s \in active : s.id \in 1 .. made BY DEF NatsTypes, CallTypes
      <4>2. \A x \in 1 .. made : x # 0 BY <1>n
      <4> QED BY <4>1, <4>2
    <3> HIDE DEF c, c1, e, e1, u, new
    <3>5. \A s \in active : s.subject # u BY <1>p, <2>1, <3>4 DEF Phase, OneOf
    <3>6. OneOf(active', u, made + 1) BY <3>1, <3>3, <3>5 DEF OneOf
    <3> QED BY <1>p, <2>1, <3>2, <3>6 DEF Phase
  <2> QED BY <2>2, <2>3
<1>3. CASE StoreSub(ch)
  <2>1. c.pc = "store" /\ active' = active BY <1>3 DEF StoreSub
  <2>2. c1.pc = "idle" BY <1>3, <1>c, <1>k DEF StoreSub, NatsIdle
  <2>3. e1.sub = c.sub BY <1>3, <1>c, <1>k DEF StoreSub
  <2>4. c.sub # 0
    <3>1. c.sub \in 1 .. made BY <2>1, <1>c DEF OwnedInv
    <3> QED BY <3>1, <1>n
  <2> HIDE DEF c, c1, e1, u
  <2> QED BY <1>p, <1>z, <2>1, <2>2, <2>3, <2>4 DEF Phase
<1>4. CASE LastLeaves(ch)
  <2>1. c1 = c /\ e1 = e /\ active' = active /\ c.pc = "idle" /\ ch \notin local' BY <1>4 DEF LastLeaves
  <2> HIDE DEF c, c1, e, e1, u
  <2> QED BY <1>p, <2>1 DEF Phase
<1>5. CASE NatsUnsubscribe(ch)
  <2>1. UNCHANGED <<local, subs, active>> /\ c.pc = "idle" BY <1>5 DEF NatsUnsubscribe
  <2>2. CASE natsCall' = natsCall
    <3>1. c1 = c /\ e1 = e BY <2>1, <2>2
    <3> HIDE DEF c, c1, e, e1, u
    <3> QED BY <1>p, <2>1, <3>1
  <2>3. CASE natsCall' # natsCall
    <3>1. /\ natsCall' = [natsCall EXCEPT ![ch] = [pc |-> "unsubscribe", sub |-> e.sub]] /\ ch \notin local
      BY <1>5, <2>3 DEF NatsUnsubscribe
    <3>2. c1.pc = "unsubscribe" /\ c1.sub = e.sub BY <1>c, <1>k, <3>1
    <3>3. e1 = e BY <2>1
    <3> HIDE DEF c, c1, e, e1, u
    <3> QED BY <1>p, <2>1, <3>1, <3>2, <3>3 DEF Phase
  <2> QED BY <2>2, <2>3
<1>6. CASE UnsubscribeSubject(ch)
  <2>1. c.pc = "unsubscribe" /\ local' = local /\ e1 = e BY <1>6 DEF UnsubscribeSubject
  <2> DEFINE mine == {s \in active : s.id = c.sub}
  <2>2. \/ active' = active \ mine /\ natsCall' = [natsCall EXCEPT ![ch].pc = "delete"]
        \/ active' = active /\ natsCall' = [natsCall EXCEPT ![ch] = NatsIdle]
    BY <1>6 DEF UnsubscribeSubject
  <2>3. CASE active' = active \ mine /\ natsCall' = [natsCall EXCEPT ![ch].pc = "delete"]
    <3>1. c1.pc = "delete" BY <1>c, <1>k, <2>3, CallWrite
    <3> HIDE DEF c, c1, e, e1, u
    <3>2. OneOf(active, u, c.sub) /\ ch \notin local BY <1>p, <2>1 DEF Phase
    <3>3. OneOf(active', u, 0) BY <2>3, <3>2 DEF OneOf
    <3> QED BY <2>1, <3>1, <3>2, <3>3 DEF Phase
  <2>4. CASE active' = active /\ natsCall' = [natsCall EXCEPT ![ch] = NatsIdle]
    <3>1. c1.pc = "idle" BY <1>c, <1>k, <2>4 DEF NatsIdle
    <3> HIDE DEF c, c1, e, e1, u
    <3> QED BY <1>p, <2>1, <2>4, <3>1 DEF Phase
  <2> QED BY <2>2, <2>3, <2>4
<1>7. CASE DeleteSub(ch)
  <2>1. c.pc = "delete" /\ UNCHANGED <<local, active>> BY <1>7 DEF DeleteSub
  <2>2. c1.pc = "idle" BY <1>7, <1>c, <1>k DEF DeleteSub, NatsIdle
  <2>3. e1 = NoSub BY <1>7, <1>c, <1>k DEF DeleteSub
  <2> HIDE DEF c, c1, e1, u
  <2> QED BY <1>p, <1>z, <2>1, <2>2, <2>3 DEF Phase
<1> QED BY <1>1, <1>2, <1>3, <1>4, <1>5, <1>6, <1>7 DEF CallOf

LEMMA PhaseStep ==
  ASSUME NatsTypes, OwnedInv, PhaseInv, [NatsNext]_natsVars, nconf' = nconf
  PROVE  PhaseInv'
<1>s. \A ch : clientChannel(ch)' = clientChannel(ch) /\ (Alone(ch)' <=> Alone(ch)) BY SubjectsStay
<1>0. ASSUME UNCHANGED natsCalls, NEW d \in nconf.used, PhaseOf(d) PROVE PhaseOf(d)'
  BY <1>0, PhaseUndisturbed DEF natsCalls
<1>1. CASE RegisterNats BY <1>1, <1>0, <1>s DEF RegisterNats, PhaseInv
<1>2. CASE CloseNats BY <1>2 DEF CloseNats, PhaseInv
<1>3. ASSUME NEW ch \in nconf.used, CallOf(ch) PROVE PhaseInv'
  <2>c. natsConn' = natsConn
    BY <1>3 DEF CallOf, NatsSubscribe, SubscribeSubject, StoreSub, LastLeaves, NatsUnsubscribe,
       UnsubscribeSubject, DeleteSub, NatsStays
  <2> SUFFICES ASSUME natsConn \in {"off", "open"}, NEW d \in nconf.used, Alone(d) PROVE PhaseOf(d)'
    BY <1>s, <2>c DEF PhaseInv
  <2>1. PhaseOf(d) BY DEF PhaseInv
  <2>2. CASE d = ch BY <1>3, <2>1, <2>2, PhaseMoves
  <2>3. CASE d # ch
    <3>1. clientChannel(ch) # clientChannel(d) BY <2>3 DEF Alone
    <3> QED BY <1>3, <2>1, <2>3, <3>1, CallKeepsOthers, PhaseUndisturbed
  <2> QED BY <2>2, <2>3
<1>4. CASE UNCHANGED <<nconf, natsConn, natsCalls>> BY <1>4, <1>0, <1>s DEF PhaseInv
<1> QED BY <1>1, <1>2, <1>3, <1>4, NatsSteps

\* Between its calls a channel has the one subscription the map says.
LEMMA SubscribedByPhase ==
  ASSUME NatsTypes, OwnedInv, PhaseInv
  PROVE  SubscribedOnce
<1> SUFFICES ASSUME natsConn = "open", NEW ch \in NatsChannels, Alone(ch), natsCall[ch].pc = "idle"
             PROVE  LET own == {s \in active : s.subject = clientChannel(ch)}
                    IN  /\ {s.id : s \in own} = {subs[clientChannel(ch)].sub} \ {0}
                        /\ ch \in local => own # {}
  BY DEF SubscribedOnce
<1>c. clientChannel(ch) \in NatsChannels BY NatsAssumption DEF NatsTypes, CallTypes, clientChannel
<1>e. subs[clientChannel(ch)] = NoSub => subs[clientChannel(ch)].sub = 0
  <2>1. NoSub.sub = 0 BY DEF NoSub
  <2> QED BY <2>1
<1>n. \A x \in 1 .. made : x # 0
  <2>1. made \in 0 .. MaxNatsSubs BY DEF NatsTypes, CallTypes
  <2> QED BY <2>1, NatsAssumption
<1>i. \A s \in active : s.id # 0 BY <1>n DEF NatsTypes, CallTypes
<1>1. CASE ch \in nconf.used
  <2>1. /\ OneOf(active, clientChannel(ch), subs[clientChannel(ch)].sub)
        /\ ch \in local => subs[clientChannel(ch)] # NoSub
    BY <1>1 DEF PhaseInv, PhaseOf, Phase
  <2>2. subs[clientChannel(ch)] # NoSub => subs[clientChannel(ch)].sub # 0 BY <1>c, <1>n DEF OwnedInv
  <2> QED BY <2>1, <2>2, <1>i, <1>e DEF OneOf
<1>2. CASE ch \notin nconf.used
  <2>1. \A d \in nconf.used : clientChannel(d) # clientChannel(ch) BY <1>2 DEF Alone
  <2>2. subs[clientChannel(ch)].sub = 0 BY <1>c, <1>e, <2>1 DEF OwnedInv
  <2>3. \A s \in active : s.subject # clientChannel(ch) BY <2>1 DEF OwnedInv
  <2>4. ch \notin local BY <1>2 DEF NatsTypes, CallTypes
  <2> QED BY <2>2, <2>3, <2>4
<1> QED BY <1>1, <1>2

(* The messages: what a subscription still has to call back with follows   *)
(* what the event handler has got for its channel.                         *)

Queued(q) == {q[x] : x \in DOMAIN q}

Sorted(q) == \A x, y \in DOMAIN q : x < y => Before(q[x], q[y])

LEMMA QueueTail ==
  ASSUME NEW S, NEW q \in Seq(S), q # <<>>
  PROVE  /\ Head(q) \in Queued(q) /\ Queued(Tail(q)) \subseteq Queued(q)
         /\ Sorted(q) => Sorted(Tail(q)) /\ \A m \in Queued(Tail(q)) : Before(Head(q), m)
<1>1. Head(q) = q[1] /\ 1 \in DOMAIN q OBVIOUS
<1>2. \A x \in DOMAIN Tail(q) : Tail(q)[x] = q[x + 1] /\ x + 1 \in DOMAIN q /\ 1 < x + 1 /\ x \in Nat
  OBVIOUS
<1>3. \A x, y \in DOMAIN Tail(q) : x < y => x + 1 < y + 1 BY <1>2
<1>4. Queued(Tail(q)) \subseteq Queued(q) BY <1>2 DEF Queued
<1>5. Sorted(q) => Sorted(Tail(q)) BY <1>2, <1>3 DEF Sorted
<1>6. Sorted(q) => \A m \in Queued(Tail(q)) : Before(Head(q), m) BY <1>1, <1>2 DEF Sorted, Queued
<1> QED BY <1>1, <1>4, <1>5, <1>6 DEF Queued

LEMMA QueueAppend ==
  ASSUME NEW S, NEW q \in Seq(S), NEW m \in S
  PROVE  /\ Queued(Append(q, m)) = Queued(q) \cup {m}
         /\ Sorted(q) /\ (\A a \in Queued(q) : Before(a, m)) => Sorted(Append(q, m))
<1> DEFINE r == Append(q, m)
<1>1. /\ Len(q) \in Nat /\ DOMAIN q = 1 .. Len(q) /\ DOMAIN r = 1 .. (Len(q) + 1)
      /\ \A x \in DOMAIN q : r[x] = q[x]
      /\ r[Len(q) + 1] = m
  OBVIOUS
<1>2. \A x \in DOMAIN r : x \in DOMAIN q \/ x = Len(q) + 1 BY <1>1
<1>3. \A x, y \in DOMAIN r : x < y => x \in DOMAIN q BY <1>1
<1>4. DOMAIN q \subseteq DOMAIN r /\ Len(q) + 1 \in DOMAIN r BY <1>1
<1>5. Queued(r) = Queued(q) \cup {m}
  <2> HIDE DEF r
  <2> QED BY <1>1, <1>2, <1>4 DEF Queued
<1>6. ASSUME Sorted(q), \A a \in Queued(q) : Before(a, m), NEW x \in DOMAIN r, NEW y \in DOMAIN r, x < y
      PROVE  Before(r[x], r[y])
  <2>1. x \in DOMAIN q /\ r[x] = q[x] /\ q[x] \in Queued(q) BY <1>1, <1>3, <1>6 DEF Queued
  <2>2. CASE y \in DOMAIN q BY <1>1, <1>6, <2>1, <2>2 DEF Sorted
  <2>3. CASE y \notin DOMAIN q
    <3>1. r[y] = m BY <1>1, <1>2, <2>3
    <3> QED BY <1>6, <2>1, <3>1
  <2> QED BY <2>2, <2>3
<1> QED BY <1>5, <1>6 DEF Sorted

LEMMA QueueEmpty == Queued(<<>>) = {} /\ Sorted(<<>>)
BY DEF Queued, Sorted

\* What a message in a queue or with the event handler was when NATS got it:
\* older than what Redis has stored and NATS has still to get.
Seen(m) ==
    /\ m.n <= messages /\ m.ch \in nconf.used /\ m.off <= redisTop[m.ch]
    /\ \A p \in publishing : p.ch = m.ch => m.off < p.off

PublishingInv ==
    /\ \A p, q \in publishing : p.ch = q.ch => p = q
    /\ \A p \in publishing : p.off <= redisTop[p.ch]

PendingInv ==
    /\ \A i \in 1 .. MaxNatsSubs :
         /\ Sorted(pending[i]) /\ (pending[i] # <<>> => i <= made)
         /\ \A m \in Queued(pending[i]) : Seen(m)
    /\ \A s \in active : \A m \in Queued(pending[s.id]) :
         s.subject = clientChannel(m.ch) \/ s.subject \in Wild

\* A callback in progress, of a subscription that may have ended since.
CallbackInv ==
    /\ \A c, d \in callbacks : c.sub = d.sub => c = d
    /\ \A c \in callbacks :
         /\ Seen(c.m) /\ c.sub <= made
         /\ c.subject = clientChannel(c.m.ch) \/ c.subject \in Wild
         /\ \E d \in nconf.used : clientChannel(d) = c.subject /\ IsSupportedSubscribeChannel(d)

\* HandedInOrder compares h with what came before it.
Compared(h) == Alone(h.to) /\ (nconf.wildcards => h.cb.m.kind = "pub")

HandedInv ==
    \A h \in Queued(handed) :
        /\ Seen(h.cb.m) /\ h.cb.sub <= made
        /\ Alone(h.to) => h.to = h.cb.m.ch \/ h.to \in Wild
        /\ Compared(h) => h.cb.subject = clientChannel(h.to)

\* The subject u belongs to one channel alone.
Lone(u) == \E ch : Alone(ch) /\ clientChannel(ch) = u

\* Callbacks of one subject: those of a later subscription are about later
\* messages.
InTurn(c, d) ==
    c.subject = d.subject /\ Lone(c.subject) /\ c.sub < d.sub => Before(c.m, d.m)

\* A callback before one of the same subscription, or of another.
Succeeds(c, d) == InTurn(c, d) /\ InTurn(d, c)
               /\ (c.subject = d.subject /\ Lone(c.subject) /\ c.sub = d.sub => Before(c.m, d.m))

\* What a live subscription has still to call back with follows the callback c.
Follows(c) ==
    \A s \in active : s.subject = c.subject /\ Lone(c.subject) =>
        c.sub <= s.id /\ \A m \in Queued(pending[s.id]) : Before(c.m, m)

OrderInv ==
    /\ \A c \in callbacks : Follows(c)
    /\ \A h \in Queued(handed) : Follows(h.cb)
    /\ \A c, d \in callbacks : InTurn(c, d)
    /\ \A h \in Queued(handed), c \in callbacks : Succeeds(h.cb, c)
    /\ \A i, j \in DOMAIN handed, c, d \in NatsCallback :
         j < i /\ c = handed[j].cb /\ d = handed[i].cb => Succeeds(c, d)

FlowInv == PublishingInv /\ PendingInv /\ CallbackInv /\ HandedInv /\ OrderInv

\* Queues that lose messages, at their end or altogether.
Shorter(r, q) ==
    Queued(r) \subseteq Queued(q) /\ (Sorted(q) => Sorted(r)) /\ (q = <<>> => r = <<>>)

\* Messages and callbacks are of their types wherever they are.
LEMMA MessagesTyped ==
  ASSUME NatsTypes
  PROVE  /\ \A i \in 1 .. MaxNatsSubs : Queued(pending[i]) \subseteq NatsMsg
         /\ \A h \in Queued(handed) : h.cb \in NatsCallback
         /\ \A c \in callbacks : c \in NatsCallback
         /\ \A c \in NatsCallback : c.m \in NatsMsg /\ c.sub \in Nat /\ c.subject \in NatsChannels
         /\ \A s \in active : s.id \in 1 .. MaxNatsSubs /\ s.id \in Nat /\ s.subject \in NatsChannels
         /\ made \in Nat
<1>1. ASSUME NEW S, NEW q \in Seq(S) PROVE Queued(q) \subseteq S BY DEF Queued
<1>2. \A i \in 1 .. MaxNatsSubs : pending[i] \in Seq(NatsMsg) BY DEF NatsTypes, FlowTypes
<1>3. handed \in Seq([to : NatsChannels, cb : NatsCallback]) BY DEF NatsTypes, FlowTypes
<1>4. /\ \A s \in active : s.id \in 1 .. MaxNatsSubs /\ s.id \in Nat /\ s.subject \in NatsChannels
      /\ made \in Nat
  <2>1. \A s \in active : s.id \in 1 .. made /\ s.subject \in NatsChannels BY DEF NatsTypes, CallTypes
  <2>2. made \in 0 .. MaxNatsSubs BY DEF NatsTypes, CallTypes
  <2>3. \A x \in 1 .. made : x \in 1 .. MaxNatsSubs /\ x \in Nat BY <2>2, NatsAssumption
  <2> QED BY <2>1, <2>2, <2>3, NatsAssumption
<1>5. \A h \in Queued(handed) : h.cb \in NatsCallback
  <2>1. Queued(handed) \subseteq [to : NatsChannels, cb : NatsCallback] BY <1>1, <1>3
  <2> QED BY <2>1
<1>6. \A i \in 1 .. MaxNatsSubs : Queued(pending[i]) \subseteq NatsMsg BY <1>1, <1>2
<1>7. \A c \in callbacks : c \in NatsCallback BY DEF NatsTypes, FlowTypes
<1>8. \A c \in NatsCallback : c.m \in NatsMsg /\ c.sub \in Nat /\ c.subject \in NatsChannels
  BY DEF NatsCallback
<1> QED BY <1>4, <1>5, <1>6, <1>7, <1>8

\* The configuration stays, and with it which callbacks are compared.
LEMMA LoneStays ==
  ASSUME NatsTypes, nconf' = nconf
  PROVE  /\ \A u : Lone(u)' <=> Lone(u)
         /\ \A c, d : (InTurn(c, d)' <=> InTurn(c, d)) /\ (Succeeds(c, d)' <=> Succeeds(c, d))
         /\ \A h : Compared(h)' <=> Compared(h)
<1>1. \A ch : clientChannel(ch)' = clientChannel(ch) /\ (Alone(ch)' <=> Alone(ch)) BY SubjectsStay
<1>2. \A u : Lone(u)' <=> Lone(u) BY <1>1 DEF Lone
<1>3. \A c, d : InTurn(c, d)' <=> InTurn(c, d) BY <1>2 DEF InTurn
<1>4. \A c, d : Succeeds(c, d)' <=> Succeeds(c, d) BY <1>2, <1>3 DEF Succeeds
<1>5. \A h : Compared(h)' <=> Compared(h) BY <1>1 DEF Compared
<1> QED BY <1>2, <1>3, <1>4, <1>5

\* Queues that lose messages, and subscriptions that are new or end.
LEMMA FollowsStays ==
  ASSUME NatsTypes, nconf' = nconf, NEW c \in NatsCallback, Follows(c), c.sub <= made,
         \A s \in active' :
            \/ s \in active /\ Queued(pending'[s.id]) \subseteq Queued(pending[s.id])
            \/ s.id = made + 1 /\ Queued(pending'[s.id]) = {}
  PROVE  Follows(c)'
<1>1. \A u : Lone(u)' <=> Lone(u) BY LoneStays
<1>2. c.sub \in Nat /\ made \in Nat BY MessagesTyped
<1>3. c.sub <= made + 1 BY <1>2
<1> SUFFICES ASSUME NEW s \in active', s.subject = c.subject, Lone(c.subject)
             PROVE  c.sub <= s.id /\ \A m \in Queued(pending'[s.id]) : Before(c.m, m)
  BY <1>1 DEF Follows
<1>4. CASE s \in active /\ Queued(pending'[s.id]) \subseteq Queued(pending[s.id])
  BY <1>4 DEF Follows
<1>5. CASE s.id = made + 1 /\ Queued(pending'[s.id]) = {}
  BY <1>3, <1>5
<1> QED BY <1>4, <1>5

LEMMA QueuesShrink ==
  ASSUME NatsTypes, FlowInv, UNCHANGED <<nconf, callbacks, publishing, redisTop, messages, handed>>,
         made' \in Nat, made <= made',
         \A i \in 1 .. MaxNatsSubs : Shorter(pending'[i], pending[i]),
         \A s \in active' : s.id \in 1 .. MaxNatsSubs /\ (s \in active \/ s.id = made + 1)
  PROVE  FlowInv'
<1>s. \A ch : clientChannel(ch)' = clientChannel(ch) /\ (Alone(ch)' <=> Alone(ch)) BY SubjectsStay
<1>m. \A m : Seen(m) => Seen(m)' BY DEF Seen
<1>n. made \in Nat BY MessagesTyped
<1>e. \A s \in active' : s \in active \/ Queued(pending'[s.id]) = {}
  <2> SUFFICES ASSUME NEW s \in active', s \notin active PROVE Queued(pending'[s.id]) = {} OBVIOUS
  <2>1. s.id \in 1 .. MaxNatsSubs /\ s.id = made + 1 OBVIOUS
  <2>2. ~(s.id <= made) BY <2>1, <1>n
  <2>3. pending[s.id] = <<>> BY <2>1, <2>2 DEF FlowInv, PendingInv
  <2> QED BY <2>1, <2>3, QueueEmpty DEF Shorter
<1>o. \A c \in NatsCallback : c.sub <= made => c.sub <= made'
  <2>1. \A c \in NatsCallback : c.sub \in Nat BY MessagesTyped
  <2> QED BY <1>n, <2>1
<1>1. PublishingInv' BY DEF FlowInv, PublishingInv
<1>2. PendingInv'
  <2>1. ASSUME NEW i \in 1 .. MaxNatsSubs
        PROVE  /\ Sorted(pending'[i]) /\ (pending'[i] # <<>> => i <= made')
               /\ \A m \in Queued(pending'[i]) : Seen(m)'
    <3>1. Shorter(pending'[i], pending[i]) OBVIOUS
    <3>2. pending'[i] # <<>> => i <= made BY <3>1 DEF Shorter, FlowInv, PendingInv
    <3>3. i <= made => i <= made' BY <1>n
    <3> QED BY <1>m, <3>1, <3>2, <3>3 DEF Shorter, FlowInv, PendingInv
  <2>2. ASSUME NEW s \in active', NEW m \in Queued(pending'[s.id])
        PROVE  s.subject = clientChannel(m.ch) \/ s.subject \in Wild
    <3>1. s \in active /\ m \in Queued(pending[s.id]) BY <1>e, <2>2 DEF Shorter
    <3> QED BY <3>1 DEF FlowInv, PendingInv
  <2> QED BY <1>s, <2>1, <2>2 DEF PendingInv
<1>3. CallbackInv'
  BY <1>m, <1>o, <1>s, MessagesTyped DEF FlowInv, CallbackInv, IsSupportedSubscribeChannel
<1>4. HandedInv'
  BY <1>m, <1>o, <1>s, LoneStays, MessagesTyped DEF FlowInv, HandedInv
<1>5. OrderInv'
  <2>1. \A s \in active' :
          \/ s \in active /\ Queued(pending'[s.id]) \subseteq Queued(pending[s.id])
          \/ s.id = made + 1 /\ Queued(pending'[s.id]) = {}
    BY <1>e DEF Shorter
  <2>2. \A c \in callbacks : Follows(c)'
    BY <2>1, FollowsStays, MessagesTyped DEF FlowInv, OrderInv, CallbackInv
  <2>3. \A h \in Queued(handed) : Follows(h.cb)'
    BY <2>1, FollowsStays, MessagesTyped DEF FlowInv, OrderInv, HandedInv
  <2> QED BY <2>2, <2>3, LoneStays DEF FlowInv, OrderInv
<1> QED BY <1>1, <1>2, <1>3, <1>4, <1>5 DEF FlowInv

\* A message that is newer than all that were seen goes behind them.
LEMMA PublishKeeps ==
  ASSUME NatsTypes, OwnedInv, FlowInv, UNCHANGED <<nconf, natsCalls, callbacks, redisTop, handed>>,
         NEW ch \in nconf.used, NEW kind \in {"pub", "join"}, NEW off \in Nat, PublishTo(ch, kind, off),
         publishing' \subseteq publishing, off <= redisTop[ch],
         off > 0 => \A a \in NatsMsg : Seen(a) /\ a.ch = ch => a.off < off,
         \A p \in publishing' : p.ch = ch => off < p.off
  PROVE  FlowInv'
<1>s. /\ \A c : clientChannel(c)' = clientChannel(c) /\ (Alone(c)' <=> Alone(c))
      /\ nconf.used \subseteq NatsChannels
  BY SubjectsStay
<1>t. messages \in Nat /\ messages' = messages + 1 /\ active' = active /\ made' = made
  BY DEF NatsTypes, FlowTypes, PublishTo, natsCalls
<1>m. PICK m \in NatsMsg :
        /\ m.n = messages + 1 /\ m.ch = ch /\ m.off = off
        /\ pending' = [i \in DOMAIN pending |->
             IF \E s \in active : s.id = i /\ (s.subject = clientChannel(m.ch) \/ s.subject \in Wild)
             THEN Append(pending[i], m) ELSE pending[i]]
  <2> DEFINE x == [n |-> messages + 1, ch |-> ch, kind |-> kind, off |-> off]
  <2>1. x \in NatsMsg /\ x.n = messages + 1 /\ x.ch = ch /\ x.off = off BY <1>s, <1>t DEF NatsMsg
  <2>2. Published(x) BY DEF PublishTo
  <2> HIDE DEF x
  <2> QED BY <2>1, <2>2 DEF Published
<1>1. \A a \in NatsMsg : Seen(a) => Seen(a)'
  <2> SUFFICES ASSUME NEW a \in NatsMsg, Seen(a) PROVE Seen(a)' OBVIOUS
  <2>1. a.n <= messages' BY <1>t DEF Seen, NatsMsg
  <2> QED BY <2>1 DEF Seen
<1>2. Seen(m)' BY <1>m, <1>t DEF Seen
<1>3. \A a \in NatsMsg : Seen(a) => Before(a, m)
  <2> SUFFICES ASSUME NEW a \in NatsMsg, Seen(a) PROVE Before(a, m) OBVIOUS
  <2>1. a.n < messages + 1 BY <1>t DEF Seen, NatsMsg
  <2> QED BY <1>m, <2>1 DEF Before
<1>4. /\ DOMAIN pending = 1 .. MaxNatsSubs
      /\ \A i \in 1 .. MaxNatsSubs : pending[i] \in Seq(NatsMsg) /\ Queued(pending[i]) \subseteq NatsMsg
  BY MessagesTyped DEF NatsTypes, FlowTypes
<1>5. ASSUME NEW i \in 1 .. MaxNatsSubs
      PROVE  \/ pending'[i] = pending[i]
             \/ /\ pending'[i] = Append(pending[i], m)
                /\ \E s \in active : s.id = i /\ (s.subject = clientChannel(m.ch) \/ s.subject \in Wild)
  BY <1>m, <1>4
<1>6. \A i \in 1 .. MaxNatsSubs : Queued(pending'[i]) \subseteq Queued(pending[i]) \cup {m}
  <2> SUFFICES ASSUME NEW i \in 1 .. MaxNatsSubs
               PROVE  Queued(pending'[i]) \subseteq Queued(pending[i]) \cup {m}
    OBVIOUS
  <2>1. Queued(Append(pending[i], m)) = Queued(pending[i]) \cup {m} BY <1>4, QueueAppend
  <2> QED BY <1>5, <2>1
<1>7. ASSUME NEW i \in 1 .. MaxNatsSubs
      PROVE  /\ Sorted(pending'[i]) /\ (pending'[i] # <<>> => i <= made)
             /\ \A a \in Queued(pending'[i]) : Seen(a)'
  <2>1. /\ Sorted(pending[i]) /\ (pending[i] # <<>> => i <= made)
        /\ \A a \in Queued(pending[i]) : a \in NatsMsg /\ Seen(a)
    BY <1>4 DEF FlowInv, PendingInv
  <2>2. CASE pending'[i] = pending[i] BY <1>1, <2>1, <2>2
  <2>3. CASE pending'[i] = Append(pending[i], m) /\ \E s \in active : s.id = i
    <3>1. i <= made
      <4>1. \A s \in active : s.id \in 1 .. made BY DEF NatsTypes, CallTypes
      <4>2. made \in 0 .. MaxNatsSubs BY DEF NatsTypes, CallTypes
      <4>3. \A x \in 1 .. made : x <= made BY <4>2, NatsAssumption
      <4> QED BY <2>3, <4>1, <4>3
    <3>2. \A a \in Queued(pending[i]) : Before(a, m) BY <1>3, <2>1
    <3>3. pending[i] \in Seq(NatsMsg) BY <1>4
    <3>4. Sorted(Append(pending[i], m)) /\ Queued(Append(pending[i], m)) = Queued(pending[i]) \cup {m}
      BY <1>m, <2>1, <3>2, <3>3, QueueAppend
    <3> QED BY <1>1, <1>2, <2>1, <2>3, <3>1, <3>4
  <2> QED BY <1>5, <2>2, <2>3
<1>8. ASSUME NEW s \in active, NEW a \in Queued(pending'[s.id])
      PROVE  s.subject = clientChannel(a.ch) \/ s.subject \in Wild
  <2>1. s.id \in 1 .. MaxNatsSubs BY MessagesTyped
  <2>2. CASE a \in Queued(pending[s.id]) BY <2>2 DEF FlowInv, PendingInv
  <2>3. CASE a \notin Queued(pending[s.id])
    <3>1. a = m /\ pending'[s.id] # pending[s.id] BY <1>6, <1>8, <2>1, <2>3
    <3>2. PICK t \in active : t.id = s.id /\ (t.subject = clientChannel(m.ch) \/ t.subject \in Wild)
      BY <1>5, <2>1, <3>1
    <3>3. t = s BY <3>2 DEF OwnedInv
    <3> QED BY <3>1, <3>2, <3>3
  <2> QED BY <2>2, <2>3
<1>11. PublishingInv' BY DEF FlowInv, PublishingInv
<1>12. PendingInv' BY <1>s, <1>t, <1>7, <1>8 DEF PendingInv
<1>13. CallbackInv'
  BY <1>1, <1>s, <1>t, MessagesTyped DEF FlowInv, CallbackInv, IsSupportedSubscribeChannel
<1>14. HandedInv'
  BY <1>1, <1>s, <1>t, LoneStays, MessagesTyped DEF FlowInv, HandedInv
<1>15. OrderInv'
  <2>1. ASSUME NEW c \in NatsCallback, Seen(c.m), Follows(c) PROVE Follows(c)'
    <3> SUFFICES ASSUME NEW s \in active, s.subject = c.subject, Lone(c.subject)
                 PROVE  c.sub <= s.id /\ \A a \in Queued(pending'[s.id]) : Before(c.m, a)
      BY <1>t, LoneStays DEF Follows
    <3>1. c.m \in NatsMsg /\ s.id \in 1 .. MaxNatsSubs BY MessagesTyped
    <3>2. Before(c.m, m) BY <1>3, <2>1, <3>1
    <3> QED BY <1>6, <2>1, <3>1, <3>2 DEF Follows
  <2>2. \A c \in callbacks : Follows(c)'
    BY <2>1, MessagesTyped DEF FlowInv, OrderInv, CallbackInv
  <2>3. \A h \in Queued(handed) : Follows(h.cb)'
    BY <2>1, MessagesTyped DEF FlowInv, OrderInv, HandedInv
  <2> QED BY <2>2, <2>3, LoneStays DEF FlowInv, OrderInv
<1> QED BY <1>11, <1>12, <1>13, <1>14, <1>15 DEF FlowInv

\* The subscription of a channel that is alone on its subject.
LEMMA SubscriptionUnique ==
  ASSUME NatsTypes, OwnedInv, PhaseInv, NEW c, Alone(c), NEW s \in active, NEW t \in active,
         s.subject = clientChannel(c), t.subject = clientChannel(c)
  PROVE  s = t
<1>1. natsConn = "open" BY DEF OwnedInv
<1>2. PICK d \in nconf.used : clientChannel(d) = s.subject BY DEF OwnedInv
<1>3. c \in nconf.used BY <1>2 DEF Alone
<1>4. PhaseOf(c) BY <1>1, <1>3 DEF PhaseInv
<1>5. c \in NatsChannels BY <1>3, NatsAssumption DEF NatsTypes, CallTypes
<1>6. natsCall[c].pc \in {"idle", "subscribe", "store", "unsubscribe", "delete"}
  <2>1. natsCall[c] \in NatsCall BY <1>5 DEF NatsTypes, CallTypes
  <2> QED BY <2>1 DEF NatsCall
<1>7. \E x : OneOf(active, clientChannel(c), x) BY <1>4, <1>6 DEF PhaseOf, Phase
<1>8. s.id = t.id BY <1>7 DEF OneOf
<1> QED BY <1>8 DEF OwnedInv

\* A callback hands the message on for the channel of the subscription.
LEMMA RightChannel ==
  ASSUME NatsTypes, OwnedInv, CallbackInv, NEW c \in callbacks, NEW h, h.cb = c,
         ~(nconf.raw /\ subs[c.subject] = NoSub),
         h.to = IF nconf.raw THEN subs[c.subject].orig
                ELSE IF c.m.kind = "pub" /\ nconf.wildcards THEN c.subject
                ELSE c.m.ch
  PROVE  /\ Alone(h.to) => h.to = c.m.ch \/ h.to \in Wild
         /\ Compared(h) => c.subject = clientChannel(h.to)
<1>u. c.subject \in NatsChannels BY MessagesTyped
<1>v. /\ c.subject = clientChannel(c.m.ch) \/ c.subject \in Wild
      /\ c.m.ch \in nconf.used
  BY DEF CallbackInv, Seen
<1>1. CASE nconf.raw
  <2>1. h.to \in nconf.used /\ clientChannel(h.to) = c.subject BY <1>1, <1>u DEF OwnedInv
  <2>2. c.subject = clientChannel(c.m.ch) /\ Alone(h.to) => h.to = c.m.ch BY <1>v, <2>1 DEF Alone
  <2>3. c.subject \in Wild => h.to \in Wild
    BY <1>1, <2>1, NatsAssumption DEF NatsTypes, CallTypes, clientChannel
  <2> QED BY <1>v, <2>1, <2>2, <2>3
<1>2. CASE ~nconf.raw /\ c.m.kind = "pub" /\ nconf.wildcards BY <1>2, <1>v DEF clientChannel
<1>3. CASE ~nconf.raw /\ ~(c.m.kind = "pub" /\ nconf.wildcards)
  <2>1. h.to = c.m.ch BY <1>3
  <2>2. ~nconf.wildcards => c.subject \notin Wild
    BY <1>3 DEF CallbackInv, IsSupportedSubscribeChannel, clientChannel
  <2> QED BY <1>3, <1>v, <2>1, <2>2 DEF Compared
<1> QED BY <1>1, <1>2, <1>3

\* The goroutine of a live subscription takes the message at the head.
LEMMA StartKeeps ==
  ASSUME NatsTypes, OwnedInv, PhaseInv, FlowInv, NEW s \in active, StartCallback(s)
  PROVE  FlowInv'
<1>u. UNCHANGED <<nconf, publishing, redisTop, messages, handed>> /\ UNCHANGED <<active, made>>
  BY DEF StartCallback, natsCalls
<1>s. \A c : clientChannel(c)' = clientChannel(c) /\ (Alone(c)' <=> Alone(c)) BY <1>u, SubjectsStay
<1>i. /\ s.id \in 1 .. MaxNatsSubs /\ s.id \in Nat /\ s.subject \in NatsChannels /\ pending[s.id] # <<>>
      /\ \A c \in callbacks : c.sub # s.id
  BY MessagesTyped DEF StartCallback
<1>q. /\ pending[s.id] \in Seq(NatsMsg) /\ pending'[s.id] = Tail(pending[s.id])
      /\ \A i \in 1 .. MaxNatsSubs : i # s.id => pending'[i] = pending[i]
  BY <1>i DEF StartCallback, NatsTypes, FlowTypes
<1>m. PICK m \in NatsMsg : m = Head(pending[s.id]) BY <1>i, <1>q
<1>t. /\ m \in Queued(pending[s.id]) /\ Queued(pending'[s.id]) \subseteq Queued(pending[s.id])
      /\ Sorted(pending[s.id]) /\ \A a \in Queued(pending'[s.id]) : Before(m, a)
  BY <1>i, <1>q, <1>m, QueueTail DEF FlowInv, PendingInv
<1>d. \A i \in 1 .. MaxNatsSubs : Shorter(pending'[i], pending[i])
  <2>1. Shorter(Tail(pending[s.id]), pending[s.id]) BY <1>i, <1>q, QueueTail DEF Shorter
  <2>2. \A i \in 1 .. MaxNatsSubs : Shorter(pending[i], pending[i]) BY DEF Shorter
  <2> QED BY <1>q, <2>1, <2>2
<1>c. PICK c \in NatsCallback :
        c.sub = s.id /\ c.subject = s.subject /\ c.m = m /\ callbacks' = callbacks \cup {c}
  <2> DEFINE x == [sub |-> s.id, subject |-> s.subject, m |-> m]
  <2>1. x \in NatsCallback /\ x.sub = s.id /\ x.subject = s.subject /\ x.m = m
    BY <1>i DEF NatsCallback
  <2>2. callbacks' = callbacks \cup {x} BY <1>m DEF StartCallback
  <2> HIDE DEF x
  <2> QED BY <2>1, <2>2
<1>e. \A a : Seen(a) => Seen(a)' BY <1>u DEF Seen
<1>f. ASSUME NEW d \in NatsCallback, Follows(d), d.subject = c.subject, Lone(c.subject)
      PROVE  d.sub <= c.sub /\ Before(d.m, c.m)
  BY <1>f, <1>c, <1>t DEF Follows
<1>g. ASSUME NEW d \in NatsCallback, Follows(d), d.sub <= made PROVE Follows(d)'
  <2>1. \A t \in active' : t \in active /\ Queued(pending'[t.id]) \subseteq Queued(pending[t.id])
    BY <1>u, <1>d, MessagesTyped DEF Shorter
  <2> QED BY <1>g, <1>u, <2>1, FollowsStays
<1>1. PublishingInv' BY <1>u DEF FlowInv, PublishingInv
<1>2. PendingInv'
  <2>1. ASSUME NEW i \in 1 .. MaxNatsSubs
        PROVE  /\ Sorted(pending'[i]) /\ (pending'[i] # <<>> => i <= made)
               /\ \A a \in Queued(pending'[i]) : Seen(a)'
    BY <1>d, <1>e DEF Shorter, FlowInv, PendingInv
  <2>2. ASSUME NEW t \in active, NEW a \in Queued(pending'[t.id])
        PROVE  t.subject = clientChannel(a.ch) \/ t.subject \in Wild
    <3>1. a \in Queued(pending[t.id]) BY <1>d, <2>2, MessagesTyped DEF Shorter
    <3> QED BY <3>1 DEF FlowInv, PendingInv
  <2> QED BY <1>u, <1>s, <2>1, <2>2 DEF PendingInv
<1>3. CallbackInv'
  <2>1. Seen(c.m) /\ (c.subject = clientChannel(c.m.ch) \/ c.subject \in Wild)
    BY <1>c, <1>i, <1>t DEF FlowInv, PendingInv
  <2>2. c.sub <= made
    <3>1. pending[s.id] # <<>> => s.id <= made BY <1>i DEF FlowInv, PendingInv
    <3> QED BY <1>c, <1>i, <3>1
  <2>3. \E d \in nconf.used : clientChannel(d) = c.subject /\ IsSupportedSubscribeChannel(d)
    BY <1>c DEF OwnedInv
  <2>4. \A x, y \in callbacks' : x.sub = y.sub => x = y
    BY <1>c, <1>i DEF FlowInv, CallbackInv
  <2>5. \A x \in callbacks' :
          /\ Seen(x.m) /\ x.sub <= made
          /\ x.subject = clientChannel(x.m.ch) \/ x.subject \in Wild
          /\ \E d \in nconf.used : clientChannel(d) = x.subject /\ IsSupportedSubscribeChannel(d)
    BY <1>c, <2>1, <2>2, <2>3 DEF FlowInv, CallbackInv
  <2> QED BY <1>u, <1>s, <1>e, <2>4, <2>5 DEF CallbackInv, IsSupportedSubscribeChannel
<1>4. HandedInv' BY <1>u, <1>s, <1>e, LoneStays DEF FlowInv, HandedInv
<1>5. OrderInv'
  <2>1. Follows(c)'
    <3> SUFFICES ASSUME NEW t \in active, t.subject = c.subject, Lone(c.subject)
                 PROVE  c.sub <= t.id /\ \A a \in Queued(pending'[t.id]) : Before(c.m, a)
      BY <1>u, LoneStays DEF Follows
    <3>1. PICK ch : Alone(ch) /\ clientChannel(ch) = c.subject BY DEF Lone
    <3>2. t = s BY <1>c, <3>1, SubscriptionUnique
    <3>3. c.sub <= t.id BY <1>c, <1>i, <3>2
    <3> QED BY <1>c, <1>t, <3>2, <3>3
  <2>2. \A d \in callbacks : d \in NatsCallback /\ Follows(d) /\ d.sub <= made
    BY MessagesTyped DEF FlowInv, OrderInv, CallbackInv
  <2>3. \A h \in Queued(handed) : h.cb \in NatsCallback /\ Follows(h.cb) /\ h.cb.sub <= made
    BY MessagesTyped DEF FlowInv, OrderInv, HandedInv
  <2>4. ASSUME NEW d \in NatsCallback, Follows(d) PROVE Succeeds(d, c)
    <3>1. d.sub \in Nat /\ c.sub \in Nat BY MessagesTyped
    <3>2. d.subject = c.subject /\ Lone(c.subject) => ~(c.sub < d.sub) /\ Before(d.m, c.m)
      BY <1>f, <2>4, <3>1
    <3> QED BY <3>2 DEF Succeeds, InTurn
  <2>5. \A d \in callbacks' : Follows(d)' BY <1>c, <1>g, <2>1, <2>2
  <2>6. \A h \in Queued(handed') : Follows(h.cb)' BY <1>u, <1>g, <2>3
  <2>7. InTurn(c, c)
    <3>1. ~(c.sub < c.sub) BY <1>c, <1>i
    <3> QED BY <3>1 DEF InTurn
  <2>8. \A d, e \in callbacks' : InTurn(d, e)'
    <3>1. \A d \in callbacks : InTurn(d, c) /\ InTurn(c, d) BY <2>2, <2>4 DEF Succeeds
    <3>2. \A d, e \in callbacks : InTurn(d, e) BY DEF FlowInv, OrderInv
    <3>3. \A d, e \in callbacks' : InTurn(d, e) BY <1>c, <2>7, <3>1, <3>2
    <3> QED BY <1>u, <3>3, LoneStays
  <2>9. \A h \in Queued(handed'), d \in callbacks' : Succeeds(h.cb, d)'
    <3>1. \A h \in Queued(handed) : Succeeds(h.cb, c) BY <2>3, <2>4
    <3>2. \A h \in Queued(handed), d \in callbacks : Succeeds(h.cb, d) BY DEF FlowInv, OrderInv
    <3>3. \A h \in Queued(handed), d \in callbacks' : Succeeds(h.cb, d) BY <1>c, <3>1, <3>2
    <3> QED BY <1>u, <3>3, LoneStays
  <2>10. \A i, j \in DOMAIN handed', d, e \in NatsCallback :
            j < i /\ d = handed'[j].cb /\ e = handed'[i].cb => Succeeds(d, e)'
    BY <1>u, LoneStays DEF FlowInv, OrderInv
  <2> QED BY <2>5, <2>6, <2>8, <2>9, <2>10 DEF OrderInv
<1> QED BY <1>1, <1>2, <1>3, <1>4, <1>5 DEF FlowInv

\* A callback hands its message on, or finds nobody to hand it to.
LEMMA HandleKeeps ==
  ASSUME NatsTypes, OwnedInv, FlowInv, NEW c \in callbacks, HandleClientMessage(c)
  PROVE  FlowInv'
<1>u. /\ UNCHANGED <<nconf, pending, publishing, redisTop, messages>> /\ UNCHANGED <<active, made>>
      /\ callbacks' = callbacks \ {c}
  BY DEF HandleClientMessage, natsCalls
<1>s. \A x : clientChannel(x)' = clientChannel(x) /\ (Alone(x)' <=> Alone(x)) BY <1>u, SubjectsStay
<1>e. \A a : Seen(a) => Seen(a)' BY <1>u DEF Seen
<1>f. \A d : Follows(d)' <=> Follows(d) BY <1>u, LoneStays DEF Follows
<1>1. PublishingInv' BY <1>u DEF FlowInv, PublishingInv
<1>2. PendingInv' BY <1>u, <1>s, <1>e DEF FlowInv, PendingInv
<1>3. CallbackInv' BY <1>u, <1>s, <1>e DEF FlowInv, CallbackInv, IsSupportedSubscribeChannel
<1>4. CASE handed' = handed
  <2>1. HandedInv' BY <1>u, <1>s, <1>e, <1>4, LoneStays DEF FlowInv, HandedInv
  <2>2. OrderInv' BY <1>u, <1>f, <1>4, LoneStays DEF FlowInv, OrderInv
  <2> QED BY <1>1, <1>2, <1>3, <2>1, <2>2 DEF FlowInv
<1>5. CASE handed' # handed
  <2>1. PICK h : /\ handed' = Append(handed, h) /\ h.cb = c
                 /\ h.to = IF nconf.raw THEN subs[c.subject].orig
                           ELSE IF c.m.kind = "pub" /\ nconf.wildcards THEN c.subject
                           ELSE c.m.ch
                 /\ ~(nconf.raw /\ subs[c.subject] = NoSub)
    <3> DEFINE to == IF nconf.raw THEN subs[c.subject].orig
                     ELSE IF c.m.kind = "pub" /\ nconf.wildcards THEN c.subject
                     ELSE c.m.ch
               x == [to |-> to, cb |-> c]
    <3>1. /\ ~(nconf.raw /\ subs[c.subject] = NoSub) /\ handed' = Append(handed, x)
      BY <1>5 DEF HandleClientMessage
    <3>2. x.to = to /\ x.cb = c OBVIOUS
    <3> HIDE DEF x
    <3> QED BY <3>1, <3>2
  <2>2. /\ Alone(h.to) => h.to = c.m.ch \/ h.to \in Wild
        /\ Compared(h) => c.subject = clientChannel(h.to)
    BY <2>1, RightChannel DEF FlowInv
  <2>3. /\ Len(handed) \in Nat /\ DOMAIN handed' = 1 .. (Len(handed) + 1)
        /\ \A x \in 1 .. Len(handed) : handed'[x] = handed[x]
        /\ handed'[Len(handed) + 1] = h
        /\ DOMAIN handed = 1 .. Len(handed)
    <3>1. handed \in Seq([to : NatsChannels, cb : NatsCallback]) BY DEF NatsTypes, FlowTypes
    <3> QED BY <2>1, <3>1
  <2>4. \A x \in 1 .. (Len(handed) + 1) : x \in 1 .. Len(handed) \/ x = Len(handed) + 1 BY <2>3
  <2>5. Queued(handed') \subseteq Queued(handed) \cup {h}
    BY <2>3, <2>4 DEF Queued
  <2>6. Seen(c.m) /\ c.sub <= made BY DEF FlowInv, CallbackInv
  <2>7. HandedInv'
    <3>1. \A g \in Queued(handed') :
            /\ Seen(g.cb.m) /\ g.cb.sub <= made
            /\ Alone(g.to) => g.to = g.cb.m.ch \/ g.to \in Wild
            /\ Compared(g) => g.cb.subject = clientChannel(g.to)
      BY <2>1, <2>2, <2>5, <2>6 DEF FlowInv, HandedInv
    <3> QED BY <1>u, <1>s, <1>e, <3>1, LoneStays DEF HandedInv
  <2>8. OrderInv'
    <3>1. \A d \in callbacks' : Follows(d)' BY <1>u, <1>f DEF FlowInv, OrderInv
    <3>2. \A g \in Queued(handed') : Follows(g.cb)'
      BY <1>f, <2>1, <2>5 DEF FlowInv, OrderInv
    <3>3. \A d, e \in callbacks' : InTurn(d, e)'
      BY <1>u, LoneStays DEF FlowInv, OrderInv
    <3>4. ASSUME NEW d \in callbacks' PROVE Succeeds(c, d)
      <4>1. d \in callbacks /\ d # c BY <1>u
      <4>2. d.sub # c.sub BY <4>1 DEF FlowInv, CallbackInv
      <4>3. InTurn(c, d) /\ InTurn(d, c) BY <4>1 DEF FlowInv, OrderInv
      <4> QED BY <4>2, <4>3 DEF Succeeds
    <3>5. \A g \in Queued(handed'), d \in callbacks' : Succeeds(g.cb, d)'
      <4>1. \A g \in Queued(handed), d \in callbacks' : Succeeds(g.cb, d) BY <1>u DEF FlowInv, OrderInv
      <4>2. \A g \in Queued(handed'), d \in callbacks' : Succeeds(g.cb, d) BY <2>1, <2>5, <3>4, <4>1
      <4> QED BY <1>u, <4>2, LoneStays
    <3>6. ASSUME NEW i \in DOMAIN handed', NEW j \in DOMAIN handed', j < i
          PROVE  Succeeds(handed'[j].cb, handed'[i].cb)
      <4>1. j \in 1 .. Len(handed)
        <5>1. i \in 1 .. (Len(handed) + 1) /\ j \in 1 .. (Len(handed) + 1) BY <2>3
        <5> QED BY <5>1, <2>3, <3>6
      <4>2. handed'[j] = handed[j] /\ handed[j] \in Queued(handed) BY <2>3, <4>1 DEF Queued
      <4>3. CASE i \in 1 .. Len(handed)
        <5>1. handed'[i] = handed[i] /\ i \in DOMAIN handed /\ j \in DOMAIN handed BY <2>3, <4>1, <4>3
        <5>2. handed[i] \in Queued(handed) BY <5>1 DEF Queued
        <5> QED BY <3>6, <4>2, <5>1, <5>2, MessagesTyped DEF FlowInv, OrderInv
      <4>4. CASE i = Len(handed) + 1
        <5>1. handed'[i].cb = c BY <2>1, <2>3, <4>4
        <5>2. Succeeds(handed[j].cb, c) BY <4>2 DEF FlowInv, OrderInv
        <5> QED BY <4>2, <5>1, <5>2
      <4> QED BY <2>3, <2>4, <4>3, <4>4
    <3>7. \A i, j \in DOMAIN handed', d, e \in NatsCallback :
            j < i /\ d = handed'[j].cb /\ e = handed'[i].cb => Succeeds(d, e)'
      BY <1>u, <3>6, LoneStays
    <3> QED BY <3>1, <3>2, <3>3, <3>5, <3>7 DEF OrderInv
  <2> QED BY <1>1, <1>2, <1>3, <2>7, <2>8 DEF FlowInv
<1> QED BY <1>4, <1>5

\* The order of the callbacks is that of HandedInOrder.
LEMMA InOrder ==
  ASSUME NatsTypes, FlowInv
  PROVE  HandedInOrder
<1> SUFFICES ASSUME NEW i \in DOMAIN handed, Alone(handed[i].to)
             PROVE  /\ handed[i].to = handed[i].cb.m.ch \/ handed[i].to \in Wild
                    /\ \A j \in 1 .. (i - 1) :
                         (handed[j].to = handed[i].to
                          /\ (nconf.wildcards => handed[i].cb.m.kind = "pub" /\ handed[j].cb.m.kind = "pub")) =>
                           IF handed[j].cb.sub <= handed[i].cb.sub
                           THEN Before(handed[j].cb.m, handed[i].cb.m)
                           ELSE Before(handed[i].cb.m, handed[j].cb.m)
  BY DEF HandedInOrder
<1>1. handed[i] \in Queued(handed) BY DEF Queued
<1>2. handed[i].to = handed[i].cb.m.ch \/ handed[i].to \in Wild BY <1>1 DEF FlowInv, HandedInv
<1>3. ASSUME NEW j \in 1 .. (i - 1), handed[j].to = handed[i].to,
             nconf.wildcards => handed[i].cb.m.kind = "pub" /\ handed[j].cb.m.kind = "pub"
      PROVE  IF handed[j].cb.sub <= handed[i].cb.sub
             THEN Before(handed[j].cb.m, handed[i].cb.m)
             ELSE Before(handed[i].cb.m, handed[j].cb.m)
  <2>1. j \in DOMAIN handed /\ j < i
    <3>1. handed \in Seq([to : NatsChannels, cb : NatsCallback]) BY DEF NatsTypes, FlowTypes
    <3>2. Len(handed) \in Nat /\ DOMAIN handed = 1 .. Len(handed) BY <3>1
    <3> QED BY <3>2
  <2>2. handed[j] \in Queued(handed) BY <2>1 DEF Queued
  <2>3. Compared(handed[i]) /\ Compared(handed[j]) BY <1>3 DEF Compared
  <2>4. /\ handed[i].cb.subject = clientChannel(handed[i].to)
        /\ handed[j].cb.subject = handed[i].cb.subject
    BY <1>1, <1>3, <2>2, <2>3 DEF FlowInv, HandedInv
  <2>5. Lone(handed[i].cb.subject) BY <2>4 DEF Lone
  <2>6. PICK c, d : c = handed[j].cb /\ d = handed[i].cb OBVIOUS
  <2>7. c.sub \in Nat /\ d.sub \in Nat BY <1>1, <2>2, <2>6, MessagesTyped
  <2>8. Succeeds(c, d) BY <1>1, <2>1, <2>2, <2>6, MessagesTyped DEF FlowInv, OrderInv
  <2>9. c.subject = d.subject /\ Lone(c.subject) /\ Lone(d.subject) BY <2>4, <2>5, <2>6
  <2>10. /\ c.sub < d.sub => Before(c.m, d.m)
         /\ d.sub < c.sub => Before(d.m, c.m)
         /\ c.sub = d.sub => Before(c.m, d.m)
    BY <2>8, <2>9 DEF Succeeds, InTurn
  <2>11. c.sub < d.sub \/ d.sub < c.sub \/ c.sub = d.sub BY <2>7
  <2>12. /\ c.sub < d.sub \/ c.sub = d.sub => c.sub <= d.sub
         /\ d.sub < c.sub => ~(c.sub <= d.sub)
    BY <2>7
  <2> QED BY <2>6, <2>10, <2>11, <2>12
<1> QED BY <1>2, <1>3

LEMMA RedisKeeps ==
  ASSUME NatsTypes, FlowInv, NEW ch \in nconf.used, PublishRedis(ch)
  PROVE  FlowInv'
<1>u. UNCHANGED <<nconf, pending, callbacks, messages, handed, active, made>> BY DEF PublishRedis, natsCalls
<1>s. /\ \A c : clientChannel(c)' = clientChannel(c) /\ (Alone(c)' <=> Alone(c))
      /\ ch \in NatsChannels
  BY <1>u, SubjectsStay
<1>r. /\ redisTop \in [NatsChannels -> Nat] /\ redisTop' = [redisTop EXCEPT ![ch] = @ + 1]
      /\ \A p \in publishing : p.ch # ch
  BY DEF PublishRedis, NatsTypes, FlowTypes
<1>q. /\ redisTop'[ch] = redisTop[ch] + 1 /\ redisTop[ch] \in Nat
      /\ \A c \in NatsChannels : c # ch => redisTop'[c] = redisTop[c]
  BY <1>r, <1>s
<1>p. PICK new : /\ new.ch = ch /\ new.off = redisTop[ch] + 1
                 /\ publishing' = publishing \/ publishing' = publishing \cup {new}
  <2> DEFINE x == [ch |-> ch, off |-> redisTop[ch] + 1]
  <2>1. x.ch = ch /\ x.off = redisTop[ch] + 1 OBVIOUS
  <2>2. publishing' = publishing \/ publishing' = publishing \cup {x} BY DEF PublishRedis
  <2> HIDE DEF x
  <2> QED BY <2>1, <2>2
<1>t. publishing \subseteq [ch : nconf.used, off : Nat \ {0}] /\ nconf.used \subseteq NatsChannels
  BY NatsAssumption DEF NatsTypes, FlowTypes, CallTypes
<1>1. ASSUME NEW m \in NatsMsg, Seen(m) PROVE Seen(m)'
  <2>0. m.off \in Nat /\ m.ch \in NatsChannels /\ redisTop[m.ch] \in Nat BY <1>r DEF NatsMsg
  <2>1. m.off <= redisTop'[m.ch] /\ (m.ch = ch => m.off < redisTop[ch] + 1)
    <3>1. m.off <= redisTop[m.ch] BY <1>1 DEF Seen
    <3>2. CASE m.ch = ch BY <1>q, <2>0, <3>1, <3>2
    <3>3. CASE m.ch # ch BY <1>q, <2>0, <3>1, <3>3
    <3> QED BY <3>2, <3>3
  <2> QED BY <1>u, <1>p, <1>1, <2>1 DEF Seen
<1>2. PublishingInv'
  <2>1. \A p, q \in publishing' : p.ch = q.ch => p = q BY <1>p, <1>r DEF FlowInv, PublishingInv
  <2>2. \A p \in publishing' : p.off <= redisTop'[p.ch]
    <3>1. new.off <= redisTop'[new.ch] BY <1>p, <1>q
    <3>2. \A p \in publishing : p.off <= redisTop'[p.ch]
      <4> SUFFICES ASSUME NEW p \in publishing PROVE p.off <= redisTop'[p.ch] OBVIOUS
      <4>1. p.ch # ch /\ p.ch \in NatsChannels BY <1>r, <1>t
      <4> QED BY <4>1, <1>q DEF FlowInv, PublishingInv
    <3> QED BY <1>p, <3>1, <3>2
  <2> QED BY <2>1, <2>2 DEF PublishingInv
<1>3. PendingInv' BY <1>u, <1>s, <1>1, MessagesTyped DEF FlowInv, PendingInv
<1>4. CallbackInv'
  BY <1>u, <1>s, <1>1, MessagesTyped DEF FlowInv, CallbackInv, IsSupportedSubscribeChannel
<1>5. HandedInv' BY <1>u, <1>s, <1>1, LoneStays, MessagesTyped DEF FlowInv, HandedInv
<1>6. OrderInv'
  <2>1. \A c : Follows(c)' <=> Follows(c) BY <1>u, LoneStays DEF Follows
  <2> QED BY <1>u, <2>1, LoneStays DEF FlowInv, OrderInv
<1> QED BY <1>2, <1>3, <1>4, <1>5, <1>6 DEF FlowInv

LEMMA FlowStep ==
  ASSUME NatsTypes, OwnedInv, PhaseInv, FlowInv, [NatsNext]_natsVars, NatsTypes', nconf' = nconf
  PROVE  FlowInv'
<1>n. made \in Nat /\ made' \in Nat
  <2>1. made \in 0 .. MaxNatsSubs /\ made' \in 0 .. MaxNatsSubs BY DEF NatsTypes, CallTypes
  <2> QED BY <2>1, NatsAssumption
<1>p. \A i \in 1 .. MaxNatsSubs : pending[i] \in Seq(NatsMsg) BY DEF NatsTypes, FlowTypes
<1>d. DOMAIN pending = 1 .. MaxNatsSubs BY DEF NatsTypes, FlowTypes
<1>e. \A q : Shorter(q, q) /\ Shorter(<<>>, q) BY QueueEmpty DEF Shorter
<1>a. /\ \A s \in active : s.id \in 1 .. MaxNatsSubs
      /\ \A s \in active' : s.id \in 1 .. MaxNatsSubs
  <2>1. \A s \in active' : s.id \in 1 .. made' BY DEF NatsTypes, CallTypes
  <2>2. made' \in 0 .. MaxNatsSubs BY DEF NatsTypes, CallTypes
  <2>3. ASSUME NEW k \in 0 .. MaxNatsSubs, NEW x \in 1 .. k PROVE x \in 1 .. MaxNatsSubs
    BY NatsAssumption
  <2> QED BY <2>1, <2>2, <2>3, MessagesTyped
<1>1. CASE RegisterNats
  <2>1. UNCHANGED <<callbacks, publishing, redisTop, messages, handed, pending, made, active>>
    BY <1>1 DEF RegisterNats, natsCalls, natsFlow
  <2> QED BY <2>1, <1>n, <1>e, <1>a, QueuesShrink
<1>2. CASE CloseNats
  <2>1. UNCHANGED <<callbacks, publishing, redisTop, messages, handed, made>> /\ active' = {}
    BY <1>2 DEF CloseNats
  <2>2. \A i \in 1 .. MaxNatsSubs : pending'[i] = <<>> BY <1>2 DEF CloseNats
  <2> QED BY <2>1, <2>2, <1>n, <1>e, QueuesShrink
<1>3. ASSUME NEW ch \in nconf.used, CallOf(ch) PROVE FlowInv'
  <2>1. UNCHANGED <<callbacks, publishing, redisTop, messages, handed>>
    BY <1>3 DEF CallOf, NatsSubscribe, SubscribeSubject, StoreSub, LastLeaves, NatsUnsubscribe,
       UnsubscribeSubject, DeleteSub, NatsStays
  <2>2. made' = made \/ made' = made + 1
    BY <1>3 DEF CallOf, NatsSubscribe, SubscribeSubject, StoreSub, LastLeaves, NatsUnsubscribe,
       UnsubscribeSubject, DeleteSub
  <2>3. \A s \in active' : s \in active \/ s.id = made + 1
    <3>1. active' \subseteq active \cup {[id |-> made + 1, subject |-> clientChannel(ch)]}
      BY <1>3 DEF CallOf, NatsSubscribe, SubscribeSubject, StoreSub, LastLeaves, NatsUnsubscribe,
         UnsubscribeSubject, DeleteSub
    <3> QED BY <3>1
  <2>4. pending' = pending \/ pending' = [pending EXCEPT ![natsCall[ch].sub] = <<>>]
    BY <1>3 DEF CallOf, NatsSubscribe, SubscribeSubject, StoreSub, LastLeaves, NatsUnsubscribe,
       UnsubscribeSubject, DeleteSub
  <2>5. \A i \in 1 .. MaxNatsSubs : pending'[i] = pending[i] \/ pending'[i] = <<>> BY <1>d, <2>4
  <2>6. \A i \in 1 .. MaxNatsSubs : Shorter(pending'[i], pending[i]) BY <1>e, <2>5
  <2>7. made <= made' BY <1>n, <2>2
  <2> QED BY <1>n, <1>a, <2>1, <2>3, <2>6, <2>7, QueuesShrink
<1>4. ASSUME NEW ch \in nconf.used, NEW kind \in {"pub", "join"}, PublishPlain(ch, kind) PROVE FlowInv'
  <2>1. PublishTo(ch, kind, 0) /\ UNCHANGED <<nconf, natsCalls, callbacks, publishing, redisTop, handed>>
    BY <1>4 DEF PublishPlain
  <2>2. ch \in NatsChannels BY NatsAssumption DEF NatsTypes, CallTypes
  <2>3. redisTop[ch] \in Nat BY <2>2 DEF NatsTypes, FlowTypes
  <2>4. \A p \in publishing : p.off \in Nat \ {0} BY DEF NatsTypes, FlowTypes
  <2>5. 0 <= redisTop[ch] /\ ~(0 > 0) BY <2>3
  <2>6. \A p \in publishing' : 0 < p.off BY <2>1, <2>4
  <2> QED BY <2>1, <2>5, <2>6, PublishKeeps
<1>5. ASSUME NEW ch \in nconf.used, PublishRedis(ch) PROVE FlowInv' BY <1>5, RedisKeeps
<1>6. ASSUME NEW p \in publishing, PublishWithStreamPosition(p) PROVE FlowInv'
  <2>u. UNCHANGED <<nconf, natsCalls, callbacks, redisTop, handed>> /\ publishing' = publishing \ {p}
    BY <1>6 DEF PublishWithStreamPosition
  <2>t. p.ch \in nconf.used /\ p.off \in Nat BY DEF NatsTypes, FlowTypes
  <2>1. CASE UNCHANGED <<pending, messages>>
    <3>s. \A c : clientChannel(c)' = clientChannel(c) /\ (Alone(c)' <=> Alone(c)) BY SubjectsStay
    <3>a. UNCHANGED <<active, made>> BY <2>u DEF natsCalls
    <3>1. \A m : Seen(m) => Seen(m)' BY <2>u, <2>1 DEF Seen
    <3>2. PublishingInv' BY <2>u DEF FlowInv, PublishingInv
    <3>3. PendingInv' BY <2>1, <3>s, <3>a, <3>1 DEF FlowInv, PendingInv
    <3>4. CallbackInv' BY <2>u, <3>s, <3>a, <3>1 DEF FlowInv, CallbackInv, IsSupportedSubscribeChannel
    <3>5. HandedInv' BY <2>u, <3>s, <3>a, <3>1, LoneStays DEF FlowInv, HandedInv
    <3>6. OrderInv'
      <4>1. \A c : Follows(c)' <=> Follows(c) BY <2>u, <2>1, <3>a, LoneStays DEF Follows
      <4> QED BY <2>u, <4>1, LoneStays DEF FlowInv, OrderInv
    <3> QED BY <3>2, <3>3, <3>4, <3>5, <3>6 DEF FlowInv
  <2>2. CASE PublishTo(p.ch, "pub", p.off)
    <3>1. p.off <= redisTop[p.ch] BY DEF FlowInv, PublishingInv
    <3>2. \A a \in NatsMsg : Seen(a) /\ a.ch = p.ch => a.off < p.off BY DEF Seen
    <3>3. \A q \in publishing' : q.ch # p.ch BY <2>u DEF FlowInv, PublishingInv
    <3>4. publishing' \subseteq publishing BY <2>u
    <3> QED BY <2>u, <2>t, <2>2, <3>1, <3>2, <3>3, <3>4, PublishKeeps
  <2> QED BY <1>6, <2>1, <2>2 DEF PublishWithStreamPosition
<1>s. ASSUME NEW s \in active, StartCallback(s) PROVE FlowInv' BY <1>s, StartKeeps
<1>7. ASSUME NEW c \in callbacks, HandleClientMessage(c) PROVE FlowInv' BY <1>7, HandleKeeps
<1>8. ASSUME NEW s \in active, LoseMessage(s) PROVE FlowInv'
  <2>1. UNCHANGED <<callbacks, publishing, redisTop, messages, handed, made, active>> BY <1>8 DEF LoseMessage, natsCalls
  <2>2. pending[s.id] # <<>> /\ pending' = [pending EXCEPT ![s.id] = Tail(@)] BY <1>8 DEF LoseMessage
  <2>3. Shorter(Tail(pending[s.id]), pending[s.id]) BY <1>a, <1>p, <2>2, QueueTail DEF Shorter
  <2>4. \A i \in 1 .. MaxNatsSubs : Shorter(pending'[i], pending[i]) BY <1>d, <1>e, <2>2, <2>3
  <2> QED BY <1>n, <1>a, <2>1, <2>4, QueuesShrink
<1>9. CASE UNCHANGED natsVars
  <2>1. UNCHANGED <<callbacks, publishing, redisTop, messages, handed, pending, made, active>>
    BY <1>9 DEF natsVars, natsCalls, natsFlow
  <2> QED BY <2>1, <1>n, <1>e, <1>a, QueuesShrink
<1> QED BY <1>1, <1>2, <1>3, <1>4, <1>5, <1>6, <1>s, <1>7, <1>8, <1>9 DEF NatsNext, CallOf

NatsInv == NatsTypes /\ OwnedInv /\ PhaseInv /\ FlowInv

LEMMA NatsStart ==
  ASSUME NatsInit
  PROVE  NatsInv
<1> USE DEF NatsInit
<1>1. NatsTypes
  <2>1. CallTypes
    <3>1. NatsIdle \in NatsCall BY DEF NatsIdle, NatsCall
    <3>2. NoSub \in [sub : Nat, orig : NatsChannels \cup {""}] BY DEF NoSub
    <3>3. 0 \in 0 .. MaxNatsSubs BY NatsAssumption
    <3> QED BY <3>1, <3>2, <3>3 DEF CallTypes
  <2>2. FlowTypes
    <3>1. [i \in 1 .. MaxNatsSubs |-> <<>>] \in [1 .. MaxNatsSubs -> Seq(NatsMsg)] OBVIOUS
    <3> QED BY <3>1 DEF FlowTypes
  <2> QED BY <2>1, <2>2 DEF NatsTypes
<1>c. \A ch \in NatsChannels : clientChannel(ch) \in NatsChannels
  BY NatsAssumption DEF clientChannel
<1>u. nconf.used \subseteq NatsChannels BY NatsAssumption
<1>i. /\ \A ch \in NatsChannels : natsCall[ch].pc = "idle" /\ subs[ch] = NoSub
      /\ NoSub.sub = 0
  BY DEF NatsIdle, NoSub
<1>2. OwnedInv BY <1>i DEF OwnedInv
<1>3. PhaseInv
  <2> SUFFICES ASSUME NEW ch \in nconf.used PROVE PhaseOf(ch) BY DEF PhaseInv
  <2>1. OneOf(active, clientChannel(ch), 0) BY DEF OneOf
  <2>2. natsCall[ch].pc = "idle" /\ subs[clientChannel(ch)] = NoSub BY <1>i, <1>u, <1>c
  <2> QED BY <1>i, <2>1, <2>2 DEF PhaseOf, Phase
<1>4. FlowInv
  <2>1. \A i \in 1 .. MaxNatsSubs : pending[i] = <<>> OBVIOUS
  <2>2. PendingInv BY <2>1, QueueEmpty DEF PendingInv
  <2> QED BY <2>2, QueueEmpty DEF FlowInv, PublishingInv, CallbackInv, HandedInv, OrderInv
<1> QED BY <1>1, <1>2, <1>3, <1>4 DEF NatsInv

\* Channels that share no subject are served as the Broker interface says,
\* whatever the configuration: between its calls a channel has exactly the
\* subscription that the map of the broker has for it, although the map is
\* written after the calls of the NATS client; and the event handler gets the
\* publications of a channel for this channel, each at most once, and those
\* of one subscription in their order and with increasing offsets; a later
\* subscription has later ones, so that only a callback that outlives its
\* subscription is late: across any number of unsubscriptions and new
\* subscriptions, lost messages and failed calls.
THEOREM NatsSafety == NatsSpec => []NatsServes
<1>1. NatsInit => NatsInv BY NatsStart
<1>2. NatsInv /\ [NatsNext]_natsVars => NatsInv'
  <2> SUFFICES ASSUME NatsInv, [NatsNext]_natsVars PROVE NatsInv' OBVIOUS
  <2>1. NatsTypes /\ OwnedInv /\ PhaseInv /\ FlowInv BY DEF NatsInv
  <2>2. NatsTypes' /\ nconf' = nconf BY <2>1, NatsTypesStep
  <2> QED BY <2>1, <2>2, OwnedStep, PhaseStep, FlowStep DEF NatsInv
<1>3. NatsInv => NatsServes BY SubscribedByPhase, InOrder DEF NatsInv, NatsServes
<1> QED BY <1>1, <1>2, <1>3, PTL DEF NatsSpec

-----------------------------------------------------------------------------
(* Redis queue: who wakes a loop that waits.                               *)

\* The messages that count: the queued ones and those in the hands of a
\* worker; a loop that has sent a message has still to count it.
Processing(ws) == {w \in Workers : ws[w].pc = "process"}
Sent(lp) == {l \in Loops : lp[l].pc = "sent"}

RQTypes ==
    /\ \E S : queue \in Seq(S)
    /\ inflight \in Int
    /\ DOMAIN loop = Loops /\ \A l \in Loops : "pc" \in DOMAIN loop[l]
    /\ DOMAIN worker = Workers /\ \A w \in Workers : "pc" \in DOMAIN worker[w]

\* inflight and the sends that are not counted yet make up the messages in
\* work, and a loop goes to sleep, and stays asleep, at the limit only.
Balanced == inflight + Cardinality(Sent(loop)) = Len(queue) + Cardinality(Processing(worker))
SleepsAtLimit == \A l \in Loops : loop[l].pc = "wait" => inflight >= Concurrency

\* Run starts both loops.
BothStart == loop["poll"].pc = "off" => loop["reclaim"].pc = "off"

RQInv == RQTypes /\ Balanced /\ SleepsAtLimit /\ BothStart

LEMMA CountedSets ==
  /\ \A ws : IsFiniteSet(Processing(ws)) /\ Cardinality(Processing(ws)) \in Nat
  /\ \A lp : IsFiniteSet(Sent(lp)) /\ Cardinality(Sent(lp)) \in Nat
<1>1. IsFiniteSet(Workers)
  BY QueueAssumption, FS_Interval DEF Workers
<1>2. IsFiniteSet(Loops)
  <2>1. IsFiniteSet({"reclaim"})
    BY FS_Singleton
  <2>2. Loops = {"reclaim"} \cup {"poll"}
    BY DEF Loops
  <2> QED BY <2>1, <2>2, FS_AddElement
<1>3. \A ws : Processing(ws) \subseteq Workers
  BY DEF Processing
<1>4. \A lp : Sent(lp) \subseteq Loops
  BY DEF Sent
<1> QED BY <1>1, <1>2, <1>3, <1>4, FS_Subset, FS_CardinalityType

\* What an action does to the two sets: somebody enters, leaves, or neither.
LEMMA Enters ==
  ASSUME NEW S, NEW T, NEW x, IsFiniteSet(S), x \notin S, T = S \cup {x}
  PROVE  Cardinality(T) = Cardinality(S) + 1
BY FS_AddElement
LEMMA Leaves ==
  ASSUME NEW S, NEW T, NEW x, IsFiniteSet(T), x \in S, T = S \ {x}
  PROVE  Cardinality(S) = Cardinality(T) + 1
<1>1. S = T \cup {x} /\ x \notin T
  OBVIOUS
<1> QED BY <1>1, Enters

\* The loop l is at pc next, the other one stays.
LoopAt(l, pc) ==
    /\ DOMAIN loop' = Loops /\ "pc" \in DOMAIN loop'[l] /\ loop'[l].pc = pc
    /\ \A k \in Loops : k # l => loop'[k] = loop[k]

LEMMA LoopMoves ==
  ASSUME RQTypes, NEW l \in Loops, NEW r, "pc" \in DOMAIN r, loop' = [loop EXCEPT ![l] = r]
  PROVE  LoopAt(l, r.pc)
BY DEF RQTypes, LoopAt

LEMMA LoopTypes ==
  ASSUME RQTypes, NEW l \in Loops, NEW pc, LoopAt(l, pc)
  PROVE  DOMAIN loop' = Loops /\ \A k \in Loops : "pc" \in DOMAIN loop'[k]
BY DEF RQTypes, LoopAt

LEMMA LoopRuns ==
  ASSUME BothStart, NEW l \in Loops, NEW pc, LoopAt(l, pc), loop[l].pc # "off", pc # "off"
  PROVE  BothStart'
BY DEF BothStart, LoopAt, Loops

\* A loop that goes from one place to another, neither of them "sent", and
\* sleeps only at the limit.
LEMMA QuietLoop ==
  ASSUME RQInv, NEW l \in Loops, NEW pc, LoopAt(l, pc), loop[l].pc # "sent", pc # "sent",
         loop[l].pc # "off", pc # "off", pc = "wait" => inflight >= Concurrency, UNCHANGED <<queue, inflight, worker>>
  PROVE  RQInv'
<1>1. Sent(loop') = Sent(loop)
  BY DEF LoopAt, Sent
<1>2. RQTypes'
  BY LoopTypes DEF RQInv, RQTypes
<1>3. Balanced'
  BY <1>1 DEF RQInv, Balanced
<1>4. SleepsAtLimit'
  BY DEF RQInv, SleepsAtLimit, LoopAt
<1>5. BothStart'
  BY LoopRuns DEF RQInv
<1> QED BY <1>2, <1>3, <1>4, <1>5 DEF RQInv

LEMMA CheckInv == ASSUME RQInv, NEW l \in Loops, Check(l) PROVE RQInv'
<1>1. "pc" \in DOMAIN loop[l] /\ DOMAIN loop = Loops /\ RQTypes
  BY DEF RQInv, RQTypes
<1>2. loop[l].pc = "check" /\ UNCHANGED <<queue, inflight, worker>>
  BY DEF Check
<1>3. PICK r, s, t : /\ r = [loop[l] EXCEPT !.pc = "done"] /\ s = [loop[l] EXCEPT !.pc = "wait"]
                     /\ t = [loop[l] EXCEPT !.pc = "read", !.count = Concurrency - Len(queue)]
  OBVIOUS
<1>4. /\ "pc" \in DOMAIN r /\ r.pc = "done" /\ "pc" \in DOMAIN s /\ s.pc = "wait"
      /\ "pc" \in DOMAIN t /\ t.pc = "read"
  BY <1>1, <1>3
<1>5. \/ loop' = [loop EXCEPT ![l] = r]
      \/ inflight >= Concurrency /\ loop' = [loop EXCEPT ![l] = s]
      \/ loop' = [loop EXCEPT ![l] = t]
  BY <1>1, <1>3 DEF Check
<1>6. LoopAt(l, "done") \/ (inflight >= Concurrency /\ LoopAt(l, "wait")) \/ LoopAt(l, "read")
  BY <1>1, <1>4, <1>5, LoopMoves
<1> QED BY <1>2, <1>6, QuietLoop

LEMMA ReadErrorInv == ASSUME RQInv, NEW l \in Loops, ReadError(l) \/ (l = "poll" /\ NoGroup) PROVE RQInv'
<1>1. "pc" \in DOMAIN loop[l] /\ DOMAIN loop = Loops /\ RQTypes
  BY DEF RQInv, RQTypes
<1>2. PICK p : p = IF l = "poll" THEN "check" ELSE "tick"
  OBVIOUS
<1>3. PICK r : r = [loop[l] EXCEPT !.pc = p, !.count = 0]
  OBVIOUS
<1>4. "pc" \in DOMAIN r /\ r.pc = p /\ loop' = [loop EXCEPT ![l] = r]
  BY <1>1, <1>2, <1>3 DEF ReadError, NoGroup
<1>5. LoopAt(l, p)
  BY <1>1, <1>4, LoopMoves
<1>6. loop[l].pc \notin {"sent", "off"} /\ p \notin {"sent", "off", "wait"} /\ UNCHANGED <<queue, inflight, worker>>
  BY <1>2 DEF ReadError, NoGroup
<1> QED BY <1>5, <1>6, QuietLoop

LEMMA ReadsInv == ASSUME RQInv, PollRead \/ ReclaimTick \/ ReclaimStop \/ ReclaimRead PROVE RQInv'
<1>1. PICK l, r, b, k : \/ r = [loop[l] EXCEPT !.pc = IF b = <<>> THEN "check" ELSE "send", !.batch = b, !.count = 0]
                           /\ PollRead /\ l = "poll" /\ loop' = [loop EXCEPT ![l] = r]
                        \/ r = [loop[l] EXCEPT !.pc = "check", !.start = 0]
                           /\ ReclaimTick /\ l = "reclaim" /\ loop' = [loop EXCEPT ![l] = r]
                        \/ r = [loop[l] EXCEPT !.pc = "done"]
                           /\ ReclaimStop /\ l = "reclaim" /\ loop' = [loop EXCEPT ![l] = r]
                        \/ r = [loop[l] EXCEPT !.pc = IF b = <<>> THEN "tick" ELSE "send", !.batch = b, !.count = 0,
                                               !.start = k]
                           /\ ReclaimRead /\ l = "reclaim" /\ loop' = [loop EXCEPT ![l] = r]
  <2>1. CASE PollRead
    <3>1. \E b : loop' = [loop EXCEPT !["poll"] = [loop["poll"] EXCEPT !.pc = IF b = <<>> THEN "check" ELSE "send",
                                                                       !.batch = b, !.count = 0]]
      BY <2>1, Zenon DEF PollRead
    <3> QED BY <2>1, <3>1, Zenon
  <2>2. CASE ReclaimTick
    <3>1. loop' = [loop EXCEPT !["reclaim"] = [loop["reclaim"] EXCEPT !.pc = "check", !.start = 0]]
      BY <2>2, Zenon DEF ReclaimTick
    <3> QED BY <2>2, <3>1, Zenon
  <2>3. CASE ReclaimStop
    <3>1. loop' = [loop EXCEPT !["reclaim"] = [loop["reclaim"] EXCEPT !.pc = "done"]]
      BY <2>3 DEF ReclaimStop
    <3> QED BY <2>3, <3>1, Zenon
  <2>4. CASE ReclaimRead
    <3>1. \E b, k : loop' = [loop EXCEPT !["reclaim"] =
                               [loop["reclaim"] EXCEPT !.pc = IF b = <<>> THEN "tick" ELSE "send", !.batch = b,
                                                       !.count = 0, !.start = k]]
      BY <2>4, Zenon DEF ReclaimRead
    <3> QED BY <2>4, <3>1, Zenon
  <2> QED BY <2>1, <2>2, <2>3, <2>4, Zenon
<1>2. l \in Loops /\ loop' = [loop EXCEPT ![l] = r]
  BY <1>1 DEF Loops
<1>3. "pc" \in DOMAIN loop[l] /\ DOMAIN loop = Loops /\ RQTypes
  BY <1>2 DEF RQInv, RQTypes
<1>4. "pc" \in DOMAIN r /\ r.pc \in {"check", "send", "done", "tick"}
  BY <1>1, <1>3
<1>5. loop[l].pc \notin {"sent", "off"} /\ UNCHANGED <<queue, inflight, worker>>
  BY <1>1 DEF PollRead, ReclaimTick, ReclaimStop, ReclaimRead
<1>6. PICK p : p = r.pc
  OBVIOUS
<1>7. LoopAt(l, p)
  BY <1>2, <1>3, <1>4, <1>6, LoopMoves
<1>8. p \notin {"sent", "off", "wait"}
  BY <1>4, <1>6
<1> QED BY <1>2, <1>5, <1>7, <1>8, QuietLoop

LEMMA SendInv == ASSUME RQInv, NEW l \in Loops, Send(l) PROVE RQInv'
<1>1. "pc" \in DOMAIN loop[l] /\ DOMAIN loop = Loops /\ RQTypes /\ Balanced /\ SleepsAtLimit
  BY DEF RQInv, RQTypes
<1>2. loop[l].pc = "send" /\ UNCHANGED <<inflight, worker>>
  BY DEF Send
<1>3. PICK r, s : /\ r = [loop[l] EXCEPT !.pc = "sent", !.batch = Tail(@)]
                  /\ s = [loop[l] EXCEPT !.pc = "check", !.batch = <<>>]
  OBVIOUS
<1>4. /\ "pc" \in DOMAIN r /\ r.pc = "sent" /\ "pc" \in DOMAIN s /\ s.pc = "check"
  BY <1>1, <1>3
<1>5. PICK x : x = Head(loop[l].batch)
  OBVIOUS
<1>6. \/ queue' = Append(queue, x) /\ loop' = [loop EXCEPT ![l] = r]
      \/ queue' = queue /\ loop' = [loop EXCEPT ![l] = s]
  BY <1>1, <1>3, <1>5 DEF Send
<1>7. CASE queue' = queue /\ loop' = [loop EXCEPT ![l] = s]
  <2>1. LoopAt(l, "check")
    BY <1>1, <1>4, <1>7, LoopMoves
  <2> QED BY <2>1, <1>2, <1>7, QuietLoop
<1>8. CASE queue' = Append(queue, x) /\ loop' = [loop EXCEPT ![l] = r]
  <2>1. LoopAt(l, "sent")
    BY <1>1, <1>4, <1>8, LoopMoves
  <2>2. PICK S : queue \in Seq(S)
    BY <1>1 DEF RQTypes
  <2>3. queue' \in Seq(S \cup {x}) /\ Len(queue') = Len(queue) + 1 /\ Len(queue) \in Nat
    <3>1. queue \in Seq(S \cup {x}) /\ x \in S \cup {x}
      BY <2>2
    <3> QED BY <3>1, <1>8
  <2>4. Sent(loop') = Sent(loop) \cup {l} /\ l \notin Sent(loop)
    BY <2>1, <1>2 DEF LoopAt, Sent
  <2>5. Cardinality(Sent(loop')) = Cardinality(Sent(loop)) + 1
    BY <2>4, CountedSets, Enters
  <2>6. RQTypes'
    BY <1>1, <1>2, <2>1, <2>3, LoopTypes DEF RQTypes
  <2>7. Balanced'
    BY <1>1, <1>2, <2>3, <2>5, CountedSets DEF Balanced, RQTypes
  <2>8. SleepsAtLimit'
    BY <1>1, <1>2, <2>1 DEF SleepsAtLimit, LoopAt
  <2>9. BothStart'
    BY <1>2, <2>1, LoopRuns DEF RQInv
  <2> QED BY <2>6, <2>7, <2>8, <2>9 DEF RQInv
<1> QED BY <1>6, <1>7, <1>8

LEMMA CountedInv == ASSUME RQInv, NEW l \in Loops, Counted(l) PROVE RQInv'
<1>1. "pc" \in DOMAIN loop[l] /\ DOMAIN loop = Loops /\ RQTypes /\ Balanced /\ SleepsAtLimit /\ inflight \in Int
  BY DEF RQInv, RQTypes
<1>2. loop[l].pc = "sent" /\ inflight' = inflight + 1 /\ UNCHANGED <<queue, worker>>
  BY DEF Counted
<1>3. PICK p : p = IF loop[l].batch = <<>> THEN "check" ELSE "send"
  OBVIOUS
<1>4. PICK r : r = [loop[l] EXCEPT !.pc = p]
  OBVIOUS
<1>5. "pc" \in DOMAIN r /\ r.pc = p /\ loop' = [loop EXCEPT ![l] = r]
  BY <1>1, <1>3, <1>4 DEF Counted
<1>6. LoopAt(l, p) /\ p # "sent" /\ p # "wait" /\ p # "off"
  BY <1>1, <1>3, <1>5, LoopMoves
<1>7. Sent(loop') = Sent(loop) \ {l} /\ l \in Sent(loop)
  BY <1>2, <1>6 DEF LoopAt, Sent
<1>8. Cardinality(Sent(loop)) = Cardinality(Sent(loop')) + 1
  BY <1>7, CountedSets, Leaves
<1>9. RQTypes'
  BY <1>1, <1>2, <1>6, LoopTypes DEF RQTypes
<1>10. Balanced'
  <2>1. PICK S : queue \in Seq(S)
    BY <1>1 DEF RQTypes
  <2>2. Len(queue) \in Nat
    BY <2>1
  <2> QED BY <1>1, <1>2, <1>8, <2>2, CountedSets DEF Balanced
<1>11. SleepsAtLimit'
  BY <1>1, <1>2, <1>6, QueueAssumption DEF SleepsAtLimit, LoopAt
<1>12. BothStart'
  BY <1>2, <1>6, LoopRuns DEF RQInv
<1> QED BY <1>9, <1>10, <1>11, <1>12 DEF RQInv

-----------------------------------------------------------------------------

\* The worker w is at pc next, the others stay.
WorkerAt(w, pc) ==
    /\ DOMAIN worker' = Workers /\ "pc" \in DOMAIN worker'[w] /\ worker'[w].pc = pc
    /\ \A k \in Workers : k # w => worker'[k] = worker[k]

LEMMA WorkerMoves ==
  ASSUME RQTypes, NEW w \in Workers, NEW r, "pc" \in DOMAIN r, worker' = [worker EXCEPT ![w] = r]
  PROVE  WorkerAt(w, r.pc)
BY DEF RQTypes, WorkerAt

LEMMA WorkerTypes ==
  ASSUME RQTypes, NEW w \in Workers, NEW pc, WorkerAt(w, pc)
  PROVE  DOMAIN worker' = Workers /\ \A k \in Workers : "pc" \in DOMAIN worker'[k]
BY DEF RQTypes, WorkerAt

LEMMA TakeInv == ASSUME RQInv, NEW w \in Workers, Take(w) PROVE RQInv'
<1>1. RQTypes /\ Balanced /\ SleepsAtLimit /\ inflight \in Int
  BY DEF RQInv, RQTypes
<1>2. worker[w].pc = "idle" /\ queue # <<>> /\ queue' = Tail(queue) /\ UNCHANGED <<inflight, loop>>
  BY DEF Take
<1>3. WorkerAt(w, "process")
  <2>1. PICK r : r = [pc |-> "process", msg |-> Head(queue)]
    OBVIOUS
  <2>2. "pc" \in DOMAIN r /\ r.pc = "process" /\ worker' = [worker EXCEPT ![w] = r]
    BY <2>1 DEF Take
  <2> QED BY <2>2, <1>1, WorkerMoves
<1>4. PICK S : queue \in Seq(S)
  BY <1>1 DEF RQTypes
<1>5. queue' \in Seq(S) /\ Len(queue') = Len(queue) - 1 /\ Len(queue) \in Nat
  BY <1>2, <1>4
<1>6. Processing(worker') = Processing(worker) \cup {w} /\ w \notin Processing(worker)
  BY <1>2, <1>3 DEF WorkerAt, Processing
<1>7. Cardinality(Processing(worker')) = Cardinality(Processing(worker)) + 1
  BY <1>6, CountedSets, Enters
<1>8. RQTypes'
  BY <1>1, <1>2, <1>3, <1>5, WorkerTypes DEF RQTypes
<1>9. Balanced'
  BY <1>1, <1>2, <1>5, <1>7, CountedSets DEF Balanced
<1>10. SleepsAtLimit' /\ BothStart'
  BY <1>1, <1>2 DEF SleepsAtLimit, RQInv, BothStart
<1> QED BY <1>8, <1>9, <1>10 DEF RQInv

\* A worker that neither takes nor finishes a message.
LEMMA QuietWorker ==
  ASSUME RQInv, NEW w \in Workers, NEW pc, WorkerAt(w, pc), worker[w].pc # "process", pc # "process",
         UNCHANGED <<queue, inflight, loop>>
  PROVE  RQInv'
<1>1. Processing(worker') = Processing(worker)
  BY DEF WorkerAt, Processing
<1>2. RQTypes'
  BY WorkerTypes DEF RQInv, RQTypes
<1>3. Balanced'
  BY <1>1 DEF RQInv, Balanced
<1>4. SleepsAtLimit' /\ BothStart'
  BY DEF RQInv, SleepsAtLimit, BothStart
<1> QED BY <1>2, <1>3, <1>4 DEF RQInv

LEMMA AckExitInv == ASSUME RQInv, NEW w \in Workers, Ack(w) \/ Exit(w) PROVE RQInv'
<1>1. RQTypes /\ "pc" \in DOMAIN worker[w] /\ DOMAIN worker = Workers
  BY DEF RQInv, RQTypes
<1>2. PICK r : \/ r = [pc |-> "idle", msg |-> 0] /\ Ack(w) /\ worker' = [worker EXCEPT ![w] = r]
               \/ r = [worker[w] EXCEPT !.pc = "done"] /\ Exit(w) /\ worker' = [worker EXCEPT ![w] = r]
  BY <1>1, Zenon DEF Ack, Exit
<1>3. "pc" \in DOMAIN r /\ r.pc \in {"idle", "done"} /\ worker' = [worker EXCEPT ![w] = r]
  BY <1>1, <1>2
<1>4. worker[w].pc # "process" /\ UNCHANGED <<queue, inflight, loop>>
  BY <1>2 DEF Ack, Exit
<1>5. PICK p : p = r.pc
  OBVIOUS
<1>6. WorkerAt(w, p) /\ p # "process"
  BY <1>1, <1>3, <1>5, WorkerMoves
<1> QED BY <1>4, <1>6, QuietWorker

\* Woken: no loop sleeps any more, and the sends are as they were.
LEMMA WokenFacts ==
  ASSUME RQTypes
  PROVE  /\ DOMAIN Woken(loop) = Loops /\ \A l \in Loops : "pc" \in DOMAIN Woken(loop)[l]
         /\ Sent(Woken(loop)) = Sent(loop)
         /\ \A l \in Loops : Woken(loop)[l].pc # "wait" /\ (Woken(loop)[l].pc = "off" <=> loop[l].pc = "off")
<1>1. \A l \in Loops : "pc" \in DOMAIN loop[l]
  BY DEF RQTypes
<1>2. DOMAIN Woken(loop) = Loops
  BY DEF Woken
<1>3. \A l \in Loops : /\ "pc" \in DOMAIN Woken(loop)[l]
                       /\ Woken(loop)[l].pc = IF loop[l].pc = "wait" THEN "check" ELSE loop[l].pc
  BY <1>1 DEF Woken
<1>4. Sent(Woken(loop)) = Sent(loop)
  BY <1>3 DEF Sent
<1> QED BY <1>2, <1>3, <1>4

LEMMA ProcessInv == ASSUME RQInv, NEW w \in Workers, NEW ok \in BOOLEAN, Process(w, ok) PROVE RQInv'
<1>1. /\ RQTypes /\ Balanced /\ inflight \in Int /\ "pc" \in DOMAIN worker[w] /\ DOMAIN worker = Workers
  BY DEF RQInv, RQTypes
<1>2. worker[w].pc = "process" /\ inflight' = inflight - 1 /\ loop' = Woken(loop) /\ queue' = queue
  BY DEF Process
<1>3. PICK r : r = IF ok THEN [worker[w] EXCEPT !.pc = "ack"] ELSE [pc |-> "idle", msg |-> 0]
  OBVIOUS
<1>4. "pc" \in DOMAIN r /\ r.pc # "process" /\ worker' = [worker EXCEPT ![w] = r]
  BY <1>1, <1>3 DEF Process
<1>5. PICK p : p = r.pc
  OBVIOUS
<1>6. WorkerAt(w, p) /\ p # "process"
  BY <1>1, <1>4, <1>5, WorkerMoves
<1>7. Processing(worker') = Processing(worker) \ {w} /\ w \in Processing(worker)
  BY <1>2, <1>6 DEF WorkerAt, Processing
<1>8. Cardinality(Processing(worker)) = Cardinality(Processing(worker')) + 1
  BY <1>7, CountedSets, Leaves
<1>9. RQTypes'
  BY <1>1, <1>2, <1>6, WorkerTypes, WokenFacts DEF RQTypes
<1>10. Balanced'
  <2>1. PICK S : queue \in Seq(S)
    BY <1>1 DEF RQTypes
  <2>2. Len(queue) \in Nat /\ Cardinality(Sent(loop')) = Cardinality(Sent(loop))
    BY <2>1, <1>1, <1>2, WokenFacts
  <2> QED BY <1>1, <1>2, <1>8, <2>2, CountedSets DEF Balanced
<1>11. SleepsAtLimit' /\ BothStart'
  BY <1>1, <1>2, WokenFacts DEF SleepsAtLimit, RQInv, BothStart, Loops
<1> QED BY <1>9, <1>10, <1>11 DEF RQInv

LEMMA BroadcastInv == ASSUME RQInv, NEW c \in Callers, Broadcast(c) PROVE RQInv'
<1>1. RQTypes /\ Balanced /\ loop' = Woken(loop) /\ UNCHANGED <<queue, inflight, worker>>
  BY DEF RQInv, Broadcast
<1>2. RQTypes'
  BY <1>1, WokenFacts DEF RQTypes
<1>3. Balanced'
  BY <1>1, WokenFacts DEF Balanced
<1>4. SleepsAtLimit' /\ BothStart'
  BY <1>1, WokenFacts DEF SleepsAtLimit, RQInv, BothStart, Loops
<1> QED BY <1>2, <1>3, <1>4 DEF RQInv

-----------------------------------------------------------------------------

\* The goroutines of Run as they start, at the start of the process and
\* after a crash, and before Run.
Fresh(lp) ==
    /\ DOMAIN lp = Loops /\ \A l \in Loops : "pc" \in DOMAIN lp[l]
    /\ \A l \in Loops : lp[l].pc # "sent" /\ lp[l].pc # "wait"

LEMMA StartedFacts ==
  ASSUME NEW v
  PROVE  /\ Fresh(Started(v).loop) /\ Started(v).loop["poll"].pc # "off"
         /\ Fresh([l \in Loops |-> [Started(v).loop[l] EXCEPT !.pc = "off"]])
         /\ \A l \in Loops : [k \in Loops |-> [Started(v).loop[k] EXCEPT !.pc = "off"]][l].pc = "off"
         /\ Started(v).queue = <<>>
         /\ DOMAIN Started(v).worker = Workers
         /\ \A w \in Workers : "pc" \in DOMAIN Started(v).worker[w] /\ Started(v).worker[w].pc = "idle"
<1>0. PICK p : p = IF v THEN "tick" ELSE "never"
  OBVIOUS
<1>s. PICK st : st = Started(v)
  OBVIOUS
<1>1. /\ st.queue = <<>>
      /\ st.loop = [l \in Loops |-> [pc |-> IF l = "poll" THEN "check" ELSE p,
                                     count |-> 0, batch |-> <<>>, start |-> 0]]
      /\ st.worker = [w \in Workers |-> [pc |-> "idle", msg |-> 0]]
  BY <1>0, <1>s DEF Started
<1>2. Fresh(st.loop) /\ st.loop["poll"].pc # "off"
  BY <1>0, <1>1 DEF Fresh, Loops
<1>3. /\ Fresh([l \in Loops |-> [st.loop[l] EXCEPT !.pc = "off"]])
      /\ \A l \in Loops : [k \in Loops |-> [st.loop[k] EXCEPT !.pc = "off"]][l].pc = "off"
  BY <1>2 DEF Fresh
<1>4. /\ DOMAIN st.worker = Workers
      /\ \A w \in Workers : "pc" \in DOMAIN st.worker[w] /\ st.worker[w].pc = "idle"
  BY <1>1
<1> QED BY <1>s, <1>1, <1>2, <1>3, <1>4

\* The workers as they start.
AllIdle(ws) == DOMAIN ws = Workers /\ \A w \in Workers : "pc" \in DOMAIN ws[w] /\ ws[w].pc = "idle"

LEMMA FreshInv ==
  ASSUME Fresh(loop), queue = <<>>, inflight = 0, AllIdle(worker), BothStart
  PROVE  RQInv
<1>1. RQTypes
  <2>1. queue \in Seq({})
    OBVIOUS
  <2> QED BY <2>1 DEF RQTypes, Fresh, AllIdle
<1>2. Sent(loop) = {} /\ Processing(worker) = {}
  BY DEF Fresh, Sent, Processing, AllIdle
<1>3. Balanced
  BY <1>2, FS_EmptySet DEF Balanced
<1>4. SleepsAtLimit
  BY DEF Fresh, SleepsAtLimit
<1> QED BY <1>1, <1>3, <1>4 DEF RQInv

LEMMA RQInvInit == RQInit => RQInv
<1> SUFFICES ASSUME RQInit PROVE RQInv
  OBVIOUS
<1>1. Fresh(loop) /\ BothStart /\ queue = <<>> /\ inflight = 0 /\ AllIdle(worker)
  BY StartedFacts DEF RQInit, BothStart, Loops, AllIdle
<1> QED BY <1>1, FreshInv

LEMMA FreshNext ==
  ASSUME Fresh(loop'), queue' = <<>>, inflight' = 0, AllIdle(worker'), BothStart'
  PROVE  RQInv'
<1>1. RQTypes'
  <2>1. queue' \in Seq({})
    OBVIOUS
  <2> QED BY <2>1 DEF RQTypes, Fresh, AllIdle
<1>2. Sent(loop') = {} /\ Processing(worker') = {}
  BY DEF Fresh, Sent, Processing, AllIdle
<1>3. Balanced'
  BY <1>2, FS_EmptySet DEF Balanced
<1>4. SleepsAtLimit'
  BY DEF Fresh, SleepsAtLimit
<1> QED BY <1>1, <1>3, <1>4 DEF RQInv

LEMMA RQInvStep == RQInv /\ [RQNext]_redisQueue => RQInv'
<1> SUFFICES ASSUME RQInv, [RQNext]_redisQueue PROVE RQInv'
  OBVIOUS
<1>1. CASE RQCrash
  <2>1. PICK v : v = Reclaims
    OBVIOUS
  <2>2. queue' = Started(v).queue /\ loop' = Started(v).loop /\ worker' = Started(v).worker /\ inflight' = 0
    BY <1>1, <2>1, Zenon DEF RQCrash
  <2>3. Fresh(loop') /\ queue' = <<>> /\ AllIdle(worker') /\ BothStart'
    BY <2>2, StartedFacts DEF AllIdle, BothStart
  <2> QED BY <2>2, <2>3, FreshNext
<1>2. CASE UNCHANGED <<queue, inflight, loop, worker>>
  BY <1>2 DEF RQInv, RQTypes, Balanced, SleepsAtLimit, BothStart
<1>3. CASE RunQueue
  <2>0. PICK v : loop' = Started(v).loop
    BY <1>3, Zenon DEF RunQueue
  <2>1. /\ loop["poll"].pc = "off" /\ UNCHANGED <<queue, inflight, worker>> /\ Fresh(loop') /\ RQTypes /\ Balanced
        /\ loop'["poll"].pc # "off"
    BY <1>3, <2>0, StartedFacts DEF RunQueue, RQInv
  <2>2. Sent(loop) = {} /\ Sent(loop') = {}
    BY <2>1 DEF RQInv, BothStart, Sent, Fresh, Loops
  <2>3. RQTypes'
    BY <2>1 DEF RQTypes, Fresh
  <2>4. Balanced'
    BY <2>1, <2>2 DEF Balanced
  <2>5. SleepsAtLimit' /\ BothStart'
    BY <2>1 DEF SleepsAtLimit, BothStart, Fresh
  <2> QED BY <2>3, <2>4, <2>5 DEF RQInv
<1>4. CASE NoGroup
  BY <1>4, ReadErrorInv DEF Loops
<1> QED BY <1>1, <1>2, <1>3, <1>4, CheckInv, ReadErrorInv, ReadsInv, SendInv, CountedInv, TakeInv, AckExitInv, ProcessInv,
           BroadcastInv
        DEF RQNext, Enqueue, BecomesIdle, Stop, SendStop, CloseWorkers, redisQueue

\* NoLostWakeup: a loop of the Redis consumer sleeps on the condition
\* variable only while a queued message or a worker is left to wake it, for
\* every number of workers, although inflight is raised outside the lock.
THEOREM QueueWakes == RQSpec => []NoLostWakeup
<1>1. RQInv => NoLostWakeup
  <2> SUFFICES ASSUME RQInv, NEW l \in Loops, loop[l].pc = "wait", queue = <<>>
               PROVE  \E w \in Workers : worker[w].pc = "process"
    BY DEF NoLostWakeup
  <2>1. inflight \in Int /\ inflight >= Concurrency /\ Len(queue) = 0
    BY DEF RQInv, RQTypes, SleepsAtLimit
  <2>2. Cardinality(Processing(worker)) > 0
    BY <2>1, CountedSets, QueueAssumption DEF RQInv, Balanced
  <2>3. Processing(worker) # {}
    BY <2>2, CountedSets, FS_EmptySet
  <2> QED BY <2>3 DEF Processing
<1> QED BY <1>1, RQInvInit, RQInvStep, PTL DEF RQSpec
=============================================================================
