---------------------------- MODULE Postgres_proofs ----------------------------
(***************************************************************************)
(* Theorems about the tables of the PostgreSQL brokers: the channel of a   *)
(* stream, for any set of publishers, keys, TTLs, versions and readers;    *)
(* the schema, for any nodes and binaries; what nodes make of their outbox *)
(* tables; and the replica that serves a read.                             *)
(***************************************************************************)
EXTENDS StreamPublish, SchemaSetup, NodeOutbox, BrokerPools, FiniteSetTheorems, SequenceTheorems,
        WellFoundedInduction, TLAPS

(* The publications of an epoch are numbered from 1 without holes, and the *)
(* meta row of the live epoch knows the last of them.                      *)

Reader == [busy: {TRUE}, f: Filters, off: Nat, epoch: Nat, httl: Nat, size: Nat]
Answer == [pubs: SUBSET Publication, off: Nat, epoch: Nat, from: Nat]

PublishTypes ==
    /\ now \in Nat /\ epochs \in Nat /\ victim \in Nat
    /\ meta \in Meta
    /\ rows \subseteq Publication /\ ever \subseteq Publication
    /\ idem \in [Keys -> IdemRow]
    /\ began \in [Publishers -> Nat]
    /\ reader = NotReading \/ reader \in Reader
    /\ result \in Answer

\* Epochs up to n were used; a position names one publication, and below it
\* all positions were given out.
Numbered(E, n) ==
    /\ \A r \in E : r.epoch >= 1 /\ r.epoch <= n /\ r.off >= 1
    /\ \A r, q \in E : r.epoch = q.epoch /\ r.off = q.off => r = q
    /\ \A r \in E : \A o \in 1 .. r.off : \E q \in E : q.epoch = r.epoch /\ q.off = o

\* The meta row m is at the last publication of its epoch.
AtEnd(E, m) ==
    /\ \A r \in E : r.epoch = m.epoch => r.off <= m.off
    /\ \A o \in 1 .. m.off : \E q \in E : q.epoch = m.epoch /\ q.off = o

\* Nothing but r's version epoch has been used in its epoch since r.
LastEpoch(E, r) == \A x \in E : x.epoch = r.epoch /\ r.off <= x.off => x.ve = r.ve

\* The meta row has the version epoch of the last publication, and a version
\* not below any published under that version epoch since it was last set.
VersionKept(E, m) ==
    /\ \A r \in E : r.epoch = m.epoch /\ r.off = m.off => r.ve = m.ve
    /\ \A r \in E : r.epoch = m.epoch /\ r.ver > 0 /\ LastEpoch(E, r) => r.ver <= m.ver

\* Of the epoch of m the table holds nothing or also the last publication.
LastKept(R, m) ==
    (\E r \in R : r.epoch = m.epoch) => \E r \in R : r.epoch = m.epoch /\ r.off = m.off

\* VersionsIncrease of a set of publications.
Increasing(E) ==
    \A r, q \in E :
        /\ r.epoch = q.epoch /\ r.off < q.off
        /\ r.ver > 0 /\ q.ver > 0
        /\ \A x \in E : x.epoch = r.epoch /\ r.off <= x.off /\ x.off <= q.off => x.ve = r.ve
        => r.ver < q.ver

\* What a publish relies on of the meta row it holds locked.
MetaOk(E, R, m, n) ==
    /\ m \in Meta /\ m.epoch >= 1 /\ m.epoch <= n
    /\ AtEnd(E, m) /\ VersionKept(E, m) /\ LastKept(R, m)

StreamInv ==
    /\ PublishTypes
    /\ rows \subseteq ever
    /\ Numbered(ever, epochs)
    /\ IF meta.epoch = 0 THEN meta = NoMeta ELSE MetaOk(ever, rows, meta, epochs)
    /\ Increasing(ever)
    /\ DeltaBaseIsPredecessor
    /\ \A k \in Keys : idem[k] # NoIdem =>
          \E r \in ever : r.key = k /\ r.epoch = idem[k].epoch /\ r.off = idem[k].off
    /\ ReplayNamesOriginal

LEMMA NoVEType == NoVE \in VEs
BY Zenon DEF NoVE, VEs

LEMMA StreamInvInit == PublishInit => StreamInv
<1> SUFFICES ASSUME PublishInit PROVE StreamInv
  OBVIOUS
<1>1. NoMeta \in Meta /\ NoIdem \in IdemRow /\ NoResult \in Answer
  BY NoVEType DEF NoMeta, Meta, NoIdem, IdemRow, NoResult, Answer
<1>2. PublishTypes
  BY <1>1 DEF PublishInit, PublishTypes
<1>3. meta.epoch = 0
  BY DEF PublishInit, NoMeta
<1> QED
  BY <1>2, <1>3 DEF PublishInit, StreamInv, Numbered, Increasing, DeltaBaseIsPredecessor,
     ReplayNamesOriginal

-----------------------------------------------------------------------------
(* Publishing.                                                             *)

\* The row a publish appends behind the meta row m.
NewRow(g, m, t, prev) ==
    [off |-> m.off + 1, epoch |-> m.epoch, at |-> t, prev |-> prev, ver |-> g.ver,
     ve |-> AdvancedMeta(g, m, t).ve, key |-> g.key, ittl |-> g.ittl]

\* The meta row a publish locks: the one found, or one of an unused epoch.
LEMMA LockedOk ==
  ASSUME StreamInv, NEW t \in Nat
  PROVE  /\ LockedMeta(t) \in Meta
         /\ GreatestOf(epochs, LockedMeta(t).epoch) \in Nat
         /\ GreatestOf(epochs, LockedMeta(t).epoch) >= epochs
         /\ MetaOk(ever, rows, LockedMeta(t), GreatestOf(epochs, LockedMeta(t).epoch))
         /\ Numbered(ever, GreatestOf(epochs, LockedMeta(t).epoch))
<1> DEFINE m == LockedMeta(t)
<1>1. epochs \in Nat /\ rows \subseteq ever /\ ever \subseteq Publication
  BY DEF StreamInv, PublishTypes
<1>2. CASE meta.epoch # 0
  <2>1. m = meta /\ MetaOk(ever, rows, meta, epochs)
    BY <1>2 DEF LockedMeta, StreamInv
  <2>2. meta \in Meta /\ meta.epoch \in Nat /\ meta.epoch <= epochs
    BY <2>1 DEF MetaOk, Meta
  <2>3. GreatestOf(epochs, m.epoch) = epochs
    BY <2>1, <2>2, <1>1 DEF GreatestOf
  <2> QED BY <2>1, <2>2, <2>3, <1>1 DEF StreamInv
<1>3. CASE meta.epoch = 0
  <2>1. m = [off |-> 0, epoch |-> epochs + 1, httl |-> 1, size |-> 100, ver |-> 0,
             ve |-> NoVE, expires |-> t + DefaultMetaTTL]
    BY <1>3 DEF LockedMeta
  <2>2. m \in Meta /\ m.epoch = epochs + 1 /\ m.off = 0
    BY <2>1, <1>1, TimesAssumption, NoVEType DEF Meta
  <2>3. GreatestOf(epochs, m.epoch) = epochs + 1
    BY <2>2, <1>1 DEF GreatestOf
  <2>4. \A r \in ever : r.epoch \in Nat /\ r.epoch # m.epoch /\ r.epoch <= epochs
    BY <2>2, <1>1 DEF StreamInv, Numbered, Publication
  <2>5. AtEnd(ever, m) /\ VersionKept(ever, m) /\ LastKept(rows, m)
    BY <2>2, <2>4, <1>1 DEF AtEnd, VersionKept, LastKept
  <2>6. Numbered(ever, epochs + 1)
    BY <2>4, <1>1 DEF StreamInv, Numbered
  <2> QED BY <2>2, <2>3, <2>5, <2>6, <1>1 DEF MetaOk
<1> QED BY <1>2, <1>3

\* The meta row after a publish is one.
LEMMA AdvancedOk ==
  ASSUME NEW g \in PublishArgs, NEW m \in Meta, NEW t \in Nat
  PROVE  /\ AdvancedMeta(g, m, t) \in Meta
         /\ AdvancedMeta(g, m, t).off = m.off + 1
         /\ AdvancedMeta(g, m, t).epoch = m.epoch
         /\ AdvancedMeta(g, m, t).ver = IF g.ver > 0 THEN g.ver ELSE m.ver
         /\ AdvancedMeta(g, m, t).ve = IF g.ver > 0 /\ g.ve # NoVE THEN g.ve ELSE m.ve
<1>1. g \in Args
  BY ArgsAssumption
<1>2. EffectiveMetaTTL(g) \in Int
  BY <1>1, TimesAssumption DEF EffectiveMetaTTL, GreatestOf, Args
<1>3. (IF EffectiveMetaTTL(g) < 0 THEN Infinity ELSE t + EffectiveMetaTTL(g)) \in Nat
  BY <1>2 DEF Infinity
<1> HIDE DEF EffectiveMetaTTL
<1> QED BY <1>1, <1>3 DEF AdvancedMeta, Meta, Args

\* The newest row of an epoch is the predecessor of the one being appended.
LEMMA PrevOk ==
  ASSUME NEW g, NEW m \in Meta, LastKept(rows, m), rows \subseteq ever,
         ever \subseteq Publication, AtEnd(ever, m), NEW prev \in PrevData(g, m)
  PROVE  prev \in Nat /\ prev \in {0, (m.off + 1) - 1}
<1> DEFINE s == {r \in rows : r.epoch = m.epoch}
<1>1. CASE prev = 0
  BY <1>1
<1>2. CASE prev # 0
  <2>1. s # {} /\ \E r \in s : prev = r.off /\ \A x \in s : x.off <= r.off
    BY <1>2 DEF PrevData
  <2>2. PICK r \in s : prev = r.off /\ \A x \in s : x.off <= r.off
    BY <2>1
  <2>3. PICK x \in s : x.off = m.off
    BY <2>1 DEF LastKept
  <2>4. r.off \in Nat /\ r.off <= m.off /\ m.off <= r.off /\ m.off \in Nat
    BY <2>2, <2>3 DEF AtEnd, Publication, Meta
  <2> QED BY <2>2, <2>4
<1> QED BY <1>1, <1>2

\* Appending at the end of the epoch keeps the numbering.
LEMMA NumberedAppend ==
  ASSUME NEW E, E \subseteq Publication, NEW n \in Nat, Numbered(E, n), NEW m \in Meta, AtEnd(E, m),
         m.epoch >= 1, m.epoch <= n,
         NEW r \in Publication, r.epoch = m.epoch, r.off = m.off + 1,
         NEW a \in Meta, a.epoch = m.epoch, a.off = m.off + 1
  PROVE  Numbered(E \cup {r}, n) /\ AtEnd(E \cup {r}, a)
<1>1. \A q \in E \cup {r} : q.off \in Nat /\ q.epoch \in Nat
  BY DEF Publication
<1>2. m.off \in Nat
  BY DEF Meta
<1>3. \A q \in E : q.epoch = r.epoch => q.off < r.off
  BY <1>1, <1>2 DEF AtEnd
<1>4. \A o \in 1 .. r.off : \E q \in E \cup {r} : q.epoch = r.epoch /\ q.off = o
  BY <1>1, <1>2 DEF AtEnd
<1>5. \A x \in E : \A o \in 1 .. x.off : \E q \in E \cup {r} : q.epoch = x.epoch /\ q.off = o
  BY DEF Numbered
<1>6. \A x, q \in E \cup {r} : x.epoch = q.epoch /\ x.off = q.off => x = q
  BY <1>1, <1>3 DEF Numbered
<1>7. \A x \in E \cup {r} : x.epoch >= 1 /\ x.epoch <= n /\ x.off >= 1
  BY <1>2 DEF Numbered
<1>8. Numbered(E \cup {r}, n)
  BY <1>4, <1>5, <1>6, <1>7 DEF Numbered
<1>9. AtEnd(E \cup {r}, a)
  BY <1>1, <1>2, <1>3, <1>4 DEF AtEnd
<1> QED BY <1>8, <1>9

\* A publish that is not stale keeps versions going up.
LEMMA VersionAppend ==
  ASSUME NEW E, E \subseteq Publication, NEW m \in Meta, AtEnd(E, m), VersionKept(E, m), Increasing(E),
         \A x \in E : x.off >= 1,
         NEW g \in Args, ~VersionStale(g, m),
         NEW r \in Publication, r.epoch = m.epoch, r.off = m.off + 1, r.ver = g.ver,
         r.ve = IF g.ver > 0 /\ g.ve # NoVE THEN g.ve ELSE m.ve,
         NEW a \in Meta, a.epoch = m.epoch, a.off = m.off + 1, a.ve = r.ve,
         a.ver = IF g.ver > 0 THEN g.ver ELSE m.ver
  PROVE  VersionKept(E \cup {r}, a) /\ Increasing(E \cup {r})
<1> DEFINE F == E \cup {r}
<1>1. \A q \in F : q.off \in Nat /\ q.epoch \in Nat /\ q.ver \in Nat
  BY DEF Publication
<1>2. m.off \in Nat /\ m.ver \in Nat /\ g.ver \in Nat
  BY DEF Meta, Args
<1>3. \A q \in E : q.epoch = r.epoch => q.off <= m.off /\ q.off < r.off
  BY <1>1, <1>2 DEF AtEnd
\* The versions a new one is compared with are below it.
<1>4. ASSUME NEW x \in E, x.epoch = r.epoch, x.ver > 0,
             \A q \in F : q.epoch = x.epoch /\ x.off <= q.off => q.ve = x.ve
      PROVE  x.ver <= m.ver /\ (r.ver > 0 => x.ver < r.ver)
  <2>1. LastEpoch(E, x)
    BY <1>4 DEF LastEpoch
  <2>2. x.ver <= m.ver
    BY <2>1, <1>4 DEF VersionKept
  <2>3. m.off >= 1
    BY <1>1, <1>2, <1>3, <1>4
  <2>4. PICK q \in E : q.epoch = m.epoch /\ q.off = m.off
    BY <2>3, <1>2 DEF AtEnd
  <2>5. m.ve = x.ve
    BY <2>4, <1>3, <1>4 DEF VersionKept
  <2>6. r.ve = x.ve
    BY <1>1, <1>3, <1>4
  <2>7. ASSUME r.ver > 0 PROVE x.ver < r.ver
    <3>1. m.ver > 0 /\ g.ver > 0
      BY <2>2, <2>7, <1>1, <1>2, <1>4
    <3>2. g.ve = NoVE \/ g.ve = m.ve
      BY <2>5, <2>6, <3>1
    <3>3. ~(g.ver <= m.ver)
      BY <3>1, <3>2 DEF VersionStale
    <3> QED BY <3>3, <2>2, <1>1, <1>2
  <2> QED BY <2>2, <2>7
<1>5. ASSUME NEW x \in F, x.epoch = a.epoch, x.ver > 0, LastEpoch(F, x)
      PROVE  x.ver <= a.ver
  <2>1. CASE x \in E
    <3>1. x.ver <= m.ver /\ (r.ver > 0 => x.ver < r.ver)
      BY <2>1, <1>4, <1>5 DEF LastEpoch
    <3> QED BY <3>1, <2>1, <1>1, <1>2
  <2>2. CASE x = r
    BY <2>2, <1>5, <1>2
  <2> QED BY <2>1, <2>2
<1>6. VersionKept(F, a)
  <2>1. \A x \in F : x.epoch = a.epoch /\ x.off = a.off => x.ve = a.ve
    BY <1>1, <1>2, <1>3
  <2> QED BY <2>1, <1>5 DEF VersionKept
<1>7. ASSUME NEW x \in F, NEW q \in F, x.epoch = q.epoch, x.off < q.off, x.ver > 0, q.ver > 0,
             \A y \in F : y.epoch = x.epoch /\ x.off <= y.off /\ y.off <= q.off => y.ve = x.ve
      PROVE  x.ver < q.ver
  <2>1. CASE q \in E /\ x \in E
    BY <2>1, <1>7 DEF Increasing
  <2>2. CASE q = r /\ x \in E
    <3>1. \A y \in F : y.epoch = x.epoch /\ x.off <= y.off => y.ve = x.ve
      BY <2>2, <1>1, <1>2, <1>3, <1>7
    <3> QED BY <3>1, <2>2, <1>4, <1>7
  <2>3. CASE x = r
    BY <2>3, <1>1, <1>3, <1>7
  <2> QED BY <2>1, <2>2, <2>3
<1>8. Increasing(F)
  BY <1>7 DEF Increasing
<1> QED BY <1>6, <1>8

\* What a publish that is not suppressed does.
Appends(g, m, t, prev) ==
    LET r == NewRow(g, m, t, prev)
    IN  /\ prev \in PrevData(g, m)
        /\ meta' = AdvancedMeta(g, m, t)
        /\ rows' = rows \cup {r}
        /\ ever' = ever \cup {r}
        /\ idem' = SavedIdem(g, m.off + 1, m.epoch, t)
        /\ Reply(g, m.off + 1, m.epoch, "none")
        /\ epochs' = GreatestOf(epochs, m.epoch)

\* And what one does that is.
Answers(g, m, t) ==
    /\ \/ IdempotencyHit(g, t) /\ Reply(g, idem[g.key].off, idem[g.key].epoch, "idempotency")
       \/ Reply(g, m.off, m.epoch, "version")
    /\ \/ UNCHANGED <<meta, epochs>>
       \/ meta' = m /\ epochs' = GreatestOf(epochs, m.epoch)
    /\ UNCHANGED <<rows, ever, idem>>

LEMMA PublishCases ==
  ASSUME NEW p, NEW g, Publish(p, g)
  PROVE  /\ began[p] # 0
         /\ began' = [began EXCEPT ![p] = 0]
         /\ UNCHANGED <<now, victim, reader, result>>
         /\ \/ /\ ~VersionStale(g, LockedMeta(began[p]))
               /\ \E prev : Appends(g, LockedMeta(began[p]), began[p], prev)
            \/ Answers(g, LockedMeta(began[p]), began[p])
<1> DEFINE t == began[p]
           m == LockedMeta(t)
<1>1. CASE IdempotencyHit(g, t) \/ VersionStale(g, m)
  BY <1>1, Zenon DEF Publish, Answers
<1>2. CASE ~(IdempotencyHit(g, t) \/ VersionStale(g, m))
  <2>1. \E prev \in PrevData(g, m) : Appends(g, m, t, prev)
    BY <1>2, Zenon DEF Publish, Appends, NewRow
  <2> QED BY <1>2, <2>1, Zenon DEF Publish
<1> QED BY <1>1, <1>2, Zenon

\* Epochs are handed out upwards, and within one the position goes up.
Forward ==
    /\ epochs' >= epochs
    /\ \/ meta' = NoMeta
       \/ meta'.epoch = meta.epoch /\ meta'.off >= meta.off
       \/ meta'.epoch > epochs

LEMMA LockedForward ==
  ASSUME StreamInv, NEW t \in Nat,
         epochs' = GreatestOf(epochs, LockedMeta(t).epoch),
         meta'.epoch = LockedMeta(t).epoch, meta'.off >= LockedMeta(t).off
  PROVE  Forward
<1>1. epochs \in Nat
  BY DEF StreamInv, PublishTypes
<1>2. epochs' >= epochs
  BY LockedOk
<1>3. CASE meta.epoch # 0
  BY <1>2, <1>3 DEF LockedMeta, Forward
<1>4. CASE meta.epoch = 0
  <2>1. LockedMeta(t).epoch = epochs + 1
    BY <1>4 DEF LockedMeta
  <2> QED BY <2>1, <1>1, <1>2 DEF Forward
<1> QED BY <1>3, <1>4

LEMMA SavedIdemType ==
  ASSUME StreamInv, NEW g \in PublishArgs, NEW off \in Nat, NEW epoch \in Nat, NEW t \in Nat
  PROVE  /\ SavedIdem(g, off, epoch, t) \in [Keys -> IdemRow]
         /\ \A k \in Keys : \/ SavedIdem(g, off, epoch, t)[k] = idem[k]
                           \/ /\ k = g.key
                              /\ SavedIdem(g, off, epoch, t)[k].off = off
                              /\ SavedIdem(g, off, epoch, t)[k].epoch = epoch
<1>1. g.ittl \in Nat
  BY ArgsAssumption DEF Args
<1>2. idem \in [Keys -> IdemRow]
  BY DEF StreamInv, PublishTypes
<1>3. [off |-> off, epoch |-> epoch, expires |-> t + g.ittl] \in IdemRow
  BY <1>1 DEF IdemRow
<1> QED BY <1>2, <1>3 DEF SavedIdem

LEMMA AppendInv ==
  ASSUME StreamInv, NEW p \in Publishers, NEW g \in PublishArgs, NEW t \in Nat, NEW prev,
         ~VersionStale(g, LockedMeta(t)), Appends(g, LockedMeta(t), t, prev),
         began' = [began EXCEPT ![p] = 0], UNCHANGED <<now, victim, reader, result>>
  PROVE  StreamInv' /\ Forward
<1> DEFINE m == LockedMeta(t)
           a == AdvancedMeta(g, m, t)
           r == NewRow(g, m, t, prev)
           n == GreatestOf(epochs, m.epoch)
<1>1. /\ m \in Meta /\ n \in Nat
      /\ MetaOk(ever, rows, m, n)
      /\ Numbered(ever, n)
  BY LockedOk
<1>2. /\ a \in Meta /\ a.off = m.off + 1 /\ a.epoch = m.epoch
      /\ a.ver = IF g.ver > 0 THEN g.ver ELSE m.ver
      /\ a.ve = IF g.ver > 0 /\ g.ve # NoVE THEN g.ve ELSE m.ve
  BY <1>1, AdvancedOk
<1>3. /\ prev \in PrevData(g, m)
      /\ meta' = a /\ rows' = rows \cup {r} /\ ever' = ever \cup {r}
      /\ idem' = SavedIdem(g, m.off + 1, m.epoch, t)
      /\ Reply(g, m.off + 1, m.epoch, "none")
      /\ epochs' = n
  BY DEF Appends
<1>4. rows \subseteq ever /\ ever \subseteq Publication
  BY DEF StreamInv, PublishTypes
<1>5. g \in Args
  BY ArgsAssumption
<1>6. prev \in Nat /\ prev \in {0, (m.off + 1) - 1}
  BY <1>1, <1>3, <1>4, PrevOk DEF MetaOk
<1>7. /\ r.off = m.off + 1 /\ r.epoch = m.epoch /\ r.ver = g.ver /\ r.ve = a.ve
      /\ r.prev = prev /\ r.key = g.key
  BY DEF NewRow
<1>8. r \in Publication
  BY <1>1, <1>2, <1>5, <1>6 DEF NewRow, Publication, Meta, Args
<1>9. m.off \in Nat /\ m.epoch \in Nat
  BY <1>1 DEF Meta
<1> HIDE DEF m, a, r, n
<1>10. /\ idem' \in [Keys -> IdemRow]
       /\ \A k \in Keys : \/ idem'[k] = idem[k]
                          \/ k = g.key /\ idem'[k].off = m.off + 1 /\ idem'[k].epoch = m.epoch
  <2>1. m.off + 1 \in Nat
    BY <1>9
  <2>2. PICK o, e : o = m.off + 1 /\ e = m.epoch
    OBVIOUS
  <2>3. o \in Nat /\ e \in Nat
    BY ONLY <2>1, <2>2, <1>9
  <2>4. /\ SavedIdem(g, o, e, t) \in [Keys -> IdemRow]
        /\ \A k \in Keys : \/ SavedIdem(g, o, e, t)[k] = idem[k]
                           \/ /\ k = g.key /\ SavedIdem(g, o, e, t)[k].off = o
                              /\ SavedIdem(g, o, e, t)[k].epoch = e
    BY ONLY StreamInv, g \in PublishArgs, t \in Nat, <2>3, SavedIdemType
  <2>5. idem' = SavedIdem(g, o, e, t)
    BY ONLY <1>3, <2>2
  <2> QED BY ONLY <2>2, <2>4, <2>5
<1>11. Numbered(ever', epochs') /\ AtEnd(ever', meta')
  BY <1>1, <1>2, <1>3, <1>4, <1>7, <1>8, NumberedAppend DEF MetaOk
<1>12. VersionKept(ever', meta') /\ Increasing(ever')
  <2>1. ~VersionStale(g, m)
    BY DEF m
  <2>2. \A x \in ever : x.off >= 1
    BY <1>1 DEF Numbered
  <2> QED BY <1>1, <1>2, <1>3, <1>4, <1>5, <1>7, <1>8, <2>1, <2>2, VersionAppend DEF MetaOk, StreamInv
<1>13. LastKept(rows', meta')
  BY <1>2, <1>3, <1>7 DEF LastKept
<1>14. MetaOk(ever', rows', meta', epochs') /\ meta'.epoch # 0
  BY <1>1, <1>2, <1>3, <1>9, <1>11, <1>12, <1>13 DEF MetaOk
<1>15. \A x \in ever' : x.prev \in {0, x.off - 1}
  BY <1>3, <1>6, <1>7 DEF StreamInv, DeltaBaseIsPredecessor
<1>16. \A k \in Keys : idem'[k] # NoIdem =>
          \E x \in ever' : x.key = k /\ x.epoch = idem'[k].epoch /\ x.off = idem'[k].off
  <2> SUFFICES ASSUME NEW k \in Keys
               PROVE  idem'[k] # NoIdem =>
                        \E x \in ever' : x.key = k /\ x.epoch = idem'[k].epoch /\ x.off = idem'[k].off
    OBVIOUS
  <2>1. \/ idem'[k] = idem[k]
        \/ k = g.key /\ idem'[k].off = r.off /\ idem'[k].epoch = r.epoch
    BY <1>3, <1>7, <1>10
  <2> QED BY <2>1, <1>3, <1>7 DEF StreamInv
<1>17. \A y \in replies' : y.reason = "idempotency" =>
          \E x \in ever' : x.key = y.key /\ x.epoch = y.epoch /\ x.off = y.off
  BY <1>3 DEF StreamInv, ReplayNamesOriginal, Reply
<1>18. PublishTypes'
  <2>1. idem' \in [Keys -> IdemRow]
    BY <1>10
  <2>2. began' \in [Publishers -> Nat]
    BY DEF StreamInv, PublishTypes
  <2> QED BY <2>1, <2>2, <1>1, <1>2, <1>3, <1>4, <1>8 DEF StreamInv, PublishTypes
<1>19. Forward
  BY <1>2, <1>3, <1>9, LockedForward DEF m, n
<1> QED
  BY <1>3, <1>4, <1>11, <1>12, <1>14, <1>15, <1>16, <1>17, <1>18, <1>19
  DEF StreamInv, DeltaBaseIsPredecessor, ReplayNamesOriginal

LEMMA AnswerInv ==
  ASSUME StreamInv, NEW p \in Publishers, NEW g \in PublishArgs, NEW t \in Nat, t # 0,
         Answers(g, LockedMeta(t), t),
         began' = [began EXCEPT ![p] = 0], UNCHANGED <<now, victim, reader, result>>
  PROVE  StreamInv' /\ Forward
<1> DEFINE m == LockedMeta(t)
           n == GreatestOf(epochs, m.epoch)
<1>1. m \in Meta /\ n \in Nat /\ MetaOk(ever, rows, m, n) /\ Numbered(ever, n)
  BY LockedOk
<1>2. \A y \in replies' : y.reason = "idempotency" =>
          \E x \in ever' : x.key = y.key /\ x.epoch = y.epoch /\ x.off = y.off
  <2>1. CASE Reply(g, m.off, m.epoch, "version")
    BY <2>1 DEF Answers, StreamInv, ReplayNamesOriginal, Reply
  <2>2. CASE IdempotencyHit(g, t) /\ Reply(g, idem[g.key].off, idem[g.key].epoch, "idempotency")
    <3>1. g.key \in Keys /\ idem[g.key].expires > t
      BY <2>2, ArgsAssumption DEF IdempotencyHit, Args
    <3>2. idem[g.key] # NoIdem
      BY <3>1 DEF NoIdem
    <3>3. \E x \in ever : x.key = g.key /\ x.epoch = idem[g.key].epoch /\ x.off = idem[g.key].off
      BY <3>1, <3>2 DEF StreamInv
    <3> QED BY <2>2, <3>3 DEF Answers, StreamInv, ReplayNamesOriginal, Reply
  <2> QED BY <2>1, <2>2 DEF Answers
<1>3. began' \in [Publishers -> Nat]
  BY DEF StreamInv, PublishTypes
<1>4. CASE UNCHANGED <<meta, epochs>>
  <2>1. StreamInv'
    BY <1>2, <1>3, <1>4 DEF Answers, StreamInv, PublishTypes, DeltaBaseIsPredecessor,
       ReplayNamesOriginal
  <2>2. Forward
    BY <1>4 DEF Forward, StreamInv, PublishTypes, Meta
  <2> QED BY <2>1, <2>2
<1>5. CASE meta' = m /\ epochs' = n
  <2>1. PublishTypes'
    BY <1>1, <1>3, <1>5 DEF Answers, StreamInv, PublishTypes
  <2>2. m.epoch # 0 /\ m.off >= m.off
    BY <1>1 DEF MetaOk, Meta
  <2> HIDE DEF m, n
  <2>3. StreamInv'
    BY <2>1, <2>2, <1>1, <1>2, <1>5 DEF Answers, StreamInv, DeltaBaseIsPredecessor,
       ReplayNamesOriginal
  <2>4. Forward
    BY <2>2, <1>5, LockedForward DEF m, n
  <2> QED BY <2>3, <2>4
<1> QED BY <1>4, <1>5 DEF Answers

LEMMA PublishInv ==
  ASSUME StreamInv, NEW p \in Publishers, NEW g \in PublishArgs, Publish(p, g)
  PROVE  StreamInv' /\ Forward
<1>1. began[p] \in Nat
  BY DEF StreamInv, PublishTypes
<1>2. CASE Answers(g, LockedMeta(began[p]), began[p])
  BY <1>1, <1>2, PublishCases, AnswerInv
<1>3. CASE /\ ~VersionStale(g, LockedMeta(began[p]))
           /\ \E prev : Appends(g, LockedMeta(began[p]), began[p], prev)
  BY <1>1, <1>3, PublishCases, AppendInv
<1> QED BY <1>2, <1>3, PublishCases

-----------------------------------------------------------------------------
(* The other operations move no publication.                               *)

LEMMA AnswerType ==
  ASSUME StreamInv, reader \in Reader
  PROVE  [pubs |-> Limited(reader, Matching(reader)), off |-> reader.off,
          epoch |-> reader.epoch, from |-> EffectiveStart(reader)] \in Answer
<1>1. Limited(reader, Matching(reader)) \subseteq rows
  BY DEF Limited, Matching
<1>2. Limited(reader, Matching(reader)) \subseteq Publication
  BY <1>1 DEF StreamInv, PublishTypes
<1>3. /\ reader.f.since \in Nat /\ reader.off \in Nat /\ reader.size \in Nat
      /\ reader.epoch \in Nat
  BY DEF Reader, Filters
<1>4. EffectiveStart(reader) \in Nat
  BY <1>3 DEF EffectiveStart, GreatestOf
<1> QED BY <1>2, <1>3, <1>4 DEF Answer

LEMMA StreamInvNext == ASSUME StreamInv, [PublishNext]_publishVars PROVE StreamInv' /\ Forward
<1> USE DEF StreamInv
<1>0. meta \in Meta /\ epochs \in Nat /\ meta.off \in Nat
  BY DEF PublishTypes, Meta
<1>1. ASSUME NEW p \in Publishers, NEW g \in PublishArgs, Publish(p, g)
      PROVE  StreamInv' /\ Forward
  BY <1>1, PublishInv
<1>2. ASSUME UNCHANGED <<meta, rows, idem, ever, replies, epochs>>, PublishTypes'
      PROVE  StreamInv' /\ Forward
  <2>1. Forward
    BY <1>0, <1>2 DEF Forward
  <2> QED BY <2>1, <1>2 DEF DeltaBaseIsPredecessor, ReplayNamesOriginal
<1>3. ASSUME NEW p \in Publishers, Begin(p) PROVE StreamInv' /\ Forward
  <2>1. PublishTypes'
    BY <1>3 DEF Begin, PublishTypes
  <2> QED BY <2>1, <1>2, <1>3 DEF Begin
<1>4. CASE RemoveChannelHistory
  <2>1. PublishTypes' /\ rows' = {} /\ UNCHANGED <<meta, idem, ever, replies, epochs>>
    BY <1>4 DEF RemoveChannelHistory, PublishTypes
  <2>2. MetaOk(ever, rows, meta, epochs) => MetaOk(ever, {}, meta, epochs)
    BY DEF MetaOk, LastKept
  <2>3. Forward
    BY <2>1, <1>0 DEF Forward
  <2> QED BY <2>1, <2>2, <2>3 DEF DeltaBaseIsPredecessor, ReplayNamesOriginal
<1>5. CASE Tick
  <2>1. PublishTypes'
    BY <1>5 DEF Tick, PublishTypes
  <2> QED BY <2>1, <1>2, <1>5 DEF Tick
<1>6. CASE CleanupMetaSelect
  <2>1. PublishTypes'
    BY <1>6, <1>0 DEF CleanupMetaSelect, PublishTypes, Meta
  <2> QED BY <2>1, <1>2, <1>6 DEF CleanupMetaSelect
<1>7. CASE CleanupMetaDelete
  <2>1. NoMeta \in Meta /\ NoMeta.epoch = 0
    BY NoVEType DEF NoMeta, Meta
  <2>2. PublishTypes'
    BY <1>7, <2>1 DEF CleanupMetaDelete, PublishTypes
  <2>3. Forward
    BY <1>7, <1>0 DEF CleanupMetaDelete, Forward
  <2>4. CASE meta' = meta
    BY <2>2, <2>3, <2>4, <1>7 DEF CleanupMetaDelete, DeltaBaseIsPredecessor, ReplayNamesOriginal
  <2>5. CASE meta' = NoMeta
    BY <2>1, <2>2, <2>3, <2>5, <1>7 DEF CleanupMetaDelete, DeltaBaseIsPredecessor, ReplayNamesOriginal
  <2> QED BY <2>4, <2>5, <1>7 DEF CleanupMetaDelete
<1>8. CASE CleanupIdempotency
  <2>1. NoIdem \in IdemRow
    BY DEF NoIdem, IdemRow
  <2>2. PublishTypes'
    BY <1>8, <2>1 DEF CleanupIdempotency, PublishTypes
  <2>3. \A k \in Keys : idem'[k] = NoIdem \/ idem'[k] = idem[k]
    BY <1>8 DEF CleanupIdempotency
  <2>4. Forward
    BY <1>8, <1>0 DEF CleanupIdempotency, Forward
  <2> QED BY <2>2, <2>3, <2>4, <1>8 DEF CleanupIdempotency, DeltaBaseIsPredecessor, ReplayNamesOriginal
<1>9. ASSUME NEW f \in ReadArgs, HistoryMeta(f) PROVE StreamInv' /\ Forward
  <2>1. f \in Filters
    BY ArgsAssumption
  <2>2. meta.epoch \in Nat /\ meta.httl \in Nat /\ meta.size \in Nat
    BY <1>0 DEF Meta
  <2>3. CASE meta.epoch = 0 \/ f.limit = 0
    <3>1. /\ result' = [NoResult EXCEPT !.off = meta.off, !.epoch = meta.epoch]
          /\ reader' = reader
      BY <2>3, <1>9, Zenon DEF HistoryMeta
    <3> HIDE DEF StreamInv
    <3>2. result' = [pubs |-> {}, off |-> meta.off, epoch |-> meta.epoch, from |-> 1]
      BY <3>1 DEF NoResult
    <3>3. result' \in Answer
      BY <3>2, <2>2, <1>0 DEF Answer
    <3>4. PublishTypes'
      BY <3>1, <3>3, <1>9 DEF HistoryMeta, PublishTypes, StreamInv
    <3> QED BY <3>4, <1>2, <1>9 DEF HistoryMeta
  <2>4. CASE ~(meta.epoch = 0 \/ f.limit = 0)
    <3>1. reader' \in Reader
      <4>1. reader' = [busy |-> TRUE, f |-> f, off |-> meta.off, epoch |-> meta.epoch,
                       httl |-> meta.httl, size |-> meta.size]
        BY <2>4, <1>9, Zenon DEF HistoryMeta
      <4> HIDE DEF StreamInv
      <4> QED BY <4>1, <2>1, <2>2, <1>0 DEF Reader
    <3>2. result' \in Answer
      BY <2>4, <1>9 DEF HistoryMeta, NoResult, Answer
    <3>3. PublishTypes'
      BY <3>1, <3>2, <1>9 DEF HistoryMeta, PublishTypes
    <3> QED BY <3>3, <1>2, <1>9 DEF HistoryMeta
  <2> QED BY <2>3, <2>4
<1>10. CASE HistoryRows
  <2>1. reader \in Reader
    BY <1>10 DEF HistoryRows, PublishTypes, NotReading
  <2>2. result' \in Answer
    BY <2>1, <1>10, AnswerType DEF HistoryRows
  <2>3. PublishTypes'
    BY <2>2, <1>10 DEF HistoryRows, PublishTypes
  <2> QED BY <2>3, <1>2, <1>10 DEF HistoryRows
<1>11. CASE UNCHANGED publishVars
  <2>1. PublishTypes'
    BY <1>11 DEF publishVars, PublishTypes
  <2> QED BY <2>1, <1>2, <1>11 DEF publishVars
<1> QED
  BY <1>1, <1>3, <1>4, <1>5, <1>6, <1>7, <1>8, <1>9, <1>10, <1>11 DEF PublishNext

LEMMA StreamInvSafe == StreamInv => PublishSafe
<1> SUFFICES ASSUME StreamInv PROVE PublishSafe
  OBVIOUS
<1>1. PublishTypeOK
  <2>1. reader.busy \in BOOLEAN
    <3>1. ASSUME reader = NotReading PROVE reader.busy = FALSE
      BY <3>1 DEF NotReading
    <3>2. ASSUME reader \in Reader PROVE reader.busy = TRUE
      BY <3>2 DEF Reader
    <3>3. reader = NotReading \/ reader \in Reader
      BY DEF StreamInv, PublishTypes
    <3>4. reader.busy = TRUE \/ reader.busy = FALSE
      BY <3>1, <3>2, <3>3, Zenon
    <3> QED BY <3>4, Zenon
  <2>2. result.pubs \subseteq Publication
    BY DEF StreamInv, PublishTypes, Answer
  <2> QED BY <2>1, <2>2 DEF StreamInv, PublishTypes, PublishTypeOK
<1>2. \A r \in ever : r.epoch = meta.epoch => r.off <= meta.off
  <2>1. CASE meta.epoch = 0
    BY <2>1 DEF StreamInv, Numbered
  <2>2. CASE meta.epoch # 0
    BY <2>2 DEF StreamInv, MetaOk, AtEnd
  <2> QED BY <2>1, <2>2
<1>3. PositionsNeverReused
  BY <1>2 DEF StreamInv, Numbered, PositionsNeverReused
<1> QED BY <1>1, <1>3 DEF StreamInv, Increasing, VersionsIncrease, PublishSafe

\* Whatever publishes, cleanup passes and removals of the history do to a
\* channel: a position of it (publish.sql.tmpl's offset and epoch) names one
\* publication, the offsets of an epoch have no hole, a repeated idempotency
\* key is answered with a publication of that key, versions of a version
\* epoch go up and a delta has its direct predecessor as base.
THEOREM PublishSafety == PublishSpec => []PublishSafe
<1>1. PublishInit => StreamInv
  BY StreamInvInit
<1>2. StreamInv /\ [PublishNext]_publishVars => StreamInv'
  BY StreamInvNext
<1> QED BY <1>1, <1>2, StreamInvSafe, PTL DEF PublishSpec

-----------------------------------------------------------------------------
(* Reading the history.                                                    *)

\* A position read earlier: not ahead of the meta row if the epoch is still
\* the live one.
Behind(epoch, off, m, n) ==
    epoch <= n /\ (epoch = 0 => off = 0) /\ (epoch = m.epoch => off <= m.off)

GivesTTL == \A g \in PublishArgs : g.httl > 0

\* The meta row outlives the last publication of its epoch.
EndCovered ==
    GivesTTL /\ meta.epoch # 0 =>
        \A r \in rows : r.epoch = meta.epoch /\ r.off = meta.off =>
            r.at + meta.httl <= meta.expires

HistoryInv ==
    /\ IsFiniteSet(rows)
    /\ reader \in Reader => Behind(reader.epoch, reader.off, meta, epochs)
    /\ Behind(result.epoch, result.off, meta, epochs)
    /\ \A q \in result.pubs : q.epoch = result.epoch /\ q.off <= result.off
    /\ OrderedStampsNoHole
    /\ EndCovered

LEMMA BehindForward ==
  ASSUME StreamInv, StreamInv', Forward, NEW e \in Nat, NEW o \in Nat,
         Behind(e, o, meta, epochs)
  PROVE  Behind(e, o, meta, epochs)'
<1>1. /\ epochs \in Nat /\ epochs' \in Nat
      /\ meta.off \in Nat /\ meta'.off \in Nat
      /\ meta.epoch \in Nat /\ meta'.epoch \in Nat
  BY DEF StreamInv, PublishTypes, Meta
<1>2. e <= epochs'
  BY <1>1 DEF Behind, Forward
<1>3. CASE meta' = NoMeta
  BY <1>1, <1>2, <1>3 DEF Behind, NoMeta
<1>4. CASE meta'.epoch = meta.epoch /\ meta'.off >= meta.off
  BY <1>1, <1>2, <1>4 DEF Behind
<1>5. CASE meta'.epoch > epochs
  BY <1>1, <1>2, <1>5 DEF Behind
<1> QED BY <1>3, <1>4, <1>5 DEF Forward

\* What becomes of the rows and the meta row in a step.
LEMMA RowsMove ==
  ASSUME StreamInv, [PublishNext]_publishVars
  PROVE  \/ rows' = rows /\ meta' = meta
         \/ rows' = {} /\ meta' = meta /\ UNCHANGED <<reader, result>>
         \/ rows' = rows /\ meta' = NoMeta /\ UNCHANGED <<reader, result>>
         \/ /\ \E t \in Nat : rows' = rows /\ meta' = LockedMeta(t)
            /\ UNCHANGED <<reader, result>>
         \/ /\ \E t \in Nat : \E g \in PublishArgs : \E prev : Appends(g, LockedMeta(t), t, prev)
            /\ UNCHANGED <<reader, result>>
<1>1. ASSUME NEW p \in Publishers, NEW g \in PublishArgs, Publish(p, g)
      PROVE  /\ UNCHANGED <<reader, result>>
             /\ \/ rows' = rows /\ meta' = meta
                \/ \E t \in Nat : rows' = rows /\ meta' = LockedMeta(t)
                \/ \E t \in Nat : \E prev : Appends(g, LockedMeta(t), t, prev)
  <2>1. began[p] \in Nat
    BY DEF StreamInv, PublishTypes
  <2>2. CASE Answers(g, LockedMeta(began[p]), began[p])
    BY <2>1, <2>2, <1>1, PublishCases, Zenon DEF Answers
  <2>3. CASE \E prev : Appends(g, LockedMeta(began[p]), began[p], prev)
    BY <2>1, <2>3, <1>1, PublishCases, Zenon
  <2> QED BY <2>2, <2>3, <1>1, PublishCases, Zenon
<1>2. ASSUME NEW p \in Publishers, Begin(p) PROVE rows' = rows /\ meta' = meta
  BY <1>2 DEF Begin
<1>3. ASSUME NEW f \in ReadArgs, HistoryMeta(f) PROVE rows' = rows /\ meta' = meta
  BY <1>3, Zenon DEF HistoryMeta
<1>4. CASE RemoveChannelHistory
  BY <1>4 DEF RemoveChannelHistory
<1>5. CASE CleanupMetaDelete
  BY <1>5 DEF CleanupMetaDelete
<1>6. CASE Tick \/ CleanupMetaSelect \/ CleanupIdempotency \/ HistoryRows \/ UNCHANGED publishVars
  BY <1>6, Zenon DEF Tick, CleanupMetaSelect, CleanupIdempotency, HistoryRows, publishVars
<1> QED BY <1>1, <1>2, <1>3, <1>4, <1>5, <1>6, Zenon DEF PublishNext

\* Only History changes what a reader has.
LEMMA ReaderMoves ==
  ASSUME [PublishNext]_publishVars, ~UNCHANGED <<reader, result>>
  PROVE  (\E f \in ReadArgs : HistoryMeta(f)) \/ HistoryRows
<1>1. ASSUME NEW p \in Publishers, NEW g \in PublishArgs, Publish(p, g)
      PROVE  FALSE
  BY <1>1, PublishCases, Zenon
<1> QED
  BY <1>1, Zenon DEF PublishNext, Begin, RemoveChannelHistory, Tick, CleanupMetaSelect,
     CleanupMetaDelete, CleanupIdempotency, publishVars

\* The second statement returns a contiguous part of the rows in the table.
LEMMA AnswerNoHole ==
  ASSUME StreamInv, IsFiniteSet(rows), StampsInOrder, reader \in Reader,
         NEW a \in Limited(reader, Matching(reader)),
         NEW b \in Limited(reader, Matching(reader)),
         NEW x \in rows, x.epoch = reader.epoch, a.off <= x.off, x.off <= b.off
  PROVE  x \in Limited(reader, Matching(reader))
<1> DEFINE s == Matching(reader)
           Before(r) == {q \in s : IF reader.f.reverse THEN q.off > r.off ELSE q.off < r.off}
<1>1. /\ a \in rows /\ b \in rows /\ s \subseteq rows /\ a \in s /\ b \in s
      /\ a.epoch = reader.epoch /\ b.epoch = reader.epoch
      /\ EffectiveStart(reader) <= a.off /\ b.off <= reader.off
      /\ reader.httl > 0 => a.at > now - reader.httl
  BY DEF Limited, Matching
<1>2. /\ \A r \in rows : r.off \in Nat /\ r.at \in Nat
      /\ now \in Nat /\ reader.httl \in Nat /\ reader.off \in Nat
  BY DEF StreamInv, PublishTypes, Publication, Reader
<1>3. EffectiveStart(reader) \in Int
  <2>1. reader.f.since \in Nat /\ reader.off \in Nat /\ reader.size \in Nat
    BY DEF Reader, Filters
  <2> QED BY <2>1 DEF EffectiveStart, GreatestOf
<1>4. a.at <= x.at
  <2>1. CASE a.off = x.off
    <3>1. a = x
      BY <2>1, <1>1 DEF StreamInv, Numbered
    <3> QED BY <3>1, <1>1, <1>2
  <2>2. CASE a.off < x.off
    BY <2>2, <1>1 DEF StampsInOrder
  <2> QED BY <2>1, <2>2, <1>1, <1>2
<1>5. x \in s
  <2>1. EffectiveStart(reader) <= x.off /\ x.off <= reader.off
    BY <1>1, <1>2, <1>3
  <2>2. reader.httl > 0 => x.at > now - reader.httl
    BY <1>1, <1>2, <1>4
  <2> HIDE DEF s
  <2> QED BY <2>1, <2>2 DEF s, Matching
<1>6. IsFiniteSet(Before(a)) /\ IsFiniteSet(Before(b)) /\ IsFiniteSet(Before(x))
  <2>1. Before(a) \in SUBSET rows /\ Before(b) \in SUBSET rows /\ Before(x) \in SUBSET rows
    BY <1>1
  <2> QED BY <2>1, FS_Subset
<1>7. /\ Cardinality(Before(a)) \in Nat /\ Cardinality(Before(b)) \in Nat
      /\ Cardinality(Before(x)) \in Nat
  BY <1>6, FS_CardinalityType
<1>8. Cardinality(Before(a)) < EffectiveLimit(reader) /\ Cardinality(Before(b)) < EffectiveLimit(reader)
  BY DEF Limited
<1>9. EffectiveLimit(reader) \in Int
  <2>1. reader.f.limit \in Nat /\ reader.size \in Nat
    BY DEF Reader, Filters
  <2> QED BY <2>1 DEF EffectiveLimit
<1>10. Cardinality(Before(x)) <= Cardinality(Before(a)) \/ Cardinality(Before(x)) <= Cardinality(Before(b))
  <2>1. CASE reader.f.reverse
    <3>1. Before(x) \in SUBSET Before(a)
      BY <2>1, <1>1, <1>2
    <3> QED BY <3>1, <1>6, FS_Subset
  <2>2. CASE ~reader.f.reverse
    <3>1. Before(x) \in SUBSET Before(b)
      BY <2>2, <1>1, <1>2
    <3> QED BY <3>1, <1>6, FS_Subset
  <2> QED BY <2>1, <2>2
<1>11. Cardinality(Before(x)) < EffectiveLimit(reader)
  <2> HIDE DEF Before
  <2> QED BY <1>7, <1>8, <1>9, <1>10
<1> QED BY <1>5, <1>11 DEF Limited

\* A new publication keeps the promise for the last one, and lies beyond
\* every position read before.
LEMMA AppendHistory ==
  ASSUME StreamInv, StreamInv', HistoryInv, Forward, UNCHANGED <<reader, result>>,
         NEW t \in Nat, NEW g \in PublishArgs, NEW prev, Appends(g, LockedMeta(t), t, prev)
  PROVE  IsFiniteSet(rows') /\ OrderedStampsNoHole' /\ EndCovered'
<1> DEFINE m == LockedMeta(t)
           r == NewRow(g, m, t, prev)
<1>1. rows' = rows \cup {r} /\ meta' = AdvancedMeta(g, m, t)
  BY DEF Appends
<1>2. r.epoch = m.epoch /\ r.off = m.off + 1 /\ r.at = t
  BY DEF NewRow
<1>3. m \in Meta /\ m.off \in Nat /\ m.epoch \in Nat /\ MetaOk(ever, rows, m, GreatestOf(epochs, m.epoch))
  BY LockedOk DEF Meta
<1>4. IsFiniteSet(rows')
  BY <1>1, FS_AddElement DEF HistoryInv
<1>5. \A q \in rows : q.epoch = m.epoch => q.off <= m.off
  BY <1>3 DEF MetaOk, AtEnd, StreamInv
<1>6. result.epoch = m.epoch => result.off <= m.off
  <2>1. CASE meta.epoch # 0
    BY <2>1 DEF LockedMeta, HistoryInv, Behind
  <2>2. CASE meta.epoch = 0
    <3>1. m.epoch = epochs + 1 /\ epochs \in Nat /\ result.epoch \in Nat
      BY <2>2 DEF LockedMeta, StreamInv, PublishTypes, Answer
    <3> QED BY <3>1 DEF HistoryInv, Behind
  <2> QED BY <2>1, <2>2
<1>7. result \in Answer /\ rows' \subseteq Publication /\ r \in rows'
  BY <1>1 DEF StreamInv, PublishTypes
<1>8. /\ \A q \in result.pubs : q.off \in Nat
      /\ result.off \in Nat /\ \A q \in rows' : q.off \in Nat
  BY <1>7 DEF Answer, Publication
<1>9. OrderedStampsNoHole'
  <2> SUFFICES ASSUME StampsInOrder', NEW c \in result.pubs, NEW b \in result.pubs,
                      NEW o \in c.off .. b.off, NEW x \in rows', x.epoch = result.epoch, x.off = o
               PROVE  \E y \in result.pubs : y.off = o
    BY DEF OrderedStampsNoHole, RecoveredHasNoHole
  <2>1. StampsInOrder
    BY <1>1 DEF StampsInOrder
  <2>2. RecoveredHasNoHole
    BY <2>1 DEF HistoryInv, OrderedStampsNoHole
  <2>3. x # r
    <3> HIDE DEF m, r
    <3> QED BY <1>2, <1>3, <1>6, <1>8 DEF HistoryInv
  <2>4. x \in rows
    BY <2>3, <1>1
  <2> QED BY <2>2, <2>4 DEF RecoveredHasNoHole
<1>10. EndCovered'
  <2> SUFFICES ASSUME GivesTTL, NEW q \in rows', q.epoch = meta'.epoch, q.off = meta'.off
               PROVE  q.at + meta'.httl <= meta'.expires
    BY DEF EndCovered
  <2>1. meta'.epoch = m.epoch /\ meta'.off = m.off + 1
    BY <1>1, <1>3, AdvancedOk
  <2>2. q = r
    <3> HIDE DEF m, r
    <3> QED BY <2>1, <1>1, <1>3, <1>5, <1>8
  <2>3. g.httl \in Nat /\ g.mttl \in Int /\ g.httl > 0
    BY ArgsAssumption DEF Args, GivesTTL
  <2>4. EffectiveMetaTTL(g) \in Nat /\ EffectiveMetaTTL(g) >= g.httl
    BY <2>3 DEF EffectiveMetaTTL, GreatestOf
  <2>5. meta'.httl = g.httl /\ meta'.expires = t + EffectiveMetaTTL(g)
    BY <1>1, <2>3, <2>4 DEF AdvancedMeta
  <2> QED BY <2>2, <2>3, <2>4, <2>5, <1>2
<1> QED BY <1>4, <1>9, <1>10

LEMMA HistoryInvInit == PublishInit => HistoryInv
<1> SUFFICES ASSUME PublishInit PROVE HistoryInv
  OBVIOUS
<1>1. reader = NotReading /\ NotReading \notin Reader
  BY DEF PublishInit, NotReading, Reader
<1>2. result.pubs = {} /\ Behind(result.epoch, result.off, meta, epochs)
  BY DEF PublishInit, NoResult, NoMeta, Behind
<1> QED
  BY <1>1, <1>2, FS_EmptySet DEF PublishInit, HistoryInv, OrderedStampsNoHole, RecoveredHasNoHole,
     EndCovered

LEMMA HistoryInvNext ==
  ASSUME StreamInv, HistoryInv, [PublishNext]_publishVars
  PROVE  HistoryInv'
<1>1. StreamInv' /\ Forward
  BY StreamInvNext
<1>2. /\ epochs \in Nat /\ meta \in Meta /\ result \in Answer
      /\ rows \subseteq ever /\ ever \subseteq Publication
  BY DEF StreamInv, PublishTypes
\* Between the rows and the meta row.
<1>3. /\ IsFiniteSet(rows') /\ EndCovered'
      /\ UNCHANGED result => OrderedStampsNoHole'
  <2>1. CASE rows' = rows /\ meta' = meta
    BY <2>1 DEF HistoryInv, EndCovered, OrderedStampsNoHole, StampsInOrder, RecoveredHasNoHole
  <2>2. CASE rows' = {}
    BY <2>2, FS_EmptySet DEF EndCovered, OrderedStampsNoHole, RecoveredHasNoHole
  <2>3. CASE rows' = rows /\ meta' = NoMeta
    BY <2>3 DEF HistoryInv, EndCovered, OrderedStampsNoHole, StampsInOrder, RecoveredHasNoHole, NoMeta
  <2>4. ASSUME NEW t \in Nat, rows' = rows, meta' = LockedMeta(t)
        PROVE  IsFiniteSet(rows') /\ EndCovered' /\ (UNCHANGED result => OrderedStampsNoHole')
    <3>1. CASE meta.epoch # 0
      <4>1. meta' = meta
        BY <2>4, <3>1 DEF LockedMeta
      <4> QED BY <2>1, <2>4, <4>1
    <3>2. CASE meta.epoch = 0
      <4>1. meta'.epoch = epochs + 1
        BY <2>4, <3>2 DEF LockedMeta
      <4>2. \A r \in rows : r.epoch \in Nat /\ r.epoch <= epochs
        BY <1>2 DEF StreamInv, Numbered, Publication
      <4>3. EndCovered'
        BY <4>1, <4>2, <2>4, <1>2 DEF EndCovered
      <4> QED BY <4>3, <2>4 DEF HistoryInv, OrderedStampsNoHole, StampsInOrder, RecoveredHasNoHole
    <3> QED BY <3>1, <3>2
  <2>5. ASSUME NEW t \in Nat, NEW g \in PublishArgs, NEW prev, Appends(g, LockedMeta(t), t, prev),
               UNCHANGED <<reader, result>>
        PROVE  IsFiniteSet(rows') /\ EndCovered' /\ (UNCHANGED result => OrderedStampsNoHole')
    BY <2>5, <1>1, AppendHistory
  <2> QED BY <2>1, <2>2, <2>3, <2>4, <2>5, RowsMove, Zenon
<1>4. CASE UNCHANGED <<reader, result>>
  <2>1. Behind(result.epoch, result.off, meta, epochs)'
    BY <1>1, <1>2, <1>4, BehindForward DEF HistoryInv, Answer
  <2>2. ASSUME reader \in Reader PROVE Behind(reader.epoch, reader.off, meta, epochs)'
    BY <2>2, <1>1, <1>4, BehindForward DEF HistoryInv, Reader
  <2> QED BY <2>1, <2>2, <1>3, <1>4 DEF HistoryInv
<1>5. ASSUME NEW f \in ReadArgs, HistoryMeta(f) PROVE HistoryInv'
  <2>1. /\ UNCHANGED <<meta, epochs>>
        /\ result'.pubs = {}
        /\ \/ result'.epoch = meta.epoch /\ result'.off = meta.off /\ reader' = reader
           \/ /\ result'.epoch = 0 /\ result'.off = 0
              /\ reader'.epoch = meta.epoch /\ reader'.off = meta.off
    <3>1. CASE meta.epoch = 0 \/ f.limit = 0
      <4>1. /\ result' = [NoResult EXCEPT !.off = meta.off, !.epoch = meta.epoch]
            /\ reader' = reader /\ UNCHANGED <<meta, epochs>>
        BY <3>1, <1>5, Zenon DEF HistoryMeta
      <4> QED BY <4>1 DEF NoResult
    <3>2. CASE ~(meta.epoch = 0 \/ f.limit = 0)
      <4>1. /\ reader' = [busy |-> TRUE, f |-> f, off |-> meta.off, epoch |-> meta.epoch,
                          httl |-> meta.httl, size |-> meta.size]
            /\ result' = NoResult /\ UNCHANGED <<meta, epochs>>
        BY <3>2, <1>5, Zenon DEF HistoryMeta
      <4> QED BY <4>1 DEF NoResult
    <3> QED BY <3>1, <3>2
  <2>2. Behind(meta.epoch, meta.off, meta, epochs)
    <3>1. CASE meta.epoch = 0
      BY <3>1, <1>2 DEF StreamInv, NoMeta, Behind
    <3>2. CASE meta.epoch # 0
      BY <3>2, <1>2 DEF StreamInv, MetaOk, Behind, Meta
    <3> QED BY <3>1, <3>2
  <2>3. Behind(0, 0, meta, epochs)
    BY <1>2 DEF Behind, Meta
  <2>4. Behind(result.epoch, result.off, meta, epochs)'
    BY <2>1, <2>2, <2>3
  <2>5. (reader \in Reader => Behind(reader.epoch, reader.off, meta, epochs))'
    BY <2>1, <2>2 DEF HistoryInv
  <2>6. OrderedStampsNoHole'
    BY <2>1 DEF OrderedStampsNoHole, RecoveredHasNoHole
  <2> QED BY <2>1, <2>4, <2>5, <2>6, <1>3 DEF HistoryInv
<1>6. CASE HistoryRows
  <2>1. reader \in Reader
    BY <1>6 DEF HistoryRows, StreamInv, PublishTypes, NotReading
  <2>2. /\ UNCHANGED <<meta, epochs, rows>>
        /\ result'.pubs = Limited(reader, Matching(reader))
        /\ result'.epoch = reader.epoch /\ result'.off = reader.off
        /\ reader' = NotReading
    BY <1>6 DEF HistoryRows
  <2>3. reader' \notin Reader
    BY <2>2 DEF NotReading, Reader
  <2>4. \A q \in result'.pubs : q \in rows /\ q.epoch = reader.epoch /\ q.off <= reader.off
    BY <2>2 DEF Limited, Matching
  <2>5. Behind(result.epoch, result.off, meta, epochs)'
    BY <2>1, <2>2 DEF HistoryInv
  <2>6. OrderedStampsNoHole'
    <3> SUFFICES ASSUME StampsInOrder, NEW c \in result'.pubs, NEW b \in result'.pubs,
                        NEW o \in c.off .. b.off, NEW x \in rows, x.epoch = reader.epoch, x.off = o
                 PROVE  \E y \in result'.pubs : y.off = o
      BY <2>2 DEF OrderedStampsNoHole, RecoveredHasNoHole, StampsInOrder
    <3>1. c.off \in Nat /\ b.off \in Nat /\ x.off \in Nat
      BY <2>4, <1>2 DEF Publication
    <3>2. x \in result'.pubs
      BY <3>1, <2>1, <2>2, AnswerNoHole DEF HistoryInv
    <3> QED BY <3>2
  <2> QED BY <2>2, <2>3, <2>4, <2>5, <2>6, <1>3 DEF HistoryInv
<1> QED BY <1>4, <1>5, <1>6, ReaderMoves

LEMMA HistoryInvSafe == StreamInv /\ HistoryInv => HistorySafe
<1> SUFFICES ASSUME StreamInv, HistoryInv PROVE HistorySafe
  OBVIOUS
<1>1. ASSUME GivesTTL, meta.epoch # 0, StampsInOrder, NEW r \in rows, r.epoch = meta.epoch
      PROVE  r.at + meta.httl <= meta.expires
  <2>1. MetaOk(ever, rows, meta, epochs)
    BY <1>1 DEF StreamInv
  <2>2. PICK q \in rows : q.epoch = meta.epoch /\ q.off = meta.off
    BY <2>1, <1>1 DEF MetaOk, LastKept
  <2>3. /\ r \in ever /\ q \in ever /\ r.off <= q.off
        /\ r.off \in Nat /\ q.off \in Nat /\ r.at \in Nat /\ q.at \in Nat
    BY <2>1, <2>2, <1>1 DEF MetaOk, AtEnd, StreamInv, PublishTypes, Publication
  <2>4. q.at + meta.httl <= meta.expires
    BY <2>2, <1>1 DEF HistoryInv, EndCovered
  <2>5. CASE r.off = q.off
    <3>1. r = q
      BY <2>2, <2>3, <2>5, <1>1 DEF StreamInv, Numbered
    <3> QED BY <3>1, <2>4
  <2>6. CASE r.off < q.off
    <3>1. r.at <= q.at
      BY <2>2, <2>6, <1>1 DEF StampsInOrder
    <3>2. meta.httl \in Nat /\ meta.expires \in Nat
      BY DEF StreamInv, PublishTypes, Meta
    <3> QED BY <3>1, <3>2, <2>3, <2>4
  <2> QED BY <2>3, <2>5, <2>6
<1>2. ClampCoversHistory
  BY <1>1 DEF ClampCoversHistory, GivesTTL
<1> QED BY <1>2 DEF HistoryInv, HistorySafe

\* As long as time stamps follow the offsets, an answer of History (two
\* statements with publishes, cleanup and removals between them) has no hole
\* that the table could fill, and the meta row of a channel whose publishes
\* give a TTL outlives every row History can still return.
THEOREM HistorySafety == PublishSpec => []HistorySafe
<1>1. PublishInit => StreamInv /\ HistoryInv
  BY StreamInvInit, HistoryInvInit
<1>2. StreamInv /\ HistoryInv /\ [PublishNext]_publishVars => StreamInv' /\ HistoryInv'
  BY StreamInvNext, HistoryInvNext
<1> QED BY <1>1, <1>2, HistoryInvSafe, PTL DEF PublishSpec

-----------------------------------------------------------------------------
(* Schema setup: a version row never claims more than the tables have.     *)

SchemaPCs == {"off", "down", "serving", "refused", "read", "probe", "lock", "migrate", "ddl",
              "shards", "fast", "verify", "parts", "fastParts", "version"}
SchemaNode == [pc: SchemaPCs, bin: 1 .. MaxVersion, at: 1 .. 4]
Tables == [shape: Nat, row: Nat, funcs: Nat, shards: SUBSET Nat]

\* A node's next statement is one of those there are.
AtStatement(V, r) ==
    /\ r.pc \in {"ddl", "shards", "fast"} => r.at <= 2 * Len(V)
    /\ r.pc = "version" => r.at <= Len(V)

SchemaTypes ==
    /\ sdb \in [VariantSet -> Tables]
    /\ snode \in [SNodes -> SchemaNode]
    /\ \A n \in SNodes : AtStatement(Variants, snode[n])
    /\ skind = "controller" => \A n \in SNodes : snode[n].bin = MaxVersion

\* A node that has read a version row: there is one, and there will be.
RowSeen == {"probe", "lock", "migrate"}
SeenInv == \A n \in SNodes : snode[n].pc \in RowSeen => sdb[Active].row >= 1

\* The tables d of the variants V: no version row ahead of its tables; all
\* created by the newest binary; once the active version is above that of the
\* first statement, no variant is behind it.
HonestDb(V, d) == \A i \in DOMAIN V : d[V[i]].row <= d[V[i]].shape
FreshDb(V, d) == \A i \in DOMAIN V : d[V[i]].shape \in {0, MaxVersion}
CoveredDb(V, d) == d[V[1]].row > 1 => \A i \in DOMAIN V : d[V[i]].shape >= d[V[1]].row

\* A node on the slow path leaves no table older than its binary behind, and
\* only a newer binary than the first waits for the migrations.
Created(V, d, r) ==
    /\ r.pc \in {"lock", "migrate"} => r.bin > 1
    /\ r.pc = "ddl" => \A i \in DOMAIN V : i < r.at => d[V[i]].shape >= r.bin
    /\ r.pc \in {"shards", "parts", "version"} => \A i \in DOMAIN V : d[V[i]].shape >= r.bin

\* One that went through the migrations finds no such table either.
Settled(V, d, r) == r.pc = "ddl" => \A i \in DOMAIN V : d[V[i]].shape >= r.bin

\* Nobody dropped a table, no fresh installer met the tables of an older one.
Clean == ~dropped /\ ~mixed

VersionInv ==
    Clean =>
       /\ HonestDb(Variants, sdb) /\ CoveredDb(Variants, sdb)
       /\ skind = "controller" => FreshDb(Variants, sdb)
       /\ \A n \in SNodes : Created(Variants, sdb, snode[n])
       /\ \A n \in SNodes : n \notin fresh => Settled(Variants, sdb, snode[n])

\* A step of n changes no other node's isFresh.
OnlyFresh(n) == \A m \in SNodes : m # n => (m \in fresh' <=> m \in fresh)

SameShards == \A n, m \in SNodes : ShardsOf[n] = ShardsOf[m]

\* A node past the INSERT of the active variant's shards.
Reconciling(r) ==
    \/ r.pc \in {"fast", "shards"} /\ r.at > 1
    \/ r.pc \in {"parts", "fastParts", "version", "serving"}

ShardInv ==
    SameShards => \A n \in SNodes : Reconciling(snode[n]) =>
        0 .. (ShardsOf[n] - 1) \subseteq sdb[Active].shards

SchemaInv == SchemaTypes /\ SeenInv /\ VersionInv /\ ShardInv

LEMMA VariantFacts ==
  /\ Len(Variants) \in {1, 2} /\ DOMAIN Variants = 1 .. Len(Variants)
  /\ Variants[1] = Active /\ Active \in VariantSet
  /\ \A i \in DOMAIN Variants : Variants[i] \in VariantSet
  /\ \A x \in VariantSet : \E i \in DOMAIN Variants : x = Variants[i]
  /\ skind = "controller" => Len(Variants) = 1
<1>1. Variants = <<"jsonb">> \/ Variants = <<"jsonb", "binary">>
  BY DEF Variants
<1>2. /\ Len(Variants) \in {1, 2} /\ DOMAIN Variants = 1 .. Len(Variants)
      /\ Variants[1] = Active
  BY <1>1 DEF Active
<1>3. skind = "controller" => Len(Variants) = 1
  BY DEF Variants
<1> QED BY <1>2, <1>3 DEF VariantSet

\* The statements in their order.
LEMMA DDLFacts ==
  ASSUME NEW i \in 1 .. 4, i <= 2 * Len(Variants)
  PROVE  /\ Len(DDLStatements) = 2 * Len(Variants)
         /\ i <= Len(Variants) => DDLStatements[i] = [what |-> "tables", variant |-> Variants[i]]
         /\ i > Len(Variants) => /\ DDLStatements[i].what = "functions"
                                 /\ DDLStatements[i].variant \in VariantSet
<1>1. Len(DDLStatements) = 2 * Len(Variants)
  BY VariantFacts DEF DDLStatements
<1>2. DDLStatements[i] = [what |-> IF i <= Len(Variants) THEN "tables" ELSE "functions",
                          variant |-> Variants[((i - 1) % Len(Variants)) + 1]]
  BY VariantFacts DEF DDLStatements
<1>3. CASE Len(Variants) = 1
  <2>1. (i - 1) % Len(Variants) = 0
    BY <1>3
  <2> QED BY <2>1, <1>1, <1>2, <1>3, VariantFacts
<1>4. CASE Len(Variants) = 2
  <2>1. i \in {1, 2} => (i - 1) % Len(Variants) = i - 1
    BY <1>4
  <2>2. ((i - 1) % Len(Variants)) + 1 \in 1 .. 2
    BY <1>4
  <2> QED BY <2>1, <2>2, <1>1, <1>2, <1>4, VariantFacts
<1> QED BY <1>3, <1>4, VariantFacts

LEMMA ShardFacts ==
  ASSUME NEW i \in 1 .. 4, i <= 2 * Len(Variants)
  PROVE  /\ Len(ShardStatements) = 2 * Len(Variants)
         /\ ShardStatements[i].variant \in VariantSet
         /\ ShardStatements[1] = [what |-> "insert", variant |-> Active]
<1>1. Len(ShardStatements) = 2 * Len(Variants)
  BY VariantFacts DEF ShardStatements
<1>2. \A j \in 1 .. 2 * Len(Variants) :
        ShardStatements[j] = [what |-> IF j % 2 = 1 THEN "insert" ELSE "trim",
                              variant |-> Variants[(j + 1) \div 2]]
  BY VariantFacts DEF ShardStatements
<1>3. (i + 1) \div 2 \in 1 .. Len(Variants)
  BY VariantFacts
<1>4. ShardStatements[1] = [what |-> "insert", variant |-> Variants[1]]
  BY <1>2, VariantFacts
<1> QED BY <1>1, <1>2, <1>3, <1>4, VariantFacts

LEMMA SchemaInvInit == SchemaInit => SchemaInv
<1> SUFFICES ASSUME SchemaInit PROVE SchemaInv
  OBVIOUS
<1> USE SchemaAssumption
<1>1. PICK d \in Databases :
        /\ sdb = [x \in VariantSet |-> IF d = "empty" THEN NoSchema ELSE Installed(1)]
        /\ \E bins \in [SNodes -> Binaries(d)] :
              snode = [n \in SNodes |-> [pc |-> "off", bin |-> bins[n], at |-> 1]]
        /\ (skind = "controller" /\ d = "installed") => MaxVersion = 1
  BY DEF SchemaInit
<1>2. NoSchema \in Tables /\ Installed(1) \in Tables
  <2>1. 0 .. (ShardsOf[CHOOSE n \in SNodes : TRUE] - 1) \subseteq Nat
    OBVIOUS
  <2> QED BY <2>1 DEF NoSchema, Installed, Tables
<1>3. PICK bins \in [SNodes -> Binaries(d)] :
        snode = [n \in SNodes |-> [pc |-> "off", bin |-> bins[n], at |-> 1]]
  BY <1>1
<1>4. /\ \A n \in SNodes : bins[n] \in 1 .. MaxVersion
      /\ skind = "controller" => \A n \in SNodes : bins[n] = MaxVersion
  BY DEF Binaries
<1>5. \A n \in SNodes : snode[n].pc = "off" /\ snode[n].bin = bins[n]
  BY <1>3
<1>6. SchemaTypes
  <2>1. snode \in [SNodes -> SchemaNode]
    BY <1>3, <1>4 DEF SchemaNode, SchemaPCs
  <2> QED BY <2>1, <1>1, <1>2, <1>4, <1>5 DEF SchemaTypes, AtStatement
<1>7. \A n \in SNodes : Created(Variants, sdb, snode[n]) /\ Settled(Variants, sdb, snode[n])
  BY <1>5 DEF Created, Settled
<1>8. \A i \in DOMAIN Variants : sdb[Variants[i]] = IF d = "empty" THEN NoSchema ELSE Installed(1)
  BY <1>1, VariantFacts
<1>9. SeenInv /\ ShardInv
  BY <1>5 DEF SeenInv, RowSeen, ShardInv, Reconciling
<1>10. CASE d = "empty"
  <2>1. \A i \in DOMAIN Variants : sdb[Variants[i]].row = 0 /\ sdb[Variants[i]].shape = 0
    BY <1>8, <1>10 DEF NoSchema
  <2>2. HonestDb(Variants, sdb) /\ FreshDb(Variants, sdb) /\ CoveredDb(Variants, sdb)
    BY <2>1, VariantFacts DEF HonestDb, FreshDb, CoveredDb
  <2> QED BY <2>2, <1>6, <1>7, <1>9 DEF SchemaInv, VersionInv
<1>11. CASE d = "installed"
  <2>1. Installed(1).row = 1 /\ Installed(1).shape = 1
    BY DEF Installed
  <2>2. \A i \in DOMAIN Variants : sdb[Variants[i]] = Installed(1)
    BY <1>8, <1>11
  <2>3. \A i \in DOMAIN Variants : sdb[Variants[i]].row = 1 /\ sdb[Variants[i]].shape = 1
    BY <2>1, <2>2
  <2>4. HonestDb(Variants, sdb) /\ (skind = "controller" => FreshDb(Variants, sdb)) /\ CoveredDb(Variants, sdb)
    BY <2>3, <1>1, <1>11, VariantFacts DEF HonestDb, FreshDb, CoveredDb
  <2> QED BY <2>4, <1>6, <1>7, <1>9 DEF SchemaInv, VersionInv
<1> QED BY <1>10, <1>11

\* The shards a node relies on are locked in the tables d.
HasShards(d, n) == 0 .. (ShardsOf[n] - 1) \subseteq d[Active].shards

\* A step of a node that changes the tables.
LEMMA TablesMove ==
  ASSUME SchemaInv, NEW n \in SNodes, NEW r \in SchemaNode, NEW d \in [VariantSet -> Tables],
         UNCHANGED <<skind, dropped>>, mixed => mixed', OnlyFresh(n), sdb' = d,
         snode' = [snode EXCEPT ![n] = r], AtStatement(Variants, r),
         skind = "controller" => r.bin = MaxVersion,
         sdb[Active].row >= 1 => d[Active].row >= 1,
         r.pc \in RowSeen => d[Active].row >= 1,
         ~dropped /\ ~mixed' =>
            /\ HonestDb(Variants, d) /\ CoveredDb(Variants, d)
            /\ skind = "controller" => FreshDb(Variants, d)
            /\ Created(Variants, d, r) /\ (n \notin fresh' => Settled(Variants, d, r))
            /\ \A i \in DOMAIN Variants : d[Variants[i]].shape >= sdb[Variants[i]].shape,
         SameShards => \A m \in SNodes : HasShards(sdb, m) => HasShards(d, m),
         SameShards /\ Reconciling(r) => HasShards(d, n)
  PROVE  SchemaInv'
<1>1. Variants' = Variants /\ VariantSet' = VariantSet /\ Active' = Active
  BY DEF Variants, VariantSet, Active
<1>2. snode \in [SNodes -> SchemaNode] /\ sdb \in [VariantSet -> Tables]
  BY DEF SchemaInv, SchemaTypes
<1>3. \A m \in SNodes : snode'[m] = IF m = n THEN r ELSE snode[m]
  BY <1>2
<1>4. SchemaTypes'
  <2>1. \A m \in SNodes : AtStatement(Variants, snode'[m])
    BY <1>3 DEF SchemaInv, SchemaTypes
  <2>2. skind = "controller" => \A m \in SNodes : snode'[m].bin = MaxVersion
    BY <1>3 DEF SchemaInv, SchemaTypes
  <2>3. snode' \in [SNodes -> SchemaNode]
    BY <1>2
  <2> QED BY <2>1, <2>2, <2>3, <1>1 DEF SchemaTypes
<1>5. SeenInv'
  <2>1. \A m \in SNodes : snode'[m].pc \in RowSeen => d[Active].row >= 1
    BY <1>3 DEF SchemaInv, SeenInv
  <2> QED BY <2>1, <1>1 DEF SeenInv
<1>6. VersionInv'
  <2> SUFFICES ASSUME ~dropped, ~mixed'
               PROVE  /\ HonestDb(Variants, d) /\ CoveredDb(Variants, d)
                      /\ skind = "controller" => FreshDb(Variants, d)
                      /\ \A m \in SNodes : Created(Variants, d, snode'[m])
                      /\ \A m \in SNodes : m \notin fresh' => Settled(Variants, d, snode'[m])
    BY <1>1 DEF VersionInv, Clean
  <2>0. Clean
    BY DEF Clean
  <2>1. ASSUME NEW m \in SNodes, m # n
        PROVE  /\ Created(Variants, d, snode[m])
               /\ m \notin fresh' => Settled(Variants, d, snode[m])
    <3>1. Created(Variants, sdb, snode[m]) /\ (m \notin fresh => Settled(Variants, sdb, snode[m]))
      BY <2>0 DEF SchemaInv, VersionInv
    <3>2. snode[m].bin \in Nat
      BY <1>2 DEF SchemaNode
    <3>3. \A i \in DOMAIN Variants : sdb[Variants[i]].shape \in Nat /\ d[Variants[i]].shape \in Nat
      BY <1>2, VariantFacts DEF Tables
    <3>4. \A i \in DOMAIN Variants : sdb[Variants[i]].shape >= snode[m].bin => d[Variants[i]].shape >= snode[m].bin
      BY <3>2, <3>3
    <3>5. m \in fresh' <=> m \in fresh
      BY <2>1 DEF OnlyFresh
    <3>6. Created(Variants, d, snode[m])
      BY <3>1, <3>4 DEF Created
    <3>7. Settled(Variants, sdb, snode[m]) => Settled(Variants, d, snode[m])
      BY <3>4 DEF Settled
    <3> QED BY <3>1, <3>5, <3>6, <3>7
  <2> QED BY <2>1, <1>3
<1>7. ShardInv'
  <2>1. ASSUME SameShards, NEW m \in SNodes, Reconciling(snode'[m]) PROVE HasShards(d, m)
    BY <2>1, <1>3 DEF SchemaInv, ShardInv, HasShards
  <2> QED BY <2>1 DEF ShardInv, HasShards, Active
<1> QED BY <1>4, <1>5, <1>6, <1>7 DEF SchemaInv

\* A step of a node that leaves the tables alone.
LEMMA NodeMoves ==
  ASSUME SchemaInv, NEW n \in SNodes, NEW r \in SchemaNode, UNCHANGED <<skind, sdb, dropped, mixed>>,
         OnlyFresh(n), snode' = [snode EXCEPT ![n] = r], AtStatement(Variants, r),
         skind = "controller" => r.bin = MaxVersion,
         r.pc \in RowSeen => sdb[Active].row >= 1,
         Clean => Created(Variants, sdb, r) /\ (n \notin fresh' => Settled(Variants, sdb, r)),
         SameShards /\ Reconciling(r) => HasShards(sdb, n)
  PROVE  SchemaInv'
<1>1. sdb \in [VariantSet -> Tables]
  BY DEF SchemaInv, SchemaTypes
<1>2. \A i \in DOMAIN Variants : sdb[Variants[i]].shape >= sdb[Variants[i]].shape
  <2>1. \A i \in DOMAIN Variants : sdb[Variants[i]].shape \in Nat
    BY <1>1, VariantFacts DEF Tables
  <2> QED BY <2>1
<1>3. Clean <=> (~dropped /\ ~mixed')
  BY DEF Clean
<1>4. Clean => /\ HonestDb(Variants, sdb) /\ CoveredDb(Variants, sdb)
               /\ skind = "controller" => FreshDb(Variants, sdb)
  BY DEF SchemaInv, VersionInv
<1> QED BY <1>1, <1>2, <1>3, <1>4, TablesMove

\* Going to a label with the first of its statements.
At1(n, pc) == [pc |-> pc, bin |-> snode[n].bin, at |-> 1]
LEMMA GotoRecord ==
  ASSUME SchemaInv, NEW n \in SNodes, NEW pc \in SchemaPCs, Goto(n, pc)
  PROVE  /\ snode' = [snode EXCEPT ![n] = At1(n, pc)]
         /\ At1(n, pc) \in SchemaNode /\ AtStatement(Variants, At1(n, pc))
         /\ At1(n, pc).pc = pc /\ At1(n, pc).bin = snode[n].bin
         /\ skind = "controller" => At1(n, pc).bin = MaxVersion
<1>1. snode \in [SNodes -> SchemaNode]
  BY DEF SchemaInv, SchemaTypes
<1>2. snode[n] = [pc |-> snode[n].pc, bin |-> snode[n].bin, at |-> snode[n].at]
  BY <1>1 DEF SchemaNode
<1>3. snode' = [snode EXCEPT ![n] = At1(n, pc)]
  <2>1. /\ snode' = [m \in SNodes |-> snode'[m]]
        /\ \A m \in SNodes : m # n => snode'[m] = snode[m]
    BY <1>1 DEF Goto
  <2>2. snode'[n] = [[snode[n] EXCEPT !.pc = pc] EXCEPT !.at = 1]
    BY <1>1 DEF Goto
  <2>3. snode'[n] = At1(n, pc)
    BY <2>2, <1>2 DEF At1
  <2> QED BY <2>1, <2>3, <1>1
<1>4. skind = "controller" => snode[n].bin = MaxVersion
  BY DEF SchemaInv, SchemaTypes
<1> QED BY <1>1, <1>3, <1>4, VariantFacts DEF SchemaNode, AtStatement, At1

\* Labels at which a node relies on nothing in the tables but a version row.
LEMMA GotoQuiet ==
  ASSUME SchemaInv, NEW n \in SNodes, UNCHANGED <<skind, sdb, dropped, mixed>>, OnlyFresh(n),
         NEW pc \in {"off", "down", "refused", "read", "probe", "lock", "migrate", "verify", "fast"},
         Goto(n, pc), pc \in RowSeen => sdb[Active].row >= 1,
         Clean => (pc \in {"lock", "migrate"} => snode[n].bin > 1)
  PROVE  SchemaInv'
<1>1. pc \in SchemaPCs
  BY DEF SchemaPCs
<1>2. /\ Clean => Created(Variants, sdb, At1(n, pc))
      /\ Settled(Variants, sdb, At1(n, pc)) /\ ~Reconciling(At1(n, pc))
  BY DEF Created, Settled, Reconciling, At1
<1> QED BY <1>1, <1>2, GotoRecord, NodeMoves

\* The slow path of a node that is not fresh begins with no older table.
LEMMA EnterDDL ==
  ASSUME SchemaInv, NEW n \in SNodes, UNCHANGED <<skind, sdb, dropped, mixed>>, OnlyFresh(n),
         Goto(n, "ddl"),
         Clean /\ n \notin fresh' => \A i \in DOMAIN Variants : sdb[Variants[i]].shape >= snode[n].bin
  PROVE  SchemaInv'
<1>1. "ddl" \in SchemaPCs /\ "ddl" \notin RowSeen
  BY DEF SchemaPCs, RowSeen
<1>2. ~Reconciling(At1(n, "ddl"))
  BY DEF Reconciling, At1
<1>3. Created(Variants, sdb, At1(n, "ddl"))
  BY VariantFacts DEF Created, At1
<1>4. Clean => (n \notin fresh' => Settled(Variants, sdb, At1(n, "ddl")))
  BY DEF Settled, At1
<1> QED BY <1>1, <1>2, <1>3, <1>4, GotoRecord, NodeMoves

LEMMA DbTypes ==
  ASSUME SchemaInv, NEW n \in SNodes
  PROVE  /\ snode[n] \in SchemaNode /\ snode[n].bin \in 1 .. MaxVersion /\ snode[n].bin \in Nat
         /\ snode[n].at \in 1 .. 4 /\ MaxVersion \in Nat
         /\ sdb[Active].row \in Nat /\ sdb[Active].shape \in Nat
         /\ \A i \in DOMAIN Variants :
               /\ sdb[Variants[i]] \in Tables
               /\ sdb[Variants[i]].row \in Nat /\ sdb[Variants[i]].shape \in Nat
<1>1. snode[n] \in SchemaNode /\ \A x \in VariantSet : sdb[x] \in Tables
  BY DEF SchemaInv, SchemaTypes
<1>2. \A t \in Tables : t.row \in Nat /\ t.shape \in Nat
  BY DEF Tables
<1>3. snode[n].bin \in 1 .. MaxVersion /\ snode[n].at \in 1 .. 4
  BY <1>1 DEF SchemaNode
<1> QED BY <1>1, <1>2, <1>3, VariantFacts, SchemaAssumption

LEMMA ReadVersionInv ==
  ASSUME SchemaInv, NEW n \in SNodes, ReadVersion(n)
  PROVE  SchemaInv'
<1> DEFINE v == sdb[Active].row
           b == snode[n].bin
<1>1. UNCHANGED <<skind, sdb, dropped, mixed>> /\ OnlyFresh(n) /\ (n \notin fresh' => v # 0)
  BY DEF ReadVersion, OnlyFresh
<1>2. Goto(n, IF v = 0 THEN "ddl" ELSE IF v = b THEN "probe" ELSE IF v > b THEN "refused"
              ELSE IF skind = "controller" THEN "ddl" ELSE "lock")
  BY Zenon DEF ReadVersion
<1>3. v \in Nat /\ b \in Nat /\ b >= 1
  BY DbTypes
<1>4. CASE v # 0 /\ (v >= b \/ skind # "controller")
  <2>1. PICK pc \in {"probe", "refused", "lock"} : Goto(n, pc) /\ (pc = "lock" => b > v)
    <3> HIDE DEF v, b
    <3> QED BY <1>2, <1>3, <1>4
  <2>2. v >= 1 /\ (pc = "lock" => b > 1)
    BY <2>1, <1>3, <1>4
  <2> QED BY <2>1, <2>2, <1>1, GotoQuiet
<1>5. CASE v = 0 \/ (v < b /\ skind = "controller")
  <2>1. Goto(n, "ddl")
    <3> HIDE DEF v, b
    <3> QED BY <1>2, <1>3, <1>5
  <2>2. ASSUME Clean, n \notin fresh' PROVE \A i \in DOMAIN Variants : sdb[Variants[i]].shape >= b
    <3>1. v >= 1 /\ skind = "controller"
      BY <2>2, <1>1, <1>3, <1>5
    <3>2. \A i \in DOMAIN Variants : Variants[i] = Active
      BY <3>1, VariantFacts
    <3>3. sdb[Active].shape \in {0, MaxVersion} /\ v <= sdb[Active].shape /\ b = MaxVersion
      BY <2>2, <3>1, VariantFacts DEF SchemaInv, SchemaTypes, VersionInv, FreshDb, HonestDb
    <3>4. sdb[Active].shape >= b
      BY <3>1, <3>3, <1>3
    <3> QED BY <3>2, <3>4
  <2> QED BY <2>1, <2>2, <1>1, EnterDDL
<1> QED BY <1>3, <1>4, <1>5

\* The table is missing for the probe only when somebody dropped it.
LEMMA ProbeInv ==
  ASSUME SchemaInv, NEW n \in SNodes, Probe(n)
  PROVE  SchemaInv'
<1>1. UNCHANGED <<skind, sdb, dropped, mixed>> /\ OnlyFresh(n) /\ snode[n].pc = "probe"
  BY DEF Probe, OnlyFresh
<1>2. Goto(n, IF sdb[Active].shape # 0 THEN IF skind = "map" THEN "fast" ELSE "verify"
              ELSE IF skind = "controller" THEN "ddl" ELSE "lock")
  BY Zenon DEF Probe
<1>3. sdb[Active].row >= 1
  BY <1>1 DEF SchemaInv, SeenInv, RowSeen
<1>4. Clean => sdb[Active].shape # 0
  <2> SUFFICES ASSUME Clean PROVE sdb[Active].shape # 0
    OBVIOUS
  <2>1. sdb[Active].row <= sdb[Active].shape
    BY VariantFacts DEF SchemaInv, VersionInv, HonestDb
  <2> QED BY <2>1, <1>3, DbTypes
<1>5. CASE sdb[Active].shape # 0
  <2>1. PICK pc \in {"fast", "verify"} : Goto(n, pc)
    BY <1>2, <1>5
  <2> QED BY <2>1, <1>1, GotoQuiet DEF RowSeen
<1>6. CASE sdb[Active].shape = 0
  <2>1. Goto(n, "ddl") \/ Goto(n, "lock")
    BY <1>2, <1>6
  <2>2. CASE Goto(n, "ddl")
    BY <2>2, <1>1, <1>4, <1>6, EnterDDL
  <2>3. CASE Goto(n, "lock")
    BY <2>3, <1>1, <1>3, <1>4, <1>6, GotoQuiet
  <2> QED BY <2>1, <2>2, <2>3
<1> QED BY <1>5, <1>6

\* What a migration to v makes of the tables t.
Raised(t, v) == [t EXCEPT !.shape = IF @ < v THEN v ELSE @, !.row = v]
LEMMA RaisedTables ==
  ASSUME NEW t \in Tables, NEW v \in Nat
  PROVE  /\ Raised(t, v) \in Tables
         /\ Raised(t, v).shape >= t.shape /\ Raised(t, v).shape >= v
         /\ Raised(t, v).shape = t.shape \/ Raised(t, v).shape = v
         /\ t.shape >= v => Raised(t, v).shape = t.shape
         /\ Raised(t, v).row = v /\ Raised(t, v).shards = t.shards
<1>1. t.shape \in Nat /\ t.funcs \in Nat /\ t.shards \in SUBSET Nat
  BY DEF Tables
<1>2. PICK w \in Nat : w = IF t.shape < v THEN v ELSE t.shape
  BY <1>1
<1>3. Raised(t, v) = [shape |-> w, row |-> v, funcs |-> t.funcs, shards |-> t.shards]
  <2>1. Raised(t, v) = [t EXCEPT !.shape = w, !.row = v]
    BY <1>2 DEF Raised
  <2>2. t = [shape |-> t.shape, row |-> t.row, funcs |-> t.funcs, shards |-> t.shards]
    BY DEF Tables
  <2> QED BY <2>1, <2>2
<1>4. Raised(t, v) \in Tables
  BY <1>1, <1>3 DEF Tables
<1>5. Raised(t, v).shape = w /\ Raised(t, v).row = v /\ Raised(t, v).shards = t.shards
  BY <1>3
<1> QED BY <1>1, <1>2, <1>4, <1>5

LEMMA MigrateInv ==
  ASSUME SchemaInv, NEW n \in SNodes, Migrate(n)
  PROVE  SchemaInv'
<1> DEFINE row == sdb[Active].row
           b == snode[n].bin
           d == Migrated(row + 1)
<1>1. /\ row \in Nat /\ b \in Nat /\ UNCHANGED <<skind, dropped, mixed>> /\ OnlyFresh(n)
      /\ snode[n].pc = "migrate"
  BY DbTypes DEF Migrate, OnlyFresh
<1>0. row >= 1 /\ (Clean => b > 1)
  BY <1>1 DEF SchemaInv, SeenInv, RowSeen, VersionInv, Created
<1>2. CASE row = 0 \/ row >= b
  <2>1. Goto(n, IF row > b THEN "refused" ELSE "ddl") /\ UNCHANGED sdb
    BY <1>2, Zenon DEF Migrate
  <2>2. CASE row > b
    BY <2>1, <2>2, <1>1, GotoQuiet DEF RowSeen
  <2>3. CASE ~(row > b)
    <3>1. ASSUME Clean
          PROVE  \A i \in DOMAIN Variants : sdb[Variants[i]].shape >= b
      <4>1. row > 1
        BY <3>1, <1>0, <1>1, <1>2
      <4>2. \A i \in DOMAIN Variants : sdb[Variants[i]].shape >= row
        BY <3>1, <4>1, VariantFacts DEF SchemaInv, VersionInv, CoveredDb
      <4> QED BY <4>1, <4>2, <1>1, <1>2, DbTypes
    <3>2. Goto(n, "ddl")
      BY <2>1, <2>3
    <3> QED BY <2>1, <3>1, <3>2, <1>1, EnterDDL
  <2> QED BY <2>2, <2>3
<1>3. CASE ~(row = 0 \/ row >= b) /\ ~\A x \in VariantSet : sdb[x].shape # 0 /\ sdb[x].row # 0
  <2>1. Goto(n, "down") /\ UNCHANGED sdb
    BY <1>3, Zenon DEF Migrate
  <2> QED BY <2>1, <1>1, GotoQuiet DEF RowSeen
<1>4. CASE ~(row = 0 \/ row >= b) /\ \A x \in VariantSet : sdb[x].shape # 0 /\ sdb[x].row # 0
  <2>1. sdb' = d /\ snode' = snode
    BY <1>4, Zenon DEF Migrate
  <2>2. \A x \in VariantSet :
          /\ d[x] = Raised(sdb[x], row + 1)
          /\ sdb[x] \in Tables
    BY DEF Migrated, Raised, SchemaInv, SchemaTypes
  <2>3. \A x \in VariantSet :
          /\ d[x] \in Tables /\ d[x].shape >= sdb[x].shape /\ d[x].shape >= row + 1
          /\ d[x].shape = sdb[x].shape \/ d[x].shape = row + 1
          /\ sdb[x].shape >= row + 1 => d[x].shape = sdb[x].shape
          /\ d[x].row = row + 1 /\ d[x].shards = sdb[x].shards
    <3> SUFFICES ASSUME NEW x \in VariantSet
                 PROVE  /\ d[x] \in Tables /\ d[x].shape >= sdb[x].shape /\ d[x].shape >= row + 1
                        /\ d[x].shape = sdb[x].shape \/ d[x].shape = row + 1
                        /\ sdb[x].shape >= row + 1 => d[x].shape = sdb[x].shape
                        /\ d[x].row = row + 1 /\ d[x].shards = sdb[x].shards
      OBVIOUS
    <3>1. row + 1 \in Nat
      BY <1>1
    <3> HIDE DEF d, row
    <3> QED BY <2>2, <3>1, RaisedTables
  <2>4. d \in [VariantSet -> Tables]
    BY <2>3 DEF Migrated
  <2>5. \A i \in DOMAIN Variants : Variants[i] \in VariantSet /\ sdb[Variants[i]].shape # 0
    BY <1>4, VariantFacts
  <2> HIDE DEF d, row, b
  <2>6. HonestDb(Variants, d) /\ CoveredDb(Variants, d) /\ d[Active].row >= 1
    <3>1. d[Variants[1]].row = row + 1
      BY <2>3, VariantFacts
    <3>2. \A i \in DOMAIN Variants : d[Variants[i]].row = row + 1 /\ d[Variants[i]].shape >= row + 1
      BY <2>3, <2>5
    <3>3. HonestDb(Variants, d) /\ CoveredDb(Variants, d)
      BY <3>1, <3>2, <1>1 DEF HonestDb, CoveredDb
    <3> QED BY <3>1, <3>3, <1>1, VariantFacts
  <2>7. ASSUME Clean, skind = "controller" PROVE FreshDb(Variants, d)
    <3> SUFFICES ASSUME NEW i \in DOMAIN Variants
                 PROVE  d[Variants[i]].shape \in {0, MaxVersion}
      BY DEF FreshDb
    <3>1. sdb[Variants[i]].shape = MaxVersion /\ b = MaxVersion
      BY <2>5, <2>7 DEF SchemaInv, SchemaTypes, VersionInv, FreshDb, b
    <3> QED BY <3>1, <2>3, <2>5, <1>1, <1>4
  <2>8. (Clean => Created(Variants, d, snode[n])) /\ Settled(Variants, d, snode[n])
    BY <1>0, <1>1 DEF Created, Settled, b
  <2>9. ~Reconciling(snode[n])
    BY <1>1 DEF Reconciling
  <2>10. \A m \in SNodes : HasShards(sdb, m) => HasShards(d, m)
    BY <2>3, VariantFacts DEF HasShards
  <2>11. /\ snode[n] \in SchemaNode /\ AtStatement(Variants, snode[n])
         /\ snode' = [snode EXCEPT ![n] = snode[n]]
         /\ skind = "controller" => snode[n].bin = MaxVersion
    BY <2>1 DEF SchemaInv, SchemaTypes
  <2>12. \A i \in DOMAIN Variants : d[Variants[i]].shape >= sdb[Variants[i]].shape
    BY <2>3, <2>5
  <2>13. Clean <=> ~dropped /\ ~mixed'
    BY <1>1 DEF Clean
  <2> QED
    BY <2>1, <2>4, <2>6, <2>7, <2>8, <2>9, <2>10, <2>11, <2>12, <2>13, <1>1, TablesMove
<1> QED BY <1>2, <1>3, <1>4

\* The next statement of the same kind.
NextAt(n) == [pc |-> snode[n].pc, bin |-> snode[n].bin, at |-> snode[n].at + 1]
LEMMA NextAtRecord ==
  ASSUME SchemaInv, NEW n \in SNodes, snode' = [snode EXCEPT ![n].at = @ + 1],
         snode[n].at + 1 <= 4
  PROVE  /\ snode' = [snode EXCEPT ![n] = NextAt(n)] /\ NextAt(n) \in SchemaNode
         /\ NextAt(n).pc = snode[n].pc /\ NextAt(n).bin = snode[n].bin
         /\ NextAt(n).at = snode[n].at + 1
         /\ skind = "controller" => NextAt(n).bin = MaxVersion
<1>1. snode \in [SNodes -> SchemaNode] /\ snode[n].at \in 1 .. 4
  BY DbTypes DEF SchemaInv, SchemaTypes
<1>2. snode[n] = [pc |-> snode[n].pc, bin |-> snode[n].bin, at |-> snode[n].at]
  BY <1>1 DEF SchemaNode
<1>3. [snode[n] EXCEPT !.at = @ + 1] = NextAt(n)
  BY <1>2 DEF NextAt
<1>4. snode' = [snode EXCEPT ![n] = NextAt(n)]
  BY <1>1, <1>3
<1>5. snode[n].pc \in SchemaPCs /\ snode[n].bin \in 1 .. MaxVersion /\ snode[n].at + 1 \in 1 .. 4
  BY <1>1 DEF SchemaNode
<1>6. NextAt(n) \in SchemaNode
  BY <1>5 DEF SchemaNode, NextAt
<1>7. skind = "controller" => snode[n].bin = MaxVersion
  BY DEF SchemaInv, SchemaTypes
<1> QED BY <1>4, <1>6, <1>7 DEF NextAt

\* A statement that changes neither columns nor version.
LEMMA SameVersions ==
  ASSUME SchemaInv, NEW n \in SNodes, NEW r \in SchemaNode, NEW d \in [VariantSet -> Tables],
         UNCHANGED <<skind, dropped>>, mixed' <=> mixed, OnlyFresh(n), sdb' = d,
         snode' = [snode EXCEPT ![n] = r], AtStatement(Variants, r),
         skind = "controller" => r.bin = MaxVersion, r.pc \notin RowSeen,
         \A x \in VariantSet : d[x].shape = sdb[x].shape /\ d[x].row = sdb[x].row,
         Clean => Created(Variants, sdb, r) /\ Settled(Variants, sdb, r),
         SameShards => \A m \in SNodes : HasShards(sdb, m) => HasShards(d, m),
         SameShards /\ Reconciling(r) => HasShards(d, n)
  PROVE  SchemaInv'
<1>1. \A i \in DOMAIN Variants :
        d[Variants[i]].shape = sdb[Variants[i]].shape /\ d[Variants[i]].row = sdb[Variants[i]].row
  BY VariantFacts
<1>2. d[Variants[1]].row = sdb[Variants[1]].row /\ d[Active].row = sdb[Active].row
  BY <1>1, VariantFacts
<1>3. ASSUME Clean
      PROVE  /\ HonestDb(Variants, d) /\ CoveredDb(Variants, d)
             /\ skind = "controller" => FreshDb(Variants, d)
             /\ Created(Variants, d, r) /\ Settled(Variants, d, r)
             /\ \A i \in DOMAIN Variants : d[Variants[i]].shape >= sdb[Variants[i]].shape
  <2>1. HonestDb(Variants, sdb) /\ CoveredDb(Variants, sdb) /\ (skind = "controller" => FreshDb(Variants, sdb))
    BY <1>3 DEF SchemaInv, VersionInv
  <2>2. \A i \in DOMAIN Variants : d[Variants[i]].shape >= sdb[Variants[i]].shape
    BY <1>1, DbTypes
  <2>3. HonestDb(Variants, d) /\ CoveredDb(Variants, d) /\ (skind = "controller" => FreshDb(Variants, d))
    BY <2>1, <1>1, <1>2 DEF HonestDb, CoveredDb, FreshDb
  <2>4. Created(Variants, d, r) /\ Settled(Variants, d, r)
    BY <1>1, <1>3 DEF Created, Settled
  <2> QED BY <2>2, <2>3, <2>4
<1>4. Clean <=> ~dropped /\ ~mixed'
  BY DEF Clean
<1> QED BY <1>2, <1>3, <1>4, TablesMove

\* CREATE TABLE IF NOT EXISTS and INSERT ... ON CONFLICT DO NOTHING.
NewTables(t, b) == [t EXCEPT !.shape = IF @ = 0 THEN b ELSE @, !.row = IF @ = 0 THEN 1 ELSE @]
LEMMA NewTablesFacts ==
  ASSUME NEW t \in Tables, NEW b \in Nat
  PROVE  /\ NewTables(t, b) \in Tables
         /\ NewTables(t, b).shape = IF t.shape = 0 THEN b ELSE t.shape
         /\ NewTables(t, b).row = IF t.row = 0 THEN 1 ELSE t.row
         /\ NewTables(t, b).shards = t.shards
<1>1. t.shape \in Nat /\ t.row \in Nat /\ t.funcs \in Nat /\ t.shards \in SUBSET Nat
  BY DEF Tables
<1>2. PICK w \in Nat : w = IF t.shape = 0 THEN b ELSE t.shape
  BY <1>1
<1>3. PICK v \in Nat : v = IF t.row = 0 THEN 1 ELSE t.row
  BY <1>1
<1>4. NewTables(t, b) = [t EXCEPT !.shape = w, !.row = v]
  BY <1>2, <1>3 DEF NewTables
<1>5. t = [shape |-> t.shape, row |-> t.row, funcs |-> t.funcs, shards |-> t.shards]
  BY DEF Tables
<1>6. NewTables(t, b) = [shape |-> w, row |-> v, funcs |-> t.funcs, shards |-> t.shards]
  BY <1>4, <1>5
<1>7. NewTables(t, b) \in Tables
  BY <1>1, <1>6 DEF Tables
<1> QED BY <1>2, <1>3, <1>6, <1>7

LEMMA ExecTablesInv ==
  ASSUME SchemaInv, NEW n \in SNodes, ExecDDL(n), snode[n].at <= Len(Variants)
  PROVE  SchemaInv'
<1> DEFINE at == snode[n].at
           b == snode[n].bin
           x == Variants[at]
           d == [sdb EXCEPT ![x] = NewTables(sdb[x], b)]
<1>1. /\ b \in Nat /\ b >= 1 /\ b <= MaxVersion /\ MaxVersion \in Nat /\ at \in 1 .. 4
      /\ at <= 2 * Len(Variants) /\ snode[n].pc = "ddl"
      /\ sdb \in [VariantSet -> Tables]
  BY DbTypes DEF ExecDDL, SchemaInv, SchemaTypes, AtStatement
<1>2. x \in VariantSet /\ at \in DOMAIN Variants
  BY <1>1, VariantFacts
<1>3. DDLStatements[at] = [what |-> "tables", variant |-> x] /\ Len(DDLStatements) = 2 * Len(Variants)
  BY <1>1, DDLFacts
<1>4. /\ sdb' = d /\ UNCHANGED <<skind, dropped>> /\ (mixed => mixed') /\ OnlyFresh(n) /\ fresh' = fresh
      /\ ~mixed' => ~mixed /\ (n \in fresh => sdb[x].shape = 0 \/ ~(sdb[x].shape < b))
  <2> DEFINE s == DDLStatements[at]
  <2>1. /\ sdb' = [sdb EXCEPT ![s.variant] =
                     IF s.what = "functions" THEN [sdb[s.variant] EXCEPT !.funcs = b]
                     ELSE NewTables(sdb[s.variant], b)]
        /\ UNCHANGED <<skind, dropped, fresh>>
        /\ mixed' = (mixed \/ (n \in fresh /\ s.what = "tables" /\ sdb[s.variant].shape # 0 /\ sdb[s.variant].shape < b))
    BY Zenon DEF ExecDDL, NewTables
  <2>2. s.what = "tables" /\ s.what # "functions" /\ s.variant = x
    BY <1>3
  <2>3. (mixed => mixed') /\ (~mixed' => ~mixed /\ (n \in fresh => sdb[x].shape = 0 \/ ~(sdb[x].shape < b)))
    <3> HIDE DEF s, x, b
    <3> QED BY <2>1, <2>2, Zenon
  <2>4. OnlyFresh(n)
    BY <2>1 DEF OnlyFresh
  <2> HIDE DEF s, x
  <2> QED BY <2>1, <2>2, <2>3, <2>4
<1>5. at < Len(DDLStatements) /\ at + 1 <= 2 * Len(Variants) /\ at + 1 <= 4
  BY ONLY <1>1, <1>3, VariantFacts, snode[n].at <= Len(Variants)
<1>6. snode' = [snode EXCEPT ![n].at = @ + 1]
  BY <1>5, Zenon DEF ExecDDL
<1>7. /\ snode' = [snode EXCEPT ![n] = NextAt(n)] /\ NextAt(n) \in SchemaNode
      /\ NextAt(n).pc = "ddl" /\ NextAt(n).bin = b /\ NextAt(n).at = at + 1
      /\ skind = "controller" => NextAt(n).bin = MaxVersion
  BY <1>1, <1>5, <1>6, NextAtRecord
<1>8. d \in [VariantSet -> Tables]
  BY <1>1, <1>2, NewTablesFacts
<1>9. \A y \in VariantSet :
        /\ d[y].shape = IF y = x /\ sdb[y].shape = 0 THEN b ELSE sdb[y].shape
        /\ d[y].row = IF y = x /\ sdb[y].row = 0 THEN 1 ELSE sdb[y].row
        /\ d[y].shards = sdb[y].shards
        /\ sdb[y].shape \in Nat /\ sdb[y].row \in Nat
  <2> SUFFICES ASSUME NEW y \in VariantSet
               PROVE  /\ d[y].shape = IF y = x /\ sdb[y].shape = 0 THEN b ELSE sdb[y].shape
                      /\ d[y].row = IF y = x /\ sdb[y].row = 0 THEN 1 ELSE sdb[y].row
                      /\ d[y].shards = sdb[y].shards
                      /\ sdb[y].shape \in Nat /\ sdb[y].row \in Nat
    OBVIOUS
  <2>1. d[y] = IF y = x THEN NewTables(sdb[y], b) ELSE sdb[y]
    BY <1>1
  <2>2. sdb[y] \in Tables /\ sdb[y].shape \in Nat /\ sdb[y].row \in Nat
    BY <1>1 DEF Tables
  <2> HIDE DEF d, x, b
  <2>3. /\ NewTables(sdb[y], b).shape = IF sdb[y].shape = 0 THEN b ELSE sdb[y].shape
        /\ NewTables(sdb[y], b).row = IF sdb[y].row = 0 THEN 1 ELSE sdb[y].row
        /\ NewTables(sdb[y], b).shards = sdb[y].shards
    BY <2>2, <1>1, NewTablesFacts
  <2>4. CASE y = x
    <3>1. d[y] = NewTables(sdb[y], b)
      BY <2>1, <2>4
    <3> QED BY <3>1, <2>2, <2>3, <2>4
  <2>5. CASE y # x
    BY <2>1, <2>2, <2>5
  <2> QED BY <2>4, <2>5
<1> HIDE DEF d
<1>10. \A m \in SNodes : HasShards(sdb, m) => HasShards(d, m)
  BY <1>9, VariantFacts DEF HasShards
<1>11. ~Reconciling(NextAt(n)) /\ AtStatement(Variants, NextAt(n))
  BY <1>5, <1>7 DEF Reconciling, AtStatement
<1>12. ASSUME ~dropped, ~mixed'
       PROVE  /\ HonestDb(Variants, d) /\ CoveredDb(Variants, d)
              /\ skind = "controller" => FreshDb(Variants, d)
              /\ Created(Variants, d, NextAt(n))
              /\ n \notin fresh' => Settled(Variants, d, NextAt(n))
              /\ \A i \in DOMAIN Variants : d[Variants[i]].shape >= sdb[Variants[i]].shape
  <2>0. Clean
    BY <1>4, <1>12 DEF Clean
  <2>1. /\ HonestDb(Variants, sdb) /\ CoveredDb(Variants, sdb) /\ Created(Variants, sdb, snode[n])
        /\ skind = "controller" => FreshDb(Variants, sdb) /\ b = MaxVersion
        /\ n \notin fresh => Settled(Variants, sdb, snode[n])
    BY <2>0 DEF SchemaInv, SchemaTypes, VersionInv
  <2>2. \A i \in DOMAIN Variants :
          LET y == Variants[i]
          IN  /\ y \in VariantSet /\ sdb[y].shape \in Nat /\ sdb[y].row \in Nat
              /\ sdb[y].row <= sdb[y].shape
              /\ d[y].shape = IF y = x /\ sdb[y].shape = 0 THEN b ELSE sdb[y].shape
              /\ d[y].row = IF y = x /\ sdb[y].row = 0 THEN 1 ELSE sdb[y].row
    BY <1>9, <2>1, VariantFacts DEF HonestDb
  <2>3. HonestDb(Variants, d)
    BY <2>2, <1>1 DEF HonestDb
  <2>4. \A i \in DOMAIN Variants : d[Variants[i]].shape >= sdb[Variants[i]].shape
    BY <2>2, <1>1
  <2>5. \A i \in DOMAIN Variants : i \in Nat /\ (i < at + 1 => i < at \/ i = at)
    BY <1>1, VariantFacts
  <2>6. CoveredDb(Variants, d)
    <3> SUFFICES ASSUME d[Variants[1]].row > 1, NEW i \in DOMAIN Variants
                 PROVE  d[Variants[i]].shape >= d[Variants[1]].row
      BY DEF CoveredDb
    <3>1. 1 \in DOMAIN Variants
      BY VariantFacts
    <3>2. d[Variants[1]].row = sdb[Variants[1]].row
      BY <3>1, <2>2
    <3>3. sdb[Variants[i]].shape >= sdb[Variants[1]].row
      BY <3>2, <2>1 DEF CoveredDb
    <3> QED BY <3>1, <3>2, <3>3, <2>2, <2>4
  <2>7. skind = "controller" => FreshDb(Variants, d)
    BY <2>1, <2>2 DEF FreshDb
  <2>8. n \notin fresh => \A i \in DOMAIN Variants : d[Variants[i]].shape >= b
    <3> SUFFICES ASSUME n \notin fresh, NEW i \in DOMAIN Variants PROVE d[Variants[i]].shape >= b
      OBVIOUS
    <3>1. sdb[Variants[i]].shape >= b
      BY <2>1, <1>1 DEF Settled
    <3> QED BY <3>1, <2>2, <2>4, <1>1
  <2>9. d[x].shape >= b
    <3>1. CASE n \notin fresh
      BY <3>1, <2>8, <1>2
    <3>2. CASE n \in fresh
      <4>1. sdb[x].shape = 0 \/ ~(sdb[x].shape < b)
        BY <3>2, <1>4, <1>12
      <4> QED BY <4>1, <1>1, <1>2, <1>9
    <3> QED BY <3>1, <3>2
  <2>10. ASSUME NEW i \in DOMAIN Variants, i < at + 1
         PROVE  d[Variants[i]].shape >= b
    <3>1. CASE i = at
      BY <3>1, <2>9
    <3>2. CASE i < at
      <4>1. sdb[Variants[i]].shape >= b
        BY <3>2, <2>1, <1>1 DEF Created
      <4> QED BY <4>1, <2>2, <2>4, <1>1
    <3> QED BY <3>1, <3>2, <2>5, <2>10
  <2>11. Created(Variants, d, NextAt(n))
    BY <2>10, <1>7 DEF Created
  <2>12. n \notin fresh' => Settled(Variants, d, NextAt(n))
    BY <2>8, <1>4, <1>7 DEF Settled
  <2> QED BY <2>3, <2>4, <2>6, <2>7, <2>11, <2>12
<1>13. sdb[Active].row >= 1 => d[Active].row >= 1
  BY <1>9, VariantFacts
<1>14. NextAt(n).pc \notin RowSeen
  BY <1>7 DEF RowSeen
<1> QED
  BY <1>4, <1>7, <1>8, <1>10, <1>11, <1>12, <1>13, <1>14, TablesMove

LEMMA ExecFunctionsInv ==
  ASSUME SchemaInv, NEW n \in SNodes, ExecDDL(n), snode[n].at > Len(Variants)
  PROVE  SchemaInv'
<1> DEFINE at == snode[n].at
           b == snode[n].bin
           s == DDLStatements[at]
           d == [sdb EXCEPT ![s.variant] = [sdb[s.variant] EXCEPT !.funcs = b]]
<1>1. /\ b \in Nat /\ at \in 1 .. 4 /\ at <= 2 * Len(Variants) /\ snode[n].pc = "ddl"
      /\ sdb \in [VariantSet -> Tables]
  BY DbTypes DEF ExecDDL, SchemaInv, SchemaTypes, AtStatement
<1>2. s.what = "functions" /\ s.variant \in VariantSet /\ Len(DDLStatements) = 2 * Len(Variants)
  BY ONLY <1>1, DDLFacts, snode[n].at > Len(Variants)
<1>3. sdb' = d /\ UNCHANGED <<skind, dropped>> /\ (mixed' <=> mixed) /\ OnlyFresh(n)
  <2>1. /\ sdb' = [sdb EXCEPT ![s.variant] =
                     IF s.what = "functions" THEN [sdb[s.variant] EXCEPT !.funcs = b]
                     ELSE NewTables(sdb[s.variant], b)]
        /\ UNCHANGED <<skind, dropped, fresh>>
        /\ mixed' = (mixed \/ (n \in fresh /\ s.what = "tables" /\ sdb[s.variant].shape # 0 /\ sdb[s.variant].shape < b))
    BY Zenon DEF ExecDDL, NewTables
  <2>2. s.what # "tables"
    BY <1>2
  <2> HIDE DEF s
  <2>3. mixed' <=> mixed
    BY <2>1, <2>2, Zenon
  <2>4. OnlyFresh(n)
    BY <2>1 DEF OnlyFresh
  <2> QED BY <2>1, <2>3, <2>4, <1>2
<1> HIDE DEF s
<1>4. /\ d \in [VariantSet -> Tables]
      /\ \A x \in VariantSet : /\ d[x].shape = sdb[x].shape /\ d[x].row = sdb[x].row
                               /\ d[x].shards = sdb[x].shards
  <2>1. sdb[s.variant] \in Tables
    BY <1>1, <1>2
  <2>2. LET t == [sdb[s.variant] EXCEPT !.funcs = b]
        IN  /\ t \in Tables /\ t.shape = sdb[s.variant].shape /\ t.row = sdb[s.variant].row
            /\ t.shards = sdb[s.variant].shards
    BY <2>1, <1>1 DEF Tables
  <2> QED BY <2>2, <1>1, <1>2
<1> HIDE DEF d
<1>5. \A m \in SNodes : HasShards(sdb, m) => HasShards(d, m)
  BY <1>4, VariantFacts DEF HasShards
<1>6. ASSUME Clean PROVE \A i \in DOMAIN Variants : sdb[Variants[i]].shape >= b
  <2>1. Created(Variants, sdb, snode[n])
    BY <1>6 DEF SchemaInv, VersionInv
  <2>2. \A i \in DOMAIN Variants : i < at
    BY <1>1, VariantFacts
  <2> QED BY <2>1, <2>2, <1>1 DEF Created
<1>7. CASE at < Len(DDLStatements)
  <2>1. snode' = [snode EXCEPT ![n].at = @ + 1] /\ at + 1 <= 4 /\ at + 1 <= 2 * Len(Variants)
    <3>1. snode' = [snode EXCEPT ![n].at = @ + 1]
      BY <1>7, Zenon DEF ExecDDL
    <3>2. at + 1 <= 4 /\ at + 1 <= 2 * Len(Variants)
      BY ONLY <1>1, <1>2, <1>7, VariantFacts
    <3> QED BY <3>1, <3>2
  <2>2. /\ snode' = [snode EXCEPT ![n] = NextAt(n)] /\ NextAt(n) \in SchemaNode
        /\ NextAt(n).pc = "ddl" /\ NextAt(n).bin = b /\ NextAt(n).at = at + 1
        /\ skind = "controller" => NextAt(n).bin = MaxVersion
    BY <2>1, <1>1, NextAtRecord
  <2>3. ~Reconciling(NextAt(n)) /\ AtStatement(Variants, NextAt(n)) /\ NextAt(n).pc \notin RowSeen
    BY <2>1, <2>2 DEF Reconciling, AtStatement, RowSeen
  <2>4. Clean => Created(Variants, sdb, NextAt(n)) /\ Settled(Variants, sdb, NextAt(n))
    BY <2>2, <1>6 DEF Created, Settled
  <2> QED BY <2>2, <2>3, <2>4, <1>3, <1>4, <1>5, SameVersions
<1>8. CASE ~(at < Len(DDLStatements))
  <2>1. Goto(n, "shards") /\ "shards" \in SchemaPCs
    BY <1>8, Zenon DEF ExecDDL, SchemaPCs
  <2>2. ~Reconciling(At1(n, "shards")) /\ At1(n, "shards").pc \notin RowSeen
    BY DEF Reconciling, At1, RowSeen
  <2>3. Clean => Created(Variants, sdb, At1(n, "shards")) /\ Settled(Variants, sdb, At1(n, "shards"))
    BY <1>6 DEF Created, Settled, At1
  <2> QED BY ONLY SchemaInv, n \in SNodes, <2>1, <2>2, <2>3, <1>3, <1>4, <1>5, GotoRecord, SameVersions
<1> QED BY ONLY <1>7, <1>8

LEMMA ReconcileInv ==
  ASSUME SchemaInv, NEW n \in SNodes, ReconcileShardLock(n)
  PROVE  SchemaInv'
<1> DEFINE at == snode[n].at
           s == ShardStatements[at]
           x == s.variant
           to == Reconciled(s.what, sdb[x].shards, ShardsOf[n])
           d == [sdb EXCEPT ![x] = [sdb[x] EXCEPT !.shards = to]]
<1>1. /\ at \in 1 .. 4 /\ at <= 2 * Len(Variants) /\ snode[n].pc \in {"fast", "shards"}
      /\ sdb \in [VariantSet -> Tables]
  BY DbTypes DEF ReconcileShardLock, SchemaInv, SchemaTypes, AtStatement
<1>2. /\ x \in VariantSet /\ Len(ShardStatements) = 2 * Len(Variants)
      /\ at = 1 => s.what = "insert" /\ x = Active
  BY <1>1, ShardFacts
<1>3. UNCHANGED <<skind, dropped, mixed>> /\ OnlyFresh(n)
  BY DEF ReconcileShardLock, OnlyFresh
<1>4. CASE sdb[x].row = 0
  <2>1. Goto(n, "down") /\ UNCHANGED sdb
    BY <1>4, Zenon DEF ReconcileShardLock
  <2> QED BY <2>1, <1>3, GotoQuiet DEF RowSeen
<1>5. CASE sdb[x].row # 0
  <2>1. sdb' = d
    BY <1>1, <1>2, <1>5 DEF ReconcileShardLock
  <2> HIDE DEF s, x, to
  <2>2. sdb[x] \in Tables /\ to \subseteq Nat
    <3>1. sdb[x] \in Tables /\ sdb[x].shards \subseteq Nat
      BY <1>1, <1>2 DEF Tables
    <3>2. 0 .. (ShardsOf[n] - 1) \subseteq Nat
      BY SchemaAssumption
    <3> QED BY <3>1, <3>2 DEF to, Reconciled
  <2>3. /\ d \in [VariantSet -> Tables]
        /\ \A y \in VariantSet : /\ d[y].shape = sdb[y].shape /\ d[y].row = sdb[y].row
                                 /\ d[y].shards = IF y = x THEN to ELSE sdb[y].shards
    <3>1. LET t == [sdb[x] EXCEPT !.shards = to]
          IN  t \in Tables /\ t.shape = sdb[x].shape /\ t.row = sdb[x].row /\ t.shards = to
      BY <2>2 DEF Tables
    <3> QED BY <3>1, <1>1, <1>2
  <2> HIDE DEF d
  <2>4. ASSUME SameShards, NEW m \in SNodes, HasShards(sdb, m) PROVE HasShards(d, m)
    <3>1. ShardsOf[m] = ShardsOf[n]
      BY <2>4 DEF SameShards
    <3>2. x = Active => 0 .. (ShardsOf[m] - 1) \subseteq to
      BY <2>4, <3>1 DEF HasShards, to, Reconciled
    <3> QED BY <3>2, <2>3, <2>4, VariantFacts DEF HasShards
  <2>5. ASSUME SameShards PROVE HasShards(d, n)
    <3>1. CASE at = 1
      <4>1. d[Active].shards = to /\ s.what = "insert"
        BY <3>1, <1>2, <2>3
      <4>2. 0 .. (ShardsOf[n] - 1) \subseteq to
        BY <4>1 DEF to, Reconciled
      <4> QED BY <4>1, <4>2 DEF HasShards
    <3>2. CASE at # 1
      <4>1. at > 1
        BY <3>2, <1>1
      <4>2. HasShards(sdb, n)
        BY <4>1, <1>1, <2>5 DEF SchemaInv, ShardInv, Reconciling, HasShards
      <4> QED BY <4>2, <2>4, <2>5
    <3> QED BY <3>1, <3>2
  <2>6. ASSUME Clean, snode[n].pc = "shards"
        PROVE  \A i \in DOMAIN Variants : sdb[Variants[i]].shape >= snode[n].bin
    BY <2>6 DEF SchemaInv, VersionInv, Created
  <2>7. CASE at < Len(ShardStatements)
    <3>1. snode' = [snode EXCEPT ![n].at = @ + 1] /\ at + 1 <= 4 /\ at + 1 <= 2 * Len(Variants)
      <4>1. snode' = [snode EXCEPT ![n].at = @ + 1]
        BY <1>5, <2>7 DEF ReconcileShardLock, x, s
      <4>2. at + 1 <= 4 /\ at + 1 <= 2 * Len(Variants)
        BY <1>1, <1>2, <2>7, VariantFacts
      <4> QED BY <4>1, <4>2
    <3>2. /\ snode' = [snode EXCEPT ![n] = NextAt(n)] /\ NextAt(n) \in SchemaNode
          /\ NextAt(n).pc = snode[n].pc /\ NextAt(n).bin = snode[n].bin /\ NextAt(n).at = at + 1
          /\ skind = "controller" => NextAt(n).bin = MaxVersion
      BY <3>1, <1>1, NextAtRecord
    <3>3. AtStatement(Variants, NextAt(n)) /\ NextAt(n).pc \notin RowSeen
      BY <3>1, <3>2, <1>1 DEF AtStatement, RowSeen
    <3>4. Clean => Created(Variants, sdb, NextAt(n)) /\ Settled(Variants, sdb, NextAt(n))
      BY <3>2, <2>6, <1>1 DEF Created, Settled
    <3> QED BY <3>2, <3>3, <3>4, <1>3, <2>1, <2>3, <2>4, <2>5, SameVersions
  <2>8. CASE ~(at < Len(ShardStatements))
    <3>1. Goto(n, IF snode[n].pc = "shards" THEN "parts" ELSE IF skind = "map" THEN "serving" ELSE "fastParts")
      BY <1>5, <2>8, Zenon DEF ReconcileShardLock, x, s
    <3>2. PICK pc \in SchemaPCs : Goto(n, pc) /\ pc \in {"parts", "serving", "fastParts"}
                                  /\ (pc = "parts" => snode[n].pc = "shards")
      BY <3>1 DEF SchemaPCs
    <3>3. /\ Clean => Created(Variants, sdb, At1(n, pc)) /\ Settled(Variants, sdb, At1(n, pc))
          /\ At1(n, pc).pc \notin RowSeen
      BY <3>2, <2>6 DEF Created, Settled, At1, RowSeen
    <3> QED BY <3>2, <3>3, <1>3, <2>1, <2>3, <2>4, <2>5, GotoRecord, SameVersions
  <2> QED BY <2>7, <2>8
<1> QED BY <1>4, <1>5

LEMMA PartitionsInv ==
  ASSUME SchemaInv, NEW n \in SNodes, InitialPartitions(n)
  PROVE  SchemaInv'
<1>1. UNCHANGED <<skind, sdb, dropped, mixed>> /\ OnlyFresh(n) /\ snode[n].pc \in {"parts", "fastParts"}
  BY DEF InitialPartitions, OnlyFresh
<1>2. PICK pc \in SchemaPCs : /\ Goto(n, pc) /\ pc \in {"serving", "refused", "version"}
                              /\ pc = "version" => snode[n].pc = "parts"
  <2>1. Goto(n, IF snode[n].pc = "fastParts" THEN "serving" ELSE IF legacy /\ ~dropped THEN "refused" ELSE "version")
    BY Zenon DEF InitialPartitions
  <2> QED BY <2>1, <1>1 DEF SchemaPCs
<1>3. /\ Clean => Created(Variants, sdb, At1(n, pc)) /\ Settled(Variants, sdb, At1(n, pc))
      /\ At1(n, pc).pc \notin RowSeen
  BY <1>2 DEF SchemaInv, VersionInv, Created, Settled, At1, RowSeen
<1>4. SameShards => HasShards(sdb, n)
  BY <1>1 DEF SchemaInv, ShardInv, Reconciling, HasShards
<1> QED BY <1>1, <1>2, <1>3, <1>4, GotoRecord, NodeMoves

LEMMA SetVersionInv ==
  ASSUME SchemaInv, NEW n \in SNodes, SetVersion(n)
  PROVE  SchemaInv'
<1> DEFINE at == snode[n].at
           b == snode[n].bin
           x == Variants[at]
           to == IF sdb[x].row = 0 THEN 0 ELSE b
           d == [sdb EXCEPT ![x] = [sdb[x] EXCEPT !.row = to]]
<1>1. /\ b \in Nat /\ b >= 1 /\ at \in 1 .. 4 /\ at <= Len(Variants) /\ snode[n].pc = "version"
      /\ sdb \in [VariantSet -> Tables] /\ UNCHANGED <<skind, dropped, mixed>> /\ OnlyFresh(n)
      /\ Clean <=> ~dropped /\ ~mixed'
  BY DbTypes DEF SetVersion, SchemaInv, SchemaTypes, AtStatement, OnlyFresh, Clean
<1>2. x \in VariantSet
  BY <1>1, VariantFacts
<1>3. sdb' = d
  BY <1>1, <1>2 DEF SetVersion
<1>4. /\ d \in [VariantSet -> Tables]
      /\ \A y \in VariantSet : /\ d[y].shape = sdb[y].shape /\ d[y].shards = sdb[y].shards
                               /\ d[y].row = IF y = x THEN to ELSE sdb[y].row
  <2>1. sdb[x] \in Tables /\ to \in Nat
    BY <1>1, <1>2
  <2> HIDE DEF to, x
  <2>2. LET t == [sdb[x] EXCEPT !.row = to]
        IN  t \in Tables /\ t.shape = sdb[x].shape /\ t.row = to /\ t.shards = sdb[x].shards
    BY <2>1 DEF Tables
  <2> QED BY <2>2, <1>1, <1>2
<1> HIDE DEF d, x
<1>5. \A m \in SNodes : HasShards(sdb, m) => HasShards(d, m)
  BY <1>4, VariantFacts DEF HasShards
<1>6. SameShards => HasShards(sdb, n)
  BY <1>1 DEF SchemaInv, ShardInv, Reconciling, HasShards
<1>7. ASSUME Clean
      PROVE  /\ HonestDb(Variants, d) /\ CoveredDb(Variants, d)
             /\ skind = "controller" => FreshDb(Variants, d)
             /\ \A i \in DOMAIN Variants : d[Variants[i]].shape >= b
             /\ \A i \in DOMAIN Variants : d[Variants[i]].shape >= sdb[Variants[i]].shape
  <2>1. /\ HonestDb(Variants, sdb) /\ CoveredDb(Variants, sdb)
        /\ skind = "controller" => FreshDb(Variants, sdb)
        /\ \A i \in DOMAIN Variants : sdb[Variants[i]].shape >= b
    BY <1>1, <1>7 DEF SchemaInv, VersionInv, Created
  <2>2. \A i \in DOMAIN Variants :
          LET y == Variants[i]
          IN  /\ sdb[y].shape \in Nat /\ sdb[y].row \in Nat
              /\ d[y].shape = sdb[y].shape /\ (d[y].row = sdb[y].row \/ d[y].row = b)
              /\ d[y].row <= d[y].shape
    <3> SUFFICES ASSUME NEW i \in DOMAIN Variants
                 PROVE  LET y == Variants[i]
                        IN  /\ sdb[y].shape \in Nat /\ sdb[y].row \in Nat
                            /\ d[y].shape = sdb[y].shape /\ (d[y].row = sdb[y].row \/ d[y].row = b)
                            /\ d[y].row <= d[y].shape
      OBVIOUS
    <3>1. Variants[i] \in VariantSet /\ sdb[Variants[i]].shape \in Nat /\ sdb[Variants[i]].row \in Nat
      BY VariantFacts, DbTypes
    <3>2. sdb[Variants[i]].row <= sdb[Variants[i]].shape /\ sdb[Variants[i]].shape >= b
      BY <2>1 DEF HonestDb
    <3> QED BY <3>1, <3>2, <1>1, <1>4
  <2>3. CoveredDb(Variants, d)
    <3> SUFFICES ASSUME d[Variants[1]].row > 1, NEW i \in DOMAIN Variants
                 PROVE  d[Variants[i]].shape >= d[Variants[1]].row
      BY DEF CoveredDb
    <3>1. d[Variants[1]].row = sdb[Variants[1]].row \/ d[Variants[1]].row = b
      BY <2>2, VariantFacts
    <3>2. d[Variants[i]].shape = sdb[Variants[i]].shape /\ sdb[Variants[i]].shape >= b
      BY <2>1, <2>2
    <3> QED BY <3>1, <3>2, <2>1 DEF CoveredDb
  <2>4. \A i \in DOMAIN Variants : d[Variants[i]].shape = sdb[Variants[i]].shape /\ sdb[Variants[i]].shape \in Nat
                                   /\ d[Variants[i]].row <= d[Variants[i]].shape
    BY <2>2
  <2> QED BY <2>1, <2>3, <2>4 DEF HonestDb, FreshDb
<1>10. sdb[Active].row >= 1 => d[Active].row >= 1
  <2>1. d[Active].row = sdb[Active].row \/ (Active = x /\ d[Active].row = to)
    BY <1>4, VariantFacts
  <2>2. Active = x /\ sdb[Active].row >= 1 => to = b
    BY DbTypes
  <2> QED BY <2>1, <2>2, <1>1
<1>8. CASE at < Len(Variants)
  <2>1. snode' = [snode EXCEPT ![n].at = @ + 1]
    BY <1>8 DEF SetVersion
  <2>2. at + 1 <= 4 /\ at + 1 <= Len(Variants)
    BY <1>1, <1>8, VariantFacts
  <2>3. /\ snode' = [snode EXCEPT ![n] = NextAt(n)] /\ NextAt(n) \in SchemaNode
        /\ NextAt(n).pc = "version" /\ NextAt(n).bin = b /\ NextAt(n).at = at + 1
        /\ skind = "controller" => NextAt(n).bin = MaxVersion
    BY <2>1, <2>2, <1>1, NextAtRecord
  <2>4. AtStatement(Variants, NextAt(n)) /\ NextAt(n).pc \notin RowSeen
    BY <2>2, <2>3 DEF AtStatement, RowSeen
  <2>5. Clean => Created(Variants, d, NextAt(n)) /\ Settled(Variants, d, NextAt(n))
    BY <2>3, <1>7 DEF Created, Settled
  <2> QED BY <2>3, <2>4, <2>5, <1>1, <1>3, <1>4, <1>5, <1>6, <1>7, <1>10, TablesMove
<1>9. CASE ~(at < Len(Variants))
  <2>1. Goto(n, "serving") /\ "serving" \in SchemaPCs
    BY <1>9 DEF SetVersion, SchemaPCs
  <2>2. /\ Created(Variants, d, At1(n, "serving")) /\ Settled(Variants, d, At1(n, "serving"))
        /\ At1(n, "serving").pc \notin RowSeen
    BY DEF Created, Settled, At1, RowSeen
  <2> QED BY <2>1, <2>2, <1>1, <1>3, <1>4, <1>5, <1>6, <1>7, <1>10, GotoRecord, TablesMove
<1> QED BY <1>8, <1>9

LEMMA SchemaInvNext == ASSUME SchemaInv, [SchemaNext]_schema PROVE SchemaInv'
<1>1. CASE DropTable
  <2>1. /\ sdb' = [sdb EXCEPT ![Active].shape = 0] /\ dropped' = TRUE /\ UNCHANGED <<skind, snode, mixed, fresh>>
    BY <1>1 DEF DropTable
  <2>2. Variants' = Variants /\ VariantSet' = VariantSet
    BY <2>1 DEF Variants, VariantSet
  <2>3. sdb \in [VariantSet -> Tables] /\ Active \in VariantSet
    BY VariantFacts DEF SchemaInv, SchemaTypes
  <2>4. /\ sdb' \in [VariantSet -> Tables] /\ sdb'[Active].shards = sdb[Active].shards
        /\ sdb'[Active].row = sdb[Active].row
    <3>1. LET t == [sdb[Active] EXCEPT !.shape = 0]
          IN  t \in Tables /\ t.shards = sdb[Active].shards /\ t.row = sdb[Active].row
      BY <2>3 DEF Tables
    <3> QED BY <3>1, <2>1, <2>3
  <2>5. SchemaTypes'
    BY <2>1, <2>2, <2>4 DEF SchemaInv, SchemaTypes
  <2>6. VersionInv'
    BY <2>1 DEF VersionInv, Clean
  <2>7. ShardInv'
    BY <2>1, <2>4 DEF SchemaInv, ShardInv, Active
  <2>8. SeenInv'
    BY <2>1, <2>4 DEF SchemaInv, SeenInv, Active
  <2> QED BY <2>5, <2>6, <2>7, <2>8 DEF SchemaInv
<1>2. ASSUME NEW n \in SNodes, StartNode(n) \/ FailNode(n) \/ VerifyShape(n)
      PROVE  SchemaInv'
  <2>1. /\ UNCHANGED <<skind, sdb, dropped, mixed>> /\ OnlyFresh(n)
        /\ \E pc \in {"read", "down", "refused", "fast"} : Goto(n, pc)
    BY <1>2 DEF StartNode, FailNode, VerifyShape, OnlyFresh
  <2> QED BY <2>1, GotoQuiet DEF RowSeen
<1>11. ASSUME NEW n \in SNodes, LockMigrations(n) PROVE SchemaInv'
  <2>1. /\ UNCHANGED <<skind, sdb, dropped, mixed>> /\ OnlyFresh(n) /\ Goto(n, "migrate")
        /\ snode[n].pc = "lock"
    BY <1>11 DEF LockMigrations, OnlyFresh
  <2>2. sdb[Active].row >= 1 /\ (Clean => snode[n].bin > 1)
    BY <2>1 DEF SchemaInv, SeenInv, RowSeen, VersionInv, Created
  <2> QED BY <2>1, <2>2, GotoQuiet
<1>3. ASSUME NEW n \in SNodes, Upgrade(n) PROVE SchemaInv'
  <2> DEFINE r == [pc |-> "down", bin |-> snode[n].bin + 1, at |-> 1]
  <2>1. /\ snode' = [snode EXCEPT ![n] = r] /\ snode[n].bin < MaxVersion
        /\ UNCHANGED <<skind, sdb, dropped, mixed>> /\ OnlyFresh(n)
    BY <1>3 DEF Upgrade, OnlyFresh
  <2>2. r \in SchemaNode /\ skind # "controller"
    BY <2>1, DbTypes DEF SchemaNode, SchemaPCs, SchemaInv, SchemaTypes
  <2>3. /\ Created(Variants, sdb, r) /\ Settled(Variants, sdb, r) /\ ~Reconciling(r)
        /\ AtStatement(Variants, r) /\ r.pc \notin RowSeen
    BY DEF Created, Settled, Reconciling, AtStatement, RowSeen
  <2> HIDE DEF r
  <2> QED BY <2>1, <2>2, <2>3, NodeMoves
<1>4. ASSUME NEW n \in SNodes, ReadVersion(n) \/ Probe(n) PROVE SchemaInv'
  BY <1>4, ReadVersionInv, ProbeInv
<1>5. ASSUME NEW n \in SNodes, Migrate(n) PROVE SchemaInv'
  BY <1>5, MigrateInv
<1>6. ASSUME NEW n \in SNodes, ExecDDL(n) PROVE SchemaInv'
  <2>1. snode[n].at <= Len(Variants) \/ snode[n].at > Len(Variants)
    BY DbTypes, VariantFacts
  <2> QED BY <2>1, <1>6, ExecTablesInv, ExecFunctionsInv
<1>7. ASSUME NEW n \in SNodes, ReconcileShardLock(n) PROVE SchemaInv'
  BY <1>7, ReconcileInv
<1>8. ASSUME NEW n \in SNodes, InitialPartitions(n) PROVE SchemaInv'
  BY <1>8, PartitionsInv
<1>9. ASSUME NEW n \in SNodes, SetVersion(n) PROVE SchemaInv'
  BY <1>9, SetVersionInv
<1>10. CASE UNCHANGED schema
  BY <1>10 DEF schema, SchemaInv, SchemaTypes, SeenInv, VersionInv, Clean, ShardInv, Variants, VariantSet, Active
<1> QED
  BY <1>1, <1>2, <1>3, <1>4, <1>5, <1>6, <1>7, <1>8, <1>9, <1>10, <1>11 DEF SchemaNext

\* Any number of nodes of any binaries that install and upgrade a schema
\* concurrently, with failing statements and crashes: a version row never
\* claims columns the tables do not have (so the next EnsureSchema skips no
\* migration) unless a fresh installer met the tables of an older binary, and
\* a serving node has a shard_lock row for each of its shards.
THEOREM SchemaSafety == SchemaSpec => []SchemaSafe
<1>1. SchemaInit => SchemaInv
  BY SchemaInvInit
<1>2. SchemaInv /\ [SchemaNext]_schema => SchemaInv'
  BY SchemaInvNext
<1>3. SchemaInv => SchemaSafe
  <2> SUFFICES ASSUME SchemaInv PROVE SchemaSafe
    OBVIOUS
  <2>1. VersionHonest
    BY VariantFacts DEF SchemaInv, VersionInv, Clean, HonestDb, VersionHonest
  <2>2. ShardsLocked
    BY DEF SchemaInv, ShardInv, SameShards, Reconciling, ShardsLocked
  <2> QED BY <2>1, <2>2 DEF SchemaSafe
<1> QED BY <1>1, <1>2, <1>3, PTL DEF SchemaSpec

-----------------------------------------------------------------------------
(* Schema setup: versions during a rolling deploy.                         *)

\* Labels of the slow path.
SlowPath == {"lock", "migrate", "ddl", "shards", "parts", "version"}
WholeRows(d) == \A x \in VariantSet : d[x].row <= MaxVersion /\ (d[x].row = 0 <=> d[x].shape = 0)
Upgraded(r) == r.bin > 1 \/ MaxVersion = 1

\* On the slow path there are only newer binaries than the first and nodes
\* that install.
BackInv ==
    ~dropped =>
       /\ WholeRows(sdb)
       /\ \A n \in SNodes : snode[n].pc \in SlowPath => Upgraded(snode[n]) \/ n \in fresh

LEMMA BackInvInit == SchemaInit => BackInv
<1> SUFFICES ASSUME SchemaInit PROVE BackInv
  OBVIOUS
<1> USE SchemaAssumption
<1>1. PICK d \in Databases :
        /\ sdb = [x \in VariantSet |-> IF d = "empty" THEN NoSchema ELSE Installed(1)]
        /\ \A n \in SNodes : snode[n].pc = "off"
  BY DEF SchemaInit
<1>2. NoSchema.row = 0 /\ NoSchema.shape = 0 /\ Installed(1).row = 1 /\ Installed(1).shape = 1
  BY DEF NoSchema, Installed
<1>3. CASE d = "empty"
  <2>1. \A x \in VariantSet : sdb[x].row = 0 /\ sdb[x].shape = 0
    BY <1>1, <1>2, <1>3
  <2> QED BY <2>1, <1>1 DEF BackInv, WholeRows, SlowPath
<1>4. CASE d # "empty"
  <2>1. \A x \in VariantSet : sdb[x].row = 1 /\ sdb[x].shape = 1
    BY <1>1, <1>2, <1>4
  <2> QED BY <2>1, <1>1 DEF BackInv, WholeRows, SlowPath
<1> QED BY <1>3, <1>4

\* A step of a node, as far as the versions are concerned.
LEMMA VersionMove ==
  ASSUME SchemaInv, BackInv, NEW n \in SNodes, NEW r \in SchemaNode,
         UNCHANGED <<skind, dropped>>, OnlyFresh(n), snode' = [snode EXCEPT ![n] = r],
         ~dropped => WholeRows(sdb') /\ (r.pc \in SlowPath => Upgraded(r) \/ n \in fresh')
  PROVE  BackInv'
<1>1. VariantSet' = VariantSet
  BY DEF VariantSet, Variants
<1>2. snode \in [SNodes -> SchemaNode]
  BY DEF SchemaInv, SchemaTypes
<1>3. \A m \in SNodes : snode'[m] = IF m = n THEN r ELSE snode[m]
  BY <1>2
<1>4. ~dropped => \A m \in SNodes : snode'[m].pc \in SlowPath => Upgraded(snode'[m]) \/ m \in fresh'
  BY <1>3 DEF BackInv, OnlyFresh
<1> QED BY <1>1, <1>4 DEF BackInv, WholeRows, Upgraded

\* No version row goes back in a step.
RowsKept == \A x \in VariantSet : sdb'[x].row >= sdb[x].row

LEMMA SameRows ==
  ASSUME SchemaInv, \A x \in VariantSet : sdb'[x].row = sdb[x].row
  PROVE  RowsKept
BY DEF RowsKept, SchemaInv, SchemaTypes, Tables

\* A step that leaves versions and tables alone.
LEMMA QuietVersions ==
  ASSUME SchemaInv, BackInv, NEW n \in SNodes, NEW r \in SchemaNode,
         UNCHANGED <<skind, dropped>>, OnlyFresh(n),
         \A x \in VariantSet : sdb'[x].row = sdb[x].row /\ sdb'[x].shape = sdb[x].shape,
         snode' = [snode EXCEPT ![n] = r],
         ~dropped => (r.pc \in SlowPath => Upgraded(r) \/ n \in fresh')
  PROVE  BackInv' /\ RowsKept
<1>1. ~dropped => WholeRows(sdb')
  BY DEF BackInv, WholeRows
<1> QED BY <1>1, VersionMove, SameRows

LEMMA QuietGoto ==
  ASSUME SchemaInv, BackInv, NEW n \in SNodes, NEW pc \in SchemaPCs, Goto(n, pc),
         UNCHANGED <<skind, sdb, dropped>>, OnlyFresh(n),
         ~dropped => (pc \in SlowPath => Upgraded(snode[n]) \/ n \in fresh')
  PROVE  BackInv' /\ RowsKept
<1>1. /\ snode' = [snode EXCEPT ![n] = At1(n, pc)] /\ At1(n, pc) \in SchemaNode
      /\ At1(n, pc).pc = pc /\ At1(n, pc).bin = snode[n].bin
  BY GotoRecord
<1>2. Upgraded(At1(n, pc)) <=> Upgraded(snode[n])
  BY <1>1 DEF Upgraded
<1> HIDE DEF At1
<1> QED BY <1>1, <1>2, QuietVersions

LEMMA ReadVersionBack ==
  ASSUME SchemaInv, BackInv, NEW n \in SNodes, ReadVersion(n) \/ Probe(n)
  PROVE  BackInv' /\ RowsKept
<1>1. UNCHANGED <<skind, sdb, dropped>> /\ OnlyFresh(n)
  BY DEF ReadVersion, Probe, OnlyFresh
<1>2. CASE ReadVersion(n)
  <2> DEFINE v == sdb[Active].row
             b == snode[n].bin
  <2>1. Goto(n, IF v = 0 THEN "ddl" ELSE IF v = b THEN "probe" ELSE IF v > b THEN "refused"
                ELSE IF skind = "controller" THEN "ddl" ELSE "lock")
    BY <1>2, Zenon DEF ReadVersion
  <2>2. v \in Nat /\ b \in Nat
    BY DbTypes
  <2>3. PICK pc \in SchemaPCs :
          /\ Goto(n, pc) /\ pc \in {"ddl", "probe", "refused", "lock"}
          /\ pc \in {"ddl", "lock"} => v = 0 \/ v < b
    <3> HIDE DEF v, b
    <3> QED BY <2>1, <2>2 DEF SchemaPCs
  <2>4. v = 0 => n \in fresh'
    BY <1>2 DEF ReadVersion
  <2>5. pc \in SlowPath => Upgraded(snode[n]) \/ n \in fresh'
    BY <2>2, <2>3, <2>4 DEF SlowPath, Upgraded
  <2> QED BY <1>1, <2>3, <2>5, QuietGoto
<1>3. CASE Probe(n)
  <2>1. /\ snode[n].pc = "probe"
        /\ Goto(n, IF sdb[Active].shape # 0 THEN IF skind = "map" THEN "fast" ELSE "verify"
                   ELSE IF skind = "controller" THEN "ddl" ELSE "lock")
    BY <1>3, Zenon DEF Probe
  <2>2. PICK pc \in SchemaPCs :
          /\ Goto(n, pc) /\ pc \in {"ddl", "lock", "fast", "verify"}
          /\ pc \in {"ddl", "lock"} => sdb[Active].shape = 0
    BY <2>1 DEF SchemaPCs
  <2>3. sdb[Active].row >= 1
    BY <2>1 DEF SchemaInv, SeenInv, RowSeen
  <2>4. ~dropped => sdb[Active].shape # 0
    BY <2>3, DbTypes, VariantFacts DEF BackInv, WholeRows
  <2>5. ~dropped => pc \notin SlowPath
    BY <2>2, <2>4 DEF SlowPath
  <2> QED BY <1>1, <2>2, <2>5, QuietGoto
<1> QED BY <1>2, <1>3

LEMMA OtherLabelsBack ==
  ASSUME SchemaInv, BackInv, NEW n \in SNodes,
         \/ StartNode(n) \/ FailNode(n) \/ LockMigrations(n) \/ VerifyShape(n)
         \/ InitialPartitions(n)
  PROVE  BackInv' /\ RowsKept
<1>1. UNCHANGED <<skind, sdb, dropped>> /\ OnlyFresh(n)
  BY DEF StartNode, FailNode, LockMigrations, VerifyShape, InitialPartitions, OnlyFresh
<1>2. PICK pc \in SchemaPCs :
        /\ Goto(n, pc) /\ pc \in {"read", "down", "migrate", "refused", "fast", "serving", "version"}
        /\ pc \in {"migrate", "version"} => snode[n].pc \in {"lock", "parts"} /\ fresh' = fresh
  <2>1. CASE StartNode(n)
    BY <2>1 DEF StartNode, SchemaPCs
  <2>2. CASE FailNode(n)
    BY <2>2 DEF FailNode, SchemaPCs
  <2>3. CASE LockMigrations(n)
    BY <2>3 DEF LockMigrations, SchemaPCs
  <2>4. CASE VerifyShape(n)
    BY <2>4 DEF VerifyShape, SchemaPCs
  <2>5. CASE InitialPartitions(n)
    <3>1. /\ snode[n].pc \in {"parts", "fastParts"} /\ fresh' = fresh
          /\ Goto(n, IF snode[n].pc = "fastParts" THEN "serving" ELSE IF legacy /\ ~dropped THEN "refused" ELSE "version")
      BY <2>5, Zenon DEF InitialPartitions
    <3> QED BY <3>1 DEF SchemaPCs
  <2> QED BY <2>1, <2>2, <2>3, <2>4, <2>5
<1>3. ~dropped => (pc \in SlowPath => Upgraded(snode[n]) \/ n \in fresh')
  BY <1>2 DEF SlowPath, BackInv
<1> QED BY <1>1, <1>2, <1>3, QuietGoto

LEMMA UpgradeBack ==
  ASSUME SchemaInv, BackInv, NEW n \in SNodes, Upgrade(n)
  PROVE  BackInv' /\ RowsKept
<1> DEFINE r == [pc |-> "down", bin |-> snode[n].bin + 1, at |-> 1]
<1>1. /\ snode' = [snode EXCEPT ![n] = r] /\ snode[n].bin < MaxVersion
      /\ UNCHANGED <<skind, sdb, dropped>> /\ OnlyFresh(n)
  BY DEF Upgrade, OnlyFresh
<1>2. r \in SchemaNode
  BY <1>1, DbTypes DEF SchemaNode, SchemaPCs
<1>3. r.pc \notin SlowPath
  BY DEF SlowPath
<1> HIDE DEF r
<1> QED BY <1>1, <1>2, <1>3, QuietVersions

\* Statements that change other columns of the tables.
LEMMA OtherColumns ==
  ASSUME NEW x \in VariantSet, NEW d \in [VariantSet -> Tables], NEW t, NEW e,
         e = [d EXCEPT ![x] = t], t.row = d[x].row, t.shape = d[x].shape
  PROVE  \A y \in VariantSet : e[y].row = d[y].row /\ e[y].shape = d[y].shape
OBVIOUS

LEMMA ExecFunctionsBack ==
  ASSUME SchemaInv, BackInv, NEW n \in SNodes, ExecDDL(n), snode[n].at > Len(Variants)
  PROVE  BackInv' /\ RowsKept
<1> DEFINE at == snode[n].at
           b == snode[n].bin
           s == DDLStatements[at]
<1>1. /\ b \in Nat /\ at \in 1 .. 4 /\ at <= 2 * Len(Variants) /\ snode[n].pc = "ddl"
      /\ sdb \in [VariantSet -> Tables] /\ UNCHANGED <<skind, dropped, fresh>> /\ OnlyFresh(n)
  BY DbTypes DEF ExecDDL, SchemaInv, SchemaTypes, AtStatement, OnlyFresh
<1>2. s.what = "functions" /\ s.variant \in VariantSet /\ Len(DDLStatements) = 2 * Len(Variants)
  BY ONLY <1>1, DDLFacts, snode[n].at > Len(Variants)
<1>3. sdb' = [sdb EXCEPT ![s.variant] = [sdb[s.variant] EXCEPT !.funcs = b]]
  <2>1. sdb' = [sdb EXCEPT ![s.variant] =
                     IF s.what = "functions" THEN [sdb[s.variant] EXCEPT !.funcs = b]
                     ELSE NewTables(sdb[s.variant], b)]
    BY Zenon DEF ExecDDL, NewTables
  <2> HIDE DEF s
  <2> QED BY <2>1, <1>2
<1> HIDE DEF s
<1>4. PICK t : t = [sdb[s.variant] EXCEPT !.funcs = b]
  OBVIOUS
<1>5. t.row = sdb[s.variant].row /\ t.shape = sdb[s.variant].shape
  BY <1>1, <1>2, <1>4 DEF Tables
<1>6. \A y \in VariantSet : sdb'[y].row = sdb[y].row /\ sdb'[y].shape = sdb[y].shape
  BY <1>1, <1>2, <1>3, <1>4, <1>5, OtherColumns
<1>8. PICK r \in SchemaNode : snode' = [snode EXCEPT ![n] = r] /\ r.bin = b /\ r.pc \in {"ddl", "shards"}
  <2>1. CASE at < Len(DDLStatements)
    <3>1. snode' = [snode EXCEPT ![n].at = @ + 1]
      BY <2>1, Zenon DEF ExecDDL
    <3>2. at + 1 <= 4
      BY <1>1, <1>2, <2>1, VariantFacts
    <3>8. /\ snode' = [snode EXCEPT ![n] = NextAt(n)] /\ NextAt(n) \in SchemaNode
          /\ NextAt(n).pc = snode[n].pc /\ NextAt(n).bin = snode[n].bin
      BY ONLY SchemaInv, n \in SNodes, <3>1, <3>2, NextAtRecord
    <3> QED BY ONLY <3>8, <1>1, Zenon
  <2>2. CASE ~(at < Len(DDLStatements))
    <3>1. Goto(n, "shards") /\ "shards" \in SchemaPCs
      BY <2>2, Zenon DEF ExecDDL, SchemaPCs
    <3> QED BY <3>1, GotoRecord
  <2> QED BY <2>1, <2>2
<1>9. ~dropped => Upgraded(r) \/ n \in fresh'
  BY <1>1, <1>8 DEF BackInv, SlowPath, Upgraded
<1> QED BY <1>1, <1>6, <1>8, <1>9, QuietVersions

LEMMA ReconcileBack ==
  ASSUME SchemaInv, BackInv, NEW n \in SNodes, ReconcileShardLock(n)
  PROVE  BackInv' /\ RowsKept
<1> DEFINE at == snode[n].at
           s == ShardStatements[at]
           x == s.variant
           to == Reconciled(s.what, sdb[x].shards, ShardsOf[n])
<1>1. /\ at \in 1 .. 4 /\ at <= 2 * Len(Variants) /\ snode[n].pc \in {"fast", "shards"}
      /\ sdb \in [VariantSet -> Tables] /\ UNCHANGED <<skind, dropped, fresh>> /\ OnlyFresh(n)
  BY DbTypes DEF ReconcileShardLock, SchemaInv, SchemaTypes, AtStatement, OnlyFresh
<1>2. x \in VariantSet /\ Len(ShardStatements) = 2 * Len(Variants)
  BY <1>1, ShardFacts
<1>3. CASE sdb[x].row = 0
  <2>1. Goto(n, "down") /\ UNCHANGED sdb /\ "down" \in SchemaPCs /\ "down" \notin SlowPath
    BY <1>3, Zenon DEF ReconcileShardLock, SchemaPCs, SlowPath
  <2> QED BY <2>1, <1>1, QuietGoto
<1>4. CASE sdb[x].row # 0
  <2>1. sdb' = [sdb EXCEPT ![x] = [sdb[x] EXCEPT !.shards = to]]
    BY <1>1, <1>2, <1>4 DEF ReconcileShardLock
  <2>2. PICK t : t = [sdb[x] EXCEPT !.shards = to]
    OBVIOUS
  <2> HIDE DEF s, x, to
  <2>3. t.row = sdb[x].row /\ t.shape = sdb[x].shape
    BY <1>1, <1>2, <2>2 DEF Tables
  <2>4. \A y \in VariantSet : sdb'[y].row = sdb[y].row /\ sdb'[y].shape = sdb[y].shape
    BY <1>1, <1>2, <2>1, <2>2, <2>3, OtherColumns
  <2>6. PICK r \in SchemaNode :
          /\ snode' = [snode EXCEPT ![n] = r] /\ r.bin = snode[n].bin
          /\ r.pc \in {"fast", "shards", "parts", "serving", "fastParts"}
          /\ r.pc \in {"shards", "parts"} => snode[n].pc = "shards"
    <3>1. CASE at < Len(ShardStatements)
      <4>1. snode' = [snode EXCEPT ![n].at = @ + 1]
        BY <1>4, <3>1 DEF ReconcileShardLock, x, s
      <4>2. at + 1 <= 4
        BY <1>1, <1>2, <3>1, VariantFacts
      <4>8. /\ snode' = [snode EXCEPT ![n] = NextAt(n)] /\ NextAt(n) \in SchemaNode
            /\ NextAt(n).pc = snode[n].pc /\ NextAt(n).bin = snode[n].bin
        BY ONLY SchemaInv, n \in SNodes, <4>1, <4>2, NextAtRecord
      <4>9. snode[n].pc \in {"fast", "shards"}
        BY <1>4, Zenon DEF ReconcileShardLock
      <4> QED BY ONLY <4>8, <4>9
    <3>2. CASE ~(at < Len(ShardStatements))
      <4>1. Goto(n, IF snode[n].pc = "shards" THEN "parts" ELSE IF skind = "map" THEN "serving" ELSE "fastParts")
        BY <1>4, <3>2, Zenon DEF ReconcileShardLock, x, s
      <4>2. PICK pc \in SchemaPCs : /\ Goto(n, pc) /\ pc \in {"parts", "serving", "fastParts"}
                                    /\ pc = "parts" <=> snode[n].pc = "shards"
        BY <4>1 DEF SchemaPCs
      <4> QED BY <4>2, <1>1, GotoRecord
    <3> QED BY <3>1, <3>2
  <2>7. ~dropped => (r.pc \in SlowPath => Upgraded(r) \/ n \in fresh')
    BY <2>6, <1>1 DEF BackInv, SlowPath, Upgraded
  <2> QED BY <1>1, <2>4, <2>6, <2>7, QuietVersions
<1> QED BY <1>3, <1>4

LEMMA ExecTablesBack ==
  ASSUME SchemaInv, BackInv, NEW n \in SNodes, ExecDDL(n), snode[n].at <= Len(Variants)
  PROVE  BackInv' /\ RowsKept
<1> DEFINE at == snode[n].at
           b == snode[n].bin
           x == Variants[at]
<1>1. /\ b \in Nat /\ b >= 1 /\ b <= MaxVersion /\ MaxVersion \in Nat /\ at \in 1 .. 4
      /\ at <= 2 * Len(Variants) /\ snode[n].pc = "ddl"
      /\ sdb \in [VariantSet -> Tables] /\ UNCHANGED <<skind, dropped, fresh>> /\ OnlyFresh(n)
  <2>1. b \in 1 .. MaxVersion /\ MaxVersion \in Nat /\ at \in 1 .. 4
    BY DbTypes
  <2>2. sdb \in [VariantSet -> Tables] /\ AtStatement(Variants, snode[n])
    BY DEF SchemaInv, SchemaTypes
  <2>3. snode[n].pc = "ddl" /\ UNCHANGED <<skind, dropped, fresh>>
    BY Zenon DEF ExecDDL
  <2>4. OnlyFresh(n)
    BY <2>3 DEF OnlyFresh
  <2>5. b \in Nat /\ b >= 1 /\ b <= MaxVersion
    BY ONLY <2>1
  <2>6. at <= 2 * Len(Variants)
    BY <2>2, <2>3 DEF AtStatement
  <2> HIDE DEF at, b
  <2> QED BY <2>1, <2>2, <2>3, <2>4, <2>5, <2>6
<1>2. x \in VariantSet /\ at \in DOMAIN Variants
  BY <1>1, VariantFacts
<1>3. DDLStatements[at] = [what |-> "tables", variant |-> x] /\ Len(DDLStatements) = 2 * Len(Variants)
  BY <1>1, DDLFacts
<1>4. sdb' = [sdb EXCEPT ![x] = NewTables(sdb[x], b)]
  <2> DEFINE s == DDLStatements[at]
  <2>1. sdb' = [sdb EXCEPT ![s.variant] =
                     IF s.what = "functions" THEN [sdb[s.variant] EXCEPT !.funcs = b]
                     ELSE NewTables(sdb[s.variant], b)]
    BY Zenon DEF ExecDDL, NewTables
  <2>2. s.what # "functions" /\ s.variant = x
    BY <1>3
  <2> HIDE DEF s, x
  <2> QED BY ONLY <2>1, <2>2
<1>5. at < Len(DDLStatements) /\ at + 1 <= 4
  BY ONLY <1>1, <1>3, VariantFacts, snode[n].at <= Len(Variants)
<1>6. snode' = [snode EXCEPT ![n].at = @ + 1]
  BY <1>5, Zenon DEF ExecDDL
<1>7. PICK r \in SchemaNode : snode' = [snode EXCEPT ![n] = r] /\ r.bin = b /\ r.pc = "ddl"
  <2>1. /\ snode' = [snode EXCEPT ![n] = NextAt(n)] /\ NextAt(n) \in SchemaNode
        /\ NextAt(n).pc = snode[n].pc /\ NextAt(n).bin = snode[n].bin
    BY ONLY SchemaInv, n \in SNodes, <1>5, <1>6, NextAtRecord
  <2> QED BY ONLY <2>1, <1>1, Zenon
<1>8. PICK t : t = NewTables(sdb[x], b)
  OBVIOUS
<1> HIDE DEF x
<1>9. /\ t.shape = IF sdb[x].shape = 0 THEN b ELSE sdb[x].shape
      /\ t.row = IF sdb[x].row = 0 THEN 1 ELSE sdb[x].row
  BY <1>1, <1>2, <1>8, NewTablesFacts
<1>10. \A y \in VariantSet : y # x => sdb'[y] = sdb[y]
  BY <1>1, <1>4
<1>11. sdb'[x] = t
  BY <1>1, <1>2, <1>4, <1>8
<1>12. \A y \in VariantSet : sdb[y].row \in Nat /\ sdb[y].shape \in Nat
  BY <1>1 DEF Tables
<1>13. \A y \in VariantSet :
         /\ sdb'[y].row >= sdb[y].row /\ (sdb'[y].row = sdb[y].row \/ sdb'[y].row = 1)
         /\ (sdb[y].row = 0 <=> sdb[y].shape = 0) => (sdb'[y].row = 0 <=> sdb'[y].shape = 0)
         /\ sdb'[y].row \in Nat
  BY <1>1, <1>9, <1>10, <1>11, <1>12
<1>14. ~dropped => WholeRows(sdb')
  BY <1>1, <1>13, SchemaAssumption DEF BackInv, WholeRows
<1>15. ~dropped => Upgraded(r) \/ n \in fresh'
  BY <1>1, <1>7 DEF BackInv, SlowPath, Upgraded
<1> QED BY <1>1, <1>7, <1>13, <1>14, <1>15, VersionMove DEF RowsKept

\* A migration between two binaries is the one to the newest.
LEMMA MigrateBack ==
  ASSUME SchemaInv, BackInv, NEW n \in SNodes, Migrate(n)
  PROVE  BackInv' /\ (~dropped /\ MaxVersion <= 2 => RowsKept)
<1> DEFINE row == sdb[Active].row
           b == snode[n].bin
           d == Migrated(row + 1)
<1>1. /\ row \in Nat /\ b \in Nat /\ UNCHANGED <<skind, dropped, fresh>> /\ snode[n].pc = "migrate"
      /\ b <= MaxVersion /\ MaxVersion \in Nat /\ OnlyFresh(n)
  BY DbTypes DEF Migrate, OnlyFresh
<1>2. ~dropped => Upgraded(snode[n]) \/ n \in fresh'
  BY <1>1 DEF BackInv, SlowPath
<1>3. CASE row = 0 \/ row >= b \/ ~\A x \in VariantSet : sdb[x].shape # 0 /\ sdb[x].row # 0
  <2>1. UNCHANGED sdb /\ (Goto(n, IF row > b THEN "refused" ELSE "ddl") \/ Goto(n, "down"))
    BY <1>3, Zenon DEF Migrate
  <2>2. PICK pc \in SchemaPCs : Goto(n, pc) /\ pc \in {"refused", "ddl", "down"}
    BY <2>1 DEF SchemaPCs
  <2> QED BY <2>1, <2>2, <1>1, <1>2, QuietGoto
<1>4. CASE ~(row = 0 \/ row >= b) /\ \A x \in VariantSet : sdb[x].shape # 0 /\ sdb[x].row # 0
  <2>1. sdb' = d /\ snode' = snode
    BY <1>4, Zenon DEF Migrate
  <2>2. \A x \in VariantSet : d[x] = Raised(sdb[x], row + 1) /\ sdb[x] \in Tables
    BY DEF Migrated, Raised, SchemaInv, SchemaTypes
  <2>3. row + 1 \in Nat /\ row + 1 <= MaxVersion /\ row >= 1
    BY <1>1, <1>4
  <2>4. ASSUME NEW x \in VariantSet PROVE sdb'[x].row = row + 1 /\ sdb'[x].shape # 0
    <3>0. sdb'[x] = d[x]
      BY <2>1
    <3> HIDE DEF d, row
    <3>1. d[x] \in Tables /\ d[x].row = row + 1 /\ d[x].shape >= row + 1
      BY <2>2, <2>3, RaisedTables
    <3>2. d[x].shape \in Nat
      BY <3>1 DEF Tables
    <3> QED BY <3>0, <3>1, <3>2, <2>3, <1>1
  <2> HIDE DEF d
  <2>5. WholeRows(sdb')
    BY <2>3, <2>4, <1>1 DEF WholeRows
  <2>6. snode[n] \in SchemaNode /\ snode' = [snode EXCEPT ![n] = snode[n]]
    BY <2>1 DEF SchemaInv, SchemaTypes
  <2>7. BackInv'
    BY <2>5, <2>6, <1>1, <1>2, VersionMove
  <2>8. ASSUME ~dropped, MaxVersion <= 2 PROVE RowsKept
    <3>1. \A x \in VariantSet : sdb[x].row \in Nat /\ sdb[x].row <= MaxVersion
      BY <2>8 DEF BackInv, WholeRows, SchemaInv, SchemaTypes, Tables
    <3> QED BY <3>1, <2>3, <2>4, <2>8, <1>1 DEF RowsKept
  <2> QED BY <2>7, <2>8
<1> QED BY <1>3, <1>4

\* An older binary that installed the schema and is about to write its version.
OldInstaller == \E n \in fresh : snode[n].pc = "version" /\ snode[n].bin < MaxVersion

LEMMA SetVersionBack ==
  ASSUME SchemaInv, BackInv, NEW n \in SNodes, SetVersion(n)
  PROVE  BackInv' /\ (~dropped /\ MaxVersion <= 2 => RowsKept \/ OldInstaller)
<1> DEFINE at == snode[n].at
           b == snode[n].bin
           x == Variants[at]
           to == IF sdb[x].row = 0 THEN 0 ELSE b
<1>1. /\ b \in Nat /\ b >= 1 /\ b <= MaxVersion /\ MaxVersion \in Nat
      /\ at \in 1 .. 4 /\ at <= Len(Variants) /\ snode[n].pc = "version"
      /\ sdb \in [VariantSet -> Tables] /\ UNCHANGED <<skind, dropped>> /\ OnlyFresh(n)
  BY DbTypes DEF SetVersion, SchemaInv, SchemaTypes, AtStatement, OnlyFresh
<1>2. x \in VariantSet /\ at \in DOMAIN Variants
  BY <1>1, VariantFacts
<1>3. sdb' = [sdb EXCEPT ![x] = [sdb[x] EXCEPT !.row = to]]
  BY <1>1, <1>2 DEF SetVersion
<1>4. PICK t : t = [sdb[x] EXCEPT !.row = to]
  OBVIOUS
<1>5. PICK r \in SchemaNode :
        /\ snode' = [snode EXCEPT ![n] = r] /\ r.bin = b
        /\ (r.pc = "version" /\ fresh' = fresh) \/ r.pc = "serving"
  <2>1. CASE at < Len(Variants)
    <3>1. snode' = [snode EXCEPT ![n].at = @ + 1] /\ fresh' = fresh
      BY <2>1 DEF SetVersion
    <3>2. at + 1 <= 4
      BY <1>1, <2>1, VariantFacts
    <3>8. /\ snode' = [snode EXCEPT ![n] = NextAt(n)] /\ NextAt(n) \in SchemaNode
          /\ NextAt(n).pc = snode[n].pc /\ NextAt(n).bin = snode[n].bin
      BY ONLY SchemaInv, n \in SNodes, <3>1, <3>2, NextAtRecord
    <3> QED BY ONLY <3>1, <3>8, <1>1, Zenon
  <2>2. CASE ~(at < Len(Variants))
    <3>1. Goto(n, "serving") /\ "serving" \in SchemaPCs
      BY <2>2 DEF SetVersion, SchemaPCs
    <3> QED BY <3>1, GotoRecord
  <2> QED BY <2>1, <2>2
<1>6. ~dropped => Upgraded(snode[n]) \/ n \in fresh
  BY <1>1 DEF BackInv, SlowPath
<1>7. to = 0 <=> sdb[x].row = 0
  BY <1>1
<1>8. to # 0 => to = b
  OBVIOUS
<1> HIDE DEF x, to
<1>9. t.row = to /\ t.shape = sdb[x].shape
  BY <1>1, <1>2, <1>4 DEF Tables
<1>10. \A y \in VariantSet : sdb'[y] = IF y = x THEN t ELSE sdb[y]
  BY <1>1, <1>2, <1>3, <1>4
<1>11. \A y \in VariantSet : sdb[y].row \in Nat /\ sdb[y].shape \in Nat
  BY <1>1 DEF Tables
<1>12. \A y \in VariantSet : sdb'[y].shape = sdb[y].shape /\ sdb'[y].row = IF y = x THEN to ELSE sdb[y].row
  BY <1>9, <1>10
<1>13. ~dropped => WholeRows(sdb')
  <2> SUFFICES ASSUME ~dropped, NEW y \in VariantSet
               PROVE  sdb'[y].row <= MaxVersion /\ (sdb'[y].row = 0 <=> sdb'[y].shape = 0)
    BY DEF WholeRows
  <2>1. sdb[y].row <= MaxVersion /\ (sdb[y].row = 0 <=> sdb[y].shape = 0)
    BY DEF BackInv, WholeRows
  <2> QED BY <2>1, <1>1, <1>7, <1>8, <1>12
<1>14. BackInv'
  <2>1. ~dropped => (r.pc \in SlowPath => Upgraded(r) \/ n \in fresh')
    BY <1>5, <1>6 DEF SlowPath, Upgraded
  <2> QED BY <2>1, <1>1, <1>5, <1>13, VersionMove
<1>15. ASSUME ~dropped, MaxVersion <= 2, ~OldInstaller PROVE RowsKept
  <2>1. b = MaxVersion
    <3>1. n \in fresh => ~(b < MaxVersion)
      BY <1>1, <1>15 DEF OldInstaller
    <3>2. Upgraded(snode[n]) => b = MaxVersion
      BY <1>1, <1>15 DEF Upgraded
    <3> QED BY <3>1, <3>2, <1>1, <1>6, <1>15
  <2>2. \A y \in VariantSet : sdb[y].row <= MaxVersion
    BY <1>15 DEF BackInv, WholeRows
  <2>3. \A y \in VariantSet : sdb'[y].row >= sdb[y].row
    BY <2>1, <2>2, <1>1, <1>7, <1>8, <1>11, <1>12
  <2> QED BY <2>3 DEF RowsKept
<1> QED BY <1>14, <1>15

LEMMA BackInvNext ==
  ASSUME SchemaInv, BackInv, [SchemaNext]_schema
  PROVE  /\ BackInv' /\ (dropped => dropped')
         /\ ~dropped' /\ MaxVersion <= 2 => RowsKept \/ OldInstaller
<1>1. CASE DropTable
  BY <1>1 DEF DropTable, BackInv
<1>2. ASSUME NEW n \in SNodes,
             \/ StartNode(n) \/ FailNode(n) \/ LockMigrations(n) \/ VerifyShape(n)
             \/ InitialPartitions(n) \/ ReadVersion(n) \/ Probe(n) \/ Upgrade(n)
      PROVE  BackInv' /\ RowsKept /\ UNCHANGED dropped
  <2>1. UNCHANGED dropped
    BY <1>2 DEF StartNode, FailNode, LockMigrations, VerifyShape, InitialPartitions, ReadVersion,
                Probe, Upgrade
  <2> QED BY <1>2, <2>1, OtherLabelsBack, ReadVersionBack, UpgradeBack
<1>3. ASSUME NEW n \in SNodes, ExecDDL(n) \/ ReconcileShardLock(n)
      PROVE  BackInv' /\ RowsKept /\ UNCHANGED dropped
  <2>1. UNCHANGED dropped
    BY <1>3, Zenon DEF ExecDDL, ReconcileShardLock
  <2>2. snode[n].at <= Len(Variants) \/ snode[n].at > Len(Variants)
    BY DbTypes, VariantFacts
  <2> QED BY ONLY SchemaInv, BackInv, n \in SNodes, <1>3, <2>1, <2>2, ExecTablesBack, ExecFunctionsBack, ReconcileBack
<1>4. ASSUME NEW n \in SNodes, Migrate(n) \/ SetVersion(n)
      PROVE  /\ BackInv' /\ UNCHANGED dropped
             /\ ~dropped /\ MaxVersion <= 2 => RowsKept \/ OldInstaller
  <2>1. UNCHANGED dropped
    BY <1>4 DEF Migrate, SetVersion
  <2> QED BY <1>4, <2>1, MigrateBack, SetVersionBack
<1>5. CASE UNCHANGED schema
  <2>1. UNCHANGED <<skind, sdb, snode, dropped, fresh>>
    BY <1>5 DEF schema
  <2>2. VariantSet' = VariantSet
    BY <2>1 DEF VariantSet, Variants
  <2> QED BY <2>1, <2>2, SameRows DEF BackInv, WholeRows
<1> QED BY <1>1, <1>2, <1>3, <1>4, <1>5 DEF SchemaNext

\* Between two binaries no version row goes back, whatever any number of nodes
\* of both do at the same time, on an empty or an installed database, and
\* whatever fails - but for the unconditional SetVersion of an older binary
\* that installed the schema.
THEOREM VersionsNeverBack == SchemaSpec => VersionNeverBack
<1>1. SchemaInit => SchemaInv /\ BackInv
  BY SchemaInvInit, BackInvInit
<1>2. SchemaInv /\ BackInv /\ [SchemaNext]_schema => (SchemaInv /\ BackInv)'
  BY SchemaInvNext, BackInvNext
<1>3. SchemaInv /\ BackInv /\ [SchemaNext]_schema =>
        [~dropped' /\ MaxVersion <= 2 =>
            \/ \A x \in VariantSet : sdb'[x].row >= sdb[x].row
            \/ \E n \in fresh : snode[n].pc = "version" /\ snode[n].bin < MaxVersion]_schema
  BY BackInvNext DEF RowsKept, OldInstaller
<1> QED BY <1>1, <1>2, <1>3, PTL DEF SchemaSpec, VersionNeverBack

-----------------------------------------------------------------------------
(* The outbox of the controller and of the map broker on the nodes.        *)

Message == [to: ONodes \cup {"all"}, shard: OShards, st: {"open", "committed", "aborted"},
            off: Nat, at: SUBSET ONodes]
OutboxNode == [pc: {"off", "up", "closed"}, base: Nat, cur: [OShards -> Nat]]

OutboxTypes ==
    /\ msgs \in Seq(Message) /\ Len(msgs) <= MaxMsgs
    /\ onode \in [ONodes -> OutboxNode]
    /\ \A n \in ONodes : /\ onode[n].base <= Len(msgs)
                         /\ \A s \in OShards : onode[n].cur[s] <= Len(msgs)
    /\ handled \in [ONodes -> [1 .. MaxMsgs -> Nat]]
    /\ pos \in [ONodes -> [OShards -> Nat]]
    /\ oleader \in [OShards -> SUBSET ONodes]
    /\ okind # "fanout" => \A s \in OShards : oleader[s] = {}

\* The row lock of a shard: of its rows only the last may be open, so they
\* commit in the order of their ids, and the offsets follow them.
SerialInv ==
    \A i, j \in Ids : i < j /\ msgs[i].shard = msgs[j].shard => msgs[i].st # "open"
OffsetInv ==
    /\ \A s \in OShards : \A i \in CommittedIds(s) : msgs[i].off <= Top(s)
    /\ \A i, j \in Ids :
          /\ i < j /\ msgs[i].shard = msgs[j].shard
          /\ msgs[i].st = "committed" /\ msgs[j].st = "committed"
          => msgs[i].off < msgs[j].off

\* What a node has handed over once lies between its base and its cursor.
HandledInv ==
    \A n \in ONodes : \A i \in 1 .. MaxMsgs :
        /\ onode[n].pc = "off" \/ okind = "fanout" => handled[n][i] = 0
        /\ n \notin retried /\ handled[n][i] # 0 =>
              /\ handled[n][i] = 1 /\ i \in Ids /\ i > onode[n].base
              /\ i <= onode[n].cur[msgs[i].shard]

\* A row that was begun while the node was up is open only ahead of the
\* cursor, and behind it the subscribers have its offset.
CursorInv ==
    okind # "fanout" => \A n \in ONodes :
        /\ \A s \in OShards : onode[n].cur[s] >= onode[n].base
        /\ \A i \in Ids : n \in msgs[i].at =>
              /\ onode[n].pc # "off"
              /\ msgs[i].st = "open" => i > onode[n].cur[msgs[i].shard]
              /\ n \notin retried /\ msgs[i].st = "committed" /\ i <= onode[n].cur[msgs[i].shard]
                    => msgs[i].off <= pos[n][msgs[i].shard]

OutboxInv == OutboxTypes /\ SerialInv /\ OffsetInv /\ HandledInv /\ CursorInv

\* A set of numbers up to k has a greatest element.
LEMMA GreatestId ==
  ASSUME NEW k \in Nat, NEW S \in SUBSET (0 .. k), S # {}
  PROVE  Max(S) \in S /\ \A y \in S : y <= Max(S)
<1> DEFINE R == OpToRel(<, Nat)
           U == {u \in Nat : \A y \in S : y <= u}
<1>1. IsWellFoundedOn(R, Nat)
  BY NatLessThanWellFounded
<1>2. U \subseteq Nat /\ U # {}
  <2>1. k \in U
    OBVIOUS
  <2> QED BY <2>1
<1>3. PICK u \in U : \A y \in U : ~ (<<y, u>> \in R)
  BY <1>1, <1>2, WFMin
<1>4. u \in Nat /\ \A y \in S : y <= u
  OBVIOUS
<1>5. u \in S
  <2> SUFFICES ASSUME u \notin S PROVE FALSE
    OBVIOUS
  <2>0. PICK z : z \in S
    OBVIOUS
  <2>1. z \in Nat /\ z \in S
    BY <2>0
  <2>2. \A y \in S : y <= u - 1
    BY <1>4
  <2>3. u - 1 \in Nat
    BY <2>1, <2>2, <1>4
  <2>4. u - 1 \in U
    BY <2>2, <2>3
  <2>5. <<u - 1, u>> \in R
    BY <2>3, <1>4 DEF OpToRel
  <2> QED BY <2>4, <2>5, <1>3
<1>6. \E x \in S : \A y \in S : x >= y
  BY <1>4, <1>5
<1>7. Max(S) \in S /\ \A y \in S : Max(S) >= y
  BY <1>6 DEF Max
<1> QED BY <1>7

LEMMA MessageFacts ==
  ASSUME OutboxTypes
  PROVE  /\ Len(msgs) \in Nat /\ Ids = 1 .. Len(msgs) /\ MaxMsgs \in Nat /\ Len(msgs) <= MaxMsgs
         /\ \A i \in Ids : /\ msgs[i] \in Message /\ msgs[i].shard \in OShards /\ msgs[i].off \in Nat
                           /\ i \in Nat /\ i \in 1 .. MaxMsgs /\ i <= Len(msgs)
         /\ \A s \in OShards : /\ CommittedIds(s) \subseteq Ids /\ IsFiniteSet(CommittedIds(s))
                               /\ Top(s) \in Nat
<1>1. Len(msgs) \in Nat /\ Ids = 1 .. Len(msgs) /\ MaxMsgs \in Nat /\ Len(msgs) <= MaxMsgs
  BY OutboxAssumption DEF OutboxTypes, Ids
<1>2. \A i \in Ids : msgs[i] \in Message
  BY <1>1 DEF OutboxTypes
<1>3. IsFiniteSet(Ids)
  BY <1>1, FS_Interval
<1>4. \A s \in OShards : CommittedIds(s) \subseteq Ids
  BY DEF CommittedIds
<1>5. \A s \in OShards : IsFiniteSet(CommittedIds(s)) /\ Top(s) \in Nat
  BY <1>3, <1>4, FS_Subset, FS_CardinalityType DEF Top
<1> QED BY <1>1, <1>2, <1>4, <1>5 DEF Message

\* The batch of a worker: rows of its shard ahead of the cursor, without a gap.
LEMMA BatchFacts ==
  ASSUME OutboxTypes, NEW n \in ONodes, NEW s \in OShards, BatchOf(n, s) # {}
  PROVE  /\ BatchOf(n, s) \subseteq CommittedIds(s)
         /\ \A i \in BatchOf(n, s) : i > onode[n].cur[s] /\ i <= Max(BatchOf(n, s))
         /\ Max(BatchOf(n, s)) \in BatchOf(n, s)
         /\ \A i \in CommittedIds(s) :
               i > onode[n].cur[s] /\ i <= Max(BatchOf(n, s)) => i \in BatchOf(n, s)
<1> DEFINE behind == {i \in CommittedIds(s) : i > onode[n].cur[s]}
           before(i) == {j \in behind : j < i}
           B == BatchOf(n, s)
<1>1. B = {i \in behind : Cardinality(before(i)) < OBatch}
  BY DEF BatchOf
<1>2. B \subseteq CommittedIds(s) /\ \A i \in B : i > onode[n].cur[s]
  BY <1>1
<1>3. B \subseteq 0 .. Len(msgs) /\ Len(msgs) \in Nat /\ behind \subseteq Ids /\ IsFiniteSet(behind)
  <2>1. behind \subseteq CommittedIds(s)
    OBVIOUS
  <2> QED BY <1>2, <2>1, MessageFacts, FS_Subset
<1>4. Max(B) \in B /\ \A i \in B : i <= Max(B)
  <2> HIDE DEF B
  <2> QED BY <1>3, GreatestId DEF B
<1>5. ASSUME NEW i \in CommittedIds(s), i > onode[n].cur[s], i <= Max(B) PROVE i \in B
  <2>1. PICK m \in B : m = Max(B)
    BY <1>4
  <2>2. i \in behind /\ m \in behind /\ Cardinality(before(m)) < OBatch
    BY <1>1, <1>5
  <2>3. i \in Nat /\ m \in Nat /\ i <= m
    BY <2>1, <2>2, <1>3, <1>5, MessageFacts
  <2>4. before(i) \subseteq before(m) /\ IsFiniteSet(before(m))
    <3>1. \A j \in behind : j \in Nat
      BY <1>3, MessageFacts
    <3>2. before(m) \subseteq behind
      OBVIOUS
    <3>3. ASSUME NEW j \in behind, j < i PROVE j < m
      <4>1. j \in Nat
        BY <3>1
      <4> HIDE DEF behind
      <4> QED BY <4>1, <2>3, <3>3
    <3>4. before(i) \subseteq before(m)
      <4> HIDE DEF behind
      <4> QED BY <3>3, Zenon
    <3> HIDE DEF before, behind
    <3> QED BY <3>2, <3>4, <1>3, FS_Subset
  <2>5. Cardinality(before(i)) <= Cardinality(before(m)) /\ IsFiniteSet(before(i))
    <3> HIDE DEF before
    <3> QED BY <2>4, FS_Subset
  <2>6. Cardinality(before(i)) \in Nat /\ Cardinality(before(m)) \in Nat
    <3> HIDE DEF before
    <3> QED BY <2>4, <2>5, FS_CardinalityType
  <2>7. Cardinality(before(i)) < OBatch
    <3> HIDE DEF before
    <3> QED BY <2>2, <2>5, <2>6, OutboxAssumption
  <2> QED BY <2>2, <2>7, <1>1
<1> QED BY <1>2, <1>4, <1>5

LEMMA OutboxInvInit == OutboxInit => OutboxInv
<1> SUFFICES ASSUME OutboxInit PROVE OutboxInv
  OBVIOUS
<1>1. msgs = <<>> /\ Len(msgs) = 0 /\ Ids = {}
  BY DEF OutboxInit, Ids
<1>2. OutboxTypes
  BY <1>1, OutboxAssumption DEF OutboxInit, OutboxTypes, OutboxNode
<1>3. HandledInv
  BY OutboxAssumption DEF OutboxInit, HandledInv
<1>4. CursorInv
  BY <1>1 DEF OutboxInit, CursorInv
<1> QED BY <1>1, <1>2, <1>3, <1>4 DEF OutboxInv, SerialInv, OffsetInv, CommittedIds

\* The cursor of one worker moves.
CursorMove(n, s, v) ==
    /\ onode' \in [ONodes -> OutboxNode]
    /\ \A m \in ONodes : /\ onode'[m].pc = onode[m].pc /\ onode'[m].base = onode[m].base
                         /\ \A t \in OShards :
                               onode'[m].cur[t] = IF m = n /\ t = s THEN v ELSE onode[m].cur[t]

LEMMA CursorMoves ==
  ASSUME OutboxTypes, NEW n \in ONodes, NEW s \in OShards, NEW v \in Nat,
         onode' = [onode EXCEPT ![n].cur[s] = v]
  PROVE  CursorMove(n, s, v)
<1>1. onode \in [ONodes -> OutboxNode] /\ onode[n] \in OutboxNode
  BY DEF OutboxTypes
<1>2. PICK c : c = [onode[n].cur EXCEPT ![s] = v]
  OBVIOUS
<1>3. c \in [OShards -> Nat] /\ \A t \in OShards : c[t] = IF t = s THEN v ELSE onode[n].cur[t]
  BY <1>1, <1>2 DEF OutboxNode
<1>4. PICK r : r = [pc |-> onode[n].pc, base |-> onode[n].base, cur |-> c]
  OBVIOUS
<1>5. r \in OutboxNode /\ r.pc = onode[n].pc /\ r.base = onode[n].base /\ r.cur = c
  BY <1>1, <1>3, <1>4 DEF OutboxNode
<1>6. onode' = [onode EXCEPT ![n] = r]
  <2>1. onode' = [onode EXCEPT ![n] = [onode[n] EXCEPT !.cur = c]]
    BY <1>1, <1>2
  <2>2. [onode[n] EXCEPT !.cur = c] = r
    BY <1>1, <1>4 DEF OutboxNode
  <2> QED BY <2>1, <2>2
<1>7. \A m \in ONodes : onode'[m] = IF m = n THEN r ELSE onode[m]
  BY <1>1, <1>6
<1> QED BY <1>1, <1>3, <1>5, <1>6, <1>7 DEF CursorMove

\* The node hands rows over.
LEMMA HandsOver ==
  ASSUME OutboxTypes, NEW n \in ONodes, NEW B, handled' = HandOver(n, B)
  PROVE  /\ handled' \in [ONodes -> [1 .. MaxMsgs -> Nat]]
         /\ \A m \in ONodes : \A i \in 1 .. MaxMsgs :
               handled'[m][i] = IF m = n /\ i \in For(n, B) THEN handled[m][i] + 1 ELSE handled[m][i]
<1>1. handled \in [ONodes -> [1 .. MaxMsgs -> Nat]]
  BY DEF OutboxTypes
<1>2. PICK h : h = [i \in 1 .. MaxMsgs |-> IF i \in For(n, B) THEN handled[n][i] + 1 ELSE handled[n][i]]
  OBVIOUS
<1>3. handled' = [handled EXCEPT ![n] = h]
  BY <1>1, <1>2 DEF HandOver
<1>4. /\ h \in [1 .. MaxMsgs -> Nat]
      /\ \A i \in 1 .. MaxMsgs : h[i] = IF i \in For(n, B) THEN handled[n][i] + 1 ELSE handled[n][i]
  <2>1. PICK g \in [1 .. MaxMsgs -> Nat] : g = handled[n]
    BY <1>1
  <2>2. \A i \in 1 .. MaxMsgs : g[i] \in Nat /\ g[i] + 1 \in Nat
    OBVIOUS
  <2>3. h = [i \in 1 .. MaxMsgs |-> IF i \in For(n, B) THEN g[i] + 1 ELSE g[i]]
    BY <2>1, <1>2
  <2> QED BY <2>1, <2>2, <2>3
<1>5. \A m \in ONodes : handled'[m] = IF m = n THEN h ELSE handled[m]
  BY <1>1, <1>3
<1> QED BY <1>1, <1>3, <1>4, <1>5

\* Steps that leave the table alone keep its order.
LEMMA SameTable ==
  ASSUME SerialInv, OffsetInv, UNCHANGED msgs
  PROVE  /\ SerialInv' /\ OffsetInv' /\ Ids' = Ids
         /\ \A s \in OShards : CommittedIds(s)' = CommittedIds(s) /\ Top(s)' = Top(s)
BY DEF SerialInv, OffsetInv, Ids, CommittedIds, Top

LEMMA HandedRowsOrder ==
  ASSUME OutboxInv, NEW n \in ONodes, NEW s \in OShards, Polls(n, s), BatchOf(n, s) # {},
         handled' = HandOver(n, BatchOf(n, s)), CursorMove(n, s, Max(BatchOf(n, s))),
         UNCHANGED <<okind, msgs, retried>>
  PROVE  HandledInv'
<1> DEFINE B == BatchOf(n, s)
           v == Max(B)
<1>1. /\ handled \in [ONodes -> [1 .. MaxMsgs -> Nat]] /\ onode \in [ONodes -> OutboxNode]
      /\ onode[n].cur[s] \in Nat
  BY DEF OutboxInv, OutboxTypes, OutboxNode
<1>2. /\ B \subseteq CommittedIds(s) /\ v \in B
      /\ \A i \in B : i > onode[n].cur[s] /\ i <= v
  BY BatchFacts DEF OutboxInv
<1>3. \A i \in B : i \in Ids /\ msgs[i].shard = s /\ i \in Nat
  BY <1>2, MessageFacts DEF CommittedIds, OutboxInv
<1>4. v \in Nat /\ v > onode[n].cur[s]
  BY <1>2, <1>3
<1>5. \A m \in ONodes : \A i \in 1 .. MaxMsgs :
         handled'[m][i] = IF m = n /\ i \in For(n, B) THEN handled[m][i] + 1 ELSE handled[m][i]
  BY HandsOver DEF OutboxInv
<1>6. Ids' = Ids
  BY DEF Ids
<1>7. For(n, B) \subseteq B /\ (okind = "fanout" => For(n, B) = {})
  BY DEF For
<1> SUFFICES ASSUME NEW m \in ONodes, NEW i \in 1 .. MaxMsgs
             PROVE  /\ onode[m].pc = "off" \/ okind = "fanout" => handled'[m][i] = 0
                    /\ m \notin retried /\ handled'[m][i] # 0 =>
                          /\ handled'[m][i] = 1 /\ i \in Ids /\ i > onode'[m].base
                          /\ i <= onode'[m].cur[msgs[i].shard]
  BY <1>6 DEF HandledInv, CursorMove
<1>8. /\ onode'[m].pc = onode[m].pc /\ onode'[m].base = onode[m].base
      /\ \A t \in OShards : onode'[m].cur[t] = IF m = n /\ t = s THEN v ELSE onode[m].cur[t]
  BY DEF CursorMove
<1>9. /\ onode[m].pc = "off" \/ okind = "fanout" => handled[m][i] = 0
      /\ m \notin retried /\ handled[m][i] # 0 =>
            /\ handled[m][i] = 1 /\ i \in Ids /\ i > onode[m].base
            /\ i <= onode[m].cur[msgs[i].shard]
  BY DEF OutboxInv, HandledInv
<1>10. handled[m][i] \in Nat /\ i \in Nat /\ \A t \in OShards : onode[m].cur[t] \in Nat
  <2>1. handled[m][i] \in Nat
    BY <1>1
  <2>2. onode[m].cur \in [OShards -> Nat]
    BY <1>1 DEF OutboxNode
  <2> QED BY <2>1, <2>2
<1>11. CASE m = n /\ i \in For(n, B)
  <2>1. i \in B /\ i \in Ids /\ msgs[i].shard = s /\ okind # "fanout" /\ onode[n].pc = "up"
    BY <1>3, <1>7, <1>11 DEF Polls
  <2>2. i > onode[n].cur[s] /\ onode[n].cur[s] >= onode[n].base /\ onode[n].base \in Nat
    BY <2>1, <1>1, <1>2 DEF OutboxInv, CursorInv, OutboxNode
  <2>3. i > onode[n].base
    BY <2>2, <1>1, <1>10
  <2>4. m \notin retried => handled[m][i] = 0
    BY <2>1, <2>2, <1>1, <1>9, <1>10, <1>11
  <2>5. handled'[m][i] = handled[m][i] + 1
    BY <1>5, <1>11
  <2> QED BY <2>1, <2>3, <2>4, <2>5, <1>2, <1>8, <1>10, <1>11
<1>12. CASE ~(m = n /\ i \in For(n, B))
  <2>1. handled'[m][i] = handled[m][i]
    BY <1>5, <1>12
  <2>2. i \in Ids => msgs[i].shard \in OShards
    BY MessageFacts DEF OutboxInv
  <2>3. i \in Ids /\ i <= onode[m].cur[msgs[i].shard] => i <= onode'[m].cur[msgs[i].shard]
    <3>1. SUFFICES ASSUME i \in Ids, i <= onode[m].cur[msgs[i].shard]
                   PROVE  i <= onode'[m].cur[msgs[i].shard]
      OBVIOUS
    <3>2. PICK t \in OShards : t = msgs[i].shard
      BY <2>2, <3>1
    <3>3. PICK x, y : x = onode[m].cur[t] /\ y = onode'[m].cur[t]
      OBVIOUS
    <3>4. x \in Nat /\ y = IF m = n /\ t = s THEN v ELSE x
      BY ONLY <3>2, <3>3, <1>8, <1>10, Zenon
    <3>5. v \in Nat /\ (m = n /\ t = s => v > x)
      BY ONLY <3>3, <1>4
    <3> HIDE DEF v
    <3>6. i \in Nat /\ i <= x
      BY ONLY <3>1, <3>2, <3>3, <1>10
    <3>7. i <= y
      BY ONLY <3>4, <3>5, <3>6
    <3> QED BY ONLY <3>2, <3>3, <3>7, Zenon
  <2> QED BY <2>1, <2>3, <1>8, <1>9
<1> QED BY <1>11, <1>12

\* What a subscriber takes brings it at least to the last row of the batch.
LEMMA TakenFacts ==
  ASSUME OutboxInv, NEW n \in ONodes, NEW s \in OShards, BatchOf(n, s) # {}, NEW p \in Nat
  PROVE  /\ Taken(p, s, BatchOf(n, s)) \in Nat
         /\ msgs[Max(BatchOf(n, s))].off <= Taken(p, s, BatchOf(n, s))
<1>1. PICK v : v = Max(BatchOf(n, s))
  OBVIOUS
<1>2. v \in CommittedIds(s) /\ v \in Ids /\ msgs[v].shard = s /\ msgs[v].st = "committed"
  BY <1>1, BatchFacts DEF OutboxInv, CommittedIds
<1>3. msgs[v].off \in Nat /\ Top(s) \in Nat
  BY <1>2, MessageFacts DEF OutboxInv
<1>4. msgs[v].off <= Top(s)
  BY <1>2 DEF OutboxInv, OffsetInv
<1>5. Taken(p, s, BatchOf(n, s)) \in {Top(s), IF msgs[v].off > p THEN msgs[v].off ELSE p}
  BY <1>1 DEF Taken
<1> QED BY <1>1, <1>3, <1>4, <1>5

LEMMA DeliverInv ==
  ASSUME OutboxInv, NEW n \in ONodes, NEW s \in OShards, DeliverBatch(n, s)
  PROVE  OutboxInv'
<1> DEFINE B == BatchOf(n, s)
           v == Max(B)
<1>1. /\ Polls(n, s) /\ B # {} /\ handled' = HandOver(n, B)
      /\ pos' = [m \in ONodes |-> IF m \in FannedTo(n) THEN [pos[m] EXCEPT ![s] = Taken(@, s, B)] ELSE pos[m]]
      /\ onode' = [onode EXCEPT ![n].cur[s] = v]
      /\ UNCHANGED <<okind, msgs, oleader, ofaults, retried>>
  BY DEF DeliverBatch
<1>2. /\ OutboxTypes /\ SerialInv /\ OffsetInv /\ HandledInv /\ CursorInv
      /\ pos \in [ONodes -> [OShards -> Nat]] /\ onode \in [ONodes -> OutboxNode]
  BY DEF OutboxInv, OutboxTypes
<1>3. /\ B \subseteq CommittedIds(s) /\ v \in B
      /\ \A i \in B : i > onode[n].cur[s] /\ i <= v
  BY <1>1, <1>2, BatchFacts
<1>4. v \in Ids /\ v \in Nat /\ v <= Len(msgs) /\ msgs[v].shard = s /\ msgs[v].st = "committed"
  BY <1>2, <1>3, MessageFacts DEF CommittedIds
<1> HIDE DEF B, v
<1>5. CursorMove(n, s, v)
  BY <1>1, <1>2, <1>4, CursorMoves
<1>6. /\ SerialInv' /\ OffsetInv' /\ Ids' = Ids
  BY <1>1, <1>2, SameTable
<1>7. HandledInv'
  BY <1>1, <1>5, HandedRowsOrder DEF B, v
<1>8. \A p \in Nat : Taken(p, s, B) \in Nat /\ msgs[v].off <= Taken(p, s, B)
  BY <1>1, TakenFacts DEF B, v
<1>9. /\ pos' \in [ONodes -> [OShards -> Nat]]
      /\ \A m \in ONodes : \A t \in OShards :
            pos'[m][t] = IF m \in FannedTo(n) /\ t = s THEN Taken(pos[m][s], s, B) ELSE pos[m][t]
  <2>1. ASSUME NEW m \in ONodes
        PROVE  /\ pos'[m] \in [OShards -> Nat]
               /\ \A t \in OShards :
                     pos'[m][t] = IF m \in FannedTo(n) /\ t = s THEN Taken(pos[m][s], s, B) ELSE pos[m][t]
    <3>1. PICK q \in [OShards -> Nat] : q = pos[m]
      BY <1>2
    <3>2. PICK w \in Nat : w = Taken(q[s], s, B)
      BY <1>8
    <3>3. pos'[m] = IF m \in FannedTo(n) THEN [q EXCEPT ![s] = w] ELSE q
      BY <1>1, <3>1, <3>2
    <3> QED BY <3>1, <3>2, <3>3
  <2>2. pos' = [m \in ONodes |-> pos'[m]]
    BY <1>1
  <2> QED BY <2>1, <2>2
<1>10. OutboxTypes'
  <2>1. handled' \in [ONodes -> [1 .. MaxMsgs -> Nat]]
    BY <1>1, <1>2, HandsOver
  <2>2. \A m \in ONodes : /\ onode'[m].base <= Len(msgs)
                          /\ \A t \in OShards : onode'[m].cur[t] <= Len(msgs)
    <3>1. \A m \in ONodes : /\ onode[m].base <= Len(msgs)
                            /\ \A t \in OShards : onode[m].cur[t] <= Len(msgs)
      BY <1>2 DEF OutboxTypes
    <3> QED BY <3>1, <1>4, <1>5 DEF CursorMove
  <2> QED BY <2>1, <2>2, <1>1, <1>2, <1>5, <1>9 DEF OutboxTypes, CursorMove
<1>11. ASSUME okind # "fanout", NEW m \in ONodes
       PROVE  /\ \A t \in OShards : onode'[m].cur[t] >= onode'[m].base
              /\ \A i \in Ids : m \in msgs[i].at =>
                    /\ onode'[m].pc # "off"
                    /\ msgs[i].st = "open" => i > onode'[m].cur[msgs[i].shard]
                    /\ m \notin retried /\ msgs[i].st = "committed" /\ i <= onode'[m].cur[msgs[i].shard]
                          => msgs[i].off <= pos'[m][msgs[i].shard]
  <2>1. /\ \A t \in OShards : onode[m].cur[t] >= onode[m].base
        /\ \A i \in Ids : m \in msgs[i].at =>
              /\ onode[m].pc # "off"
              /\ msgs[i].st = "open" => i > onode[m].cur[msgs[i].shard]
              /\ m \notin retried /\ msgs[i].st = "committed" /\ i <= onode[m].cur[msgs[i].shard]
                    => msgs[i].off <= pos[m][msgs[i].shard]
    BY <1>2, <1>11 DEF CursorInv
  <2>2. FannedTo(n) = {n}
    BY <1>11 DEF FannedTo
  <2>3. CASE m # n
    <3>1. /\ onode'[m].pc = onode[m].pc /\ onode'[m].base = onode[m].base
          /\ \A t \in OShards : onode'[m].cur[t] = onode[m].cur[t]
      BY ONLY <2>3, <1>5, m \in ONodes DEF CursorMove
    <3>2. \A t \in OShards : pos'[m][t] = pos[m][t]
      BY <2>2, <2>3, <1>9, Zenon
    <3>3. \A i \in Ids : msgs[i].shard \in OShards
      BY <1>2, MessageFacts
    <3>4. ASSUME NEW t \in OShards PROVE onode'[m].cur[t] >= onode'[m].base
      BY ONLY <2>1, <3>1, t \in OShards, Zenon
    <3>5. ASSUME NEW i \in Ids, m \in msgs[i].at
          PROVE  /\ onode'[m].pc # "off"
                 /\ msgs[i].st = "open" => i > onode'[m].cur[msgs[i].shard]
                 /\ m \notin retried /\ msgs[i].st = "committed" /\ i <= onode'[m].cur[msgs[i].shard]
                       => msgs[i].off <= pos'[m][msgs[i].shard]
      <4>1. /\ onode'[m].cur[msgs[i].shard] = onode[m].cur[msgs[i].shard]
            /\ pos'[m][msgs[i].shard] = pos[m][msgs[i].shard]
        BY ONLY <3>1, <3>2, <3>3, i \in Ids, Zenon
      <4> QED BY ONLY <2>1, <3>1, <3>5, <4>1, i \in Ids, Zenon
    <3> QED BY ONLY <3>4, <3>5, Zenon
  <2>4. CASE m = n
    <3>1. v > onode[n].cur[s] /\ onode[n].cur[s] \in Nat /\ onode[n].base \in Nat
      BY <1>2, <1>3 DEF OutboxNode
    <3>2. \A t \in OShards : onode'[m].cur[t] = IF t = s THEN v ELSE onode[m].cur[t]
      BY <2>4, <1>5 DEF CursorMove
    <3>3. \A t \in OShards : onode'[m].cur[t] >= onode'[m].base
      BY <3>1, <3>2, <2>1, <2>4, <1>4, <1>5 DEF CursorMove
    <3>4. ASSUME NEW i \in Ids, m \in msgs[i].at
          PROVE  /\ onode'[m].pc # "off"
                 /\ msgs[i].st = "open" => i > onode'[m].cur[msgs[i].shard]
                 /\ m \notin retried /\ msgs[i].st = "committed" /\ i <= onode'[m].cur[msgs[i].shard]
                       => msgs[i].off <= pos'[m][msgs[i].shard]
      <4>1. i \in Nat /\ msgs[i].shard \in OShards /\ msgs[i].off \in Nat
        BY <1>2, MessageFacts
      <4>2. onode'[m].pc # "off"
        BY <2>1, <3>4, <1>5 DEF CursorMove
      <4>3. CASE msgs[i].shard # s
        BY <4>1, <4>2, <4>3, <3>2, <3>4, <2>1, <1>9
      <4>4. CASE msgs[i].shard = s
        <5>1. msgs[i].st = "open" => i > v
          <6>1. i < v => msgs[i].st # "open"
            <7>1. msgs[i].shard = msgs[v].shard
              BY <4>4, <1>4
            <7> QED BY <7>1, <3>4, <1>2, <1>4, Zenon DEF SerialInv
          <6>2. msgs[i].st = "open" => i # v
            BY <1>4
          <6>3. i < v \/ i = v \/ i > v
            BY <4>1, <1>4
          <6> QED BY <6>1, <6>2, <6>3
        <5>2. msgs[i].st = "committed" /\ i <= v => msgs[i].off <= msgs[v].off
          <6>1. msgs[i].st = "committed" /\ i < v => msgs[i].off < msgs[v].off
            BY <4>4, <1>2, <1>4 DEF OffsetInv
          <6>2. i <= v => i < v \/ i = v
            BY <4>1, <1>4
          <6>3. msgs[v].off \in Nat
            BY <1>2, <1>4, MessageFacts
          <6> QED BY <6>1, <6>2, <6>3, <4>1
        <5>3. pos[m][s] \in Nat /\ pos'[m][s] = Taken(pos[m][s], s, B)
          BY <1>2, <1>9, <2>2, <2>4
        <5>4. msgs[v].off <= pos'[m][s] /\ pos'[m][s] \in Nat /\ msgs[v].off \in Nat
          BY <5>3, <1>2, <1>4, <1>8, <1>9, MessageFacts
        <5>5. onode'[m].cur[s] = v
          BY <3>2
        <5> QED BY <5>1, <5>2, <5>4, <5>5, <4>1, <4>2, <4>4
      <4> QED BY <4>3, <4>4
    <3> QED BY <3>3, <3>4
  <2> QED BY <2>3, <2>4
<1>12. CursorInv'
  BY <1>1, <1>6, <1>11 DEF CursorInv
<1> QED BY <1>6, <1>7, <1>10, <1>12 DEF OutboxInv

\* Steps of the nodes that hand nothing over.
LEMMA QuietOutbox ==
  ASSUME OutboxInv, UNCHANGED <<okind, msgs, handled>>, OutboxTypes',
         \A m \in ONodes :
            /\ m \in retried => m \in retried'
            /\ onode[m].pc = "off" <=> onode'[m].pc = "off"
            /\ okind # "fanout" =>
                  /\ onode'[m].base = onode[m].base
                  /\ \A s \in OShards : /\ onode'[m].cur[s] = onode[m].cur[s]
                                         /\ pos'[m][s] = pos[m][s]
  PROVE  OutboxInv'
<1>1. SerialInv' /\ OffsetInv' /\ Ids' = Ids
  BY SameTable DEF OutboxInv
<1>2. \A i \in Ids : msgs[i].shard \in OShards
  BY MessageFacts DEF OutboxInv
<1>3. CursorInv'
  BY <1>1, <1>2 DEF OutboxInv, CursorInv
<1>4. HandledInv'
  <2> SUFFICES ASSUME NEW m \in ONodes, NEW i \in 1 .. MaxMsgs
               PROVE  /\ onode'[m].pc = "off" \/ okind = "fanout" => handled[m][i] = 0
                      /\ m \notin retried' /\ handled[m][i] # 0 =>
                            /\ handled[m][i] = 1 /\ i \in Ids /\ i > onode'[m].base
                            /\ i <= onode'[m].cur[msgs[i].shard]
    BY <1>1 DEF HandledInv
  <2>1. /\ onode[m].pc = "off" \/ okind = "fanout" => handled[m][i] = 0
        /\ m \notin retried /\ handled[m][i] # 0 =>
              /\ handled[m][i] = 1 /\ i \in Ids /\ i > onode[m].base
              /\ i <= onode[m].cur[msgs[i].shard]
    BY DEF OutboxInv, HandledInv
  <2> QED BY <2>1, <1>2
<1> QED BY <1>1, <1>3, <1>4 DEF OutboxInv

\* The newest row there is.
LEMMA MaxCommittedFacts ==
  ASSUME OutboxTypes
  PROVE  MaxCommitted \in Nat /\ MaxCommitted <= Len(msgs)
<1>1. {0} \cup UNION {CommittedIds(s) : s \in OShards} \subseteq 0 .. Len(msgs)
  BY MessageFacts
<1>2. Len(msgs) \in Nat
  BY MessageFacts
<1>3. PICK S : S = {0} \cup UNION {CommittedIds(s) : s \in OShards}
  OBVIOUS
<1>4. S \in SUBSET (0 .. Len(msgs)) /\ S # {}
  BY <1>1, <1>3
<1>5. Max(S) \in S
  BY <1>2, <1>4, GreatestId
<1>6. MaxCommitted = Max(S)
  BY <1>3 DEF MaxCommitted
<1>7. \A x \in S : x \in Nat /\ x <= Len(msgs)
  BY <1>2, <1>4
<1> QED BY <1>5, <1>6, <1>7

LEMMA FanoutQuiet ==
  ASSUME OutboxInv, NEW n \in ONodes, NEW s \in OShards,
         AcquireShard(n, s) \/ LoseShard(n, s) \/ FanoutLost(n, s) \/ PositionSync(n, s)
  PROVE  OutboxInv'
<1>1. /\ OutboxTypes /\ okind = "fanout" /\ UNCHANGED <<okind, msgs, handled, retried>>
      /\ oleader \in [OShards -> SUBSET ONodes] /\ onode \in [ONodes -> OutboxNode]
  BY DEF OutboxInv, OutboxTypes, AcquireShard, LoseShard, FanoutLost, PositionSync, ReliableDelivery
<1>2. oleader' \in [OShards -> SUBSET ONodes]
  BY <1>1 DEF AcquireShard, LoseShard, FanoutLost, PositionSync
<1>3. CASE PositionSync(n, s)
  <2>1. PICK w \in Nat : w = Top(s)
    BY <1>1, MessageFacts
  <2>2. pos' = [pos EXCEPT ![n][s] = w] /\ UNCHANGED onode
    BY <1>3, <2>1 DEF PositionSync
  <2>3. pos' \in [ONodes -> [OShards -> Nat]]
    BY <2>2, <1>1 DEF OutboxTypes
  <2>4. OutboxTypes'
    BY <2>2, <2>3, <1>1, <1>2 DEF OutboxTypes
  <2> QED BY <2>2, <2>4, <1>1, QuietOutbox
<1>4. CASE AcquireShard(n, s) \/ LoseShard(n, s) \/ FanoutLost(n, s)
  <2>1. PICK v \in Nat : onode' = [onode EXCEPT ![n].cur[s] = v] /\ v <= Len(msgs) /\ UNCHANGED pos
    <3>1. CASE AcquireShard(n, s)
      BY <3>1, <1>1, MaxCommittedFacts DEF AcquireShard
    <3>2. CASE LoseShard(n, s)
      <4>1. onode' = [onode EXCEPT ![n].cur[s] = 0] /\ UNCHANGED pos
        BY <3>2 DEF LoseShard
      <4>2. 0 \in Nat /\ 0 <= Len(msgs)
        BY <1>1, MessageFacts
      <4> QED BY <4>1, <4>2
    <3>3. CASE FanoutLost(n, s)
      <4>1. PICK v : v = Max(BatchOf(n, s)) /\ onode' = [onode EXCEPT ![n].cur[s] = v] /\ UNCHANGED pos
        BY <3>3 DEF FanoutLost
      <4>2. v \in CommittedIds(s)
        BY <4>1, <3>3, <1>1, BatchFacts DEF FanoutLost
      <4>3. v \in Nat /\ v <= Len(msgs)
        BY <4>2, <1>1, MessageFacts
      <4> QED BY <4>1, <4>3
    <3> QED BY <3>1, <3>2, <3>3, <1>4
  <2>2. CursorMove(n, s, v)
    BY <2>1, <1>1, CursorMoves
  <2>3. \A m \in ONodes : /\ onode'[m].base <= Len(msgs)
                          /\ \A t \in OShards : onode'[m].cur[t] <= Len(msgs)
    BY <2>1, <2>2, <1>1 DEF OutboxTypes, CursorMove
  <2>4. OutboxTypes'
    BY <2>1, <2>2, <2>3, <1>1, <1>2 DEF OutboxTypes, CursorMove
  <2> QED BY <2>2, <2>4, <1>1, QuietOutbox DEF CursorMove
<1> QED BY <1>3, <1>4

LEMMA CloseNodeInv ==
  ASSUME OutboxInv, NEW n \in ONodes, CloseNode(n)
  PROVE  OutboxInv'
<1>1. /\ OutboxTypes /\ onode \in [ONodes -> OutboxNode] /\ onode[n] \in OutboxNode
      /\ UNCHANGED <<okind, msgs, handled, pos, retried>> /\ onode[n].pc = "up"
  BY DEF OutboxInv, OutboxTypes, CloseNode
<1>2. PICK r : r = [pc |-> "closed", base |-> onode[n].base, cur |-> onode[n].cur]
  OBVIOUS
<1>3. onode' = [onode EXCEPT ![n] = r]
  <2>1. onode' = [onode EXCEPT ![n] = [onode[n] EXCEPT !.pc = "closed"]]
    BY <1>1 DEF CloseNode
  <2>2. [onode[n] EXCEPT !.pc = "closed"] = r
    BY <1>1, <1>2 DEF OutboxNode
  <2> QED BY <2>1, <2>2
<1>4. /\ r \in OutboxNode /\ r.pc = "closed" /\ r.base = onode[n].base /\ r.cur = onode[n].cur
  BY <1>1, <1>2 DEF OutboxNode
<1>5. \A m \in ONodes : onode'[m] = IF m = n THEN r ELSE onode[m]
  BY <1>1, <1>3
<1>6. /\ oleader' \in [OShards -> SUBSET ONodes]
      /\ okind # "fanout" => \A s \in OShards : oleader'[s] = {}
  BY <1>1 DEF CloseNode, OutboxTypes
<1>7. onode' \in [ONodes -> OutboxNode]
  BY <1>1, <1>3, <1>4
<1>8. \A m \in ONodes : /\ onode'[m].base = onode[m].base /\ onode'[m].cur = onode[m].cur
                        /\ onode[m].pc = "off" <=> onode'[m].pc = "off"
  BY <1>1, <1>4, <1>5
<1>9. OutboxTypes'
  BY <1>1, <1>6, <1>7, <1>8 DEF OutboxTypes
<1> QED BY <1>1, <1>8, <1>9, QuietOutbox

LEMMA BatchErrorInv ==
  ASSUME OutboxInv, NEW n \in ONodes, NEW s \in OShards, BatchError(n, s)
  PROVE  OutboxInv'
<1>1. /\ OutboxTypes /\ Polls(n, s) /\ onode[n].pc = "up"
      /\ UNCHANGED <<okind, msgs, onode, oleader, pos>>
      /\ retried' = IF okind = "controller" THEN retried \cup {n} ELSE retried
  BY DEF OutboxInv, BatchError, Polls
<1>2. PICK k \in {0} \cup (IF okind = "controller" THEN BatchOf(n, s) ELSE {}) :
         handled' = HandOver(n, {i \in BatchOf(n, s) : i <= k})
  BY DEF BatchError
<1>3. PICK P : P = {i \in BatchOf(n, s) : i <= k}
  OBVIOUS
<1>4. /\ handled' \in [ONodes -> [1 .. MaxMsgs -> Nat]]
      /\ \A m \in ONodes : \A i \in 1 .. MaxMsgs :
            handled'[m][i] = IF m = n /\ i \in For(n, P) THEN handled[m][i] + 1 ELSE handled[m][i]
  BY <1>1, <1>2, <1>3, HandsOver
<1>5. SerialInv' /\ OffsetInv' /\ Ids' = Ids
  BY <1>1, SameTable DEF OutboxInv
<1>6. OutboxTypes'
  BY <1>1, <1>4 DEF OutboxTypes
<1>7. CursorInv'
  BY <1>1, <1>5 DEF OutboxInv, CursorInv
<1>8. okind # "controller" => For(n, P) = {}
  <2> SUFFICES ASSUME okind # "controller" PROVE P = {}
    BY DEF For
  <2>1. k = 0
    BY <1>2
  <2>2. \A i \in BatchOf(n, s) : i \in Nat /\ i > 0
    BY <1>1, MessageFacts DEF BatchOf, CommittedIds
  <2> QED BY <2>1, <2>2, <1>3
<1>9. HandledInv'
  <2> SUFFICES ASSUME NEW m \in ONodes, NEW i \in 1 .. MaxMsgs
               PROVE  /\ onode[m].pc = "off" \/ okind = "fanout" => handled'[m][i] = 0
                      /\ m \notin retried' /\ handled'[m][i] # 0 =>
                            /\ handled'[m][i] = 1 /\ i \in Ids /\ i > onode[m].base
                            /\ i <= onode[m].cur[msgs[i].shard]
    BY <1>1, <1>5 DEF HandledInv
  <2>1. /\ onode[m].pc = "off" \/ okind = "fanout" => handled[m][i] = 0
        /\ m \notin retried /\ handled[m][i] # 0 =>
              /\ handled[m][i] = 1 /\ i \in Ids /\ i > onode[m].base
              /\ i <= onode[m].cur[msgs[i].shard]
    BY DEF OutboxInv, HandledInv
  <2>2. CASE m = n /\ okind = "controller"
    BY <2>2, <1>1
  <2>3. CASE ~(m = n /\ okind = "controller")
    <3>1. handled'[m][i] = handled[m][i]
      BY <2>3, <1>4, <1>8
    <3> QED BY <3>1, <2>1, <2>3, <1>1
  <2> QED BY <2>2, <2>3
<1> QED BY <1>5, <1>6, <1>7, <1>9 DEF OutboxInv

LEMMA RegisterInv ==
  ASSUME OutboxInv, NEW n \in ONodes, Register(n)
  PROVE  OutboxInv'
<1>1. /\ OutboxTypes /\ onode \in [ONodes -> OutboxNode] /\ onode[n].pc = "off"
      /\ UNCHANGED <<okind, msgs, oleader, handled>>
      /\ pos' = [pos EXCEPT ![n] = [s \in OShards |-> Top(s)]]
  BY DEF OutboxInv, OutboxTypes, Register
<1>2. PICK base \in StartCursors :
        /\ onode' = [onode EXCEPT ![n] = [pc |-> "up", base |-> base, cur |-> [s \in OShards |-> base]]]
        /\ retried \subseteq retried'
  BY DEF Register
<1>3. base \in Nat /\ base <= Len(msgs)
  BY <1>1, <1>2, MaxCommittedFacts, MessageFacts DEF StartCursors
<1>4. PICK r : r = [pc |-> "up", base |-> base, cur |-> [s \in OShards |-> base]]
  OBVIOUS
<1>5. r \in OutboxNode /\ r.pc = "up" /\ r.base = base /\ \A s \in OShards : r.cur[s] = base
  BY <1>3, <1>4 DEF OutboxNode
<1>6. /\ onode' \in [ONodes -> OutboxNode]
      /\ \A m \in ONodes : onode'[m] = IF m = n THEN r ELSE onode[m]
  BY <1>1, <1>2, <1>4, <1>5
<1>7. SerialInv' /\ OffsetInv' /\ Ids' = Ids
  BY <1>1, SameTable DEF OutboxInv
<1>8. pos' \in [ONodes -> [OShards -> Nat]] /\ \A m \in ONodes : m # n => pos'[m] = pos[m]
  BY <1>1, MessageFacts DEF OutboxTypes
<1>9. OutboxTypes'
  <2>1. \A m \in ONodes : /\ onode'[m].base <= Len(msgs)
                          /\ \A t \in OShards : onode'[m].cur[t] <= Len(msgs)
    BY <1>1, <1>3, <1>5, <1>6 DEF OutboxTypes
  <2> QED BY <2>1, <1>1, <1>6, <1>8 DEF OutboxTypes
<1>10. HandledInv'
  <2> SUFFICES ASSUME NEW m \in ONodes, NEW i \in 1 .. MaxMsgs
               PROVE  /\ onode'[m].pc = "off" \/ okind = "fanout" => handled[m][i] = 0
                      /\ m \notin retried' /\ handled[m][i] # 0 =>
                            /\ handled[m][i] = 1 /\ i \in Ids /\ i > onode'[m].base
                            /\ i <= onode'[m].cur[msgs[i].shard]
    BY <1>1, <1>7 DEF HandledInv
  <2>1. /\ onode[m].pc = "off" \/ okind = "fanout" => handled[m][i] = 0
        /\ m \notin retried /\ handled[m][i] # 0 =>
              /\ handled[m][i] = 1 /\ i \in Ids /\ i > onode[m].base
              /\ i <= onode[m].cur[msgs[i].shard]
    BY DEF OutboxInv, HandledInv
  <2> QED BY <2>1, <1>1, <1>2, <1>6
<1>11. CursorInv'
  <2> SUFFICES ASSUME okind # "fanout", NEW m \in ONodes
               PROVE  /\ \A s \in OShards : onode'[m].cur[s] >= onode'[m].base
                      /\ \A i \in Ids : m \in msgs[i].at =>
                            /\ onode'[m].pc # "off"
                            /\ msgs[i].st = "open" => i > onode'[m].cur[msgs[i].shard]
                            /\ m \notin retried' /\ msgs[i].st = "committed" /\ i <= onode'[m].cur[msgs[i].shard]
                                  => msgs[i].off <= pos'[m][msgs[i].shard]
    BY <1>1, <1>7 DEF CursorInv
  <2>1. /\ \A s \in OShards : onode[m].cur[s] >= onode[m].base
        /\ \A i \in Ids : m \in msgs[i].at =>
              /\ onode[m].pc # "off"
              /\ msgs[i].st = "open" => i > onode[m].cur[msgs[i].shard]
              /\ m \notin retried /\ msgs[i].st = "committed" /\ i <= onode[m].cur[msgs[i].shard]
                    => msgs[i].off <= pos[m][msgs[i].shard]
    BY DEF OutboxInv, CursorInv
  <2>2. CASE m = n
    BY <2>1, <2>2, <1>1, <1>3, <1>5, <1>6
  <2>3. CASE m # n
    BY <2>1, <2>3, <1>2, <1>6, <1>8
  <2> QED BY <2>2, <2>3
<1> QED BY <1>7, <1>9, <1>10, <1>11 DEF OutboxInv

LEMMA BeginPublishInv ==
  ASSUME OutboxInv, BeginPublish
  PROVE  OutboxInv'
<1>1. OutboxTypes /\ Len(msgs) < MaxMsgs /\ UNCHANGED <<okind, onode, oleader, handled, pos, ofaults, retried>>
  BY DEF OutboxInv, BeginPublish
<1>2. PICK s \in OShards, to \in ONodes \cup {"all"} :
        /\ ShardFree(s)
        /\ msgs' = Append(msgs, [to |-> to, shard |-> s, st |-> "open", off |-> 0,
                                 at |-> {n \in ONodes : okind # "fanout" /\ onode[n].pc = "up"}])
  BY DEF BeginPublish
<1>3. PICK x : x = [to |-> to, shard |-> s, st |-> "open", off |-> 0,
                    at |-> {n \in ONodes : okind # "fanout" /\ onode[n].pc = "up"}]
  OBVIOUS
<1>4. /\ x \in Message /\ x.shard = s /\ x.st = "open"
      /\ \A n \in x.at : n \in ONodes /\ onode[n].pc = "up"
  BY <1>3 DEF Message
<1>5. PICK k \in Nat : k = Len(msgs)
  BY <1>1, MessageFacts
<1>6. msgs \in Seq(Message) /\ msgs' = Append(msgs, x)
  BY <1>1, <1>2, <1>3 DEF OutboxTypes
<1>7. /\ msgs' \in Seq(Message) /\ Len(msgs') = k + 1 /\ msgs'[k + 1] = x
      /\ \A i \in 1 .. k : msgs'[i] = msgs[i]
  BY <1>4, <1>5, <1>6
<1>8. Ids = 1 .. k /\ Ids' = 1 .. k + 1 /\ \A i \in Ids' : i \in Ids \/ i = k + 1
  BY <1>5, <1>7 DEF Ids
<1>9. \A i \in Ids : msgs'[i] = msgs[i] /\ i \in Nat /\ i <= k
  BY <1>7, <1>8
<1>10. \A t \in OShards : CommittedIds(t)' = CommittedIds(t) /\ Top(t)' = Top(t)
  <2>1. \A t \in OShards : CommittedIds(t)' = CommittedIds(t)
    BY <1>4, <1>7, <1>8, <1>9 DEF CommittedIds
  <2> QED BY <2>1 DEF Top
<1>11. OutboxTypes'
  <2>1. \A n \in ONodes : /\ onode[n].base <= k + 1 /\ onode[n].base \in Nat
                          /\ \A t \in OShards : onode[n].cur[t] <= k + 1
    BY <1>1, <1>5 DEF OutboxTypes, OutboxNode
  <2>2. k + 1 <= MaxMsgs
    BY <1>1, <1>5, OutboxAssumption
  <2> QED BY <2>1, <2>2, <1>1, <1>7 DEF OutboxTypes
<1>12. SerialInv'
  <2> SUFFICES ASSUME NEW i \in Ids', NEW j \in Ids', i < j, msgs'[i].shard = msgs'[j].shard
               PROVE  msgs'[i].st # "open"
    BY DEF SerialInv
  <2>1. i \in Ids
    BY <1>8, <1>9
  <2>2. CASE j \in Ids
    BY <2>1, <2>2, <1>9 DEF OutboxInv, SerialInv
  <2>3. CASE j = k + 1
    BY <2>1, <2>3, <1>2, <1>4, <1>7, <1>9 DEF ShardFree
  <2> QED BY <2>2, <2>3, <1>8
<1>13. OffsetInv'
  <2>1. \A i \in Ids' : msgs'[i].st = "committed" => i \in Ids
    BY <1>4, <1>7, <1>8
  <2>2. ASSUME NEW t \in OShards, NEW i \in CommittedIds(t)' PROVE msgs'[i].off <= Top(t)'
    <3>1. i \in CommittedIds(t) /\ i \in Ids /\ Top(t)' = Top(t)
      BY <2>2, <1>10 DEF CommittedIds
    <3>2. msgs'[i] = msgs[i]
      BY <3>1, <1>9
    <3> QED BY <3>1, <3>2 DEF OutboxInv, OffsetInv
  <2>3. \A i, j \in Ids' :
          /\ i < j /\ msgs'[i].shard = msgs'[j].shard
          /\ msgs'[i].st = "committed" /\ msgs'[j].st = "committed"
          => msgs'[i].off < msgs'[j].off
    BY <2>1, <1>9 DEF OutboxInv, OffsetInv
  <2> QED BY <2>2, <2>3 DEF OffsetInv
<1>14. HandledInv'
  BY <1>1, <1>8, <1>9 DEF OutboxInv, HandledInv
<1>15. CursorInv'
  <2> SUFFICES ASSUME okind # "fanout", NEW m \in ONodes
               PROVE  /\ \A t \in OShards : onode[m].cur[t] >= onode[m].base
                      /\ \A i \in Ids' : m \in msgs'[i].at =>
                            /\ onode[m].pc # "off"
                            /\ msgs'[i].st = "open" => i > onode[m].cur[msgs'[i].shard]
                            /\ m \notin retried /\ msgs'[i].st = "committed" /\ i <= onode[m].cur[msgs'[i].shard]
                                  => msgs'[i].off <= pos[m][msgs'[i].shard]
    BY <1>1 DEF CursorInv
  <2>1. /\ \A t \in OShards : onode[m].cur[t] >= onode[m].base
        /\ \A i \in Ids : m \in msgs[i].at =>
              /\ onode[m].pc # "off"
              /\ msgs[i].st = "open" => i > onode[m].cur[msgs[i].shard]
              /\ m \notin retried /\ msgs[i].st = "committed" /\ i <= onode[m].cur[msgs[i].shard]
                    => msgs[i].off <= pos[m][msgs[i].shard]
    BY DEF OutboxInv, CursorInv
  <2>2. onode[m].cur[s] <= k /\ onode[m].cur[s] \in Nat
    BY <1>1, <1>5 DEF OutboxTypes, OutboxNode
  <2>3. m \in x.at => onode[m].pc # "off" /\ k + 1 > onode[m].cur[s]
    BY <2>2, <1>4
  <2>4. ASSUME NEW i \in Ids', m \in msgs'[i].at
        PROVE  /\ onode[m].pc # "off"
               /\ msgs'[i].st = "open" => i > onode[m].cur[msgs'[i].shard]
               /\ m \notin retried /\ msgs'[i].st = "committed" /\ i <= onode[m].cur[msgs'[i].shard]
                     => msgs'[i].off <= pos[m][msgs'[i].shard]
    <3>1. CASE i \in Ids
      BY <3>1, <2>1, <2>4, <1>9
    <3>2. CASE i = k + 1
      BY <3>2, <2>3, <2>4, <1>4, <1>7
    <3> QED BY <3>1, <3>2, <1>8
  <2> QED BY <2>1, <2>4
<1> QED BY <1>11, <1>12, <1>13, <1>14, <1>15 DEF OutboxInv

\* One row is settled.
LEMMA SettledRow ==
  ASSUME OutboxTypes, NEW i \in Ids, NEW st \in {"committed", "aborted"}, NEW off \in Nat,
         \/ msgs' = [msgs EXCEPT ![i].st = st, ![i].off = off]
         \/ msgs' = [msgs EXCEPT ![i].st = st] /\ off = msgs[i].off
  PROVE  /\ msgs' \in Seq(Message) /\ Len(msgs') = Len(msgs) /\ Ids' = Ids
         /\ msgs'[i].shard = msgs[i].shard /\ msgs'[i].st = st /\ msgs'[i].off = off
         /\ msgs'[i].at = msgs[i].at
         /\ \A j \in Ids : j # i => msgs'[j] = msgs[j]
<1>1. msgs \in Seq(Message) /\ i \in DOMAIN msgs /\ Ids = DOMAIN msgs /\ msgs[i] \in Message
  BY MessageFacts DEF OutboxTypes
<1>2. msgs[i] = [to |-> msgs[i].to, shard |-> msgs[i].shard, st |-> msgs[i].st, off |-> msgs[i].off,
                 at |-> msgs[i].at]
  BY <1>1 DEF Message
<1>3. PICK x : x = [to |-> msgs[i].to, shard |-> msgs[i].shard, st |-> st, off |-> off, at |-> msgs[i].at]
  OBVIOUS
<1>4. /\ x \in Message /\ x.shard = msgs[i].shard /\ x.st = st /\ x.off = off /\ x.at = msgs[i].at
  BY <1>1, <1>3 DEF Message
<1>5. msgs' = [msgs EXCEPT ![i] = x]
  <2>1. CASE msgs' = [msgs EXCEPT ![i].st = st, ![i].off = off]
    <3>1. PICK y : y = [[msgs[i] EXCEPT !.st = st] EXCEPT !.off = off]
      OBVIOUS
    <3>2. y = x
      <4>1. PICK z : z = [msgs[i] EXCEPT !.st = st]
        OBVIOUS
      <4>2. z = [to |-> msgs[i].to, shard |-> msgs[i].shard, st |-> st, off |-> msgs[i].off, at |-> msgs[i].at]
        BY <4>1, <1>2
      <4>3. y = [z EXCEPT !.off = off]
        BY <3>1, <4>1
      <4> QED BY <4>2, <4>3, <1>3
    <3>3. msgs' = [msgs EXCEPT ![i] = y]
      BY <2>1, <3>1, <1>1
    <3> QED BY <3>2, <3>3
  <2>2. CASE msgs' = [msgs EXCEPT ![i].st = st] /\ off = msgs[i].off
    <3>1. PICK y : y = [msgs[i] EXCEPT !.st = st]
      OBVIOUS
    <3>2. y = x
      BY <3>1, <2>2, <1>2, <1>3
    <3>3. msgs' = [msgs EXCEPT ![i] = y]
      BY <2>2, <3>1, <1>1
    <3> QED BY <3>2, <3>3
  <2> QED BY <2>1, <2>2
<1>6. msgs' \in Seq(Message) /\ Len(msgs') = Len(msgs) /\ msgs'[i] = x
      /\ \A j \in DOMAIN msgs : j # i => msgs'[j] = msgs[j]
  BY <1>1, <1>4, <1>5
<1> QED BY <1>1, <1>4, <1>6 DEF Ids

LEMMA EndPublishInv ==
  ASSUME OutboxInv, NEW i \in Ids, EndPublish(i)
  PROVE  OutboxInv'
<1>1. /\ OutboxTypes /\ msgs[i].st = "open" /\ UNCHANGED <<okind, onode, oleader, handled, pos, retried>>
  BY DEF OutboxInv, EndPublish
<1>2. PICK s \in OShards : s = msgs[i].shard
  BY <1>1, MessageFacts
<1>3. Top(s) \in Nat /\ IsFiniteSet(CommittedIds(s)) /\ msgs[i].off \in Nat /\ i \in Nat
  BY <1>1, MessageFacts
<1>4. PICK st \in {"committed", "aborted"}, off \in Nat :
        /\ \/ msgs' = [msgs EXCEPT ![i].st = st, ![i].off = off]
           \/ msgs' = [msgs EXCEPT ![i].st = st] /\ off = msgs[i].off
        /\ st = "committed" => off = Top(s) + 1
  <2>1. CASE msgs' = [msgs EXCEPT ![i].st = "committed", ![i].off = Top(msgs[i].shard) + 1]
    <3>1. msgs' = [msgs EXCEPT ![i].st = "committed", ![i].off = Top(s) + 1] /\ Top(s) + 1 \in Nat
      BY <2>1, <1>2, <1>3
    <3> QED BY <3>1
  <2>2. CASE msgs' = [msgs EXCEPT ![i].st = "aborted"]
    BY <2>2, <1>3
  <2> QED BY <2>1, <2>2 DEF EndPublish
<1>5. /\ msgs' \in Seq(Message) /\ Len(msgs') = Len(msgs) /\ Ids' = Ids
      /\ msgs'[i].shard = s /\ msgs'[i].st = st /\ msgs'[i].off = off
      /\ msgs'[i].at = msgs[i].at
      /\ \A j \in Ids : j # i => msgs'[j] = msgs[j]
  <2>1. /\ msgs' \in Seq(Message) /\ Len(msgs') = Len(msgs) /\ Ids' = Ids
        /\ msgs'[i].shard = msgs[i].shard /\ msgs'[i].st = st /\ msgs'[i].off = off
        /\ msgs'[i].at = msgs[i].at
        /\ \A j \in Ids : j # i => msgs'[j] = msgs[j]
    <3>1. CASE msgs' = [msgs EXCEPT ![i].st = st, ![i].off = off]
      BY <3>1, <1>1, SettledRow
    <3>2. CASE msgs' = [msgs EXCEPT ![i].st = st] /\ off = msgs[i].off
      BY <3>2, <1>1, SettledRow
    <3> QED BY <3>1, <3>2, <1>4
  <2> QED BY <2>1, <1>2
<1>6. \A j \in Ids : msgs'[j].shard = msgs[j].shard /\ msgs'[j].at = msgs[j].at /\ j \in Nat
                     /\ msgs[j].shard \in OShards
  BY <1>1, <1>2, <1>5, MessageFacts
<1>7. OutboxTypes'
  BY <1>1, <1>5 DEF OutboxTypes
<1>8. SerialInv'
  BY <1>5, <1>6 DEF OutboxInv, SerialInv
<1>9. \A j \in CommittedIds(s) : j < i /\ j \in Ids /\ j # i
  <2> SUFFICES ASSUME NEW j \in CommittedIds(s) PROVE j < i /\ j \in Ids /\ j # i
    OBVIOUS
  <2>1. j \in Ids /\ msgs[j].st = "committed" /\ msgs[j].shard = msgs[i].shard /\ j \in Nat
    BY <1>2, <1>6 DEF CommittedIds
  <2>2. ~(i < j) /\ j # i
    BY <2>1, <1>1 DEF OutboxInv, SerialInv
  <2> QED BY <2>1, <2>2, <1>3
<1>10. /\ \A t \in OShards : t # s => CommittedIds(t)' = CommittedIds(t)
       /\ st = "committed" => CommittedIds(s)' = CommittedIds(s) \cup {i}
       /\ st # "committed" => CommittedIds(s)' = CommittedIds(s)
  BY <1>1, <1>2, <1>5, <1>6 DEF CommittedIds
<1>11. /\ \A t \in OShards : t # s => Top(t)' = Top(t)
       /\ Top(s)' = IF st = "committed" THEN Top(s) + 1 ELSE Top(s)
  <2>1. i \notin CommittedIds(s)
    BY <1>9
  <2>2. Cardinality(CommittedIds(s) \cup {i}) = Cardinality(CommittedIds(s)) + 1
    BY <2>1, <1>3, FS_AddElement
  <2> QED BY <2>2, <1>10 DEF Top
<1>12. OffsetInv'
  <2>1. ASSUME NEW t \in OShards, NEW j \in CommittedIds(t)' PROVE msgs'[j].off <= Top(t)'
    <3>1. CASE j = i
      <4>1. t = s /\ st = "committed"
        BY <3>1, <2>1, <1>5 DEF CommittedIds
      <4> QED BY <4>1, <3>1, <1>3, <1>4, <1>5, <1>11
    <3>2. CASE j # i
      <4>1. j \in CommittedIds(t) /\ j \in Ids
        BY <3>2, <2>1, <1>10 DEF CommittedIds
      <4>2. msgs'[j] = msgs[j] /\ msgs[j].off \in Nat /\ msgs[j].off <= Top(t) /\ Top(t) \in Nat
        BY <4>1, <3>2, <1>1, <1>5, MessageFacts DEF OutboxInv, OffsetInv
      <4> QED BY <4>2, <1>11
    <3> QED BY <3>1, <3>2
  <2>2. ASSUME NEW j \in Ids, NEW k \in Ids, j < k, msgs'[j].shard = msgs'[k].shard,
               msgs'[j].st = "committed", msgs'[k].st = "committed"
        PROVE  msgs'[j].off < msgs'[k].off
    <3>1. msgs[j].shard = msgs[k].shard /\ j # k
      BY <2>2, <1>6
    <3>2. CASE j # i /\ k # i
      BY <3>1, <3>2, <2>2, <1>5 DEF OutboxInv, OffsetInv
    <3>3. CASE k = i
      <4>1. j \in CommittedIds(s) /\ st = "committed" /\ msgs'[j] = msgs[j]
        BY <3>1, <3>3, <2>2, <1>2, <1>5 DEF CommittedIds
      <4>2. msgs[j].off <= Top(s) /\ msgs[j].off \in Nat
        BY <4>1, <1>1, MessageFacts DEF OutboxInv, OffsetInv
      <4> QED BY <4>1, <4>2, <3>3, <1>3, <1>4, <1>5
    <3>4. CASE j = i
      <4>1. msgs[i].st # "open"
        BY <3>1, <3>4, <2>2 DEF OutboxInv, SerialInv
      <4> QED BY <4>1, <1>1
    <3> QED BY <3>2, <3>3, <3>4
  <2> QED BY <2>1, <2>2, <1>5 DEF OffsetInv
<1>13. HandledInv'
  <2> SUFFICES ASSUME NEW m \in ONodes, NEW j \in 1 .. MaxMsgs
               PROVE  /\ onode[m].pc = "off" \/ okind = "fanout" => handled[m][j] = 0
                      /\ m \notin retried /\ handled[m][j] # 0 =>
                            /\ handled[m][j] = 1 /\ j \in Ids /\ j > onode[m].base
                            /\ j <= onode[m].cur[msgs'[j].shard]
    BY <1>1, <1>5 DEF HandledInv
  <2>1. /\ onode[m].pc = "off" \/ okind = "fanout" => handled[m][j] = 0
        /\ m \notin retried /\ handled[m][j] # 0 =>
              /\ handled[m][j] = 1 /\ j \in Ids /\ j > onode[m].base
              /\ j <= onode[m].cur[msgs[j].shard]
    BY DEF OutboxInv, HandledInv
  <2> QED BY <2>1, <1>6
<1>14. CursorInv'
  <2> SUFFICES ASSUME okind # "fanout", NEW m \in ONodes
               PROVE  /\ \A t \in OShards : onode[m].cur[t] >= onode[m].base
                      /\ \A j \in Ids : m \in msgs'[j].at =>
                            /\ onode[m].pc # "off"
                            /\ msgs'[j].st = "open" => j > onode[m].cur[msgs'[j].shard]
                            /\ m \notin retried /\ msgs'[j].st = "committed" /\ j <= onode[m].cur[msgs'[j].shard]
                                  => msgs'[j].off <= pos[m][msgs'[j].shard]
    BY <1>1, <1>5 DEF CursorInv
  <2>1. /\ \A t \in OShards : onode[m].cur[t] >= onode[m].base
        /\ \A j \in Ids : m \in msgs[j].at =>
              /\ onode[m].pc # "off"
              /\ msgs[j].st = "open" => j > onode[m].cur[msgs[j].shard]
              /\ m \notin retried /\ msgs[j].st = "committed" /\ j <= onode[m].cur[msgs[j].shard]
                    => msgs[j].off <= pos[m][msgs[j].shard]
    BY DEF OutboxInv, CursorInv
  <2>2. ASSUME NEW j \in Ids, m \in msgs'[j].at
        PROVE  /\ onode[m].pc # "off"
               /\ msgs'[j].st = "open" => j > onode[m].cur[msgs'[j].shard]
               /\ m \notin retried /\ msgs'[j].st = "committed" /\ j <= onode[m].cur[msgs'[j].shard]
                     => msgs'[j].off <= pos[m][msgs'[j].shard]
    <3>1. CASE j # i
      BY <3>1, <2>1, <2>2, <1>5
    <3>2. CASE j = i
      <4>1. onode[m].pc # "off" /\ i > onode[m].cur[s]
        BY <3>2, <2>1, <2>2, <1>1, <1>2, <1>5
      <4>2. onode[m].cur[s] \in Nat
        BY <1>1 DEF OutboxTypes, OutboxNode
      <4> QED BY <4>1, <4>2, <3>2, <1>3, <1>5
    <3> QED BY <3>1, <3>2
  <2> QED BY <2>1, <2>2
<1> QED BY <1>7, <1>8, <1>12, <1>13, <1>14 DEF OutboxInv

LEMMA OutboxInvNext == ASSUME OutboxInv, [OutboxNext]_outboxNodes PROVE OutboxInv'
<1>1. CASE UNCHANGED outboxNodes
  <2>1. UNCHANGED <<okind, msgs, onode, oleader, handled, pos, retried>>
    BY <1>1 DEF outboxNodes
  <2>2. OutboxTypes'
    BY <2>1 DEF OutboxInv, OutboxTypes
  <2> QED BY <2>1, <2>2, QuietOutbox
<1>2. CASE BeginPublish
  BY <1>2, BeginPublishInv
<1>3. ASSUME NEW i \in Ids, EndPublish(i) PROVE OutboxInv'
  BY <1>3, EndPublishInv
<1>4. ASSUME NEW n \in ONodes, Register(n) \/ CloseNode(n) PROVE OutboxInv'
  BY <1>4, RegisterInv, CloseNodeInv
<1>5. ASSUME NEW n \in ONodes, NEW s \in OShards,
             \/ AcquireShard(n, s) \/ LoseShard(n, s) \/ DeliverBatch(n, s)
             \/ FanoutLost(n, s) \/ BatchError(n, s) \/ PositionSync(n, s)
      PROVE  OutboxInv'
  BY <1>5, FanoutQuiet, DeliverInv, BatchErrorInv
<1> QED BY <1>1, <1>2, <1>3, <1>4, <1>5 DEF OutboxNext

\* Any number of nodes, shards, publishers and batches: a node hands a
\* message over at most once and none older than its registration, unless an
\* error made it read rows again; and without fan-out no subscriber is behind
\* the cursor of its node, so the position check it is spared would find
\* nothing.
THEOREM OutboxDelivers == OutboxSpec => [](NoReplay /\ PositionFollowsCursor)
<1>1. OutboxInit => OutboxInv
  BY OutboxInvInit
<1>2. OutboxInv /\ [OutboxNext]_outboxNodes => OutboxInv'
  BY OutboxInvNext
<1>3. OutboxInv => NoReplay /\ PositionFollowsCursor
  <2> SUFFICES ASSUME OutboxInv PROVE NoReplay /\ PositionFollowsCursor
    OBVIOUS
  <2>1. NoReplay
    <3> SUFFICES ASSUME NEW n \in ONodes \ retried, NEW i \in Ids, handled[n][i] > 0
                 PROVE  i > onode[n].base /\ handled[n][i] = 1
      BY DEF NoReplay
    <3>1. i \in 1 .. MaxMsgs /\ handled[n][i] # 0
      BY MessageFacts DEF OutboxInv
    <3> QED BY <3>1 DEF OutboxInv, HandledInv
  <2>2. PositionFollowsCursor
    BY DEF PositionFollowsCursor, ReliableDelivery, OutboxInv, CursorInv, CommittedIds
  <2> QED BY <2>1, <2>2
<1> QED BY <1>1, <1>2, <1>3, PTL DEF OutboxSpec

-----------------------------------------------------------------------------
(* Reads find their replica.                                               *)

\* What the routing rests on: the configuration is one of those it can be.
ConfTypes ==
    /\ pconf.replicas \in Nat /\ pconf.shards \in Int

LEMMA RouteArithmetic ==
  ASSUME ConfTypes PROVE RouteInRange
<1> SUFFICES ASSUME NEW h \in Hashes, pconf.replicas > 0, h = MinHash => (-h) % NumShards(pconf) = 0
             PROVE  ReplicaIndex(h, pconf) \in 0 .. (pconf.replicas - 1)
  BY DEF RouteInRange
<1>1. PICK n \in Nat : n = NumShards(pconf) /\ n > 0
  BY DEF ConfTypes, NumShards
<1>2. PICK r \in Nat : r = pconf.replicas /\ r > 0
  BY DEF ConfTypes
<1>3. h \in Int
  BY DEF Hashes
<1>4. PICK a \in Int : a = abs32(h) /\ (a < 0 => a = h /\ h = MinHash)
  BY <1>3 DEF abs32
<1>5. Remainder(a, n) \in Nat
  <2>1. CASE a < 0
    <3>1. (-a) % n = 0
      BY <1>1, <1>4, <2>1
    <3> QED BY <3>1, <2>1 DEF Remainder
  <2>2. CASE a >= 0
    <3>1. a % n \in Nat
      BY <1>1, <2>2
    <3> QED BY <3>1, <2>2, <1>4 DEF Remainder
  <2> QED BY <2>1, <2>2
<1>6. PICK m \in Nat : m = Remainder(a, n)
  BY <1>5
<1>7. m % r \in 0 .. (r - 1)
  BY <1>2
<1>8. Remainder(m, r) = m % r
  BY <1>6 DEF Remainder
<1> QED BY <1>1, <1>2, <1>4, <1>6, <1>7, <1>8 DEF ReplicaIndex

\* For every hash width, number of shards and number of replicas: reads go to
\* a replica that exists, for the smallest hash, whose absolute value
\* overflows, if the shards divide it.
THEOREM RoutesInRange == PoolsSpec => []RouteInRange
<1>1. PoolsInit => ConfTypes
  BY PoolsAssumption DEF PoolsInit, ConfTypes
<1>2. ConfTypes /\ [PoolsNext]_pools => ConfTypes'
  <2>1. [PoolsNext]_pools => UNCHANGED pconf
    BY DEF PoolsNext, pools, StartOpening, OpenPool, OpenFails, Opened, BeginClose, ClosePool,
           PoolClosed, Acquire, Release
  <2> QED BY <2>1 DEF ConfTypes
<1> QED BY <1>1, <1>2, RouteArithmetic, PTL DEF PoolsSpec
==============================================================================
