---------------------------- MODULE MapState_proofs ----------------------------
(***************************************************************************)
(* Theorems about the map broker of MapState, for any keys, time-to-lives, *)
(* page and stream limits and batch sizes: the state table is the fold of  *)
(* the stream, a client that catches up sees it, and a position names one  *)
(* change.                                                                 *)
(*                                                                         *)
(* The invariant is stated over explicit tables, so that publish can be    *)
(* reasoned about in its two halves: the meta row it locks or creates, and *)
(* the entry it appends.                                                   *)
(***************************************************************************)
EXTENDS MapState, FiniteSetTheorems, WellFoundedInduction, TLAPS

EntryT == [off: Nat \ {0}, epoch: Nat \ {0}, key: MapKeys, removed: BOOLEAN]
MetaT == [off: Nat, epoch: Nat, expires: Nat]
RowT == [off: Nat, epoch: Nat, ver: Nat, ve: VersionEpochs, expires: Nat]
PosT == [off: Nat, epoch: Nat]
ClientT == [pc: {"idle", "paging", "live"}, pos: PosT, view: [MapKeys -> Nat], cursor: Nat]
ClrT == [pc: {"no", "stream", "state", "meta"}, rows: SUBSET EntryT,
         keys: SUBSET MapKeys, epoch: Nat]
WinT == [key: MapKeys, expected: PosT, off: Nat, epoch: Nat]

\* E: entries ever, S: stream, T: state table, m: meta row, n: epochs handed
\* out, c: client, w: wins, r: the Clear transaction.

EverOk(E, n) ==
    /\ IsFiniteSet(E) /\ E \subseteq EntryT
    /\ \A e \in E : e.epoch <= n
    /\ \A e, f \in E : e.epoch = f.epoch /\ e.off = f.off => e = f

\* Row t of key k is what the entries of epoch ep say: the last one counts.
Fold(E, ep, k, t) ==
    \/ t = NoRow /\ \A e \in E : ~(e.epoch = ep /\ e.key = k)
    \/ \E e \in E :
        /\ e.epoch = ep /\ e.key = k
        /\ \A f \in E : f.epoch = ep /\ f.key = k => f.off <= e.off
        /\ e.removed => t = NoRow
        /\ ~e.removed => t.off = e.off /\ t.epoch = ep

\* The entries of the live epoch are all in the stream, up to the meta row's
\* position, and the state table is their fold.
LiveOk(E, S, T, m) ==
    m.epoch # 0 =>
        /\ \A e \in E : e.epoch = m.epoch => e.off <= m.off /\ e \in S
        /\ \A k \in MapKeys : Fold(E, m.epoch, k, T[k])

RowsOk(E, T) ==
    /\ T \in [MapKeys -> RowT]
    /\ \A k \in MapKeys : Exists(T[k]) =>
          \E e \in E : e.off = T[k].off /\ e.epoch = T[k].epoch /\ e.key = k

\* No entry of k in the live epoch lies after the position p.
Settled(E, ep, k, p) == \A e \in E : e.epoch = ep /\ e.key = k => e.off <= p

\* What the client has read of a key is right unless the stream still tells it
\* of a change.
ClientOk(E, T, m, n, c) ==
    /\ c \in ClientT
    /\ c.pos.epoch <= n
    /\ c.pc = "idle" => c.cursor = 0
    /\ \A k \in MapKeys : c.pc # "live" /\ k > c.cursor => c.view[k] = 0
    /\ c.pc # "idle" /\ m.epoch # 0 /\ c.pos.epoch = m.epoch =>
        /\ c.pos.off <= m.off
        /\ \A k \in MapKeys :
             (c.pc = "live" \/ k <= c.cursor) /\ Settled(E, m.epoch, k, c.pos.off)
             => c.view[k] = T[k].off

\* A winner of the live epoch is not newer than the row of its key, which thus
\* lies beyond the position the winner expected.
WinsOk(T, m, n, w) ==
    /\ w \subseteq WinT
    /\ \A v \in w :
        /\ v.epoch <= n
        /\ v.expected.epoch # 0 => v.expected.epoch = v.epoch /\ v.expected.off < v.off
        /\ m.epoch # 0 /\ v.epoch = m.epoch =>
            v.off <= m.off /\ (Exists(T[v.key]) => v.off <= T[v.key].off)
    /\ \A u, v \in w : u.key = v.key /\ u.expected = v.expected /\ u.expected.epoch # 0 => u = v

\* Clear deletes nothing of an epoch that began after it looked for the meta row.
ClrOk(E, m, r) ==
    /\ r \in ClrT /\ r.rows \subseteq E
    /\ r.pc = "meta" /\ r.epoch = 0 /\ m.epoch # 0 =>
        r.keys = {} /\ \A e \in r.rows : e.epoch # m.epoch

MetaOk(m, n) == n \in Nat /\ m \in MetaT /\ m.epoch <= n

TablesOk(E, S, T, m, n, c, w, r) ==
    /\ EverOk(E, n) /\ S \subseteq E /\ MetaOk(m, n) /\ LiveOk(E, S, T, m) /\ RowsOk(E, T)
    /\ ClientOk(E, T, m, n, c) /\ WinsOk(T, m, n, w) /\ ClrOk(E, m, r)

IdemOk ==
    /\ mapIdem = [i \in IdemKeys |-> mapIdem[i]]
    /\ \A i \in IdemKeys : mapIdem[i] = MapNoIdem \/ mapIdem[i].off \in Nat \ {0}

MapInv ==
    /\ TablesOk(mapEver, stream, state, mapMeta, mapEpochs, client, wins, clr)
    /\ IdemOk /\ mapNow \in Nat /\ mapVictim \in Nat

-----------------------------------------------------------------------------
LEMMA NoRowFacts ==
    /\ NoRow \in RowT /\ NoRow.off = 0 /\ NoRow.epoch = 0 /\ ~Exists(NoRow)
    /\ MapNoMeta \in MetaT /\ MapNoMeta.epoch = 0
BY DEF NoRow, RowT, Exists, MapNoMeta, MetaT, VersionEpochs, NoVersionEpoch

\* A non-empty set of naturals has a least element, and a bounded one a greatest.
LEMMA NatMin ==
  ASSUME NEW T, T \subseteq Nat, T # {} PROVE \E x \in T : \A y \in T : x <= y
<1> DEFINE R == OpToRel(<, Nat)
<1>1. IsWellFoundedOn(R, Nat) BY NatLessThanWellFounded
<1>2. \A x, y \in Nat : y < x => <<y, x>> \in R BY DEF OpToRel
<1> HIDE DEF R
<1>3. \E x \in T : \A y \in T : ~ (<<y, x>> \in R) BY <1>1, WFMin
<1>4. PICK x \in T : \A y \in T : ~ (<<y, x>> \in R) BY <1>3
<1>5. ASSUME NEW y \in T PROVE x <= y
  <2>1. x \in Nat /\ y \in Nat OBVIOUS
  <2>2. ~(y < x) BY <1>2, <1>4, <2>1
  <2> QED BY <2>1, <2>2
<1> QED BY <1>5

LEMMA NatMax ==
  ASSUME NEW T, T \subseteq Nat, T # {}, NEW b \in Nat, \A x \in T : x <= b
  PROVE  \E x \in T : \A y \in T : y <= x
<1> DEFINE U == {b - x : x \in T}
<1>1. U # {} OBVIOUS
<1>0. U \subseteq Nat
  <2> SUFFICES ASSUME NEW x \in T PROVE b - x \in Nat OBVIOUS
  <2> x \in Nat /\ x <= b OBVIOUS
  <2> QED OBVIOUS
<1> HIDE DEF U
<1>2. PICK u \in U : \A v \in U : u <= v BY <1>0, <1>1, NatMin
<1> USE DEF U
<1>3. PICK x \in T : u = b - x OBVIOUS
<1>4. ASSUME NEW y \in T PROVE y <= x
  <2>1. b - y \in U /\ x \in Nat /\ y \in Nat /\ x <= b /\ y <= b OBVIOUS
  <2>2. u <= b - y BY <1>2, <2>1
  <2> HIDE DEF U
  <2> QED BY <1>3, <2>1, <2>2
<1> QED BY <1>4

\* With unique positions the latest entry is the one CHOOSE finds.
LEMMA LatestUnique ==
  ASSUME NEW E, NEW n, EverOk(E, n), NEW ep, NEW k, NEW e \in E,
         e.epoch = ep, e.key = k,
         \A f \in E : f.epoch = ep /\ f.key = k => f.off <= e.off
  PROVE  LET es == {f \in E : f.epoch = ep /\ f.key = k}
         IN  (CHOOSE f \in es : \A g \in es : g.off <= f.off) = e
<1> DEFINE es == {f \in E : f.epoch = ep /\ f.key = k}
           x == CHOOSE f \in es : \A g \in es : g.off <= f.off
<1>1. e \in es /\ \A g \in es : g.off <= e.off OBVIOUS
<1>2. x \in es /\ \A g \in es : g.off <= x.off
  <2> HIDE DEF es
  <2> QED BY <1>1
<1> HIDE DEF x
<1>3. x \in E /\ x.epoch = ep /\ x.key = k /\ x.off <= e.off /\ e.off <= x.off BY <1>1, <1>2
<1>4. x.off \in Nat /\ e.off \in Nat BY <1>3 DEF EverOk, EntryT
<1>5. x.off = e.off BY <1>3, <1>4
<1>6. x = e BY <1>3, <1>5 DEF EverOk
<1> QED BY <1>6 DEF x

-----------------------------------------------------------------------------
(* What the statements do to the tables.                                   *)

\* A publish that finds no meta row begins an epoch nobody has seen, with an
\* empty state table.
LEMMA BeginEpoch ==
  ASSUME NEW E, NEW S, NEW T, NEW m, NEW n, NEW c, NEW w, NEW r,
         TablesOk(E, S, T, m, n, c, w, r), m.epoch = 0, r.keys = {}
  PROVE  TablesOk(E, S, [k \in MapKeys |-> NoRow],
                  [off |-> 0, epoch |-> n + 1, expires |-> Never], n + 1, c, w, r)
<1> DEFINE m2 == [off |-> 0, epoch |-> n + 1, expires |-> Never]
           T2 == [k \in MapKeys |-> NoRow]
<1>1. n \in Nat /\ E \subseteq EntryT /\ \A e \in E : e.epoch \in Nat /\ e.epoch <= n /\ e.epoch # n + 1
  BY DEF TablesOk, EverOk, MetaOk, EntryT
<1>2. m2.epoch = n + 1 /\ m2.off = 0 /\ m2 \in MetaT BY <1>1 DEF MetaT, Never
<1>3. T2 \in [MapKeys -> RowT] /\ \A k \in MapKeys : T2[k] = NoRow BY NoRowFacts
<1> HIDE DEF m2, T2
<1>4. EverOk(E, n + 1) BY <1>1 DEF TablesOk, EverOk
<1>5. MetaOk(m2, n + 1) BY <1>1, <1>2 DEF MetaOk
<1>6. LiveOk(E, S, T2, m2) BY <1>1, <1>2, <1>3 DEF LiveOk, Fold
<1>7. RowsOk(E, T2) BY <1>3, NoRowFacts DEF RowsOk
<1>8. ClientOk(E, T2, m2, n + 1, c)
  <2>1. c \in ClientT /\ c.pos.epoch \in Nat /\ c.pos.epoch <= n BY DEF TablesOk, ClientOk, ClientT, PosT
  <2>2. c.pos.epoch <= n + 1 /\ c.pos.epoch # n + 1 BY <1>1, <2>1
  <2> QED BY <1>2, <2>2 DEF TablesOk, ClientOk
<1>9. WinsOk(T2, m2, n + 1, w)
  <2>1. \A v \in w : v.epoch \in Nat /\ v.epoch <= n BY DEF TablesOk, WinsOk, WinT
  <2>2. \A v \in w : v.epoch <= n + 1 /\ v.epoch # n + 1 BY <1>1, <2>1
  <2> QED BY <1>2, <2>2 DEF TablesOk, WinsOk
<1>10. ClrOk(E, m2, r) BY <1>1, <1>2 DEF TablesOk, ClrOk
<1> QED BY <1>4, <1>5, <1>6, <1>7, <1>8, <1>9, <1>10 DEF TablesOk, m2, T2

\* es is a batch of entries, one per key, at the offsets after m's up to m2's,
\* and T2 is T with their effect.
Batch(E, T, m, es, T2, m2) ==
    /\ m.epoch # 0 /\ m2 \in MetaT /\ m2.epoch = m.epoch /\ m.off <= m2.off
    /\ IsFiniteSet(es) /\ es \subseteq EntryT
    /\ \A e \in es : e.epoch = m.epoch /\ m.off < e.off /\ e.off <= m2.off
    /\ \A e, f \in es : e.off = f.off \/ e.key = f.key => e = f
    /\ T2 \in [MapKeys -> RowT]
    /\ \A k \in MapKeys : (\A e \in es : e.key # k) => T2[k] = T[k]
    /\ \A e \in es : /\ e.removed => T2[e.key] = NoRow
                     /\ ~e.removed => T2[e.key].off = e.off /\ T2[e.key].epoch = m.epoch

LEMMA BatchEver ==
  ASSUME NEW E, NEW S, NEW T, NEW m, NEW n, NEW c, NEW w, NEW r,
         TablesOk(E, S, T, m, n, c, w, r), NEW es, NEW T2, NEW m2, Batch(E, T, m, es, T2, m2)
  PROVE  EverOk(E \cup es, n) /\ MetaOk(m2, n)
<1>1. IsFiniteSet(E \cup es) BY FS_Union DEF TablesOk, EverOk, Batch
<1>2. E \cup es \subseteq EntryT BY DEF TablesOk, EverOk, Batch
<1>3. m \in MetaT /\ m.epoch <= n /\ n \in Nat BY DEF TablesOk, MetaOk
<1>4. \A e \in E : e.epoch = m.epoch => e.off <= m.off BY DEF TablesOk, LiveOk, Batch
<1>5. ASSUME NEW e \in E \cup es PROVE e.epoch <= n BY <1>3 DEF TablesOk, EverOk, Batch
<1>6. ASSUME NEW e \in E, NEW f \in es, e.epoch = f.epoch, e.off = f.off PROVE FALSE
  <2>1. e.off <= m.off /\ m.off < f.off BY <1>4, <1>6 DEF Batch
  <2>2. e.off \in Nat /\ m.off \in Nat BY <1>2, <1>3 DEF EntryT, MetaT
  <2> QED BY <1>6, <2>1, <2>2
<1>7. ASSUME NEW e \in E \cup es, NEW f \in E \cup es, e.epoch = f.epoch, e.off = f.off
      PROVE  e = f
  <2>1. CASE e \in E /\ f \in E BY <1>7, <2>1 DEF TablesOk, EverOk
  <2>2. CASE e \in es /\ f \in es BY <1>7, <2>2 DEF Batch
  <2> QED BY <1>6, <1>7, <2>1, <2>2
<1>8. EverOk(E \cup es, n) BY <1>1, <1>2, <1>5, <1>7 DEF EverOk
<1> QED BY <1>3, <1>8 DEF MetaOk, Batch

LEMMA BatchLive ==
  ASSUME NEW E, NEW S, NEW T, NEW m, NEW n, NEW c, NEW w, NEW r,
         TablesOk(E, S, T, m, n, c, w, r), NEW es, NEW T2, NEW m2, Batch(E, T, m, es, T2, m2)
  PROVE  LiveOk(E \cup es, S \cup es, T2, m2) /\ RowsOk(E \cup es, T2)
<1>1. m.epoch # 0 /\ m2.epoch = m.epoch /\ m.off \in Nat /\ m2.off \in Nat /\ m.off <= m2.off
  BY DEF TablesOk, MetaOk, MetaT, Batch
<1>2. \A e \in E : e.epoch = m.epoch => e.off <= m.off /\ e \in S BY <1>1 DEF TablesOk, LiveOk
<1>3. \A e \in E \cup es : e.off \in Nat BY DEF TablesOk, EverOk, Batch, EntryT
<1>4. \A e \in es : e.epoch = m.epoch /\ m.off < e.off /\ e.off <= m2.off BY DEF Batch
<1>5. \A e \in E \cup es : e.epoch = m.epoch => e.off <= m2.off /\ e \in S \cup es
  BY <1>1, <1>2, <1>3, <1>4
<1>6. ASSUME NEW k \in MapKeys PROVE Fold(E \cup es, m.epoch, k, T2[k])
  <2>1. CASE \A e \in es : e.key # k
    <3>1. T2[k] = T[k] BY <2>1 DEF Batch
    <3>2. Fold(E, m.epoch, k, T[k]) BY <1>1 DEF TablesOk, LiveOk
    <3> QED BY <2>1, <3>1, <3>2 DEF Fold
  <2>2. ASSUME NEW e \in es, e.key = k PROVE Fold(E \cup es, m.epoch, k, T2[k])
    <3>1. ASSUME NEW f \in E \cup es, f.epoch = m.epoch, f.key = k PROVE f.off <= e.off
      <4>1. CASE f \in es
        <5>1. f = e BY <2>2, <3>1, <4>1 DEF Batch
        <5> QED BY <1>3, <5>1
      <4>2. CASE f \in E
        <5>1. f.off <= m.off /\ m.off < e.off BY <1>2, <1>4, <3>1, <4>2
        <5> QED BY <1>1, <1>3, <5>1
      <4> QED BY <3>1, <4>1, <4>2
    <3>2. /\ e.removed => T2[k] = NoRow
          /\ ~e.removed => T2[k].off = e.off /\ T2[k].epoch = m.epoch
      BY <2>2 DEF Batch
    <3> QED BY <1>4, <2>2, <3>1, <3>2 DEF Fold
  <2> QED BY <2>1, <2>2
<1>7. ASSUME NEW k \in MapKeys, Exists(T2[k])
      PROVE  \E e \in E \cup es : e.off = T2[k].off /\ e.epoch = T2[k].epoch /\ e.key = k
  <2>1. CASE \A e \in es : e.key # k
    <3>1. T2[k] = T[k] BY <2>1 DEF Batch
    <3> QED BY <1>7, <3>1 DEF TablesOk, RowsOk
  <2>2. ASSUME NEW e \in es, e.key = k
        PROVE  e.off = T2[k].off /\ e.epoch = T2[k].epoch
    BY <1>4, <1>7, <2>2, NoRowFacts DEF Batch
  <2> QED BY <2>1, <2>2
<1>8. T2 \in [MapKeys -> RowT] BY DEF Batch
<1> QED BY <1>1, <1>5, <1>6, <1>7, <1>8 DEF LiveOk, RowsOk

LEMMA BatchClient ==
  ASSUME NEW E, NEW S, NEW T, NEW m, NEW n, NEW c, NEW w, NEW r,
         TablesOk(E, S, T, m, n, c, w, r), NEW es, NEW T2, NEW m2, Batch(E, T, m, es, T2, m2)
  PROVE  ClientOk(E \cup es, T2, m2, n, c)
<1>1. m.epoch # 0 /\ m2.epoch = m.epoch /\ m.off \in Nat /\ m2.off \in Nat /\ m.off <= m2.off
  BY DEF TablesOk, MetaOk, MetaT, Batch
<1>2. c \in ClientT /\ c.pos.off \in Nat BY DEF TablesOk, ClientOk, ClientT, PosT
<1>3. ASSUME c.pc # "idle", c.pos.epoch = m.epoch
      PROVE  /\ c.pos.off <= m2.off
             /\ \A k \in MapKeys :
                  (c.pc = "live" \/ k <= c.cursor) /\ Settled(E \cup es, m.epoch, k, c.pos.off)
                  => c.view[k] = T2[k].off
  <2>1. c.pos.off <= m.off BY <1>1, <1>3 DEF TablesOk, ClientOk
  <2>2. ASSUME NEW k \in MapKeys, c.pc = "live" \/ k <= c.cursor,
               Settled(E \cup es, m.epoch, k, c.pos.off)
        PROVE  c.view[k] = T2[k].off
    <3>1. Settled(E, m.epoch, k, c.pos.off) BY <2>2 DEF Settled
    <3>2. ASSUME NEW e \in es, e.key = k PROVE FALSE
      <4>1. e.epoch = m.epoch /\ m.off < e.off /\ e.off \in Nat BY DEF Batch, EntryT
      <4>2. e.off <= c.pos.off BY <2>2, <3>2, <4>1 DEF Settled
      <4> QED BY <1>1, <1>2, <2>1, <4>1, <4>2
    <3>3. T2[k] = T[k] BY <3>2 DEF Batch
    <3> QED BY <1>1, <1>3, <2>2, <3>1, <3>3 DEF TablesOk, ClientOk
  <2>3. c.pos.off <= m2.off BY <1>1, <1>2, <2>1
  <2> QED BY <2>2, <2>3
<1> QED BY <1>1, <1>3 DEF TablesOk, ClientOk

LEMMA BatchWins ==
  ASSUME NEW E, NEW S, NEW T, NEW m, NEW n, NEW c, NEW w, NEW r,
         TablesOk(E, S, T, m, n, c, w, r), NEW es, NEW T2, NEW m2, Batch(E, T, m, es, T2, m2)
  PROVE  WinsOk(T2, m2, n, w)
<1>1. m.epoch # 0 /\ m2.epoch = m.epoch /\ m.off \in Nat /\ m2.off \in Nat /\ m.off <= m2.off
  BY DEF TablesOk, MetaOk, MetaT, Batch
<1>2. ASSUME NEW v \in w, v.epoch = m.epoch
      PROVE  v.off <= m2.off /\ (Exists(T2[v.key]) => v.off <= T2[v.key].off)
  <2>1. v.off \in Nat /\ v.key \in MapKeys BY DEF TablesOk, WinsOk, WinT
  <2>2. v.off <= m.off /\ (Exists(T[v.key]) => v.off <= T[v.key].off)
    BY <1>1, <1>2 DEF TablesOk, WinsOk
  <2>3. CASE \A e \in es : e.key # v.key
    <3>1. T2[v.key] = T[v.key] BY <2>1, <2>3 DEF Batch
    <3> QED BY <1>1, <2>1, <2>2, <3>1
  <2>4. ASSUME NEW e \in es, e.key = v.key, Exists(T2[v.key]) PROVE v.off <= T2[v.key].off
    <3>1. m.off < e.off /\ e.off \in Nat BY DEF Batch, EntryT
    <3>2. T2[v.key].off = e.off BY <2>4, NoRowFacts DEF Batch
    <3> QED BY <1>1, <2>1, <2>2, <3>1, <3>2
  <2> QED BY <1>1, <2>1, <2>2, <2>3, <2>4
<1> QED BY <1>1, <1>2 DEF TablesOk, WinsOk

\* Publishing, removing and expiring keys keep the invariant.
LEMMA Batched ==
  ASSUME NEW E, NEW S, NEW T, NEW m, NEW n, NEW c, NEW w, NEW r,
         TablesOk(E, S, T, m, n, c, w, r), NEW es, NEW T2, NEW m2, Batch(E, T, m, es, T2, m2)
  PROVE  TablesOk(E \cup es, S \cup es, T2, m2, n, c, w, r)
<1>1. EverOk(E \cup es, n) /\ MetaOk(m2, n) BY BatchEver
<1>2. LiveOk(E \cup es, S \cup es, T2, m2) /\ RowsOk(E \cup es, T2) BY BatchLive
<1>3. ClientOk(E \cup es, T2, m2, n, c) BY BatchClient
<1>4. WinsOk(T2, m2, n, w) BY BatchWins
<1>5. ClrOk(E \cup es, m2, r) BY DEF TablesOk, ClrOk, Batch
<1>6. S \cup es \subseteq E \cup es BY DEF TablesOk
<1> QED BY <1>1, <1>2, <1>3, <1>4, <1>5, <1>6 DEF TablesOk

\* A compare-and-set publish of key k that replaced a row at x, in a state T
\* before and T2 after it.
LEMMA OneMoreWin ==
  ASSUME NEW E, NEW S, NEW T, NEW m, NEW n, NEW c, NEW w, NEW r,
         TablesOk(E, S, T, m, n, c, w, r), m.epoch # 0, NEW T2, NEW m2, WinsOk(T2, m2, n, w),
         m2.epoch = m.epoch, m2.off = m.off + 1, NEW k \in MapKeys,
         T2[k].off = m.off + 1, NEW x \in PosT, Exists(T[k]), T[k].off = x.off,
         x.epoch # 0 => x.epoch = m.epoch
  PROVE  WinsOk(T2, m2, n, w \cup {[key |-> k, expected |-> x, off |-> m.off + 1, epoch |-> m.epoch]})
<1> DEFINE new == [key |-> k, expected |-> x, off |-> m.off + 1, epoch |-> m.epoch]
<1>1. /\ new.key = k /\ new.expected = x /\ new.off = m.off + 1 /\ new.epoch = m.epoch
      /\ m.off \in Nat /\ m.epoch \in Nat /\ m.epoch <= n /\ new \in WinT
  BY DEF TablesOk, MetaOk, MetaT, WinT
<1> HIDE DEF new
<1>2. x.off <= m.off /\ x.off \in Nat
  <2>1. Fold(E, m.epoch, k, T[k]) BY DEF TablesOk, LiveOk
  <2>2. PICK e \in E : e.epoch = m.epoch /\ e.off = T[k].off BY <2>1 DEF Fold, Exists
  <2>3. e.off <= m.off BY <2>2 DEF TablesOk, LiveOk
  <2> QED BY <2>2, <2>3 DEF PosT
<1>3. /\ new.epoch <= n
      /\ new.expected.epoch # 0 => new.expected.epoch = new.epoch /\ new.expected.off < new.off
      /\ new.off <= m2.off /\ new.off <= T2[new.key].off
  BY <1>1, <1>2
<1>4. ASSUME NEW v \in w, v.key = k, v.expected = x, x.epoch # 0 PROVE FALSE
  <2>1. v.epoch = m.epoch /\ x.off < v.off /\ v.off \in Nat BY <1>4 DEF WinsOk, WinT
  <2>2. v.off <= T[k].off BY <1>4, <2>1 DEF TablesOk, WinsOk
  <2> QED BY <1>2, <2>1, <2>2
<1>5. \A u, v \in w \cup {new} :
        u.key = v.key /\ u.expected = v.expected /\ u.expected.epoch # 0 => u = v
  BY <1>1, <1>4 DEF WinsOk
<1>6. WinsOk(T2, m2, n, w \cup {new}) BY <1>1, <1>3, <1>5 DEF WinsOk
<1> QED BY <1>6 DEF new

\* A refresh moves expiries only.
LEMMA Refreshed ==
  ASSUME NEW E, NEW S, NEW T, NEW m, NEW n, NEW c, NEW w, NEW r,
         TablesOk(E, S, T, m, n, c, w, r), NEW T2, NEW m2 \in MetaT,
         m2.epoch = m.epoch, m2.off = m.off, T2 \in [MapKeys -> RowT],
         \A k \in MapKeys : \/ T2[k] = T[k]
                            \/ /\ Exists(T[k]) /\ Exists(T2[k])
                               /\ T2[k].off = T[k].off /\ T2[k].epoch = T[k].epoch
  PROVE  TablesOk(E, S, T2, m2, n, c, w, r)
<1>1. \A k \in MapKeys : T2[k].off = T[k].off /\ T2[k].epoch = T[k].epoch OBVIOUS
<1>2. \A k \in MapKeys : T[k] = NoRow <=> T2[k] = NoRow BY DEF Exists
<1>3. LiveOk(E, S, T2, m2) BY <1>1, <1>2 DEF TablesOk, LiveOk, Fold
<1>4. RowsOk(E, T2) BY <1>1, <1>2 DEF TablesOk, RowsOk, Exists
<1>5. ClientOk(E, T2, m2, n, c) BY <1>1 DEF TablesOk, ClientOk
<1>6. WinsOk(T2, m2, n, w)
  <2>1. \A v \in w : v.key \in MapKeys BY DEF TablesOk, WinsOk, WinT
  <2> QED BY <1>1, <1>2, <2>1 DEF TablesOk, WinsOk, Exists
<1>7. ClrOk(E, m2, r) BY DEF TablesOk, ClrOk
<1>8. MetaOk(m2, n) BY DEF TablesOk, MetaOk
<1> QED BY <1>3, <1>4, <1>5, <1>6, <1>7, <1>8 DEF TablesOk

\* Without a meta row rows may go.
LEMMA EpochGone ==
  ASSUME NEW E, NEW S, NEW T, NEW m, NEW n, NEW c, NEW w, NEW r,
         TablesOk(E, S, T, m, n, c, w, r), NEW S2, S2 \subseteq S, NEW T2,
         T2 \in [MapKeys -> RowT], \A k \in MapKeys : T2[k] \in {T[k], NoRow},
         NEW m2 \in MetaT, m2.epoch = 0, NEW r2, ClrOk(E, m2, r2)
  PROVE  TablesOk(E, S2, T2, m2, n, c, w, r2)
<1>1. LiveOk(E, S2, T2, m2) BY DEF LiveOk
<1>2. RowsOk(E, T2) BY DEF TablesOk, RowsOk, Exists
<1>3. ClientOk(E, T2, m2, n, c) BY DEF TablesOk, ClientOk
<1>4. WinsOk(T2, m2, n, w) BY DEF TablesOk, WinsOk
<1>5. MetaOk(m2, n) BY DEF TablesOk, MetaOk
<1>6. S2 \subseteq E BY DEF TablesOk
<1> QED BY <1>1, <1>2, <1>3, <1>4, <1>5, <1>6 DEF TablesOk

LEMMA InvTables ==
  ASSUME MapInv
  PROVE  /\ TablesOk(mapEver, stream, state, mapMeta, mapEpochs, client, wins, clr)
         /\ IdemOk /\ mapNow \in Nat /\ mapVictim \in Nat
         /\ mapMeta \in MetaT /\ mapEpochs \in Nat /\ mapMeta.off \in Nat
         /\ mapMeta.epoch \in Nat /\ mapMeta.expires \in Nat
         /\ state \in [MapKeys -> RowT] /\ clr \in ClrT /\ client \in ClientT
         /\ client.pos \in PosT /\ client.view \in [MapKeys -> Nat] /\ client.cursor \in Nat
BY DEF MapInv, TablesOk, MetaOk, MetaT, RowsOk, ClrOk, ClientOk, ClientT

\* The meta row publish works on, found or new, and the state table with it.
LEMMA Locked ==
  ASSUME MapInv, NEW ks, NotBlocked(ks)
  PROVE  /\ TablesOk(mapEver, stream, Wiped, MapLockedMeta, NewEpochs, client, wins, clr)
         /\ MapLockedMeta.epoch # 0
<1>1. CASE mapMeta.epoch = 0
  <2>1. clr.keys = {} BY <1>1 DEF NotBlocked
  <2>2. /\ Wiped = [k \in MapKeys |-> NoRow] /\ NewEpochs = mapEpochs + 1
        /\ MapLockedMeta = [off |-> 0, epoch |-> mapEpochs + 1, expires |-> Never]
    BY <1>1 DEF Wiped, NewEpochs, MapLockedMeta
  <2>3. TablesOk(mapEver, stream, Wiped, MapLockedMeta, NewEpochs, client, wins, clr)
    BY <1>1, <2>1, <2>2, InvTables, BeginEpoch
  <2>4. MapLockedMeta.epoch = mapEpochs + 1 BY <2>2
  <2> QED BY <2>3, <2>4, InvTables
<1>2. CASE mapMeta.epoch # 0
  <2>1. Wiped = state /\ NewEpochs = mapEpochs /\ MapLockedMeta = mapMeta
    BY <1>2 DEF Wiped, NewEpochs, MapLockedMeta
  <2> QED BY <1>2, <2>1, InvTables
<1> QED BY <1>1, <1>2

LEMMA IdemSaved ==
  ASSUME IdemOk, NEW idk \in IdemKeys \cup {MapNoKey}, NEW off \in Nat \ {0}, NEW epoch,
         mapIdem' = MapSavedIdem(idk, off, epoch)
  PROVE  IdemOk'
<1>1. CASE idk = MapNoKey \/ mapIdem[idk] # MapNoIdem
  <2>1. mapIdem' = mapIdem BY <1>1 DEF MapSavedIdem
  <2> QED BY <2>1 DEF IdemOk
<1>2. CASE ~(idk = MapNoKey \/ mapIdem[idk] # MapNoIdem)
  <2> DEFINE x == [off |-> off, epoch |-> epoch, expires |-> mapNow + IdemTTL]
  <2>1. mapIdem' = [mapIdem EXCEPT ![idk] = x] /\ x.off = off BY <1>2 DEF MapSavedIdem
  <2> HIDE DEF x
  <2>2. mapIdem' = [i \in IdemKeys |-> mapIdem'[i]] BY <2>1 DEF IdemOk
  <2>3. \A i \in IdemKeys : mapIdem'[i] = IF i = idk THEN x ELSE mapIdem[i] BY <2>1 DEF IdemOk
  <2> QED BY <2>1, <2>2, <2>3 DEF IdemOk
<1> QED BY <1>1, <1>2

LEMMA Expiries ==
  ASSUME MapInv, NEW m \in MetaT PROVE MetaExpiry(m) \in Nat /\ After(KeyTTL) \in Nat
BY InvTables, TTLAssumption DEF MetaExpiry, After, MetaT, Never

-----------------------------------------------------------------------------
(* publish.                                                                *)

LEMMA Reasons ==
  ASSUME NEW g, NEW x, NEW row, NEW epoch
  PROVE  /\ Suppression(g, x, row, epoch) = "none" => ~PositionMismatch(x, row, epoch)
         /\ Suppression(g, x, row, epoch) = "key_exists" => Exists(row)
<1> DEFINE a == MapIdempotencyHit(g.idk)
           b == ~MapIdempotencyHit(g.idk) /\ MapVersionStale(g, row)
           d == IF g.mode = "if_new" /\ Exists(row) THEN "key_exists"
                ELSE IF g.mode = "if_exists" /\ ~Exists(row) THEN "key_not_found"
                ELSE IF PositionMismatch(x, row, epoch) THEN "position_mismatch"
                ELSE "none"
<1>1. Suppression(g, x, row, epoch) = CASE a -> "idempotency" [] b -> "version" [] OTHER -> d
  BY DEF Suppression
<1>2. d = "none" => ~PositionMismatch(x, row, epoch) OBVIOUS
<1>3. d = "key_exists" => Exists(row) OBVIOUS
<1>4. a => ~b OBVIOUS
<1> HIDE DEF a, b, d
<1>5. Suppression(g, x, row, epoch) \in {"idempotency", "version", d}
  BY <1>1, <1>4
<1> QED BY <1>2, <1>3, <1>5

LEMMA ExpectedType ==
  ASSUME MapInv, NEW g, NEW x \in Expected(g) PROVE x \in PosT
<1>1. NoPos \in PosT BY DEF NoPos, PosT
<1>2. mapEver \subseteq EntryT BY InvTables DEF TablesOk, EverOk
<1>3. ASSUME NEW e \in mapEver
      PROVE  [off |-> e.off, epoch |-> e.epoch] \in PosT /\ [off |-> e.off, epoch |-> 0] \in PosT
  BY <1>2 DEF EntryT, PosT
<1>4. KnownPositions \subseteq PosT BY <1>3 DEF KnownPositions
<1> QED BY <1>1, <1>4 DEF Expected

\* The row a successful publish writes.
Written(g, row, m) ==
    [off |-> m.off + 1, epoch |-> m.epoch,
     ver |-> IF g.ver > 0 THEN g.ver ELSE row.ver,
     ve |-> IF g.ver > 0 /\ g.ve # NoVersionEpoch THEN g.ve ELSE row.ve,
     expires |-> After(KeyTTL)]

LEMMA WrittenFacts ==
  ASSUME MapInv, NEW g \in PubArgs, NEW row \in RowT, NEW m \in MetaT
  PROVE  /\ Written(g, row, m) \in RowT
         /\ Written(g, row, m).off = m.off + 1 /\ Written(g, row, m).epoch = m.epoch
<1>1. After(KeyTTL) \in Nat BY Expiries
<1>2. m.off + 1 \in Nat /\ m.epoch \in Nat BY DEF MetaT
<1>3. (IF g.ver > 0 THEN g.ver ELSE row.ver) \in Nat BY DEF PubArgs, RowT
<1>4. (IF g.ver > 0 /\ g.ve # NoVersionEpoch THEN g.ve ELSE row.ve) \in VersionEpochs
  BY DEF PubArgs, RowT
<1> QED BY <1>1, <1>2, <1>3, <1>4 DEF Written, RowT

LEMMA OneEntry ==
  ASSUME NEW m \in MetaT, m.epoch # 0, NEW k \in MapKeys, NEW b \in BOOLEAN
  PROVE  LET e == Entry(m.off + 1, m.epoch, k, b)
         IN  e \in EntryT /\ e.off = m.off + 1 /\ e.epoch = m.epoch /\ e.key = k /\ e.removed = b
BY DEF Entry, EntryT, MetaT

LEMMA PublishAccepted ==
  ASSUME MapInv, NEW g \in PubArgs, NEW x \in PosT, NotBlocked({g.key}),
         NEW m, m = MapLockedMeta, NEW s, s = Wiped,
         Suppression(g, x, s[g.key], m.epoch) = "none",
         mapMeta' = [off |-> m.off + 1, epoch |-> m.epoch, expires |-> MetaExpiry(m)],
         state' = [s EXCEPT ![g.key] = Written(g, s[g.key], m)],
         AddEntries({Entry(m.off + 1, m.epoch, g.key, FALSE)}),
         mapIdem' = MapSavedIdem(g.idk, m.off + 1, m.epoch),
         wins' = IF x = NoPos THEN wins
                 ELSE wins \cup {[key |-> g.key, expected |-> x,
                                  off |-> m.off + 1, epoch |-> m.epoch]},
         mapEpochs' = NewEpochs, UNCHANGED <<mapNow, mapVictim, clr, client>>
  PROVE  MapInv'
<1> DEFINE e == Entry(m.off + 1, m.epoch, g.key, FALSE)
<1>1. TablesOk(mapEver, stream, s, m, NewEpochs, client, wins, clr) /\ m.epoch # 0 BY Locked
<1>2. m \in MetaT /\ m.off \in Nat /\ s \in [MapKeys -> RowT]
  BY <1>1 DEF TablesOk, MetaOk, MetaT, RowsOk
<1>3. g.key \in MapKeys /\ s[g.key] \in RowT /\ g.idk \in IdemKeys \cup {MapNoKey}
  BY <1>2 DEF PubArgs
<1>4. /\ e \in EntryT /\ e.off = m.off + 1 /\ e.epoch = m.epoch /\ e.key = g.key /\ ~e.removed
  BY <1>1, <1>2, <1>3, OneEntry
<1>5. stream' = stream \cup {e} /\ mapEver' = mapEver \cup {e} BY DEF AddEntries
<1> HIDE DEF e
<1>6. mapMeta' \in MetaT /\ mapMeta'.off = m.off + 1 /\ mapMeta'.epoch = m.epoch
  <2>1. MetaExpiry(m) \in Nat BY <1>2, Expiries
  <2> QED BY <1>2, <2>1 DEF MetaT
<1>7. /\ state' \in [MapKeys -> RowT]
      /\ state'[g.key].off = m.off + 1 /\ state'[g.key].epoch = m.epoch
      /\ \A k \in MapKeys : k # g.key => state'[k] = s[k]
  <2> DEFINE t == Written(g, s[g.key], m)
  <2>1. t \in RowT /\ t.off = m.off + 1 /\ t.epoch = m.epoch BY <1>2, <1>3, WrittenFacts
  <2>2. state' = [s EXCEPT ![g.key] = t] OBVIOUS
  <2> HIDE DEF t
  <2> QED BY <1>2, <1>3, <2>1, <2>2
<1>8. Batch(mapEver, s, m, {e}, state', mapMeta')
  <2>1. IsFiniteSet({e}) BY FS_Singleton
  <2>2. \A f \in {e} : f.epoch = m.epoch /\ m.off < f.off /\ f.off <= mapMeta'.off
    BY <1>2, <1>4, <1>6
  <2> QED BY <1>1, <1>2, <1>4, <1>6, <1>7, <2>1, <2>2 DEF Batch
<1>9. TablesOk(mapEver', stream', state', mapMeta', mapEpochs', client', wins, clr')
  BY <1>1, <1>5, <1>8, Batched
<1>10. WinsOk(state', mapMeta', mapEpochs', wins')
  <2>1. CASE x = NoPos BY <1>9, <2>1 DEF TablesOk
  <2>2. CASE x # NoPos
    <3>1. ~PositionMismatch(x, s[g.key], m.epoch) BY Reasons
    <3>2. /\ Exists(s[g.key]) /\ s[g.key].off = x.off /\ (x.epoch # 0 => x.epoch = m.epoch)
      BY <2>2, <3>1 DEF PositionMismatch
    <3>3. WinsOk(state', mapMeta', NewEpochs, wins) BY <1>9 DEF TablesOk
    <3>4. WinsOk(state', mapMeta', NewEpochs,
                 wins \cup {[key |-> g.key, expected |-> x, off |-> m.off + 1, epoch |-> m.epoch]})
      BY <1>1, <1>3, <1>6, <1>7, <3>2, <3>3, OneMoreWin
    <3> QED BY <2>2, <3>4
  <2> QED BY <2>1, <2>2
<1>11. IdemOk'
  <2>1. m.off + 1 \in Nat \ {0} BY <1>2
  <2> QED BY <1>3, <2>1, IdemSaved, InvTables
<1> QED BY <1>9, <1>10, <1>11, InvTables DEF MapInv, TablesOk

LEMMA PublishSuppressed ==
  ASSUME MapInv, NEW g \in PubArgs, NEW x \in PosT, NotBlocked({g.key}),
         NEW m, m = MapLockedMeta, NEW s, s = Wiped, NEW refreshed \in BOOLEAN,
         refreshed => Suppression(g, x, s[g.key], m.epoch) = "key_exists",
         mapMeta' = IF refreshed THEN [m EXCEPT !.expires = MetaExpiry(m)] ELSE m,
         state' = IF refreshed THEN [s EXCEPT ![g.key].expires = mapNow + KeyTTL] ELSE s,
         mapEpochs' = NewEpochs,
         UNCHANGED <<stream, mapIdem, mapEver, wins, mapNow, mapVictim, clr, client>>
  PROVE  MapInv'
<1>1. TablesOk(mapEver, stream, s, m, NewEpochs, client, wins, clr) /\ m.epoch # 0 BY Locked
<1>2. m \in MetaT /\ s \in [MapKeys -> RowT] BY <1>1 DEF TablesOk, MetaOk, RowsOk
<1>3. g.key \in MapKeys /\ s[g.key] \in RowT BY <1>2 DEF PubArgs
<1>4. TablesOk(mapEver', stream', state', mapMeta', mapEpochs', client', wins', clr')
  <2>1. CASE ~refreshed BY <1>1, <2>1
  <2>2. CASE refreshed
    <3>1. mapMeta' \in MetaT /\ mapMeta'.epoch = m.epoch /\ mapMeta'.off = m.off
      <4>1. MetaExpiry(m) \in Nat BY <1>2, Expiries
      <4>2. mapMeta' = [m EXCEPT !.expires = MetaExpiry(m)] BY <2>2
      <4> QED BY <1>2, <4>1, <4>2 DEF MetaT
    <3>2. Exists(s[g.key]) BY <2>2, Reasons
    <3> DEFINE t == [s[g.key] EXCEPT !.expires = mapNow + KeyTTL]
    <3>3. t \in RowT /\ t.off = s[g.key].off /\ t.epoch = s[g.key].epoch
      <4>1. mapNow + KeyTTL \in Nat BY InvTables, TTLAssumption
      <4> QED BY <1>3, <4>1 DEF RowT
    <3>4. state' = [s EXCEPT ![g.key] = t] BY <2>2
    <3> HIDE DEF t
    <3>5. /\ state' \in [MapKeys -> RowT] /\ state'[g.key] = t
          /\ \A k \in MapKeys : k # g.key => state'[k] = s[k]
      BY <1>2, <1>3, <3>3, <3>4
    <3>6. Exists(t)
      <4>1. PICK e \in mapEver : e.off = s[g.key].off BY <1>1, <1>3, <3>2 DEF TablesOk, RowsOk
      <4>2. e.off # 0 BY <1>1 DEF TablesOk, EverOk, EntryT
      <4> QED BY <3>3, <4>1, <4>2, NoRowFacts DEF Exists
    <3>7. \A k \in MapKeys : \/ state'[k] = s[k]
                             \/ /\ Exists(s[k]) /\ Exists(state'[k])
                                /\ state'[k].off = s[k].off /\ state'[k].epoch = s[k].epoch
      BY <3>2, <3>3, <3>5, <3>6
    <3>8. PICK T2, m2, N : T2 = state' /\ m2 = mapMeta' /\ N = NewEpochs OBVIOUS
    <3>9. /\ m2 \in MetaT /\ m2.epoch = m.epoch /\ m2.off = m.off /\ T2 \in [MapKeys -> RowT]
          /\ \A k \in MapKeys : \/ T2[k] = s[k]
                                \/ /\ Exists(s[k]) /\ Exists(T2[k])
                                   /\ T2[k].off = s[k].off /\ T2[k].epoch = s[k].epoch
      BY <3>1, <3>5, <3>7, <3>8
    <3>10. TablesOk(mapEver, stream, s, m, N, client, wins, clr) BY <1>1, <3>8
    <3>11. TablesOk(mapEver, stream, T2, m2, N, client, wins, clr)
      BY ONLY <3>9, <3>10, Refreshed
    <3> QED BY <3>8, <3>11
  <2> QED BY <2>1, <2>2
<1>5. IdemOk' BY InvTables DEF IdemOk
<1> QED BY <1>4, <1>5, InvTables DEF MapInv

LEMMA PublishStep ==
  ASSUME MapInv, NEW g \in MapPublishArgs, NEW x \in Expected(g), MapPublish(g, x)
  PROVE  MapInv'
<1>4. PICK m, s : m = MapLockedMeta /\ s = Wiped OBVIOUS
<1> DEFINE reason == Suppression(g, x, s[g.key], m.epoch)
           refreshed == g.refresh /\ KeyTTL # 0 /\ reason = "key_exists"
<1>1. g \in PubArgs /\ x \in PosT BY MapArgsAssumption, ExpectedType
<1>2. /\ NotBlocked({g.key})
      /\ \/ /\ reason = "none"
            /\ mapMeta' = [off |-> m.off + 1, epoch |-> m.epoch, expires |-> MetaExpiry(m)]
            /\ state' = [s EXCEPT ![g.key] = Written(g, s[g.key], m)]
            /\ AddEntries({Entry(m.off + 1, m.epoch, g.key, FALSE)})
            /\ mapIdem' = MapSavedIdem(g.idk, m.off + 1, m.epoch)
            /\ wins' = IF x = NoPos THEN wins
                       ELSE wins \cup {[key |-> g.key, expected |-> x,
                                        off |-> m.off + 1, epoch |-> m.epoch]}
            /\ mapEpochs' = NewEpochs
         \/ /\ mapMeta' = IF refreshed THEN [m EXCEPT !.expires = MetaExpiry(m)] ELSE m
            /\ state' = IF refreshed THEN [s EXCEPT ![g.key].expires = mapNow + KeyTTL] ELSE s
            /\ mapEpochs' = NewEpochs
            /\ UNCHANGED <<stream, mapIdem, mapEver, wins>>
         \/ UNCHANGED <<tables, mapEver, wins, mapEpochs>>
      /\ UNCHANGED <<mapNow, mapVictim, clr, client>>
  BY <1>4, Zenon DEF MapPublish, Written
<1>3. refreshed \in BOOLEAN /\ (refreshed => reason = "key_exists") BY <1>1 DEF PubArgs
<1> HIDE DEF refreshed
<1>5. CASE UNCHANGED <<tables, mapEver, wins, mapEpochs>>
  BY <1>2, <1>5 DEF MapInv, IdemOk, tables
<1>6. CASE /\ reason = "none"
           /\ mapMeta' = [off |-> m.off + 1, epoch |-> m.epoch, expires |-> MetaExpiry(m)]
           /\ state' = [s EXCEPT ![g.key] = Written(g, s[g.key], m)]
           /\ AddEntries({Entry(m.off + 1, m.epoch, g.key, FALSE)})
           /\ mapIdem' = MapSavedIdem(g.idk, m.off + 1, m.epoch)
           /\ wins' = IF x = NoPos THEN wins
                      ELSE wins \cup {[key |-> g.key, expected |-> x,
                                       off |-> m.off + 1, epoch |-> m.epoch]}
           /\ mapEpochs' = NewEpochs
  <2>1. NotBlocked({g.key}) /\ UNCHANGED <<mapNow, mapVictim, clr, client>> BY <1>2
  <2>2. Suppression(g, x, s[g.key], m.epoch) = "none" BY <1>6
  <2> HIDE DEF reason
  <2> QED BY <1>1, <1>4, <1>6, <2>1, <2>2, PublishAccepted
<1>7. CASE /\ mapMeta' = IF refreshed THEN [m EXCEPT !.expires = MetaExpiry(m)] ELSE m
           /\ state' = IF refreshed THEN [s EXCEPT ![g.key].expires = mapNow + KeyTTL] ELSE s
           /\ mapEpochs' = NewEpochs
           /\ UNCHANGED <<stream, mapIdem, mapEver, wins>>
  BY <1>1, <1>2, <1>3, <1>4, <1>7, PublishSuppressed
<1> QED BY <1>2, <1>5, <1>6, <1>7

-----------------------------------------------------------------------------
(* remove and expire_keys.                                                 *)

LEMMA MetaMoved ==
  ASSUME NEW m \in MetaT, NEW n \in Nat, NEW x \in Nat
  PROVE  LET m2 == [m EXCEPT !.off = @ + n, !.expires = x]
         IN  m2 \in MetaT /\ m2.off = m.off + n /\ m2.epoch = m.epoch
<1>1. m.off \in Nat /\ m.off + n \in Nat /\ m.epoch \in Nat BY DEF MetaT
<1>2. [m EXCEPT !.off = @ + n, !.expires = x] = [off |-> m.off + n, epoch |-> m.epoch, expires |-> x]
  <2> DEFINE a == [m EXCEPT !.off = m.off + n]
  <2>1. a = [off |-> m.off + n, epoch |-> m.epoch, expires |-> m.expires] BY DEF MetaT
  <2>2. [m EXCEPT !.off = @ + n, !.expires = x] = [a EXCEPT !.expires = x] BY DEF MetaT
  <2> HIDE DEF a
  <2> QED BY <2>1, <2>2
<1> QED BY <1>1, <1>2 DEF MetaT

LEMMA RemoveStep ==
  ASSUME MapInv, NEW g \in RemoveArgs, NEW x, Remove(g, x)
  PROVE  MapInv'
<1> DEFINE e == Entry(mapMeta.off + 1, mapMeta.epoch, g.key, TRUE)
<1>1. g.key \in MapKeys /\ g.idk \in IdemKeys \cup {MapNoKey} BY MapArgsAssumption DEF RemArgs
<1>2. mapMeta.epoch # 0 BY Zenon DEF Remove, RemoveReason
<1>3. /\ e \in EntryT /\ e.off = mapMeta.off + 1 /\ e.epoch = mapMeta.epoch
      /\ e.key = g.key /\ e.removed
  BY <1>1, <1>2, InvTables, OneEntry
<1>4. stream' = stream \cup {e} /\ mapEver' = mapEver \cup {e} BY DEF Remove, AddEntries
<1> HIDE DEF e
<1>5. mapMeta' \in MetaT /\ mapMeta'.off = mapMeta.off + 1 /\ mapMeta'.epoch = mapMeta.epoch
  <2>1. MetaExpiry(mapMeta) \in Nat BY Expiries, InvTables
  <2>2. mapMeta' = [mapMeta EXCEPT !.off = @ + 1, !.expires = MetaExpiry(mapMeta)] BY DEF Remove
  <2>3. mapMeta \in MetaT /\ 1 \in Nat BY InvTables
  <2> QED BY ONLY <2>1, <2>2, <2>3, MetaMoved
<1>6. /\ state' \in [MapKeys -> RowT] /\ state'[g.key] = NoRow
      /\ \A k \in MapKeys : k # g.key => state'[k] = state[k]
  BY <1>1, InvTables, NoRowFacts DEF Remove
<1>7. Batch(mapEver, state, mapMeta, {e}, state', mapMeta')
  <2>1. IsFiniteSet({e}) BY FS_Singleton
  <2>2. \A f \in {e} : f.epoch = mapMeta.epoch /\ mapMeta.off < f.off /\ f.off <= mapMeta'.off
    BY <1>3, <1>5, InvTables
  <2>3. mapMeta.off <= mapMeta'.off BY <1>5, InvTables
  <2> QED BY <1>2, <1>3, <1>5, <1>6, <2>1, <2>2, <2>3 DEF Batch
<1>8. TablesOk(mapEver', stream', state', mapMeta', mapEpochs, client, wins, clr)
  BY <1>4, <1>7, Batched, InvTables
<1>9. IdemOk'
  <2>1. mapMeta.off + 1 \in Nat \ {0} BY InvTables
  <2>2. mapIdem' = MapSavedIdem(g.idk, mapMeta.off + 1, mapMeta.epoch) BY DEF Remove
  <2> QED BY <1>1, <2>1, <2>2, IdemSaved, InvTables
<1> QED BY <1>8, <1>9, InvTables DEF MapInv, Remove

\* A batch of expired keys, none twice: each gets a removal of its own.
LEMMA ExpireBatched ==
  ASSUME MapInv, mapMeta.epoch # 0, NEW n \in Nat, NEW ks \in [1 .. n -> MapKeys],
         Cardinality({ks[i] : i \in 1 .. n}) = n,
         mapMeta' = [mapMeta EXCEPT !.off = @ + n, !.expires = MetaExpiry(mapMeta)],
         state' = [k \in MapKeys |-> IF k \in {ks[i] : i \in 1 .. n} THEN NoRow ELSE state[k]],
         AddEntries({Entry(mapMeta.off + i, mapMeta.epoch, ks[i], TRUE) : i \in 1 .. n}),
         UNCHANGED <<mapNow, mapIdem, mapVictim, clr, client, wins, mapEpochs>>
  PROVE  MapInv'
<1> DEFINE gone == {ks[i] : i \in 1 .. n}
           Ent(i) == Entry(mapMeta.off + i, mapMeta.epoch, ks[i], TRUE)
           es == {Ent(i) : i \in 1 .. n}
<1>1. \A i, j \in 1 .. n : ks[i] = ks[j] => i = j
  <2>1. ks \in Surjection(1 .. n, gone) BY DEF Surjection
  <2>2. IsFiniteSet(1 .. n) /\ Cardinality(1 .. n) = n
    <3>1. IsFiniteSet(1 .. n) /\ Cardinality(1 .. n) = IF 1 > n THEN 0 ELSE n - 1 + 1 BY FS_Interval
    <3> QED BY <3>1
  <2>3. Cardinality(1 .. n) = Cardinality(gone) BY <2>2
  <2> HIDE DEF gone
  <2>4. ks \in Injection(1 .. n, gone) BY <2>1, <2>2, <2>3, FS_SurjSameCardinalityImpliesInj
  <2> QED BY <2>4 DEF Injection, IsInjective
<1>2. ASSUME NEW i \in 1 .. n
      PROVE  /\ Ent(i) \in EntryT /\ Ent(i).off = mapMeta.off + i /\ Ent(i).epoch = mapMeta.epoch
             /\ Ent(i).key = ks[i] /\ Ent(i).removed
  <2>1. mapMeta.off + i \in Nat \ {0} /\ mapMeta.epoch \in Nat \ {0} BY InvTables
  <2> QED BY <2>1 DEF Entry, EntryT
<1>3. stream' = stream \cup es /\ mapEver' = mapEver \cup es BY DEF AddEntries
<1>4. IsFiniteSet(es)
  <2> HIDE DEF Ent
  <2> DEFINE f == [i \in 1 .. n |-> Ent(i)]
  <2>1. IsFiniteSet(1 .. n) BY FS_Interval
  <2>2. f \in Surjection(1 .. n, es) BY DEF Surjection
  <2> HIDE DEF f, es
  <2> QED BY <2>1, <2>2, FS_Surjection
<1> HIDE DEF Ent
<1>5. mapMeta' \in MetaT /\ mapMeta'.off = mapMeta.off + n /\ mapMeta'.epoch = mapMeta.epoch
  <2>1. MetaExpiry(mapMeta) \in Nat BY Expiries, InvTables
  <2>2. mapMeta' = [mapMeta EXCEPT !.off = @ + n, !.expires = MetaExpiry(mapMeta)] OBVIOUS
  <2>3. mapMeta \in MetaT /\ n \in Nat BY InvTables
  <2> QED BY ONLY <2>1, <2>2, <2>3, MetaMoved
<1>6. /\ state' \in [MapKeys -> RowT]
      /\ \A k \in MapKeys : k \in gone => state'[k] = NoRow
      /\ \A k \in MapKeys : k \notin gone => state'[k] = state[k]
  <2> HIDE DEF gone
  <2>1. state' = [k \in MapKeys |-> IF k \in gone THEN NoRow ELSE state[k]] BY DEF gone
  <2> QED BY <2>1, InvTables, NoRowFacts
<1>7. Batch(mapEver, state, mapMeta, es, state', mapMeta')
  <2>1. ASSUME NEW e \in es
        PROVE  /\ e \in EntryT /\ e.epoch = mapMeta.epoch /\ mapMeta.off < e.off
               /\ e.off <= mapMeta'.off /\ e.removed /\ state'[e.key] = NoRow
    <3>1. PICK i \in 1 .. n : e = Ent(i) OBVIOUS
    <3>2. ks[i] \in gone /\ ks[i] \in MapKeys OBVIOUS
    <3>3. /\ e \in EntryT /\ e.epoch = mapMeta.epoch /\ e.off = mapMeta.off + i
          /\ e.key = ks[i] /\ e.removed
      BY <1>2, <3>1
    <3> QED BY <1>5, <1>6, <3>2, <3>3, InvTables
  <2>2. ASSUME NEW e \in es, NEW f \in es, e.off = f.off \/ e.key = f.key PROVE e = f
    <3>1. PICK i \in 1 .. n : e = Ent(i) OBVIOUS
    <3>2. PICK j \in 1 .. n : f = Ent(j) OBVIOUS
    <3>3. /\ e.off = mapMeta.off + i /\ f.off = mapMeta.off + j
          /\ e.key = ks[i] /\ f.key = ks[j]
      BY <1>2, <3>1, <3>2
    <3>4. i = j BY <1>1, <2>2, <3>3, InvTables
    <3> QED BY <3>1, <3>2, <3>4
  <2>3. ASSUME NEW k \in MapKeys, \A e \in es : e.key # k PROVE state'[k] = state[k]
    <3>1. k \notin gone
      <4> SUFFICES ASSUME NEW i \in 1 .. n, k = ks[i] PROVE FALSE OBVIOUS
      <4>1. Ent(i) \in es /\ Ent(i).key = ks[i] BY <1>2
      <4> QED BY <2>3, <4>1
    <3> QED BY <1>6, <3>1
  <2>4. mapMeta.off <= mapMeta'.off BY <1>5, InvTables
  <2> HIDE DEF es, gone
  <2> QED BY <1>4, <1>5, <1>6, <2>1, <2>2, <2>3, <2>4 DEF Batch
<1> HIDE DEF es
<1>8. TablesOk(mapEver', stream', state', mapMeta', mapEpochs, client, wins, clr)
  BY <1>3, <1>7, Batched, InvTables
<1>9. IdemOk' BY InvTables DEF IdemOk
<1> QED BY <1>8, <1>9, InvTables DEF MapInv

LEMMA ExpireStep == ASSUME MapInv, ExpireKeys PROVE MapInv'
<1>1. CASE mapMeta.epoch = 0
  <2>1. /\ state' = [k \in MapKeys |-> IF k \in Expired THEN NoRow ELSE state[k]]
        /\ UNCHANGED <<mapMeta, stream, mapEver>>
        /\ UNCHANGED <<mapNow, mapIdem, mapVictim, clr, client, wins, mapEpochs>>
    BY <1>1 DEF ExpireKeys
  <2>2. state' \in [MapKeys -> RowT] /\ \A k \in MapKeys : state'[k] \in {state[k], NoRow}
    BY <2>1, InvTables, NoRowFacts
  <2>3. ClrOk(mapEver, mapMeta, clr) BY InvTables DEF TablesOk
  <2>4. TablesOk(mapEver, stream, state', mapMeta, mapEpochs, client, wins, clr)
    BY <1>1, <2>2, <2>3, InvTables, EpochGone
  <2>5. IdemOk' BY <2>1, InvTables DEF IdemOk
  <2> QED BY <2>1, <2>4, <2>5, InvTables DEF MapInv
<1>2. CASE mapMeta.epoch # 0
  <2> DEFINE free == Expired \ clr.keys
             n == IF Cardinality(free) < ExpireBatch THEN Cardinality(free) ELSE ExpireBatch
  <2>1. /\ \E ks \in [1 .. n -> free] :
              /\ Cardinality({ks[i] : i \in 1 .. n}) = n
              /\ mapMeta' = [mapMeta EXCEPT !.off = @ + n, !.expires = MetaExpiry(mapMeta)]
              /\ state' = [k \in MapKeys |->
                    IF k \in {ks[i] : i \in 1 .. n} THEN NoRow ELSE state[k]]
              /\ AddEntries({Entry(mapMeta.off + i, mapMeta.epoch, ks[i], TRUE) : i \in 1 .. n})
        /\ UNCHANGED <<mapNow, mapIdem, mapVictim, clr, client, wins, mapEpochs>>
    BY <1>2, Zenon DEF ExpireKeys
  <2>2. free \subseteq MapKeys BY DEF Expired
  <2>3. n \in Nat
    <3>1. IsFiniteSet(MapKeys) BY FS_Interval, BoundAssumption DEF MapKeys
    <3>2. Cardinality(free) \in Nat BY <2>2, <3>1, FS_Subset, FS_CardinalityType
    <3> HIDE DEF free
    <3> QED BY <3>2, BoundAssumption
  <2> HIDE DEF free, n
  <2>4. PICK ks \in [1 .. n -> free] :
           /\ Cardinality({ks[i] : i \in 1 .. n}) = n
           /\ mapMeta' = [mapMeta EXCEPT !.off = @ + n, !.expires = MetaExpiry(mapMeta)]
           /\ state' = [k \in MapKeys |-> IF k \in {ks[i] : i \in 1 .. n} THEN NoRow ELSE state[k]]
           /\ AddEntries({Entry(mapMeta.off + i, mapMeta.epoch, ks[i], TRUE) : i \in 1 .. n})
    BY <2>1
  <2>5. ks \in [1 .. n -> MapKeys] BY <2>2
  <2> QED BY <1>2, <2>1, <2>3, <2>4, <2>5, ExpireBatched
<1> QED BY <1>1, <1>2

-----------------------------------------------------------------------------
(* Cleanup and Clear.                                                      *)

LEMMA CleanupStep ==
  ASSUME MapInv, MapCleanupMetaSelect \/ MapCleanupMetaDelete \/ MapCleanupIdempotency \/ MapTick
  PROVE  MapInv'
<1>1. CASE MapCleanupMetaSelect
  BY <1>1, InvTables DEF MapCleanupMetaSelect, MapInv, IdemOk, tables
<1>2. CASE MapCleanupMetaDelete
  <2>1. CASE mapMeta.epoch # mapVictim
    BY <1>2, <2>1 DEF MapCleanupMetaDelete, MapInv, IdemOk
  <2>2. CASE mapMeta.epoch = mapVictim
    <3>1. mapMeta' = MapNoMeta BY <1>2, <2>2 DEF MapCleanupMetaDelete
    <3>2. ClrOk(mapEver, mapMeta', clr)
      BY <3>1, InvTables, NoRowFacts DEF TablesOk, ClrOk
    <3>3. TablesOk(mapEver, stream, state, mapMeta', mapEpochs, client, wins, clr)
      BY <3>1, <3>2, InvTables, NoRowFacts, EpochGone
    <3> QED BY <1>2, <3>3, InvTables DEF MapCleanupMetaDelete, MapInv, IdemOk
  <2> QED BY <2>1, <2>2
<1>3. CASE MapCleanupIdempotency
  <2>1. IdemOk' BY <1>3, InvTables DEF MapCleanupIdempotency, IdemOk
  <2> QED BY <1>3, <2>1, InvTables DEF MapCleanupIdempotency, MapInv
<1>4. CASE MapTick
  BY <1>4, InvTables DEF MapTick, MapInv, IdemOk, tables
<1> QED BY <1>1, <1>2, <1>3, <1>4

LEMMA ClearLooks ==
  ASSUME MapInv, ClearStream \/ ClearState \/ ClearMeta \/ ClearRollback
  PROVE  MapInv'
<1>1. clr \in ClrT /\ clr.rows \subseteq mapEver /\ stream \subseteq mapEver /\ mapEver \subseteq EntryT
  BY InvTables DEF TablesOk, ClrOk, EverOk
<1>2. /\ UNCHANGED <<mapNow, tables, mapVictim, client, mapEver, wins, mapEpochs>>
      /\ clr' \in ClrT /\ clr'.rows \subseteq mapEver
      /\ clr'.pc = "meta" => clr'.epoch = mapMeta.epoch
  <2>1. CASE ClearStream BY <1>1, <2>1 DEF ClearStream, ClrT
  <2>2. CASE ClearState BY <1>1, <2>2 DEF ClearState, ClrT
  <2>3. CASE ClearMeta BY <1>1, <2>3, InvTables DEF ClearMeta, ClrT
  <2>4. CASE ClearRollback BY <1>1, <2>4 DEF ClearRollback, ClrT, NoClear
  <2> QED BY <2>1, <2>2, <2>3, <2>4
<1>3. ClrOk(mapEver, mapMeta, clr') BY <1>2 DEF ClrOk
<1> QED BY <1>2, <1>3 DEF MapInv, TablesOk, IdemOk, tables

LEMMA ClearStep == ASSUME MapInv, ClearCommit PROVE MapInv'
<1>1. clr' = NoClear /\ clr'.pc = "no" /\ clr' \in ClrT /\ clr'.rows = {}
  BY DEF ClearCommit, NoClear, ClrT
<1>2. /\ stream' = stream \ clr.rows
      /\ state' = [k \in MapKeys |-> IF k \in clr.keys THEN NoRow ELSE state[k]]
      /\ mapMeta' = (IF clr.epoch # 0 THEN MapNoMeta ELSE mapMeta)
      /\ mapIdem' = [i \in IdemKeys |-> MapNoIdem]
      /\ UNCHANGED <<mapNow, mapVictim, client, mapEver, wins, mapEpochs>> /\ clr.pc = "meta"
  BY DEF ClearCommit
<1>3. ClrOk(mapEver, mapMeta', clr') BY <1>1 DEF ClrOk
<1>4. state' \in [MapKeys -> RowT] /\ \A k \in MapKeys : state'[k] \in {state[k], NoRow}
  BY <1>2, InvTables, NoRowFacts
<1>5. TablesOk(mapEver, stream', state', mapMeta', mapEpochs, client, wins, clr')
  <2>1. CASE mapMeta'.epoch = 0
    <3>1. mapMeta' \in MetaT BY <1>2, InvTables, NoRowFacts
    <3>2. stream' \subseteq stream BY <1>2
    <3> QED BY <1>3, <1>4, <2>1, <3>1, <3>2, InvTables, EpochGone
  <2>2. CASE mapMeta'.epoch # 0
    <3>1. clr.epoch = 0 /\ mapMeta' = mapMeta BY <1>2, <2>2, NoRowFacts
    <3>2. clr.keys = {} /\ \A e \in clr.rows : e.epoch # mapMeta.epoch
      BY <1>2, <2>2, <3>1, InvTables DEF TablesOk, ClrOk
    <3>3. state' = state BY <1>2, <3>2, InvTables
    <3>4. LiveOk(mapEver, stream', state, mapMeta)
      BY <1>2, <3>2, InvTables DEF TablesOk, LiveOk
    <3> QED BY <1>2, <1>3, <3>1, <3>3, <3>4, InvTables DEF TablesOk
  <2> QED BY <2>1, <2>2
<1>6. IdemOk' BY <1>2 DEF IdemOk
<1> QED BY <1>2, <1>5, <1>6, InvTables DEF MapInv

-----------------------------------------------------------------------------
(* The client.                                                             *)

\* The client's step changes nothing else.
LEMMA ClientMoves ==
  ASSUME MapInv, UNCHANGED <<mapNow, tables, mapVictim, clr, mapEver, wins, mapEpochs>>,
         ClientOk(mapEver, state, mapMeta, mapEpochs, client')
  PROVE  MapInv'
BY DEF MapInv, TablesOk, IdemOk, tables

LEMMA RestartStep == ASSUME MapInv, Unrecoverable PROVE MapInv'
<1>1. client' = Unsynced BY DEF Unrecoverable
<1>2. /\ Unsynced \in ClientT /\ Unsynced.pc = "idle" /\ Unsynced.cursor = 0
      /\ Unsynced.pos.epoch = 0 /\ \A k \in MapKeys : Unsynced.view[k] = 0
  BY DEF Unsynced, ClientT, PosT, NoPos
<1>3. ClientOk(mapEver, state, mapMeta, mapEpochs, Unsynced) BY <1>2, InvTables DEF ClientOk
<1> QED BY <1>1, <1>3, ClientMoves DEF Unrecoverable

\* A page holds the first keys after the cursor: those up to the next cursor,
\* or all of them when there is no next page.
LEMMA PageFacts ==
  ASSUME MapInv, NEW cursor \in Nat
  PROVE  /\ Page(cursor) \subseteq KeysFound(cursor)
         /\ NextCursor(cursor) \in Nat
         /\ NextCursor(cursor) = 0 => Page(cursor) = KeysFound(cursor)
         /\ NextCursor(cursor) # 0 =>
              /\ NextCursor(cursor) > cursor
              /\ \A k \in Page(cursor) : k <= NextCursor(cursor)
              /\ \A k \in KeysFound(cursor) : k <= NextCursor(cursor) => k \in Page(cursor)
<1> DEFINE F == KeysFound(cursor)
           P == Page(cursor)
           Upto(k) == {j \in F : j <= k}
<1>1. /\ F \subseteq MapKeys /\ F \subseteq Nat /\ NumKeys \in Nat
      /\ \A k \in F : k <= NumKeys /\ k # 0 /\ k > cursor
  BY BoundAssumption DEF KeysFound, MapKeys
<1>2. P = {k \in F : Cardinality(Upto(k)) <= PageLimit} BY DEF Page
<1>3. IsFiniteSet(F)
  <2>1. IsFiniteSet(MapKeys) BY FS_Interval, BoundAssumption DEF MapKeys
  <2> QED BY <1>1, <2>1, FS_Subset
<1>4. P \subseteq F BY <1>2
<1>5. NextCursor(cursor) = IF F = P THEN 0 ELSE CHOOSE k \in P : \A j \in P : j <= k
  BY DEF NextCursor
<1> HIDE DEF F, P
<1>6. ASSUME F # P
      PROVE  /\ NextCursor(cursor) \in P /\ \A j \in P : j <= NextCursor(cursor)
             /\ \A k \in F : k <= NextCursor(cursor) => k \in P
  <2>1. P # {}
    <3>1. F # {} BY <1>4, <1>6
    <3>2. PICK a \in F : \A j \in F : a <= j BY <1>1, <3>1, NatMin
    <3>3. Upto(a) = {a}
      <4>1. \A j \in F : j <= a => j = a BY <1>1, <3>2
      <4>2. a <= a BY <1>1
      <4> QED BY <4>1, <4>2
    <3>4. Cardinality(Upto(a)) = 1 BY <3>3, FS_Singleton
    <3>5. a \in P
      <4> HIDE DEF Upto
      <4> QED BY <1>2, <3>4, BoundAssumption
    <3> QED BY <3>5
  <2>2. \E k \in P : \A j \in P : j <= k
    <3>1. P \subseteq Nat /\ \A k \in P : k <= NumKeys BY <1>1, <1>4
    <3> QED BY <1>1, <2>1, <3>1, NatMax
  <2>3. NextCursor(cursor) \in P /\ \A j \in P : j <= NextCursor(cursor) BY <1>5, <1>6, <2>2
  <2>4. ASSUME NEW k \in F, k <= NextCursor(cursor) PROVE k \in P
    <3> DEFINE q == NextCursor(cursor)
    <3>1. q \in F /\ Cardinality(Upto(q)) <= PageLimit BY <1>2, <2>3
    <3> HIDE DEF q
    <3>2. k \in Nat /\ q \in Nat /\ k <= q BY <1>1, <2>4, <3>1 DEF q
    <3>3. Upto(k) \subseteq Upto(q) /\ Upto(q) \subseteq F
      <4>1. \A j \in F : j <= k => j <= q BY <1>1, <3>2
      <4> QED BY <4>1
    <3> HIDE DEF Upto
    <3>4. IsFiniteSet(Upto(q)) BY <1>3, <3>3, FS_Subset
    <3>5. /\ Cardinality(Upto(k)) <= Cardinality(Upto(q)) /\ IsFiniteSet(Upto(k))
      BY <3>3, <3>4, FS_Subset
    <3>6. Cardinality(Upto(k)) \in Nat /\ Cardinality(Upto(q)) \in Nat
      BY <3>4, <3>5, FS_CardinalityType
    <3>7. Cardinality(Upto(k)) <= PageLimit BY <3>1, <3>5, <3>6, BoundAssumption
    <3> QED BY <1>2, <3>7
  <2> QED BY <2>3, <2>4
<1>7. CASE F = P
  <2>1. NextCursor(cursor) = 0 BY <1>5, <1>7
  <2> QED BY <1>7, <2>1 DEF F, P
<1>8. CASE F # P
  <2>1. NextCursor(cursor) \in Nat /\ NextCursor(cursor) # 0 /\ NextCursor(cursor) > cursor
    BY <1>1, <1>4, <1>6, <1>8
  <2> QED BY <1>4, <1>6, <1>8, <2>1 DEF F, P
<1> QED BY <1>7, <1>8

LEMMA ReadPageStep == ASSUME MapInv, ReadPage PROVE MapInv'
<1> DEFINE q == client.cursor
           nc == NextCursor(q)
           P == Page(q)
           pos == IF client.pc = "idle" THEN [off |-> mapMeta.off, epoch |-> mapMeta.epoch]
                  ELSE client.pos
           view == [k \in MapKeys |-> IF k \in P THEN state[k].off ELSE client.view[k]]
           pc == IF nc = 0 THEN "live" ELSE "paging"
<1>1. /\ client.pc \in {"idle", "paging"} /\ mapMeta.epoch # 0
      /\ client.pc = "paging" => client.pos.epoch = mapMeta.epoch
      /\ client' = [pc |-> pc, pos |-> pos, view |-> view, cursor |-> nc]
      /\ UNCHANGED <<mapNow, tables, mapVictim, clr, mapEver, wins, mapEpochs>>
  BY DEF ReadPage
<1>2. q \in Nat /\ nc \in Nat BY InvTables, PageFacts
<1>3. pos \in PosT /\ pos.epoch = mapMeta.epoch /\ pos.off <= mapMeta.off
  <2>1. CASE client.pc = "idle" BY <2>1, InvTables DEF PosT
  <2>2. CASE client.pc = "paging"
    BY <1>1, <2>2, InvTables DEF TablesOk, ClientOk
  <2> QED BY <1>1, <2>1, <2>2
<1>4. /\ view \in [MapKeys -> Nat]
      /\ \A k \in MapKeys : view[k] = IF k \in P THEN state[k].off ELSE client.view[k]
  BY InvTables DEF RowT
<1> HIDE DEF q, nc, P, pos, view
<1>5. /\ P \subseteq KeysFound(q)
      /\ nc = 0 => P = KeysFound(q)
      /\ nc # 0 => /\ nc > q
                   /\ \A k \in P : k <= nc
                   /\ \A k \in KeysFound(q) : k <= nc => k \in P
  BY <1>2, PageFacts DEF nc, P
<1>6. ASSUME NEW k \in MapKeys, k > q PROVE client.view[k] = 0
  BY <1>1, <1>6, InvTables DEF TablesOk, ClientOk, q
<1>7. \A k \in MapKeys : k \in Nat BY DEF MapKeys
<1>8. ASSUME NEW k \in MapKeys, nc # 0, k > nc PROVE view[k] = 0
  <2>1. k \notin P BY <1>2, <1>5, <1>7, <1>8
  <2>2. k > q BY <1>2, <1>5, <1>7, <1>8
  <2> QED BY <1>4, <1>6, <2>1, <2>2
<1>9. ASSUME NEW k \in MapKeys, nc = 0 \/ k <= nc,
             Settled(mapEver, mapMeta.epoch, k, pos.off)
      PROVE  view[k] = state[k].off
  <2>1. CASE k \in P BY <1>4, <2>1
  <2>2. CASE k \notin P /\ k > q
    <3>1. k \notin KeysFound(q) BY <1>5, <1>9, <2>2
    <3>2. state[k] = NoRow BY <2>2, <3>1 DEF KeysFound, Exists
    <3> QED BY <1>4, <1>6, <2>2, <3>2, NoRowFacts
  <2>3. CASE k \notin P /\ ~(k > q)
    <3>1. k <= q /\ q # 0 BY <1>2, <1>7, <2>3 DEF MapKeys
    <3>2. client.pc = "paging" /\ client.pos.epoch = mapMeta.epoch /\ pos = client.pos
      BY <1>1, <3>1, InvTables DEF TablesOk, ClientOk, q, pos
    <3>3. client.view[k] = state[k].off
      BY <1>1, <1>9, <3>1, <3>2, InvTables DEF TablesOk, ClientOk, q
    <3> QED BY <1>4, <2>3, <3>3
  <2> QED BY <2>1, <2>2, <2>3
<1>10. /\ client' \in ClientT /\ client'.pc = pc /\ client'.pos = pos
       /\ client'.view = view /\ client'.cursor = nc
  BY <1>1, <1>2, <1>3, <1>4 DEF ClientT
<1>11. ClientOk(mapEver, state, mapMeta, mapEpochs, client')
  <2>1. pos.epoch <= mapEpochs BY <1>3, InvTables DEF TablesOk, MetaOk
  <2>2. pc # "idle" /\ (pc = "live" <=> nc = 0) OBVIOUS
  <2> HIDE DEF pc
  <2> QED BY <1>3, <1>8, <1>9, <1>10, <2>1, <2>2 DEF ClientOk
<1> QED BY <1>1, <1>11, ClientMoves

\* Of the entries after the position the client gets those up to an offset.
LEMMA SinceFacts ==
  ASSUME MapInv
  PROVE  /\ SincePosition \subseteq stream
         /\ \A e \in SincePosition : e.epoch = mapMeta.epoch /\ e.off > client.pos.off
         /\ \A e \in SincePosition, f \in stream :
              f.epoch = mapMeta.epoch /\ f.off > client.pos.off /\ f.off <= e.off
              => f \in SincePosition
<1> DEFINE A == {e \in stream : e.epoch = mapMeta.epoch /\ e.off > client.pos.off}
           Upto(e) == {f \in A : f.off <= e.off}
<1>1. SincePosition = {e \in A : Cardinality(Upto(e)) <= StreamLimit} BY DEF SincePosition
<1>2. A \subseteq stream /\ stream \subseteq mapEver /\ IsFiniteSet(mapEver) /\ mapEver \subseteq EntryT
  BY InvTables DEF TablesOk, EverOk
<1>3. IsFiniteSet(A) BY <1>2, FS_Subset
<1>4. ASSUME NEW e \in SincePosition, NEW f \in A, f.off <= e.off PROVE f \in SincePosition
  <2>1. e \in A /\ Cardinality(Upto(e)) <= StreamLimit BY <1>1
  <2>2. Upto(f) \subseteq Upto(e) /\ Upto(e) \subseteq A
    <3>1. \A x \in A : x.off \in Nat BY <1>2 DEF EntryT
    <3> HIDE DEF A
    <3> QED BY <1>4, <2>1, <3>1
  <2> HIDE DEF Upto
  <2>3. IsFiniteSet(Upto(e)) BY <1>3, <2>2, FS_Subset
  <2>4. Cardinality(Upto(f)) <= Cardinality(Upto(e)) /\ IsFiniteSet(Upto(f))
    BY <2>2, <2>3, FS_Subset
  <2>5. Cardinality(Upto(f)) \in Nat /\ Cardinality(Upto(e)) \in Nat
    BY <2>3, <2>4, FS_CardinalityType
  <2>6. Cardinality(Upto(f)) <= StreamLimit BY <2>1, <2>4, <2>5, BoundAssumption
  <2> QED BY <1>1, <2>6
<1> QED BY <1>1, <1>4

\* A non-empty set of entries of the live epoch has a last one.
LEMMA LastEntry ==
  ASSUME MapInv, mapMeta.epoch # 0, NEW A, A \subseteq mapEver, A # {},
         \A e \in A : e.epoch = mapMeta.epoch
  PROVE  \E e \in A : \A f \in A : f.off <= e.off
<1> DEFINE O == {e.off : e \in A}
<1>1. mapEver \subseteq EntryT /\ \A e \in mapEver : e.epoch = mapMeta.epoch => e.off <= mapMeta.off
  BY InvTables DEF TablesOk, EverOk, LiveOk
<1>2. O \subseteq Nat BY <1>1 DEF EntryT
<1>3. \A o \in O : o <= mapMeta.off BY <1>1
<1>4. O # {} OBVIOUS
<1>5. \E o \in O : \A u \in O : u <= o
  <2> HIDE DEF O
  <2> QED BY <1>2, <1>3, <1>4, InvTables, NatMax
<1> QED BY <1>5

LEMMA ReadStreamStep == ASSUME MapInv, ReadStream PROVE MapInv'
<1> DEFINE pubs == SincePosition
           last(k) == CHOOSE e \in pubs : e.key = k /\ \A f \in pubs : f.key = k => f.off <= e.off
           top == CHOOSE e \in pubs : \A f \in pubs : f.off <= e.off
           view == [k \in MapKeys |->
                 IF \E e \in pubs : e.key = k
                 THEN IF last(k).removed THEN 0 ELSE last(k).off
                 ELSE client.view[k]]
<1>1. /\ client.pc = "live" /\ mapMeta.epoch # 0 /\ client.pos.epoch = mapMeta.epoch
      /\ pubs # {}
      /\ client' = [client EXCEPT !.pos.off = top.off, !.view = view]
      /\ UNCHANGED <<mapNow, tables, mapVictim, clr, mapEver, wins, mapEpochs>>
  BY Zenon DEF ReadStream
<1>2. /\ stream \subseteq mapEver /\ mapEver \subseteq EntryT
      /\ \A e \in mapEver : e.epoch = mapMeta.epoch => e.off <= mapMeta.off /\ e \in stream
      /\ \A e \in mapEver : e.off \in Nat \ {0}
  BY <1>1, InvTables DEF TablesOk, EverOk, LiveOk, EntryT
<1>3. /\ pubs \subseteq mapEver
      /\ \A e \in pubs : e.epoch = mapMeta.epoch /\ e.off > client.pos.off
      /\ \A e \in pubs, f \in mapEver :
            f.epoch = mapMeta.epoch /\ f.off > client.pos.off /\ f.off <= e.off => f \in pubs
  BY <1>2, SinceFacts
<1> HIDE DEF pubs
<1>4. top \in pubs /\ \A f \in pubs : f.off <= top.off
  <2>1. \E e \in pubs : \A f \in pubs : f.off <= e.off BY <1>1, <1>3, LastEntry
  <2> QED BY <2>1
<1>5. ASSUME NEW k, \E e \in pubs : e.key = k
      PROVE  last(k) \in pubs /\ last(k).key = k /\ \A f \in pubs : f.key = k => f.off <= last(k).off
  <2> DEFINE A == {e \in pubs : e.key = k}
  <2>1. A \subseteq mapEver /\ A # {} /\ \A e \in A : e.epoch = mapMeta.epoch BY <1>3, <1>5
  <2> HIDE DEF A
  <2>2. \E e \in A : \A f \in A : f.off <= e.off BY <1>1, <2>1, LastEntry
  <2>3. \E e \in pubs : e.key = k /\ \A f \in pubs : f.key = k => f.off <= e.off BY <2>2 DEF A
  <2> QED BY <2>3
<1> HIDE DEF last, top
<1>6. /\ view \in [MapKeys -> Nat]
      /\ \A k \in MapKeys : view[k] = IF \E e \in pubs : e.key = k
                                      THEN IF last(k).removed THEN 0 ELSE last(k).off
                                      ELSE client.view[k]
  <2>1. \A k \in MapKeys : (\E e \in pubs : e.key = k) => last(k).off \in Nat
    BY <1>2, <1>3, <1>5
  <2>2. \A k \in MapKeys : client.view[k] \in Nat BY InvTables
  <2> QED BY <2>1, <2>2
<1> HIDE DEF view
<1>7. /\ client' \in ClientT /\ client'.pc = "live" /\ client'.pos.epoch = mapMeta.epoch
      /\ client'.pos.off = top.off /\ client'.view = view
  <2>1. top.off \in Nat BY <1>2, <1>3, <1>4
  <2> QED BY <1>1, <1>6, <2>1, InvTables DEF ClientT, PosT
<1>8. ASSUME NEW k \in MapKeys, Settled(mapEver, mapMeta.epoch, k, top.off)
      PROVE  view[k] = state[k].off
  <2>1. ASSUME NEW f \in mapEver, f.epoch = mapMeta.epoch, f.key = k, f.off > client.pos.off
        PROVE  f \in pubs
    BY <1>3, <1>4, <1>8, <2>1 DEF Settled
  <2>2. CASE ~\E e \in pubs : e.key = k
    <3>1. Settled(mapEver, mapMeta.epoch, k, client.pos.off)
      <4> SUFFICES ASSUME NEW f \in mapEver, f.epoch = mapMeta.epoch, f.key = k
                   PROVE  f.off <= client.pos.off
        BY DEF Settled
      <4>1. ~(f.off > client.pos.off) BY <2>1, <2>2
      <4>2. f.off \in Nat /\ client.pos.off \in Nat BY <1>2, InvTables DEF PosT
      <4> QED BY <4>1, <4>2
    <3>2. client.view[k] = state[k].off BY <1>1, <3>1, InvTables DEF TablesOk, ClientOk
    <3> QED BY <1>6, <2>2, <3>2
  <2>3. CASE \E e \in pubs : e.key = k
    <3> DEFINE l == last(k)
    <3>1. l \in pubs /\ l.key = k /\ \A f \in pubs : f.key = k => f.off <= l.off BY <1>5, <2>3
    <3>2. l \in mapEver /\ l.epoch = mapMeta.epoch /\ l.off > client.pos.off BY <1>3, <3>1
    <3>3. view[k] = IF l.removed THEN 0 ELSE l.off BY <1>6, <2>3
    <3> HIDE DEF l
    <3>4. ASSUME NEW f \in mapEver, f.epoch = mapMeta.epoch, f.key = k PROVE f.off <= l.off
      <4>1. f.off \in Nat /\ l.off \in Nat /\ client.pos.off \in Nat
        BY <1>2, <3>2, InvTables DEF PosT
      <4>2. CASE f.off > client.pos.off BY <2>1, <3>1, <3>4, <4>2
      <4>3. CASE ~(f.off > client.pos.off) BY <3>2, <4>1, <4>3
      <4> QED BY <4>2, <4>3
    <3>5. Fold(mapEver, mapMeta.epoch, k, state[k]) BY <1>1, InvTables DEF TablesOk, LiveOk
    <3>6. PICK e \in mapEver :
            /\ e.epoch = mapMeta.epoch /\ e.key = k
            /\ \A f \in mapEver : f.epoch = mapMeta.epoch /\ f.key = k => f.off <= e.off
            /\ e.removed => state[k] = NoRow
            /\ ~e.removed => state[k].off = e.off
      BY <3>1, <3>2, <3>5 DEF Fold
    <3>7. e.off <= l.off /\ l.off <= e.off BY <3>1, <3>2, <3>4, <3>6
    <3>8. e.off = l.off BY <1>2, <3>2, <3>7
    <3>9. e = l BY <3>2, <3>6, <3>8, InvTables DEF TablesOk, EverOk
    <3> QED BY <3>3, <3>6, <3>9, NoRowFacts
  <2> QED BY <2>2, <2>3
<1>9. ClientOk(mapEver, state, mapMeta, mapEpochs, client')
  <2>1. mapMeta.epoch <= mapEpochs BY InvTables DEF TablesOk, MetaOk
  <2>2. top.off <= mapMeta.off BY <1>2, <1>3, <1>4
  <2> QED BY <1>7, <1>8, <2>1, <2>2 DEF ClientOk
<1> QED BY <1>1, <1>9, ClientMoves

-----------------------------------------------------------------------------
LEMMA MapInitInv == ASSUME MapInit PROVE MapInv
<1>1. /\ mapNow = 1 /\ mapMeta = MapNoMeta /\ state = [k \in MapKeys |-> NoRow]
      /\ stream = {} /\ mapIdem = [i \in IdemKeys |-> MapNoIdem]
      /\ mapVictim = 0 /\ clr = NoClear /\ client = Unsynced
      /\ mapEver = {} /\ wins = {} /\ mapEpochs = 0
  BY DEF MapInit
<1>2. EverOk(mapEver, mapEpochs) BY <1>1, FS_EmptySet DEF EverOk
<1>3. MetaOk(mapMeta, mapEpochs) BY <1>1, NoRowFacts DEF MetaOk
<1>4. LiveOk(mapEver, stream, state, mapMeta) BY <1>1, NoRowFacts DEF LiveOk
<1>5. RowsOk(mapEver, state) BY <1>1, NoRowFacts DEF RowsOk
<1>6. /\ Unsynced \in ClientT /\ Unsynced.pc = "idle" /\ Unsynced.cursor = 0
      /\ Unsynced.pos.epoch = 0 /\ \A k \in MapKeys : Unsynced.view[k] = 0
  BY DEF Unsynced, ClientT, PosT, NoPos
<1>7. ClientOk(mapEver, state, mapMeta, mapEpochs, client) BY <1>1, <1>6 DEF ClientOk
<1>8. WinsOk(state, mapMeta, mapEpochs, wins) BY <1>1 DEF WinsOk
<1>9. ClrOk(mapEver, mapMeta, clr) BY <1>1 DEF ClrOk, ClrT, NoClear
<1>10. IdemOk BY <1>1 DEF IdemOk
<1> QED BY <1>1, <1>2, <1>3, <1>4, <1>5, <1>7, <1>8, <1>9, <1>10 DEF MapInv, TablesOk

LEMMA MapNextInv == ASSUME MapInv, [MapNext]_mapVars PROVE MapInv'
<1>1. CASE UNCHANGED mapVars BY <1>1 DEF mapVars, MapInv, IdemOk
<1>2. ASSUME NEW g \in MapPublishArgs, NEW x \in Expected(g), MapPublish(g, x) PROVE MapInv'
  BY <1>2, PublishStep
<1>3. ASSUME NEW g \in RemoveArgs, NEW x \in Expected(g), Remove(g, x) PROVE MapInv'
  BY <1>3, RemoveStep
<1>4. CASE ExpireKeys BY <1>4, ExpireStep
<1>5. CASE MapCleanupMetaSelect \/ MapCleanupMetaDelete \/ MapCleanupIdempotency \/ MapTick
  BY <1>5, CleanupStep
<1>6. CASE ClearStream \/ ClearState \/ ClearMeta \/ ClearRollback BY <1>6, ClearLooks
<1>7. CASE ClearCommit BY <1>7, ClearStep
<1>8. CASE ReadPage BY <1>8, ReadPageStep
<1>9. CASE Unrecoverable BY <1>9, RestartStep
<1>10. CASE ReadStream BY <1>10, ReadStreamStep
<1> QED BY <1>1, <1>2, <1>3, <1>4, <1>5, <1>6, <1>7, <1>8, <1>9, <1>10 DEF MapNext

LEMMA InvFold == ASSUME MapInv PROVE StateIsFoldOfStream
<1> SUFFICES ASSUME mapMeta.epoch # 0, NEW k \in MapKeys
             PROVE  LET es == {e \in mapEver : e.epoch = mapMeta.epoch /\ e.key = k}
                        latest == CHOOSE e \in es : \A f \in es : f.off <= e.off
                    IN  IF es = {} \/ latest.removed THEN ~Exists(state[k])
                        ELSE state[k].off = latest.off /\ state[k].epoch = mapMeta.epoch
  BY DEF StateIsFoldOfStream
<1> DEFINE es == {e \in mapEver : e.epoch = mapMeta.epoch /\ e.key = k}
           latest == CHOOSE e \in es : \A f \in es : f.off <= e.off
<1>1. Fold(mapEver, mapMeta.epoch, k, state[k]) BY InvTables DEF TablesOk, LiveOk
<1>2. CASE es = {}
  <2>1. state[k] = NoRow BY <1>1, <1>2 DEF Fold
  <2> QED BY <1>2, <2>1, NoRowFacts
<1>3. CASE es # {}
  <2>1. PICK e \in mapEver :
          /\ e.epoch = mapMeta.epoch /\ e.key = k
          /\ \A f \in mapEver : f.epoch = mapMeta.epoch /\ f.key = k => f.off <= e.off
          /\ e.removed => state[k] = NoRow
          /\ ~e.removed => state[k].off = e.off /\ state[k].epoch = mapMeta.epoch
    BY <1>1, <1>3 DEF Fold
  <2>2. latest = e BY <2>1, InvTables, LatestUnique DEF TablesOk
  <2> HIDE DEF latest
  <2>3. IF latest.removed THEN ~Exists(state[k])
        ELSE state[k].off = latest.off /\ state[k].epoch = mapMeta.epoch
    BY <2>1, <2>2, NoRowFacts
  <2> HIDE DEF es
  <2> QED BY <1>3, <2>3 DEF latest, es
<1> QED BY <1>2, <1>3

LEMMA InvSynced == ASSUME MapInv PROVE MapSynced /\ MapPositions
<1>1. StateIsFoldOfStream BY InvFold
<1>2. MapTypeOK
  <2>1. mapMeta \in [off: Nat, epoch: 0 .. mapEpochs, expires: Nat]
    BY InvTables DEF TablesOk, MetaOk, MetaT
  <2>2. \A k \in MapKeys : Exists(state[k]) =>
          \E e \in mapEver : e.off = state[k].off /\ e.epoch = state[k].epoch /\ e.key = k
    BY InvTables DEF TablesOk, RowsOk
  <2>3. stream \subseteq mapEver BY InvTables DEF TablesOk
  <2>4. clr.pc \in {"no", "stream", "state", "meta"} /\ clr.keys \subseteq MapKeys
    BY InvTables DEF ClrT
  <2>5. client.pc \in {"idle", "paging", "live"} /\ client.view \in [MapKeys -> Nat]
    BY InvTables DEF ClientT
  <2> QED BY <2>1, <2>2, <2>3, <2>4, <2>5, InvTables DEF MapTypeOK, IdemOk
<1>3. ClientConverges
  <2> SUFFICES ASSUME client.pc = "live", mapMeta.epoch # 0,
                      client.pos = [off |-> mapMeta.off, epoch |-> mapMeta.epoch],
                      NEW k \in MapKeys
               PROVE  client.view[k] = state[k].off
    BY DEF ClientConverges
  <2>1. client.pos.epoch = mapMeta.epoch /\ client.pos.off = mapMeta.off OBVIOUS
  <2>2. Settled(mapEver, mapMeta.epoch, k, client.pos.off)
    BY <2>1, InvTables DEF TablesOk, LiveOk, Settled
  <2> QED BY <2>1, <2>2, InvTables DEF TablesOk, ClientOk
<1>4. CASOnce BY InvTables DEF TablesOk, WinsOk, CASOnce
<1>5. PositionsUnique BY InvTables DEF TablesOk, EverOk, PositionsUnique
<1> QED BY <1>1, <1>2, <1>3, <1>4, <1>5 DEF MapSynced, MapPositions

\* For any keys, time-to-lives, limits and batch sizes, with Clear and cleanup
\* racing publishes: the state table of a live epoch is the fold of its stream,
\* and a client that has read all pages, between whatever changes, and caught
\* up with the stream sees exactly the state table.
THEOREM MapSyncs == MapSpec => []MapSynced
<1>1. MapInit => MapInv BY MapInitInv
<1>2. MapInv /\ [MapNext]_mapVars => MapInv' BY MapNextInv
<1>3. MapInv => MapSynced BY InvSynced
<1> QED BY <1>1, <1>2, <1>3, PTL DEF MapSpec

\* No (epoch, offset) is given to two changes, by any interleaving of
\* publishes, removals, expiry, cleanup and Clear, so of the compare-and-set
\* publishes that expect one position of a key at most one succeeds.
THEOREM MapPositionSafety == MapSpec => []MapPositions
<1>1. MapInit => MapInv BY MapInitInv
<1>2. MapInv /\ [MapNext]_mapVars => MapInv' BY MapNextInv
<1>3. MapInv => MapPositions BY InvSynced
<1> QED BY <1>1, <1>2, <1>3, PTL DEF MapSpec
=============================================================================
