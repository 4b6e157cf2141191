------------------------ MODULE StreamOutbox_proofs ------------------------
(***************************************************************************)
(* Proofs about StreamOutbox for every number of shards, replicas,         *)
(* sessions and nodes, and for every bound.                                *)
(***************************************************************************)
EXTENDS StreamOutbox, FiniteSetTheorems, TLAPS

-----------------------------------------------------------------------------
(* The inductive invariant.                                                *)

\* Every open transaction holds finitely many rows.
Finiteness == \A p \in Sessions : IsFiniteSet(tx[p].rows)

\* No two open transactions hold the same shard lock, and a transaction holds
\* the lock of every shard it publishes to.
LockInv ==
    /\ \A p, q \in Sessions : p # q => tx[p].locks \cap tx[q].locks = {}
    /\ \A p \in Sessions : tx[p].call # NoCall => ShardOf[tx[p].call.ch] \in tx[p].locks
    /\ \A p \in Sessions : \A d \in tx[p].rows : d.shard \in tx[p].locks

\* An uncommitted row has an id of its own, larger than the id of every
\* committed row of its shard.
DraftInv ==
    \A p \in Sessions : \A d \in tx[p].rows :
        /\ d.id <= seq
        /\ \A r \in log : r.id # d.id /\ (r.shard = d.shard => r.id < d.id)
        /\ \A q \in Sessions : \A e \in tx[q].rows : e.id = d.id => q = p /\ e = d

\* Committed rows have distinct ids and are visible in id order per shard.
LogInv ==
    /\ \A r \in log : r.id <= seq /\ r.lsn <= lsn
    /\ \A r, q \in log : r.id = q.id => r = q
    /\ CommitOrderIsIdOrder
    /\ \A w \in wipes : w.lsn <= lsn
    /\ \A k \in 0 .. NumReplicas - 1 : applied[k] <= lsn

\* A worker's batch holds rows of its shard past its cursor, and the cursor
\* stands at the registration cursor or at a row of the shard.
BatchInv ==
    \A n \in up, w \in Shards :
        /\ \A b \in batch[n][w] : b \in log /\ b.shard = w /\ cursor[n][w] < b.id
        /\ \/ cursor[n][w] = start[n]
           \/ \E r \in log : r.shard = w /\ r.id = cursor[n][w]
        /\ start[n] <= cursor[n][w]
        /\ pc[n][w] # "dispatch" => batch[n][w] = {}

\* Nothing is left out below the rows of a batch.
BatchComplete ==
    \A n \in up, w \in Shards : \A b \in batch[n][w] : \A r \in log :
        r.shard = w /\ cursor[n][w] < r.id /\ r.id <= b.id =>
            r \in delivered[n] \/ r \in batch[n][w] \/ WipedBy(r, lsn)

\* What was dispatched is committed, and lies before what is still to come.
DeliveredInv ==
    \A n \in up : \A r \in delivered[n] :
        /\ r \in log
        /\ start[n] < r.id
        /\ \/ r.id <= cursor[n][r.shard]
           \/ /\ pc[n][r.shard] = "dispatch"
              /\ \A b \in batch[n][r.shard] : r.id < b.id

Inv ==
    /\ OutboxTypeOK /\ Finiteness /\ LockInv /\ DraftInv /\ LogInv
    /\ BatchInv /\ BatchComplete /\ DeliveredInv /\ NoSkippedRow

-----------------------------------------------------------------------------
LEMMA InitInv == StreamOutboxInit => Inv
<1> SUFFICES ASSUME StreamOutboxInit PROVE Inv
    OBVIOUS
<1> USE ShardsAssumption, ShardOfAssumption DEF StreamOutboxInit
<1>1. OutboxTypeOK
  BY DEF OutboxTypeOK, Idle, Call
<1>2. Finiteness
  BY FS_EmptySet DEF Finiteness, Idle
<1>3. LockInv /\ DraftInv
  BY DEF LockInv, DraftInv, Idle
<1>4. LogInv
  BY DEF LogInv, CommitOrderIsIdOrder
<1>5. BatchInv /\ BatchComplete /\ DeliveredInv /\ NoSkippedRow
  BY DEF BatchInv, BatchComplete, DeliveredInv, NoSkippedRow
<1> QED
  BY <1>1, <1>2, <1>3, <1>4, <1>5 DEF Inv

-----------------------------------------------------------------------------
(* Steps of sessions.                                                      *)

TxType == [Sessions -> [locks: SUBSET Shards, rows: SUBSET Draft, call: Call]]

\* Steps that leave the log and the nodes alone cannot disturb what the
\* invariant says about workers.
LEMMA NodesUndisturbed ==
  ASSUME Inv, UNCHANGED <<lsn, log, wipes, nodeVars>>
  PROVE  BatchInv' /\ BatchComplete' /\ DeliveredInv' /\ NoSkippedRow'
BY DEF Inv, BatchInv, BatchComplete, DeliveredInv, NoSkippedRow, WipedBy, nodeVars

LEMMA CallPublishInv ==
  ASSUME Inv, NEW p \in Sessions, NEW ch \in Channels, NEW kind \in Kinds,
         CallPublish(p, ch, kind)
  PROVE  Inv'
<1> USE ShardsAssumption, ShardOfAssumption
<1> DEFINE t == tx'[p]
<1>0. OutboxTypeOK /\ tx \in TxType
  BY DEF Inv, OutboxTypeOK, TxType
<1>1. /\ tx' \in TxType
      /\ t.locks = tx[p].locks \cup {ShardOf[ch]}
      /\ t.rows = tx[p].rows
      /\ t.call = [op |-> kind, ch |-> ch]
      /\ \A q \in Sessions \ {p} : tx'[q] = tx[q]
      /\ \A q \in Sessions : tx'[q].rows = tx[q].rows
  BY <1>0 DEF CallPublish, Call, TxType
<1>2. UNCHANGED <<seq, lsn, log, wipes, top, applied, nodeVars>>
  BY DEF CallPublish
<1>3. OutboxTypeOK'
  BY <1>0, <1>1, <1>2 DEF OutboxTypeOK, TxType, nodeVars
<1>4. Finiteness'
  BY <1>1, <1>2 DEF Inv, Finiteness
<1>5. LockInv'
  <2>1. \A q \in Sessions \ {p} : ShardOf[ch] \notin tx[q].locks
    BY DEF CallPublish, LockFree
  <2>2. LockInv
    BY DEF Inv
  <2> QED
    BY <1>1, <2>1, <2>2 DEF LockInv
<1>6. DraftInv'
  BY <1>1, <1>2 DEF Inv, DraftInv
<1>7. LogInv'
  BY <1>2 DEF Inv, LogInv, CommitOrderIsIdOrder
<1> QED
  BY <1>2, <1>3, <1>4, <1>5, <1>6, <1>7, NodesUndisturbed DEF Inv

LEMMA InsertInv ==
  ASSUME Inv, NEW p \in Sessions, Insert(p)
  PROVE  Inv'
<1> USE ShardsAssumption, ShardOfAssumption
<1> DEFINE c == tx[p].call
           d == [id |-> seq + 1, shard |-> ShardOf[c.ch], ch |-> c.ch,
                 kind |-> c.op, off |-> NextOffset(p, c.ch, c.op)]
<1>0. OutboxTypeOK /\ tx \in TxType /\ seq \in Nat
  BY DEF Inv, OutboxTypeOK, TxType
<1>1. /\ c # NoCall
      /\ seq' = seq + 1
      /\ tx' = [tx EXCEPT ![p] = [locks |-> @.locks, rows |-> @.rows \cup {d},
                                  call |-> NoCall]]
      /\ UNCHANGED <<lsn, log, wipes, top, applied, nodeVars>>
  BY DEF Insert
<1>2. c.ch \in Channels /\ c.op \in Kinds
  BY <1>0, <1>1 DEF TxType, Call
<1>3. d \in Draft
  <2>1. IsFiniteSet({e \in tx[p].rows : e.ch = c.ch /\ e.kind = "pub"})
    BY FS_Subset DEF Inv, Finiteness
  <2>2. NextOffset(p, c.ch, c.op) \in Nat
    BY <1>0, <1>2, <2>1, FS_CardinalityType DEF NextOffset, OutboxTypeOK
  <2> QED
    BY <1>0, <1>2, <2>2 DEF Draft
<1>4. /\ tx' \in TxType
      /\ tx'[p].locks = tx[p].locks
      /\ tx'[p].rows = tx[p].rows \cup {d}
      /\ tx'[p].call = NoCall
      /\ \A q \in Sessions \ {p} : tx'[q] = tx[q]
  BY <1>0, <1>1, <1>3 DEF TxType, Call
<1>5. OutboxTypeOK'
  BY <1>0, <1>1, <1>4 DEF OutboxTypeOK, TxType, nodeVars
<1>6. Finiteness'
  <2> HIDE DEF d
  <2>1. IsFiniteSet(tx[p].rows \cup {d})
    BY FS_AddElement DEF Inv, Finiteness
  <2> QED
    BY <1>4, <2>1 DEF Inv, Finiteness
<1>7. d.shard \in tx[p].locks /\ d.id = seq + 1
  BY <1>1 DEF Inv, LockInv
<1>8. LockInv'
  BY <1>4, <1>7 DEF Inv, LockInv
<1>9. DraftInv'
  <2>1. \A r \in log : r.id \in Nat /\ r.id <= seq
    BY <1>0 DEF Inv, LogInv, OutboxTypeOK, Row
  <2>2. \A q \in Sessions : \A e \in tx[q].rows : e.id \in Nat /\ e.id <= seq
    BY <1>0 DEF Inv, DraftInv, TxType, Draft
  <2>3. DraftInv
    BY DEF Inv
  <2> HIDE DEF d
  <2>4. ASSUME NEW q \in Sessions, NEW e \in tx'[q].rows
        PROVE  e.id <= seq' /\ \A r \in log : r.id # e.id /\ (r.shard = e.shard => r.id < e.id)
    BY <1>0, <1>1, <1>4, <1>7, <2>1, <2>2, <2>3 DEF DraftInv
  <2>5. ASSUME NEW q \in Sessions, NEW e \in tx'[q].rows,
               NEW o \in Sessions, NEW f \in tx'[o].rows, f.id = e.id
        PROVE  o = q /\ f = e
    <3>1. CASE e = d /\ q = p
      BY <1>0, <1>4, <1>7, <2>2, <2>5, <3>1
    <3>2. CASE f = d /\ o = p
      BY <1>0, <1>4, <1>7, <2>2, <2>5, <3>2
    <3>3. CASE e \in tx[q].rows /\ f \in tx[o].rows
      BY <2>3, <2>5, <3>3 DEF DraftInv
    <3> QED
      BY <1>4, <3>1, <3>2, <3>3
  <2> QED
    BY <1>1, <2>4, <2>5 DEF DraftInv
<1>10. LogInv'
  BY <1>0, <1>1 DEF Inv, LogInv, CommitOrderIsIdOrder, OutboxTypeOK, Row
<1> QED
  BY <1>1, <1>5, <1>6, <1>8, <1>9, <1>10, NodesUndisturbed DEF Inv

LEMMA SuppressInv ==
  ASSUME Inv, NEW p \in Sessions, Suppress(p)
  PROVE  Inv'
<1>0. OutboxTypeOK /\ tx \in TxType
  BY DEF Inv, OutboxTypeOK, TxType
<1>1. UNCHANGED <<seq, lsn, log, wipes, top, applied, nodeVars>>
  BY DEF Suppress
<1>2. /\ tx' \in TxType
      /\ \A q \in Sessions : tx'[q].locks = tx[q].locks /\ tx'[q].rows = tx[q].rows
      /\ tx'[p].call = NoCall
      /\ \A q \in Sessions \ {p} : tx'[q] = tx[q]
  BY <1>0 DEF Suppress, TxType, Call
<1>3. OutboxTypeOK'
  BY <1>0, <1>1, <1>2 DEF OutboxTypeOK, TxType, nodeVars
<1>4. Finiteness' /\ LockInv' /\ DraftInv'
  BY <1>1, <1>2 DEF Inv, Finiteness, LockInv, DraftInv
<1>5. LogInv'
  BY <1>1 DEF Inv, LogInv, CommitOrderIsIdOrder
<1> QED
  BY <1>1, <1>3, <1>4, <1>5, NodesUndisturbed DEF Inv

LEMMA RollbackInv ==
  ASSUME Inv, NEW p \in Sessions, Rollback(p)
  PROVE  Inv'
<1>0. OutboxTypeOK /\ tx \in TxType
  BY DEF Inv, OutboxTypeOK, TxType
<1>1. UNCHANGED <<seq, lsn, log, wipes, top, applied, nodeVars>>
  BY DEF Rollback
<1>2. /\ tx' \in TxType
      /\ tx'[p].locks = {} /\ tx'[p].rows = {} /\ tx'[p].call = NoCall
      /\ \A q \in Sessions \ {p} : tx'[q] = tx[q]
  BY <1>0 DEF Rollback, TxType, Call, Idle
<1>3. OutboxTypeOK'
  BY <1>0, <1>1, <1>2 DEF OutboxTypeOK, TxType, nodeVars
<1>4. Finiteness'
  BY <1>1, <1>2, FS_EmptySet DEF Inv, Finiteness
<1>5. LockInv' /\ DraftInv'
  BY <1>1, <1>2 DEF Inv, LockInv, DraftInv
<1>6. LogInv'
  BY <1>1 DEF Inv, LogInv, CommitOrderIsIdOrder
<1> QED
  BY <1>1, <1>3, <1>4, <1>5, <1>6, NodesUndisturbed DEF Inv

LEMMA CommitInv ==
  ASSUME Inv, NEW p \in Sessions, Commit(p)
  PROVE  Inv'
<1> USE ShardsAssumption
<1> DEFINE rowOf(d) == [id |-> d.id, shard |-> d.shard, ch |-> d.ch, kind |-> d.kind,
                        off |-> d.off, lsn |-> lsn + 1]
           new == {rowOf(d) : d \in tx[p].rows}
<1>0. /\ OutboxTypeOK /\ tx \in TxType /\ seq \in Nat /\ lsn \in Nat
      /\ \A d \in tx[p].rows : d \in Draft
      /\ log \subseteq Row
  BY DEF Inv, OutboxTypeOK, TxType
<1>1. /\ lsn' = lsn + 1
      /\ log' = log \cup new
      /\ UNCHANGED <<seq, wipes, applied, nodeVars>>
      /\ top' = [ch \in Channels |-> top[ch] + Cardinality(PublishedIn(p, ch))]
  BY DEF Commit
<1>2. /\ tx' \in TxType
      /\ tx'[p].locks = {} /\ tx'[p].rows = {} /\ tx'[p].call = NoCall
      /\ \A q \in Sessions \ {p} : tx'[q] = tx[q]
  BY <1>0 DEF Commit, TxType, Call, Idle
<1>3. \A r \in new : /\ r \in Row
                     /\ r.lsn = lsn + 1
                     /\ \E d \in tx[p].rows : r.id = d.id /\ r.shard = d.shard /\ r = rowOf(d)
  BY <1>0 DEF Row, Draft
<1>4. OutboxTypeOK'
  <2>1. \A ch \in Channels : Cardinality(PublishedIn(p, ch)) \in Nat
    BY FS_Subset, FS_CardinalityType DEF Inv, Finiteness, PublishedIn
  <2>2. top' \in [Channels -> Nat]
    BY <1>0, <1>1, <2>1 DEF OutboxTypeOK
  <2>3. log' \subseteq Row
    BY <1>0, <1>1, <1>3
  <2> QED
    BY <1>0, <1>1, <1>2, <2>2, <2>3 DEF OutboxTypeOK, TxType, nodeVars
<1>5. Finiteness' /\ LockInv'
  BY <1>2, FS_EmptySet DEF Inv, Finiteness, LockInv
<1> HIDE DEF rowOf, new
<1>6. DraftInv'
  <2> SUFFICES ASSUME NEW q \in Sessions, NEW d \in tx'[q].rows
               PROVE  /\ d.id <= seq
                      /\ \A r \in log' : r.id # d.id /\ (r.shard = d.shard => r.id < d.id)
                      /\ \A o \in Sessions : \A e \in tx'[o].rows : e.id = d.id => o = q /\ e = d
    BY <1>1 DEF DraftInv
  <2>1. q # p /\ d \in tx[q].rows
    BY <1>2
  <2>2. d.id <= seq /\ \A r \in log : r.id # d.id /\ (r.shard = d.shard => r.id < d.id)
    BY <2>1 DEF Inv, DraftInv
  <2>3. \A r \in new : r.id # d.id /\ r.shard # d.shard
    <3>1. \A e \in tx[p].rows : e.id # d.id
      BY <2>1 DEF Inv, DraftInv
    <3>2. d.shard \in tx[q].locks /\ \A e \in tx[p].rows : e.shard \in tx[p].locks
      BY <2>1 DEF Inv, LockInv
    <3>3. tx[p].locks \cap tx[q].locks = {}
      BY <2>1 DEF Inv, LockInv
    <3> QED
      BY <1>3, <3>1, <3>2, <3>3
  <2>4. \A o \in Sessions : \A e \in tx'[o].rows : e.id = d.id => o = q /\ e = d
    BY <1>2, <2>1 DEF Inv, DraftInv
  <2> QED
    BY <1>1, <2>2, <2>3, <2>4
<1>7. \A r \in new, q \in log : q.id # r.id /\ (q.shard = r.shard => q.id < r.id)
  BY <1>3 DEF Inv, DraftInv
<1>8. LogInv'
  <2>1. \A r \in log : r.id \in Nat /\ r.lsn \in Nat /\ r.id <= seq /\ r.lsn <= lsn
    BY <1>0 DEF Inv, LogInv, Row
  <2>2. \A r \in new : r.id \in Nat /\ r.lsn = lsn + 1 /\ r.id <= seq
    BY <1>3 DEF Inv, DraftInv, Row
  <2>3. \A r \in log' : r.id <= seq' /\ r.lsn <= lsn'
    BY <1>0, <1>1, <2>1, <2>2
  <2>4. \A r, q \in log' : r.id = q.id => r = q
    <3>1. \A r, q \in new : r.id = q.id => r = q
      BY <1>3 DEF Inv, DraftInv
    <3>2. \A r, q \in log : r.id = q.id => r = q
      BY DEF Inv, LogInv
    <3> QED
      BY <1>1, <1>7, <3>1, <3>2
  <2>5. CommitOrderIsIdOrder'
    <3>1. \A r, q \in log : r.shard = q.shard /\ r.id < q.id => r.lsn <= q.lsn
      BY DEF Inv, LogInv, CommitOrderIsIdOrder
    <3>2. \A r \in log, q \in new : r.lsn <= q.lsn
      BY <1>0, <2>1, <2>2
    <3>3. \A r, q \in new : r.lsn <= q.lsn
      BY <1>0, <2>2
    <3>4. \A r \in new, q \in log : ~(r.shard = q.shard /\ r.id < q.id)
      BY <1>7, <2>1, <2>2
    <3> QED
      BY <1>1, <3>1, <3>2, <3>3, <3>4 DEF CommitOrderIsIdOrder
  <2>6. (\A w \in wipes : w.lsn <= lsn)' /\ (\A k \in 0 .. NumReplicas - 1 : applied[k] <= lsn)'
    BY <1>0, <1>1 DEF Inv, LogInv, OutboxTypeOK
  <2> QED
    BY <2>3, <2>4, <2>5, <2>6 DEF LogInv
<1>9. \A r \in log : WipedBy(r, lsn) => WipedBy(r, lsn)'
  BY <1>0, <1>1 DEF WipedBy, OutboxTypeOK
<1>10. BatchInv'
  BY <1>1 DEF Inv, BatchInv, nodeVars
<1>11. BatchComplete'
  <2> SUFFICES ASSUME NEW n \in up, NEW w \in Shards, NEW b \in batch[n][w], NEW r \in log',
                      r.shard = w /\ cursor[n][w] < r.id /\ r.id <= b.id
               PROVE  r \in delivered[n] \/ r \in batch[n][w] \/ WipedBy(r, lsn)'
    BY <1>1 DEF BatchComplete, nodeVars
  <2>1. b \in log /\ b.shard = w
    BY DEF Inv, BatchInv
  <2>2. r \in log
    BY <1>0, <1>1, <1>3, <1>7, <2>1 DEF Row
  <2> QED
    BY <1>9, <2>2 DEF Inv, BatchComplete
<1>12. DeliveredInv'
  BY <1>1 DEF Inv, DeliveredInv, nodeVars
<1>13. NoSkippedRow'
  <2> SUFFICES ASSUME NEW n \in up, NEW r \in log', start[n] < r.id, r.id <= cursor[n][r.shard]
               PROVE  r \in delivered[n] \/ WipedBy(r, lsn)'
    BY <1>1 DEF NoSkippedRow, nodeVars
  <2>1. CASE r \in log
    BY <1>9, <2>1 DEF Inv, NoSkippedRow
  <2>2. CASE r \in new
    <3>1. r.shard \in Shards /\ r.id \in Nat
      BY <1>3, <2>2 DEF Row
    <3>2. \/ cursor[n][r.shard] = start[n]
          \/ \E q \in log : q.shard = r.shard /\ q.id = cursor[n][r.shard]
      BY <3>1 DEF Inv, BatchInv
    <3>3. start[n] \in Nat /\ cursor[n][r.shard] \in Nat
      BY <1>0, <3>1 DEF OutboxTypeOK
    <3> QED
      BY <1>7, <2>2, <3>1, <3>2, <3>3
  <2> QED
    BY <1>1, <2>1, <2>2
<1> QED
  BY <1>4, <1>5, <1>6, <1>8, <1>10, <1>11, <1>12, <1>13 DEF Inv

LEMMA RemoveHistoryInv ==
  ASSUME Inv, NEW ch \in Channels, RemoveHistory(ch)
  PROVE  Inv'
<1>0. OutboxTypeOK /\ lsn \in Nat
  BY DEF Inv, OutboxTypeOK
<1>1. /\ lsn' = lsn + 1
      /\ wipes' = wipes \cup {[ch |-> ch, lsn |-> lsn + 1]}
      /\ UNCHANGED <<seq, log, top, tx, applied, nodeVars>>
  BY DEF RemoveHistory
<1>2. OutboxTypeOK'
  BY <1>0, <1>1 DEF OutboxTypeOK, nodeVars
<1>3. Finiteness' /\ LockInv' /\ DraftInv'
  BY <1>1 DEF Inv, Finiteness, LockInv, DraftInv
<1>4. LogInv'
  <2>1. \A r \in log : r.lsn \in Nat /\ r.lsn <= lsn
    BY <1>0 DEF Inv, LogInv, OutboxTypeOK, Row
  <2>2. \A w \in wipes : w.lsn \in Nat /\ w.lsn <= lsn
    BY <1>0 DEF Inv, LogInv, OutboxTypeOK
  <2>3. \A w \in wipes' : w.lsn <= lsn'
    BY <1>0, <1>1, <2>2
  <2>4. \A k \in 0 .. NumReplicas - 1 : applied[k] <= lsn'
    BY <1>0, <1>1 DEF Inv, LogInv, OutboxTypeOK
  <2> QED
    BY <1>0, <1>1, <2>1, <2>3, <2>4 DEF Inv, LogInv, CommitOrderIsIdOrder
<1>5. \A r \in log : WipedBy(r, lsn) => WipedBy(r, lsn)'
  BY <1>0, <1>1 DEF WipedBy, OutboxTypeOK
<1>6. BatchInv' /\ BatchComplete' /\ DeliveredInv' /\ NoSkippedRow'
  BY <1>1, <1>5 DEF Inv, BatchInv, BatchComplete, DeliveredInv, NoSkippedRow, nodeVars
<1> QED
  BY <1>2, <1>3, <1>4, <1>6 DEF Inv

LEMMA ReplicateInv ==
  ASSUME Inv, NEW k \in 0 .. NumReplicas - 1, Replicate(k)
  PROVE  Inv'
<1>0. OutboxTypeOK /\ lsn \in Nat /\ applied \in [0 .. NumReplicas - 1 -> Nat]
  BY DEF Inv, OutboxTypeOK
<1>1. /\ applied[k] < lsn
      /\ applied' = [applied EXCEPT ![k] = @ + 1]
      /\ UNCHANGED <<seq, lsn, log, wipes, top, tx, nodeVars>>
  BY DEF Replicate
<1>2. OutboxTypeOK'
  BY <1>0, <1>1 DEF OutboxTypeOK, nodeVars
<1>3. Finiteness' /\ LockInv' /\ DraftInv'
  BY <1>1 DEF Inv, Finiteness, LockInv, DraftInv
<1>4. LogInv'
  BY <1>0, <1>1 DEF Inv, LogInv, CommitOrderIsIdOrder
<1> QED
  BY <1>1, <1>2, <1>3, <1>4, NodesUndisturbed DEF Inv

-----------------------------------------------------------------------------
(* Steps of nodes.                                                         *)

\* Steps of nodes leave what the invariant says about the database alone.
LEMMA DatabaseUndisturbed ==
  ASSUME Inv, UNCHANGED dbVars
  PROVE  /\ Finiteness' /\ LockInv' /\ DraftInv' /\ LogInv'
         /\ \A r : WipedBy(r, lsn)' <=> WipedBy(r, lsn)
BY DEF Inv, Finiteness, LockInv, DraftInv, LogInv, CommitOrderIsIdOrder, WipedBy, dbVars

LEMMA RegisterInv ==
  ASSUME Inv, NEW n \in Nodes, RegisterBrokerEventHandler(n)
  PROVE  Inv'
<1>0. OutboxTypeOK /\ seq \in Nat /\ lsn \in Nat
  BY DEF Inv, OutboxTypeOK
<1>1. PICK c \in 0 .. seq : /\ start' = [start EXCEPT ![n] = c]
                            /\ cursor' = [cursor EXCEPT ![n] = [w \in Shards |-> c]]
  BY DEF RegisterBrokerEventHandler
<1>2. /\ n \notin up
      /\ up' = up \cup {n}
      /\ since' = [since EXCEPT ![n] = lsn]
      /\ pc' = [pc EXCEPT ![n] = [w \in Shards |-> "poll"]]
      /\ progress' = [progress EXCEPT ![n] = [w \in Shards |-> FALSE]]
      /\ batch' = [batch EXCEPT ![n] = [w \in Shards |-> {}]]
      /\ delivered' = [delivered EXCEPT ![n] = {}]
      /\ UNCHANGED <<crashes, dbVars>>
  BY DEF RegisterBrokerEventHandler
<1>3. OutboxTypeOK'
  BY <1>0, <1>1, <1>2 DEF OutboxTypeOK, dbVars
<1>4. /\ \A m \in up : /\ m \in Nodes /\ m # n
                       /\ start'[m] = start[m] /\ cursor'[m] = cursor[m]
                       /\ batch'[m] = batch[m] /\ pc'[m] = pc[m]
                       /\ delivered'[m] = delivered[m]
      /\ start'[n] = c /\ delivered'[n] = {}
      /\ \A w \in Shards : cursor'[n][w] = c /\ batch'[n][w] = {}
  BY <1>0, <1>1, <1>2 DEF OutboxTypeOK
<1>5. log' = log
  BY <1>2 DEF dbVars
<1>6. BatchInv' /\ BatchComplete'
  BY <1>0, <1>2, <1>4, <1>5, DatabaseUndisturbed DEF Inv, BatchInv, BatchComplete
<1>7. DeliveredInv'
  BY <1>2, <1>4, <1>5 DEF Inv, DeliveredInv
<1>8. NoSkippedRow'
  <2> SUFFICES ASSUME NEW m \in up', NEW r \in log,
                      start'[m] < r.id, r.id <= cursor'[m][r.shard]
               PROVE  r \in delivered'[m] \/ WipedBy(r, lsn)'
    BY <1>5 DEF NoSkippedRow
  <2>1. r.id \in Nat /\ r.shard \in Shards
    BY <1>0 DEF OutboxTypeOK, Row
  <2>2. m \in up
    BY <1>1, <1>2, <1>4, <2>1
  <2> QED
    BY <1>2, <1>4, <2>2, DatabaseUndisturbed DEF Inv, NoSkippedRow
<1> QED
  BY <1>2, <1>3, <1>6, <1>7, <1>8, DatabaseUndisturbed DEF Inv

LEMMA StopInv ==
  ASSUME Inv, NEW n \in Nodes, Stop(n)
  PROVE  Inv'
<1>0. OutboxTypeOK
  BY DEF Inv
<1>1. /\ up' = up \ {n}
      /\ UNCHANGED dbVars
  BY DEF Stop
<1>2. OutboxTypeOK'
  BY <1>0 DEF Stop, OutboxTypeOK, dbVars
<1>3. \A m \in up' : /\ m \in up
                     /\ start'[m] = start[m] /\ cursor'[m] = cursor[m]
                     /\ batch'[m] = batch[m] /\ pc'[m] = pc[m]
                     /\ delivered'[m] = delivered[m]
  BY <1>0, <1>1 DEF Stop, OutboxTypeOK
<1>4. log' = log
  BY <1>1 DEF dbVars
<1>5. BatchInv' /\ BatchComplete' /\ DeliveredInv' /\ NoSkippedRow'
  BY <1>1, <1>3, <1>4, DatabaseUndisturbed
     DEF Inv, BatchInv, BatchComplete, DeliveredInv, NoSkippedRow
<1> QED
  BY <1>1, <1>2, <1>5, DatabaseUndisturbed DEF Inv

\* A step that only moves an idle or polling worker between those two.
LEMMA WaitInv ==
  ASSUME Inv, NEW n \in Nodes, NEW w \in Shards, EndDrain(n, w) \/ Wake(n, w)
  PROVE  Inv'
<1>0. OutboxTypeOK
  BY DEF Inv
<1>1. UNCHANGED dbVars /\ UNCHANGED <<up, start, cursor, batch, delivered, since, crashes>>
  BY DEF EndDrain, Wake
<1>2. n \in up /\ pc[n][w] # "dispatch"
  BY DEF EndDrain, Wake
<1>3. PICK to \in {"poll", "idle"} : pc' = [pc EXCEPT ![n][w] = to]
  BY DEF EndDrain, Wake
<1>4. /\ pc' \in [Nodes -> [Shards -> {"poll", "dispatch", "idle"}]]
      /\ \A m \in Nodes, v \in Shards :
           pc'[m][v] = IF m = n /\ v = w THEN to ELSE pc[m][v]
  BY <1>0, <1>3 DEF OutboxTypeOK
<1>5. progress' \in [Nodes -> [Shards -> BOOLEAN]]
  <2>1. progress \in [Nodes -> [Shards -> BOOLEAN]]
    BY <1>0 DEF OutboxTypeOK
  <2>2. [progress EXCEPT ![n][w] = FALSE] \in [Nodes -> [Shards -> BOOLEAN]]
    BY <2>1, Zenon
  <2>3. progress' = progress \/ progress' = [progress EXCEPT ![n][w] = FALSE]
    BY DEF EndDrain, Wake
  <2> QED
    BY <2>1, <2>2, <2>3, Zenon
<1>6. OutboxTypeOK'
  BY <1>0, <1>1, <1>4, <1>5 DEF OutboxTypeOK, dbVars
<1>7. \A m \in up, v \in Shards : pc'[m][v] = "dispatch" <=> pc[m][v] = "dispatch"
  BY <1>0, <1>2, <1>4 DEF OutboxTypeOK
<1>8. log' = log
  BY <1>1 DEF dbVars
<1>9. BatchInv' /\ BatchComplete' /\ NoSkippedRow'
  BY <1>1, <1>7, <1>8, DatabaseUndisturbed DEF Inv, BatchInv, BatchComplete, NoSkippedRow
<1>10. DeliveredInv'
  BY <1>0, <1>1, <1>7, <1>8 DEF Inv, DeliveredInv, OutboxTypeOK, Row
<1> QED
  BY <1>1, <1>6, <1>9, <1>10, DatabaseUndisturbed DEF Inv

\* LIMIT takes a lower part of the rows: what is not taken is above what is.
LEMMA FirstRowsLower ==
  ASSUME NEW S, IsFiniteSet(S), \A r \in S : r.id \in Nat,
         NEW r \in FirstRows(S), NEW q \in S, q.id <= r.id
  PROVE  q \in FirstRows(S)
<1> DEFINE Below(x) == {y \in S : y.id < x.id}
<1>1. r \in S /\ Cardinality(Below(r)) < BatchSize
  BY DEF FirstRows
<1>2. Below(q) \subseteq Below(r)
  BY <1>1
<1>3. IsFiniteSet(Below(r))
  BY FS_Subset
<1>4. Cardinality(Below(q)) <= Cardinality(Below(r)) /\ IsFiniteSet(Below(q))
  BY <1>2, <1>3, FS_Subset
<1>5. Cardinality(Below(q)) \in Nat /\ Cardinality(Below(r)) \in Nat
  BY <1>3, <1>4, FS_CardinalityType
<1>6. Cardinality(Below(q)) < BatchSize
  BY <1>1, <1>4, <1>5, BoundsAssumption
<1> QED
  BY <1>6 DEF FirstRows

\* The table is finite: rows have distinct ids, all handed out by the sequence.
LEMMA LogFinite == Inv => IsFiniteSet(log)
<1> SUFFICES ASSUME Inv PROVE IsFiniteSet(log)
    OBVIOUS
<1> DEFINE f == [r \in log |-> r.id]
<1>1. seq \in Nat /\ \A r \in log : r.id \in 0 .. seq
  BY DEF Inv, OutboxTypeOK, LogInv, Row
<1>2. \A r, q \in log : r.id = q.id => r = q
  BY DEF Inv, LogInv
<1>3. f \in Injection(log, 0 .. seq)
  BY <1>1, <1>2 DEF Injection, IsInjective
<1>4. IsFiniteSet(0 .. seq)
  BY <1>1, FS_Interval
<1> QED
  BY <1>3, <1>4, FS_Injection

LEMMA PoolPositionBound ==
  ASSUME Inv, NEW w \in Shards
  PROVE  PoolPosition(w) \in Nat /\ PoolPosition(w) <= lsn
<1>1. lsn \in Nat /\ applied \in [0 .. NumReplicas - 1 -> Nat]
  BY DEF Inv, OutboxTypeOK
<1>2. CASE NumReplicas = 0
  BY <1>1, <1>2 DEF PoolPosition
<1>3. CASE NumReplicas # 0
  <2>1. w % NumReplicas \in 0 .. NumReplicas - 1
    BY <1>3, ShardsAssumption DEF Shards
  <2> QED
    BY <1>1, <1>3, <2>1 DEF PoolPosition, Inv, LogInv
<1> QED
  BY <1>2, <1>3

LEMMA FetchInv ==
  ASSUME Inv, NEW n \in Nodes, NEW w \in Shards, Fetch(n, w)
  PROVE  Inv'
<1> DEFINE P == Pending(n, w)
           B == FirstRows(P)
           pos == PoolPosition(w)
<1>0. OutboxTypeOK /\ lsn \in Nat /\ log \subseteq Row
  BY DEF Inv, OutboxTypeOK
<1>1. /\ n \in up
      /\ pc[n][w] = "poll"
      /\ batch' = [batch EXCEPT ![n][w] = B]
      /\ pc' = [pc EXCEPT ![n][w] = "dispatch"]
      /\ UNCHANGED <<up, start, since, cursor, progress, delivered, crashes, dbVars>>
  BY DEF Fetch
<1>2. log' = log
  BY <1>1 DEF dbVars
<1>3. B \subseteq P /\ P \subseteq log
  BY DEF FirstRows, Pending, Snapshot
<1>4. \A r \in P : r \in Row /\ r.shard = w /\ cursor[n][w] < r.id
  BY <1>0, <1>3 DEF Pending, OutboxTypeOK, Row
<1>5. B \in SUBSET Row
  BY <1>0, <1>3
<1>6. /\ batch' \in [Nodes -> [Shards -> SUBSET Row]]
      /\ \A m \in Nodes, v \in Shards :
           batch'[m][v] = IF m = n /\ v = w THEN B ELSE batch[m][v]
  <2> HIDE DEF B
  <2> QED
    BY <1>0, <1>1, <1>5 DEF OutboxTypeOK
<1>7. /\ pc' \in [Nodes -> [Shards -> {"poll", "dispatch", "idle"}]]
      /\ \A m \in Nodes, v \in Shards :
           pc'[m][v] = IF m = n /\ v = w THEN "dispatch" ELSE pc[m][v]
  BY <1>0, <1>1 DEF OutboxTypeOK
<1>8. OutboxTypeOK'
  BY <1>0, <1>1, <1>6, <1>7 DEF OutboxTypeOK, dbVars
<1>9. \A m \in up : m \in Nodes
  BY <1>0 DEF OutboxTypeOK
<1> HIDE DEF B, P, pos
<1>10. BatchInv'
  <2>1. BatchInv
    BY DEF Inv
  <2> QED
    BY <1>1, <1>2, <1>3, <1>4, <1>6, <1>7, <1>9, <2>1 DEF BatchInv
<1>11. BatchComplete'
  <2> SUFFICES ASSUME NEW m \in up, NEW v \in Shards, NEW b \in batch'[m][v], NEW r \in log,
                      r.shard = v, cursor[m][v] < r.id, r.id <= b.id
               PROVE  r \in delivered[m] \/ r \in batch'[m][v] \/ WipedBy(r, lsn)
    BY <1>1, <1>2, DatabaseUndisturbed DEF BatchComplete
  <2>1. CASE m = n /\ v = w
    <3>1. b \in B /\ b \in P /\ b \in log /\ b.lsn <= pos /\ b.shard = w
      BY <1>3, <1>6, <2>1 DEF P, Pending, Snapshot, pos
    <3>2. pos \in Nat /\ pos <= lsn
      BY PoolPositionBound DEF pos
    <3>3. r.lsn \in Nat /\ b.lsn \in Nat /\ r.id \in Nat /\ b.id \in Nat
      BY <1>0, <3>1 DEF Row
    <3>4. r.lsn <= b.lsn
      <4>1. CASE r.id = b.id
        BY <3>1, <3>3, <4>1 DEF Inv, LogInv
      <4>2. CASE r.id < b.id
        BY <2>1, <3>1, <4>2 DEF Inv, LogInv, CommitOrderIsIdOrder
      <4> QED
        BY <3>3, <4>1, <4>2
    <3>5. r.lsn <= pos
      BY <3>1, <3>2, <3>3, <3>4
    <3>6. CASE WipedBy(r, pos)
      <4>1. wipes \subseteq [ch: Channels, lsn: Nat]
        BY <1>0 DEF OutboxTypeOK
      <4>2. WipedBy(r, lsn)
        BY <1>0, <3>2, <3>6, <4>1 DEF WipedBy
      <4> QED
        BY <4>2
    <3>7. CASE ~WipedBy(r, pos)
      <4>1. r \in P
        BY <2>1, <3>5, <3>7 DEF P, Pending, Snapshot, pos
      <4>2. IsFiniteSet(P)
        BY <1>3, LogFinite, FS_Subset
      <4>3. \A x \in P : x.id \in Nat
        BY <1>4 DEF Row
      <4>4. r \in B
        BY <3>1, <4>1, <4>2, <4>3, FirstRowsLower DEF B
      <4> QED
        BY <1>6, <1>9, <2>1, <4>4
    <3> QED
      BY <3>6, <3>7
  <2>2. CASE ~(m = n /\ v = w)
    BY <1>6, <1>9, <2>2 DEF Inv, BatchComplete
  <2> QED
    BY <2>1, <2>2
<1>12. DeliveredInv'
  <2> SUFFICES ASSUME NEW m \in up, NEW r \in delivered[m]
               PROVE  /\ r \in log
                      /\ start[m] < r.id
                      /\ \/ r.id <= cursor[m][r.shard]
                         \/ /\ pc'[m][r.shard] = "dispatch"
                            /\ \A b \in batch'[m][r.shard] : r.id < b.id
    BY <1>1, <1>2 DEF DeliveredInv
  <2>1. /\ r \in log
        /\ start[m] < r.id
        /\ \/ r.id <= cursor[m][r.shard]
           \/ /\ pc[m][r.shard] = "dispatch"
              /\ \A b \in batch[m][r.shard] : r.id < b.id
    BY DEF Inv, DeliveredInv
  <2>2. r.shard \in Shards
    BY <1>0, <2>1 DEF Row
  <2> QED
    BY <1>1, <1>6, <1>7, <1>9, <2>1, <2>2
<1>13. NoSkippedRow'
  BY <1>1, <1>2, DatabaseUndisturbed DEF Inv, NoSkippedRow
<1> QED
  BY <1>1, <1>8, <1>10, <1>11, <1>12, <1>13, DatabaseUndisturbed DEF Inv

LEMMA DispatchInv ==
  ASSUME Inv, NEW n \in Nodes, NEW w \in Shards, Dispatch(n, w)
  PROVE  Inv'
<1>0. /\ OutboxTypeOK /\ log \subseteq Row
      /\ \A m \in up : m \in Nodes
      /\ \A m \in Nodes : start[m] \in Nat /\ \A v \in Shards : cursor[m][v] \in Nat
  BY DEF Inv, OutboxTypeOK
<1>1. PICK r \in batch[n][w] :
         /\ \A q \in batch[n][w] : r.id <= q.id
         /\ delivered' = [delivered EXCEPT ![n] = @ \cup {r}]
         /\ batch' = [batch EXCEPT ![n][w] = @ \ {r}]
         /\ IF batch[n][w] = {r}
            THEN /\ cursor' = [cursor EXCEPT ![n][w] = r.id]
                 /\ pc' = [pc EXCEPT ![n][w] = "poll"]
                 /\ progress' = [progress EXCEPT ![n][w] = TRUE]
            ELSE UNCHANGED <<cursor, pc, progress>>
  BY DEF Dispatch
<1>2. n \in up /\ pc[n][w] = "dispatch" /\ UNCHANGED <<up, start, since, crashes, dbVars>>
  BY DEF Dispatch
<1>3. log' = log
  BY <1>2 DEF dbVars
<1>4. r \in log /\ r \in Row /\ r.shard = w /\ cursor[n][w] < r.id /\ r.id \in Nat
  BY <1>0, <1>2 DEF Inv, BatchInv, Row
<1>5. /\ delivered' \in [Nodes -> SUBSET Row]
      /\ \A m \in Nodes : delivered'[m] = IF m = n THEN delivered[m] \cup {r} ELSE delivered[m]
  BY <1>0, <1>1, <1>4 DEF OutboxTypeOK
<1>6. /\ batch' \in [Nodes -> [Shards -> SUBSET Row]]
      /\ \A m \in Nodes, v \in Shards :
           batch'[m][v] = IF m = n /\ v = w THEN batch[m][v] \ {r} ELSE batch[m][v]
  BY <1>0, <1>1 DEF OutboxTypeOK
<1>7. /\ cursor' \in [Nodes -> [Shards -> Nat]]
      /\ \A m \in Nodes, v \in Shards :
           cursor'[m][v] = IF m = n /\ v = w /\ batch[n][w] = {r} THEN r.id ELSE cursor[m][v]
  <2>1. cursor \in [Nodes -> [Shards -> Nat]]
    BY <1>0 DEF OutboxTypeOK
  <2>2. CASE batch[n][w] = {r}
    <3>1. cursor' = [cursor EXCEPT ![n][w] = r.id]
      BY <1>1, <2>2
    <3> QED
      BY <1>4, <2>1, <2>2, <3>1
  <2>3. CASE batch[n][w] # {r}
    <3>1. cursor' = cursor
      BY <1>1, <2>3
    <3> QED
      BY <2>1, <2>3, <3>1
  <2> QED
    BY <2>2, <2>3
<1>8. /\ pc' \in [Nodes -> [Shards -> {"poll", "dispatch", "idle"}]]
      /\ \A m \in Nodes, v \in Shards :
           pc'[m][v] = IF m = n /\ v = w /\ batch[n][w] = {r} THEN "poll" ELSE pc[m][v]
  <2>1. pc \in [Nodes -> [Shards -> {"poll", "dispatch", "idle"}]]
    BY <1>0 DEF OutboxTypeOK
  <2>2. CASE batch[n][w] = {r}
    <3>1. pc' = [pc EXCEPT ![n][w] = "poll"]
      BY <1>1, <2>2
    <3> QED
      BY <2>1, <2>2, <3>1
  <2>3. CASE batch[n][w] # {r}
    <3>1. pc' = pc
      BY <1>1, <2>3
    <3> QED
      BY <2>1, <2>3, <3>1
  <2> QED
    BY <2>2, <2>3
<1>9. progress' \in [Nodes -> [Shards -> BOOLEAN]]
  <2>1. progress \in [Nodes -> [Shards -> BOOLEAN]]
    BY <1>0 DEF OutboxTypeOK
  <2>2. [progress EXCEPT ![n][w] = TRUE] \in [Nodes -> [Shards -> BOOLEAN]]
    BY <2>1, Zenon
  <2>3. progress' = progress \/ progress' = [progress EXCEPT ![n][w] = TRUE]
    BY <1>1
  <2> QED
    BY <2>1, <2>2, <2>3, Zenon
<1>10. OutboxTypeOK'
  BY <1>0, <1>2, <1>5, <1>6, <1>7, <1>8, <1>9 DEF OutboxTypeOK, dbVars
<1>11. \A b \in batch[n][w] \ {r} : b \in log /\ b.id \in Nat /\ r.id < b.id
  BY <1>0, <1>1, <1>2, <1>4 DEF Inv, BatchInv, LogInv, Row
<1>12. BatchInv'
  <2> SUFFICES ASSUME NEW m \in up, NEW v \in Shards
               PROVE  /\ \A b \in batch'[m][v] : b \in log /\ b.shard = v /\ cursor'[m][v] < b.id
                      /\ \/ cursor'[m][v] = start[m]
                         \/ \E q \in log : q.shard = v /\ q.id = cursor'[m][v]
                      /\ start[m] <= cursor'[m][v]
                      /\ pc'[m][v] # "dispatch" => batch'[m][v] = {}
    BY <1>2, <1>3 DEF BatchInv
  <2>1. /\ \A b \in batch[m][v] : b \in log /\ b.shard = v /\ cursor[m][v] < b.id
        /\ \/ cursor[m][v] = start[m]
           \/ \E q \in log : q.shard = v /\ q.id = cursor[m][v]
        /\ start[m] <= cursor[m][v]
        /\ pc[m][v] # "dispatch" => batch[m][v] = {}
    BY DEF Inv, BatchInv
  <2>2. CASE m = n /\ v = w /\ batch[n][w] = {r}
    <3>1. batch'[m][v] = {} /\ cursor'[m][v] = r.id
      BY <1>0, <1>6, <1>7, <2>2
    <3>2. start[m] \in Nat /\ cursor[m][v] \in Nat
      BY <1>0
    <3> QED
      BY <1>4, <2>1, <2>2, <3>1, <3>2
  <2>3. CASE ~(m = n /\ v = w /\ batch[n][w] = {r})
    <3>1. cursor'[m][v] = cursor[m][v] /\ pc'[m][v] = pc[m][v]
      BY <1>0, <1>7, <1>8, <2>3
    <3>2. batch'[m][v] \subseteq batch[m][v]
      BY <1>0, <1>6
    <3> QED
      BY <2>1, <3>1, <3>2
  <2> QED
    BY <2>2, <2>3
<1>13. BatchComplete'
  <2> SUFFICES ASSUME NEW m \in up, NEW v \in Shards, NEW b \in batch'[m][v], NEW q \in log,
                      q.shard = v, cursor'[m][v] < q.id, q.id <= b.id
               PROVE  q \in delivered'[m] \/ q \in batch'[m][v] \/ WipedBy(q, lsn)
    BY <1>2, <1>3, DatabaseUndisturbed DEF BatchComplete
  <2>1. b \in batch[m][v] /\ ~(m = n /\ v = w /\ batch[n][w] = {r})
    BY <1>0, <1>6
  <2>2. cursor'[m][v] = cursor[m][v]
    BY <1>0, <1>7, <2>1
  <2>3. q \in delivered[m] \/ q \in batch[m][v] \/ WipedBy(q, lsn)
    BY <2>1, <2>2 DEF Inv, BatchComplete
  <2> QED
    BY <1>0, <1>5, <1>6, <2>3
<1>14. DeliveredInv'
  <2> SUFFICES ASSUME NEW m \in up, NEW q \in delivered'[m]
               PROVE  /\ q \in log
                      /\ start[m] < q.id
                      /\ \/ q.id <= cursor'[m][q.shard]
                         \/ /\ pc'[m][q.shard] = "dispatch"
                            /\ \A b \in batch'[m][q.shard] : q.id < b.id
    BY <1>2, <1>3 DEF DeliveredInv
  <2>1. CASE q \in delivered[m]
    <3>1. /\ q \in log
          /\ start[m] < q.id
          /\ \/ q.id <= cursor[m][q.shard]
             \/ /\ pc[m][q.shard] = "dispatch"
                /\ \A b \in batch[m][q.shard] : q.id < b.id
      BY <2>1 DEF Inv, DeliveredInv
    <3>2. q.shard \in Shards /\ q.id \in Nat
      BY <1>0, <3>1 DEF Row
    <3>3. CASE m = n /\ q.shard = w /\ batch[n][w] = {r}
      BY <1>0, <1>4, <1>7, <3>1, <3>2, <3>3
    <3>4. CASE ~(m = n /\ q.shard = w /\ batch[n][w] = {r})
      <4>1. cursor'[m][q.shard] = cursor[m][q.shard] /\ pc'[m][q.shard] = pc[m][q.shard]
        BY <1>0, <1>7, <1>8, <3>2, <3>4
      <4>2. batch'[m][q.shard] \subseteq batch[m][q.shard]
        BY <1>0, <1>6, <3>2
      <4> QED
        BY <3>1, <4>1, <4>2
    <3> QED
      BY <3>3, <3>4
  <2>2. CASE m = n /\ q = r
    <3>1. start[n] < r.id
      BY <1>0, <1>2, <1>4 DEF Inv, BatchInv
    <3>2. CASE batch[n][w] = {r}
      BY <1>4, <1>7, <2>2, <3>1, <3>2
    <3>3. CASE batch[n][w] # {r}
      BY <1>2, <1>4, <1>6, <1>8, <1>11, <2>2, <3>1, <3>3
    <3> QED
      BY <3>2, <3>3
  <2> QED
    BY <1>0, <1>5, <2>1, <2>2
<1>15. NoSkippedRow'
  <2> SUFFICES ASSUME NEW m \in up, NEW q \in log, start[m] < q.id, q.id <= cursor'[m][q.shard]
               PROVE  q \in delivered'[m] \/ WipedBy(q, lsn)
    BY <1>2, <1>3, DatabaseUndisturbed DEF NoSkippedRow
  <2>1. q.shard \in Shards /\ q.id \in Nat
    BY <1>0 DEF Row
  <2>2. CASE q.id <= cursor[m][q.shard]
    BY <1>0, <1>5, <2>2 DEF Inv, NoSkippedRow
  <2>3. CASE ~(q.id <= cursor[m][q.shard])
    <3>1. m = n /\ q.shard = w /\ batch[n][w] = {r} /\ q.id <= r.id /\ cursor[n][w] < q.id
      BY <1>0, <1>7, <2>1, <2>3
    <3>2. q \in delivered[n] \/ q \in batch[n][w] \/ WipedBy(q, lsn)
      BY <1>2, <3>1 DEF Inv, BatchComplete
    <3> QED
      BY <1>5, <3>1, <3>2
  <2> QED
    BY <2>2, <2>3
<1> QED
  BY <1>2, <1>10, <1>12, <1>13, <1>14, <1>15, DatabaseUndisturbed DEF Inv

-----------------------------------------------------------------------------
(* The theorems.                                                           *)

LEMMA NextInv == Inv /\ [StreamOutboxNext]_streamOutbox => Inv'
<1> SUFFICES ASSUME Inv, [StreamOutboxNext]_streamOutbox PROVE Inv'
    OBVIOUS
<1>1. ASSUME NEW p \in Sessions, SessionNext(p) PROVE Inv'
  BY <1>1, CallPublishInv, InsertInv, SuppressInv, CommitInv, RollbackInv DEF SessionNext
<1>2. ASSUME NEW ch \in Channels, RemoveHistory(ch) PROVE Inv'
  BY <1>2, RemoveHistoryInv
<1>3. ASSUME NEW k \in 0 .. NumReplicas - 1, Replicate(k) PROVE Inv'
  BY <1>3, ReplicateInv
<1>4. ASSUME NEW n \in Nodes, RegisterBrokerEventHandler(n) \/ Stop(n) PROVE Inv'
  BY <1>4, RegisterInv, StopInv
<1>5. ASSUME NEW n \in Nodes, NEW w \in Shards, WorkerNext(n, w) PROVE Inv'
  BY <1>5, FetchInv, WaitInv, DispatchInv DEF WorkerNext, FetchEmpty, FetchError
<1>6. CASE UNCHANGED streamOutbox
  <2>1. UNCHANGED dbVars /\ UNCHANGED nodeVars
    BY <1>6 DEF streamOutbox, dbVars, nodeVars
  <2>2. OutboxTypeOK'
    BY <2>1 DEF Inv, OutboxTypeOK, dbVars, nodeVars
  <2> QED
    BY <2>1, <2>2, DatabaseUndisturbed, NodesUndisturbed DEF Inv, dbVars
<1> QED
  BY <1>1, <1>2, <1>3, <1>4, <1>5, <1>6 DEF StreamOutboxNext

THEOREM InvAlways == StreamOutboxSpec => []Inv
<1> QED
  BY InitInv, NextInv, PTL DEF StreamOutboxSpec

\* Every variable of the outbox keeps its type.
THEOREM TypeCorrect == StreamOutboxSpec => []OutboxTypeOK
<1>1. Inv => OutboxTypeOK
  BY DEF Inv
<1> QED
  BY InvAlways, <1>1, PTL

\* The shard lock taken by publish makes rows of a shard visible in id order,
\* for any number of shards, sessions and multi-row transactions.
THEOREM CommitOrder == StreamOutboxSpec => []CommitOrderIsIdOrder
<1>1. Inv => CommitOrderIsIdOrder
  BY DEF Inv, LogInv
<1> QED
  BY InvAlways, <1>1, PTL

\* No outbox worker moves its cursor past a row it did not dispatch, whether
\* it polls the primary or a lagging replica.
THEOREM NoRowSkipped == StreamOutboxSpec => []NoSkippedRow
<1>1. Inv => NoSkippedRow
  BY DEF Inv
<1> QED
  BY InvAlways, <1>1, PTL

-----------------------------------------------------------------------------
(* Offsets without holes.  Offsets are given under the shard lock, so the   *)
(* committed publications of a channel have the offsets 1 .. top, those of  *)
(* an open transaction follow, and both are in id order; a worker, which    *)
(* goes by ids, then leaves no offset out.                                  *)

PublicationOf(r, ch) == r.ch = ch /\ r.kind = "pub"

\* The shard of a row is that of its channel.
ShardInv ==
    /\ \A r \in log : r.shard = ShardOf[r.ch]
    /\ \A p \in Sessions : \A d \in tx[p].rows : d.shard = ShardOf[d.ch]

\* Committed publications have the offsets 1 .. top, in id order.
CommittedOffsets ==
    \A ch \in Channels :
        /\ \A r \in log : PublicationOf(r, ch) => 1 <= r.off /\ r.off <= top[ch]
        /\ \A o \in 1 .. top[ch] : \E r \in log : PublicationOf(r, ch) /\ r.off = o
        /\ \A r, q \in log : PublicationOf(r, ch) /\ PublicationOf(q, ch) =>
                                 (r.id < q.id <=> r.off < q.off)

\* So do those of an open transaction from there on.
DraftOffsets ==
    \A p \in Sessions, ch \in Channels :
        LET own == PublishedIn(p, ch)
        IN  /\ \A d \in own : top[ch] < d.off /\ d.off <= top[ch] + Cardinality(own)
            /\ \A o \in (top[ch] + 1) .. (top[ch] + Cardinality(own)) : \E d \in own : d.off = o
            /\ \A d, e \in own : d.id < e.id <=> d.off < e.off

\* Before a row that was dispatched nothing is left out.
DeliveredPrefix ==
    \A n \in up : \A r \in delivered[n] : \A m \in log :
        m.shard = r.shard /\ start[n] < m.id /\ m.id <= r.id =>
            m \in delivered[n] \/ WipedBy(m, lsn)

OffsetInv == ShardInv /\ CommittedOffsets /\ DraftOffsets /\ DeliveredPrefix

\* A transaction without publications in a channel says nothing about offsets.
LEMMA NoDraftOffsets ==
  ASSUME NEW own, own = {}, NEW t \in Nat
  PROVE  /\ \A d \in own : t < d.off /\ d.off <= t + Cardinality(own)
         /\ \A o \in (t + 1) .. (t + Cardinality(own)) : \E d \in own : d.off = o
         /\ \A d, e \in own : d.id < e.id <=> d.off < e.off
<1>1. Cardinality(own) = 0
  BY FS_EmptySet
<1> QED
  BY <1>1

LEMMA OffsetInit == StreamOutboxInit => OffsetInv
<1> SUFFICES ASSUME StreamOutboxInit PROVE OffsetInv
    OBVIOUS
<1>1. \A p \in Sessions, ch \in Channels : PublishedIn(p, ch) = {}
  BY DEF StreamOutboxInit, PublishedIn, Idle
<1>2. DraftOffsets
  <2>1. \A ch \in Channels : top[ch] \in Nat
    BY DEF StreamOutboxInit
  <2> QED
    BY <1>1, <2>1, NoDraftOffsets DEF DraftOffsets
<1>3. ShardInv /\ CommittedOffsets /\ DeliveredPrefix
  BY DEF StreamOutboxInit, ShardInv, CommittedOffsets, DeliveredPrefix, Idle
<1> QED
  BY <1>2, <1>3 DEF OffsetInv

\* A step that changes neither the log nor the rows of transactions.
LEMMA OffsetsUndisturbed ==
  ASSUME OffsetInv, UNCHANGED <<log, top>>,
         \A p \in Sessions : tx'[p].rows = tx[p].rows
  PROVE  ShardInv' /\ CommittedOffsets' /\ DraftOffsets'
<1>1. \A p \in Sessions, ch \in Channels : PublishedIn(p, ch)' = PublishedIn(p, ch)
  BY DEF PublishedIn
<1>2. ShardInv' /\ CommittedOffsets'
  BY DEF OffsetInv, ShardInv, CommittedOffsets
<1>3. DraftOffsets'
  BY <1>1 DEF OffsetInv, DraftOffsets
<1> QED
  BY <1>2, <1>3

\* A step that leaves the nodes and the log alone, and undoes no wipe.
LEMMA PrefixUndisturbed ==
  ASSUME OffsetInv, UNCHANGED <<log, nodeVars>>,
         \A r \in log : WipedBy(r, lsn) => WipedBy(r, lsn)'
  PROVE  DeliveredPrefix'
BY DEF OffsetInv, DeliveredPrefix, nodeVars

LEMMA InsertOffsets ==
  ASSUME Inv, OffsetInv, NEW p \in Sessions, Insert(p)
  PROVE  OffsetInv'
<1> USE ShardOfAssumption
<1> DEFINE c == tx[p].call
           d == [id |-> seq + 1, shard |-> ShardOf[c.ch], ch |-> c.ch,
                 kind |-> c.op, off |-> NextOffset(p, c.ch, c.op)]
<1>0. tx \in TxType /\ seq \in Nat /\ top \in [Channels -> Nat] /\ log \subseteq Row
  BY DEF Inv, OutboxTypeOK, TxType
<1>1. /\ c # NoCall
      /\ tx' = [tx EXCEPT ![p] = [locks |-> @.locks, rows |-> @.rows \cup {d}, call |-> NoCall]]
      /\ UNCHANGED <<lsn, log, wipes, top, nodeVars>>
  BY DEF Insert
<1>2. c.ch \in Channels /\ c.op \in Kinds
  BY <1>0, <1>1 DEF TxType, Call
<1>3. /\ tx'[p].rows = tx[p].rows \cup {d}
      /\ \A q \in Sessions \ {p} : tx'[q] = tx[q]
  BY <1>0, <1>1 DEF TxType
<1>4. \A e \in tx[p].rows : e.id \in Nat /\ e.id <= seq /\ e.off \in Nat
  BY <1>0 DEF Inv, DraftInv, TxType, Draft
<1>5. /\ d.id = seq + 1 /\ d.ch = c.ch /\ d.kind = c.op /\ d.shard = ShardOf[c.ch]
      /\ d.off = NextOffset(p, c.ch, c.op)
  OBVIOUS
<1> HIDE DEF d
<1>6. ShardInv'
  BY <1>1, <1>3, <1>5 DEF OffsetInv, ShardInv
<1>7. CommittedOffsets'
  BY <1>1 DEF OffsetInv, CommittedOffsets
<1>8. DeliveredPrefix'
  BY <1>1, PrefixUndisturbed DEF WipedBy
<1>9. DraftOffsets'
  <2> SUFFICES ASSUME NEW q \in Sessions, NEW ch \in Channels
               PROVE  LET own == PublishedIn(q, ch)'
                      IN  /\ \A x \in own : top[ch] < x.off /\ x.off <= top[ch] + Cardinality(own)
                          /\ \A o \in (top[ch] + 1) .. (top[ch] + Cardinality(own)) : \E x \in own : x.off = o
                          /\ \A x, e \in own : x.id < e.id <=> x.off < e.off
    BY <1>1 DEF DraftOffsets
  <2> DEFINE old == PublishedIn(q, ch)
             new == PublishedIn(q, ch)'
  <2>1. /\ \A x \in old : top[ch] < x.off /\ x.off <= top[ch] + Cardinality(old)
        /\ \A o \in (top[ch] + 1) .. (top[ch] + Cardinality(old)) : \E x \in old : x.off = o
        /\ \A x, e \in old : x.id < e.id <=> x.off < e.off
    BY DEF OffsetInv, DraftOffsets
  <2>2. CASE ~(q = p /\ c.ch = ch /\ c.op = "pub")
    <3>1. new = old
      BY <1>3, <1>5, <2>2 DEF PublishedIn
    <3> QED
      BY <2>1, <3>1
  <2>3. CASE q = p /\ c.ch = ch /\ c.op = "pub"
    <3>1. new = old \cup {d}
      BY <1>3, <1>5, <2>3 DEF PublishedIn
    <3>2. IsFiniteSet(old) /\ Cardinality(old) \in Nat
      BY FS_Subset, FS_CardinalityType DEF Inv, Finiteness, PublishedIn
    <3>3. d.off = top[ch] + 1 + Cardinality(old)
      BY <1>5, <2>3 DEF NextOffset, PublishedIn
    <3>4. \A x \in old : x.id \in Nat /\ x.id < d.id /\ x.off \in Nat
      BY <1>0, <1>4, <1>5, <2>3 DEF PublishedIn
    <3>5. Cardinality(new) = Cardinality(old) + 1
      <4>1. d \notin old
        BY <1>0, <1>5, <3>4
      <4> QED
        BY <3>1, <3>2, <4>1, FS_AddElement
    <3>6. top[ch] \in Nat /\ d.id \in Nat
      BY <1>0, <1>5
    <3> HIDE DEF old, new
    <3>7. \A x \in new : top[ch] < x.off /\ x.off <= top[ch] + Cardinality(new)
      BY <2>1, <3>1, <3>2, <3>3, <3>4, <3>5, <3>6
    <3>8. \A o \in (top[ch] + 1) .. (top[ch] + Cardinality(new)) : \E x \in new : x.off = o
      BY <2>1, <3>1, <3>2, <3>3, <3>5, <3>6
    <3>9. \A x, e \in new : x.id < e.id <=> x.off < e.off
      BY <2>1, <3>1, <3>2, <3>3, <3>4, <3>6
    <3> QED
      BY <3>7, <3>8, <3>9 DEF new
  <2> QED
    BY <2>2, <2>3
<1> QED
  BY <1>6, <1>7, <1>8, <1>9 DEF OffsetInv

LEMMA CommitOffsets ==
  ASSUME Inv, OffsetInv, NEW p \in Sessions, Commit(p)
  PROVE  OffsetInv'
<1> DEFINE rowOf(d) == [id |-> d.id, shard |-> d.shard, ch |-> d.ch, kind |-> d.kind,
                        off |-> d.off, lsn |-> lsn + 1]
           new == {rowOf(d) : d \in tx[p].rows}
<1>0. /\ tx \in TxType /\ lsn \in Nat /\ top \in [Channels -> Nat] /\ log \subseteq Row
      /\ wipes \subseteq [ch: Channels, lsn: Nat]
  BY DEF Inv, OutboxTypeOK, TxType
<1>1. /\ log' = log \cup new
      /\ lsn' = lsn + 1
      /\ UNCHANGED <<wipes, nodeVars>>
      /\ top' = [ch \in Channels |-> top[ch] + Cardinality(PublishedIn(p, ch))]
  BY DEF Commit
<1>2. tx'[p].rows = {} /\ \A q \in Sessions \ {p} : tx'[q] = tx[q]
  BY <1>0 DEF Commit, TxType, Idle
<1>3. \A r \in new : \E d \in tx[p].rows : /\ r.id = d.id /\ r.shard = d.shard /\ r.ch = d.ch
                                           /\ r.kind = d.kind /\ r.off = d.off
  OBVIOUS
<1>4. ASSUME NEW d \in tx[p].rows
      PROVE  \E r \in new : r.id = d.id /\ r.ch = d.ch /\ r.kind = d.kind /\ r.off = d.off
  <2> WITNESS rowOf(d) \in new
  <2> QED
    OBVIOUS
<1> HIDE DEF rowOf, new
<1>5. \A d \in tx[p].rows : /\ d.id \in Nat /\ d.off \in Nat /\ d.ch \in Channels
                            /\ \A r \in log : r.shard = d.shard => r.id < d.id
  BY <1>0 DEF Inv, DraftInv, TxType, Draft
<1>6. \A ch \in Channels : Cardinality(PublishedIn(p, ch)) \in Nat
  BY FS_Subset, FS_CardinalityType DEF Inv, Finiteness, PublishedIn
<1>7. ShardInv'
  BY <1>1, <1>2, <1>3 DEF OffsetInv, ShardInv
<1>8. CommittedOffsets'
  <2> SUFFICES ASSUME NEW ch \in Channels
               PROVE  /\ \A r \in log' : PublicationOf(r, ch) => 1 <= r.off /\ r.off <= top'[ch]
                      /\ \A o \in 1 .. top'[ch] : \E r \in log' : PublicationOf(r, ch) /\ r.off = o
                      /\ \A r, q \in log' : PublicationOf(r, ch) /\ PublicationOf(q, ch) =>
                                               (r.id < q.id <=> r.off < q.off)
    BY DEF CommittedOffsets
  <2> DEFINE own == PublishedIn(p, ch)
             n == Cardinality(own)
  <2>1. top'[ch] = top[ch] + n /\ n \in Nat /\ top[ch] \in Nat
    BY <1>0, <1>1, <1>6
  <2>2. /\ \A d \in own : top[ch] < d.off /\ d.off <= top[ch] + n
        /\ \A o \in (top[ch] + 1) .. (top[ch] + n) : \E d \in own : d.off = o
        /\ \A d, e \in own : d.id < e.id <=> d.off < e.off
    BY DEF OffsetInv, DraftOffsets
  <2>3. /\ \A r \in log : PublicationOf(r, ch) => 1 <= r.off /\ r.off <= top[ch]
        /\ \A o \in 1 .. top[ch] : \E r \in log : PublicationOf(r, ch) /\ r.off = o
        /\ \A r, q \in log : PublicationOf(r, ch) /\ PublicationOf(q, ch) =>
                                 (r.id < q.id <=> r.off < q.off)
    BY DEF OffsetInv, CommittedOffsets
  <2>4. \A r \in new : PublicationOf(r, ch) => \E d \in own : r.id = d.id /\ r.off = d.off
    BY <1>3 DEF PublishedIn, PublicationOf
  <2>5. \A d \in own : \E r \in new : PublicationOf(r, ch) /\ r.off = d.off
    BY <1>4 DEF PublishedIn, PublicationOf
  <2>6. \A d \in own : /\ d.id \in Nat /\ d.off \in Nat
                       /\ \A r \in log : PublicationOf(r, ch) => r.id < d.id
    <3>1. \A d \in own : d \in tx[p].rows /\ d.ch = ch
      BY DEF PublishedIn
    <3>2. \A r \in log, d \in own : PublicationOf(r, ch) => r.shard = d.shard
      BY <3>1 DEF OffsetInv, ShardInv, PublicationOf
    <3> QED
      BY <1>5, <3>1, <3>2
  <2>7. \A r \in log : r.id \in Nat /\ r.off \in Nat
    BY <1>0 DEF Row
  <2> HIDE DEF own, n
  <2>8. \A r \in log' : PublicationOf(r, ch) => 1 <= r.off /\ r.off <= top'[ch]
    BY <1>1, <2>1, <2>2, <2>3, <2>4, <2>6, <2>7
  <2>9. \A o \in 1 .. top'[ch] : \E r \in log' : PublicationOf(r, ch) /\ r.off = o
    <3> TAKE o \in 1 .. top'[ch]
    <3>1. CASE o <= top[ch]
      BY <1>1, <2>1, <2>3, <3>1
    <3>2. CASE o > top[ch]
      BY <1>1, <2>1, <2>2, <2>5, <3>2
    <3> QED
      BY <2>1, <3>1, <3>2
  <2>10. \A r, q \in log' : PublicationOf(r, ch) /\ PublicationOf(q, ch) =>
                               (r.id < q.id <=> r.off < q.off)
    <3>1. \A r, q \in new : PublicationOf(r, ch) /\ PublicationOf(q, ch) =>
                               (r.id < q.id <=> r.off < q.off)
      BY <2>2, <2>4
    <3>2. \A r \in log, q \in new : PublicationOf(r, ch) /\ PublicationOf(q, ch) =>
                               /\ r.id < q.id /\ ~(q.id < r.id)
                               /\ r.off < q.off /\ ~(q.off < r.off)
      BY <2>1, <2>2, <2>3, <2>4, <2>6, <2>7
    <3> QED
      BY <1>1, <2>3, <3>1, <3>2
  <2> QED
    BY <2>8, <2>9, <2>10
<1>9. DraftOffsets'
  <2> SUFFICES ASSUME NEW q \in Sessions, NEW ch \in Channels
               PROVE  LET own == PublishedIn(q, ch)'
                      IN  /\ \A x \in own : top'[ch] < x.off /\ x.off <= top'[ch] + Cardinality(own)
                          /\ \A o \in (top'[ch] + 1) .. (top'[ch] + Cardinality(own)) : \E x \in own : x.off = o
                          /\ \A x, e \in own : x.id < e.id <=> x.off < e.off
    BY DEF DraftOffsets
  <2>1. top'[ch] = top[ch] + Cardinality(PublishedIn(p, ch)) /\ top[ch] \in Nat
    BY <1>0, <1>1
  <2>2. CASE PublishedIn(q, ch)' = {}
    BY <1>6, <2>1, <2>2, FS_EmptySet
  <2>3. CASE PublishedIn(q, ch)' # {}
    <3>1. q # p /\ PublishedIn(q, ch)' = PublishedIn(q, ch)
      BY <1>2, <2>3 DEF PublishedIn
    <3>2. PICK x \in tx[q].rows : x.ch = ch
      BY <2>3, <3>1 DEF PublishedIn
    <3>3. ShardOf[ch] \in tx[q].locks
      BY <3>2 DEF Inv, LockInv, OffsetInv, ShardInv
    <3>4. \A e \in tx[p].rows : e.ch # ch
      BY <3>1, <3>3 DEF Inv, LockInv, OffsetInv, ShardInv
    <3>5. PublishedIn(p, ch) = {}
      BY <3>4 DEF PublishedIn
    <3>6. top'[ch] = top[ch]
      BY <2>1, <3>5, FS_EmptySet
    <3> QED
      BY <3>1, <3>6 DEF OffsetInv, DraftOffsets
  <2> QED
    BY <2>2, <2>3
<1>10. DeliveredPrefix'
  <2> SUFFICES ASSUME NEW n \in up, NEW r \in delivered[n], NEW m \in log',
                      m.shard = r.shard, start[n] < m.id, m.id <= r.id
               PROVE  m \in delivered[n] \/ WipedBy(m, lsn)'
    BY <1>1 DEF DeliveredPrefix, nodeVars
  <2>1. r \in log /\ r.id \in Nat
    BY <1>0 DEF Inv, DeliveredInv, Row
  <2>2. m \in log
    <3>1. \A x \in new : x.shard = r.shard => r.id < x.id /\ x.id \in Nat
      BY <1>3, <1>5, <2>1
    <3> QED
      BY <1>1, <2>1, <3>1
  <2>3. WipedBy(m, lsn) => WipedBy(m, lsn)'
    BY <1>0, <1>1 DEF WipedBy
  <2> QED
    BY <2>2, <2>3 DEF OffsetInv, DeliveredPrefix
<1> QED
  BY <1>7, <1>8, <1>9, <1>10 DEF OffsetInv

LEMMA DispatchOffsets ==
  ASSUME Inv, OffsetInv, NEW n \in Nodes, NEW w \in Shards, Dispatch(n, w)
  PROVE  OffsetInv'
<1>0. /\ log \subseteq Row /\ up \subseteq Nodes
      /\ delivered \in [Nodes -> SUBSET Row] /\ start \in [Nodes -> Nat]
      /\ cursor \in [Nodes -> [Shards -> Nat]]
  BY DEF Inv, OutboxTypeOK
<1>1. PICK r \in batch[n][w] : /\ \A q \in batch[n][w] : r.id <= q.id
                               /\ delivered' = [delivered EXCEPT ![n] = @ \cup {r}]
  BY DEF Dispatch
<1>2. n \in up /\ UNCHANGED <<up, start, dbVars>>
  BY DEF Dispatch
<1>3. UNCHANGED <<lsn, log, wipes, top, tx>>
  BY <1>2 DEF dbVars
<1>4. ShardInv' /\ CommittedOffsets' /\ DraftOffsets'
  BY <1>3, OffsetsUndisturbed
<1>5. r \in log /\ r.shard = w /\ r.id \in Nat
  BY <1>0, <1>2 DEF Inv, BatchInv, Row
<1>6. ASSUME NEW m \in log, m.shard = w, start[n] < m.id, m.id <= r.id
      PROVE  m \in delivered[n] \cup {r} \/ WipedBy(m, lsn)
  <2>1. m.id \in Nat /\ cursor[n][w] \in Nat
    BY <1>0 DEF Row
  <2>2. CASE m.id <= cursor[n][w]
    BY <1>2, <1>6, <2>2 DEF Inv, NoSkippedRow
  <2>3. CASE cursor[n][w] < m.id
    <3>1. m \in delivered[n] \/ m \in batch[n][w] \/ WipedBy(m, lsn)
      BY <1>2, <1>6, <2>3 DEF Inv, BatchComplete
    <3>2. m \in batch[n][w] => m.id = r.id
      BY <1>1, <1>5, <1>6, <2>1
    <3>3. m \in batch[n][w] => m = r
      BY <1>5, <3>2 DEF Inv, LogInv
    <3> QED
      BY <3>1, <3>3
  <2> QED
    BY <2>1, <2>2, <2>3
<1>7. \A m \in log : WipedBy(m, lsn)' <=> WipedBy(m, lsn)
  BY <1>3 DEF WipedBy
<1>8. DeliveredPrefix'
  <2> SUFFICES ASSUME NEW k \in up, NEW q \in delivered'[k], NEW m \in log,
                      m.shard = q.shard, start[k] < m.id, m.id <= q.id
               PROVE  m \in delivered'[k] \/ WipedBy(m, lsn)
    BY <1>2, <1>3, <1>7 DEF DeliveredPrefix
  <2>1. delivered'[k] = IF k = n THEN delivered[k] \cup {r} ELSE delivered[k]
    BY <1>0, <1>1
  <2>2. CASE q \in delivered[k]
    BY <2>1, <2>2 DEF OffsetInv, DeliveredPrefix
  <2>3. CASE k = n /\ q = r
    BY <1>5, <1>6, <2>1, <2>3
  <2> QED
    BY <2>1, <2>2, <2>3
<1> QED
  BY <1>4, <1>8 DEF OffsetInv

\* Steps of nodes other than a dispatch.
LEMMA NodeOffsets ==
  ASSUME Inv, OffsetInv, NEW n \in Nodes,
         \/ RegisterBrokerEventHandler(n) \/ Stop(n)
         \/ \E w \in Shards : Fetch(n, w) \/ EndDrain(n, w) \/ Wake(n, w)
  PROVE  OffsetInv'
<1>0. /\ up \subseteq Nodes /\ delivered \in [Nodes -> SUBSET Row] /\ start \in [Nodes -> Nat]
  BY DEF Inv, OutboxTypeOK
<1>1. UNCHANGED dbVars
  BY DEF RegisterBrokerEventHandler, Stop, Fetch, EndDrain, Wake
<1>2. ShardInv' /\ CommittedOffsets' /\ DraftOffsets'
  BY <1>1, OffsetsUndisturbed DEF dbVars
<1>3. \A m \in log : WipedBy(m, lsn)' <=> WipedBy(m, lsn)
  BY <1>1 DEF WipedBy, dbVars
<1>4. \A k \in up' : \/ delivered'[k] = {}
                     \/ k \in up /\ delivered'[k] = delivered[k] /\ start'[k] = start[k]
  <2>1. CASE RegisterBrokerEventHandler(n)
    BY <1>0, <2>1 DEF RegisterBrokerEventHandler
  <2>2. CASE Stop(n)
    BY <1>0, <2>2 DEF Stop
  <2>3. CASE \E w \in Shards : Fetch(n, w) \/ EndDrain(n, w) \/ Wake(n, w)
    BY <2>3 DEF Fetch, EndDrain, Wake
  <2> QED
    BY <2>1, <2>2, <2>3
<1>5. DeliveredPrefix'
  BY <1>1, <1>3, <1>4 DEF OffsetInv, DeliveredPrefix, dbVars
<1> QED
  BY <1>2, <1>5 DEF OffsetInv

LEMMA NextOffsets == Inv /\ OffsetInv /\ [StreamOutboxNext]_streamOutbox => OffsetInv'
<1> SUFFICES ASSUME Inv, OffsetInv, [StreamOutboxNext]_streamOutbox PROVE OffsetInv'
    OBVIOUS
<1>1. ASSUME NEW p \in Sessions, SessionNext(p) PROVE OffsetInv'
  <2>1. CASE Insert(p)
    BY <2>1, InsertOffsets
  <2>2. CASE Commit(p)
    BY <2>2, CommitOffsets
  <2>3. CASE Suppress(p) \/ \E ch \in Channels, kind \in Kinds : CallPublish(p, ch, kind)
    <3>1. tx \in TxType
      BY DEF Inv, OutboxTypeOK, TxType
    <3>2. UNCHANGED <<lsn, log, wipes, top, nodeVars>>
      BY <2>3 DEF Suppress, CallPublish
    <3>3. \A q \in Sessions : tx'[q].rows = tx[q].rows
      BY <2>3, <3>1 DEF Suppress, CallPublish, TxType
    <3> QED
      BY <3>2, <3>3, OffsetsUndisturbed, PrefixUndisturbed DEF OffsetInv, WipedBy
  <2>4. CASE Rollback(p)
    <3>1. tx \in TxType
      BY DEF Inv, OutboxTypeOK, TxType
    <3>2. UNCHANGED <<lsn, log, wipes, top, nodeVars>>
      BY <2>4 DEF Rollback
    <3>3. tx'[p].rows = {} /\ \A q \in Sessions \ {p} : tx'[q] = tx[q]
      BY <2>4, <3>1 DEF Rollback, TxType, Idle
    <3>4. \A ch \in Channels : /\ PublishedIn(p, ch)' = {}
                               /\ \A q \in Sessions \ {p} : PublishedIn(q, ch)' = PublishedIn(q, ch)
      BY <3>3 DEF PublishedIn
    <3>5. top \in [Channels -> Nat]
      BY DEF Inv, OutboxTypeOK
    <3>6. DraftOffsets'
      <4>1. \A ch \in Channels : top'[ch] = top[ch] /\ top[ch] \in Nat
        BY <3>2, <3>5
      <4>2. \A ch \in Channels, q \in Sessions : PublishedIn(q, ch)' \in {{}, PublishedIn(q, ch)}
        BY <3>4
      <4> QED
        BY <4>1, <4>2, NoDraftOffsets DEF OffsetInv, DraftOffsets
    <3>7. ShardInv' /\ CommittedOffsets'
      BY <3>2, <3>3 DEF OffsetInv, ShardInv, CommittedOffsets
    <3> QED
      BY <3>2, <3>6, <3>7, PrefixUndisturbed DEF OffsetInv, WipedBy
  <2> QED
    BY <1>1, <2>1, <2>2, <2>3, <2>4 DEF SessionNext
<1>2. ASSUME NEW ch \in Channels, RemoveHistory(ch) PROVE OffsetInv'
  <2>1. /\ lsn' = lsn + 1 /\ lsn \in Nat
        /\ wipes' = wipes \cup {[ch |-> ch, lsn |-> lsn + 1]}
        /\ UNCHANGED <<log, top, tx, nodeVars>>
    BY <1>2 DEF RemoveHistory, Inv, OutboxTypeOK
  <2>2. \A r \in log : WipedBy(r, lsn) => WipedBy(r, lsn)'
    BY <2>1 DEF WipedBy, Inv, OutboxTypeOK
  <2> QED
    BY <2>1, <2>2, OffsetsUndisturbed, PrefixUndisturbed DEF OffsetInv
<1>3. ASSUME NEW k \in 0 .. NumReplicas - 1, Replicate(k) PROVE OffsetInv'
  BY <1>3, OffsetsUndisturbed, PrefixUndisturbed DEF Replicate, OffsetInv, WipedBy
<1>4. ASSUME NEW n \in Nodes, RegisterBrokerEventHandler(n) \/ Stop(n) PROVE OffsetInv'
  BY <1>4, NodeOffsets
<1>5. ASSUME NEW n \in Nodes, NEW w \in Shards, WorkerNext(n, w) PROVE OffsetInv'
  BY <1>5, NodeOffsets, DispatchOffsets DEF WorkerNext, FetchEmpty, FetchError
<1>6. CASE UNCHANGED streamOutbox
  BY <1>6, OffsetsUndisturbed, PrefixUndisturbed DEF streamOutbox, nodeVars, OffsetInv, WipedBy
<1> QED
  BY <1>1, <1>2, <1>3, <1>4, <1>5, <1>6 DEF StreamOutboxNext

\* Between two offsets a node has seen, there is a committed publication for
\* each offset, and it was dispatched before the later one or wiped.
LEMMA OffsetsImplyNoGap == Inv /\ OffsetInv => NoOffsetGap
<1> SUFFICES ASSUME Inv, OffsetInv,
                    NEW n \in up, NEW r \in delivered[n], NEW q \in delivered[n],
                    r.ch = q.ch, r.kind = "pub", q.kind = "pub", NEW o \in r.off .. q.off
             PROVE  \E m \in log : /\ m.ch = r.ch /\ m.kind = "pub" /\ m.off = o
                                   /\ m \in delivered[n] \/ WipedBy(m, lsn)
    BY DEF NoOffsetGap
<1>1. /\ r \in log /\ q \in log /\ start[n] < r.id
      /\ r \in Row /\ q \in Row /\ start[n] \in Nat
  BY DEF Inv, DeliveredInv, OutboxTypeOK
<1>2. /\ r.ch \in Channels /\ top[r.ch] \in Nat /\ r.off \in Nat /\ q.off \in Nat
      /\ r.id \in Nat /\ q.id \in Nat
  BY <1>1 DEF Inv, OutboxTypeOK, Row
<1>3. 1 <= r.off /\ q.off <= top[r.ch]
  BY <1>1, <1>2 DEF OffsetInv, CommittedOffsets, PublicationOf
<1>4. PICK m \in log : PublicationOf(m, r.ch) /\ m.off = o
  BY <1>2, <1>3 DEF OffsetInv, CommittedOffsets
<1>5. m.id \in Nat
  BY DEF Inv, OutboxTypeOK, Row
<1>6. ~(m.id < r.id) /\ ~(q.id < m.id)
  BY <1>1, <1>2, <1>4 DEF OffsetInv, CommittedOffsets, PublicationOf
<1>7. m.shard = q.shard
  BY <1>1, <1>4 DEF OffsetInv, ShardInv, PublicationOf
<1>8. m \in delivered[n] \/ WipedBy(m, lsn)
  BY <1>1, <1>2, <1>5, <1>6, <1>7 DEF OffsetInv, DeliveredPrefix
<1> QED
  BY <1>4, <1>8 DEF PublicationOf

\* What a node dispatches is in order: rows are typed, become visible in id
\* order, and leave no hole in the offsets of a channel, for any number of
\* shards, sessions, rows per transaction, replicas and nodes.
THEOREM OutboxSafety == StreamOutboxSpec => []OutboxSafe
<1>1. Inv /\ OffsetInv => OutboxSafe
  BY OffsetsImplyNoGap DEF Inv, LogInv, OutboxSafe
<1>2. StreamOutboxSpec => []OffsetInv
  BY InvAlways, OffsetInit, NextOffsets, PTL DEF StreamOutboxSpec
<1> QED
  BY InvAlways, <1>1, <1>2, PTL

-----------------------------------------------------------------------------
(* StreamOutbox implements OutboxFeed.                                     *)

LEMMA FeedStutter ==
  ASSUME UNCHANGED <<lsn, log, wipes, up, start, delivered>>
  PROVE  UNCHANGED Feed!feedVars
BY DEF Feed!feedVars, WipedBy

\* A commit appends rows behind the rows of their shards.
LEMMA CommitIsAppend ==
  ASSUME Inv, NEW p \in Sessions, Commit(p)
  PROVE  Feed!Append
<1> DEFINE new == {[id |-> d.id, shard |-> d.shard, ch |-> d.ch, kind |-> d.kind,
                    off |-> d.off, lsn |-> lsn + 1] : d \in tx[p].rows}
<1>0. OutboxTypeOK /\ lsn \in Nat /\ log \subseteq Row /\ wipes \subseteq [ch: Channels, lsn: Nat]
  BY DEF Inv, OutboxTypeOK
<1>1. /\ lsn' = lsn + 1
      /\ log' = log \cup new
      /\ UNCHANGED <<wipes, up, start, delivered>>
  BY DEF Commit, nodeVars
<1>2. \A r \in new : r.lsn = lsn + 1 /\ \E d \in tx[p].rows : r.id = d.id /\ r.shard = d.shard
  OBVIOUS
<1> HIDE DEF new
<1>3. \A r \in new : \A q \in log : q.shard = r.shard => q.id < r.id
  BY <1>2 DEF Inv, DraftInv
<1>4. \A w \in wipes : w.lsn \in Nat /\ w.lsn <= lsn
  BY <1>0 DEF Inv, LogInv
<1>5. \A r \in log : WipedBy(r, lsn)' <=> WipedBy(r, lsn)
  BY <1>0, <1>1, <1>4 DEF WipedBy
<1>6. \A r \in new : ~WipedBy(r, lsn)'
  BY <1>0, <1>1, <1>2, <1>4 DEF WipedBy
<1>7. {r \in log : WipedBy(r, lsn)}' = {r \in log : WipedBy(r, lsn)}
  BY <1>1, <1>5, <1>6
<1> QED
  BY <1>1, <1>3, <1>7 DEF Feed!Append

LEMMA RemoveHistoryIsDelete ==
  ASSUME Inv, NEW ch \in Channels, RemoveHistory(ch)
  PROVE  Feed!Delete
<1>0. lsn \in Nat /\ wipes \subseteq [ch: Channels, lsn: Nat]
  BY DEF Inv, OutboxTypeOK
<1>1. /\ lsn' = lsn + 1
      /\ wipes \subseteq wipes'
      /\ UNCHANGED <<log, up, start, delivered>>
  BY DEF RemoveHistory, nodeVars
<1>2. \A r \in log : WipedBy(r, lsn) => WipedBy(r, lsn)'
  BY <1>0, <1>1 DEF WipedBy
<1> QED
  BY <1>1, <1>2 DEF Feed!Delete

\* A dispatched row is the next one of its shard.
LEMMA DispatchIsReceive ==
  ASSUME Inv, NEW n \in Nodes, NEW w \in Shards, Dispatch(n, w)
  PROVE  Feed!Receive(n)
<1>0. log \subseteq Row /\ start \in [Nodes -> Nat] /\ cursor \in [Nodes -> [Shards -> Nat]]
  BY DEF Inv, OutboxTypeOK
<1>1. PICK r \in batch[n][w] :
         /\ \A q \in batch[n][w] : r.id <= q.id
         /\ delivered' = [delivered EXCEPT ![n] = @ \cup {r}]
  BY DEF Dispatch
<1>2. /\ n \in up /\ pc[n][w] = "dispatch"
      /\ UNCHANGED <<up, start, lsn, log, wipes>>
  BY DEF Dispatch, dbVars
<1>3. r \in log /\ r.shard = w /\ cursor[n][w] < r.id /\ start[n] <= cursor[n][w] /\ r.id \in Nat
  BY <1>0, <1>2 DEF Inv, BatchInv, Row
<1>4. start[n] < r.id
  BY <1>0, <1>3
<1>5. \A q \in delivered[n] : q.shard = w => q.id < r.id
  <2> SUFFICES ASSUME NEW q \in delivered[n], q.shard = w PROVE q.id < r.id
    OBVIOUS
  <2>1. q \in log /\ (q.id <= cursor[n][w] \/ \A b \in batch[n][w] : q.id < b.id)
    BY <1>2 DEF Inv, DeliveredInv
  <2> QED
    BY <1>0, <1>3, <2>1 DEF Row
<1>6. \A q \in log : q.shard = w /\ start[n] < q.id /\ q.id < r.id =>
                       q \in delivered[n] \/ WipedBy(q, lsn)
  <2> SUFFICES ASSUME NEW q \in log, q.shard = w, start[n] < q.id, q.id < r.id
               PROVE  q \in delivered[n] \/ WipedBy(q, lsn)
    OBVIOUS
  <2>1. q.id \in Nat
    BY <1>0 DEF Row
  <2>2. CASE q.id <= cursor[n][w]
    BY <1>2, <2>2 DEF Inv, NoSkippedRow
  <2>3. CASE cursor[n][w] < q.id
    <3>1. q \in delivered[n] \/ q \in batch[n][w] \/ WipedBy(q, lsn)
      BY <1>2, <1>3, <2>1, <2>3 DEF Inv, BatchComplete
    <3>2. q \notin batch[n][w]
      BY <1>1, <1>3, <2>1
    <3> QED
      BY <3>1, <3>2
  <2> QED
    BY <1>0, <2>1, <2>2, <2>3
<1>7. r \in log \ delivered[n]
  BY <1>3, <1>5
<1>8. UNCHANGED {q \in log : WipedBy(q, lsn)}
  BY <1>2 DEF WipedBy
<1> QED
  BY <1>1, <1>2, <1>3, <1>4, <1>5, <1>6, <1>7, <1>8 DEF Feed!Receive

\* A running outbox gives every node the abstract feed: the rows of each
\* shard from the registration cursor on, in order, none left out.
THEOREM OutboxImplementsFeed == StreamOutboxSpec => ImplementsFeed
<1>1. StreamOutboxInit => Feed!Init
  BY DEF StreamOutboxInit, Feed!Init
<1>2. Inv /\ [StreamOutboxNext]_streamOutbox => [Feed!Next]_(Feed!feedVars)
  <2> SUFFICES ASSUME Inv, [StreamOutboxNext]_streamOutbox PROVE Feed!Next \/ UNCHANGED Feed!feedVars
    OBVIOUS
  <2>1. ASSUME NEW p \in Sessions, SessionNext(p) PROVE Feed!Next \/ UNCHANGED Feed!feedVars
    <3>1. CASE Commit(p)
      BY <3>1, CommitIsAppend DEF Feed!Next
    <3>2. CASE ~Commit(p)
      BY <2>1, <3>2, FeedStutter
         DEF SessionNext, CallPublish, Insert, Suppress, Rollback, nodeVars
    <3> QED
      BY <3>1, <3>2
  <2>2. ASSUME NEW ch \in Channels, RemoveHistory(ch) PROVE Feed!Next
    BY <2>2, RemoveHistoryIsDelete DEF Feed!Next
  <2>3. ASSUME NEW k \in 0 .. NumReplicas - 1, Replicate(k) PROVE UNCHANGED Feed!feedVars
    BY <2>3, FeedStutter DEF Replicate, nodeVars
  <2>4. ASSUME NEW n \in Nodes, RegisterBrokerEventHandler(n) PROVE Feed!Next
    <3>1. UNCHANGED {q \in log : WipedBy(q, lsn)} /\ UNCHANGED log
      BY <2>4 DEF RegisterBrokerEventHandler, WipedBy, dbVars
    <3>2. start \in [Nodes -> Nat]
      BY DEF Inv, OutboxTypeOK
    <3>3. start' = [start EXCEPT ![n] = start'[n]]
      BY <2>4, <3>2 DEF RegisterBrokerEventHandler
    <3>4. Feed!Join(n)
      BY <2>4, <3>1, <3>3 DEF RegisterBrokerEventHandler, Feed!Join
    <3> QED
      BY <3>4 DEF Feed!Next
  <2>5. ASSUME NEW n \in Nodes, Stop(n) PROVE Feed!Next
    <3>1. UNCHANGED {q \in log : WipedBy(q, lsn)} /\ UNCHANGED log
      BY <2>5 DEF Stop, WipedBy, dbVars
    <3>2. Feed!Leave(n)
      BY <2>5, <3>1 DEF Stop, Feed!Leave
    <3> QED
      BY <3>2 DEF Feed!Next
  <2>6. ASSUME NEW n \in Nodes, NEW w \in Shards, WorkerNext(n, w)
        PROVE  Feed!Next \/ UNCHANGED Feed!feedVars
    <3>1. CASE Dispatch(n, w)
      BY <3>1, DispatchIsReceive DEF Feed!Next
    <3>2. CASE ~Dispatch(n, w)
      BY <2>6, <3>2, FeedStutter
         DEF WorkerNext, Fetch, FetchEmpty, FetchError, EndDrain, Wake, dbVars
    <3> QED
      BY <3>1, <3>2
  <2>7. CASE UNCHANGED streamOutbox
    BY <2>7, FeedStutter DEF streamOutbox
  <2> QED
    BY <2>1, <2>2, <2>3, <2>4, <2>5, <2>6, <2>7 DEF StreamOutboxNext
<1> QED
  BY <1>1, <1>2, InvAlways, PTL DEF StreamOutboxSpec, ImplementsFeed, Feed!Spec
=============================================================================
