----------------------------- MODULE NodeOutbox -----------------------------
(***************************************************************************)
(* What nodes make of the outbox tables of the PostgreSQL controller       *)
(* (control messages) and of the PostgreSQL map broker (publications): a   *)
(* node registers its handler, starts one worker per shard at a cursor read*)
(* before, and each worker hands over the rows behind its cursor.  With an *)
(* inner broker (fan-out) only the holder of a shard's advisory lock polls,*)
(* and what it forwards may get lost: the broker is not "reliable" and     *)
(* subscribers check their position now and then.                          *)
(*                                                                         *)
(* External: the publish functions of the schema (row lock of the shard,   *)
(* id, commit), the PUB/SUB of the inner broker and the subscribers.       *)
(***************************************************************************)
EXTENDS Naturals, Sequences, FiniteSets, FiniteSetsExt

CONSTANTS
    ONodes,      \* nodes
    OShards,     \* shards
    OBatch,      \* BatchSize
    OKinds,      \* "controller", "map", "fanout" or some of them
    MaxMsgs,     \* bound: rows
    MaxOFaults   \* bound: failed queries and transactions, lost locks, lost fan-out, nodes closed

ASSUME OutboxAssumption == OBatch \in Nat \ {0} /\ OShards # {} /\ MaxMsgs \in Nat

VARIABLES
    okind,
    msgs,      \* rows in id order: [to, shard, st, off, at]
    onode,     \* per node: [pc, base, cur]: cur[s] the cursor of worker s
    oleader,   \* per shard: holder of the advisory lock, as a set
    handled,   \* ghost: handled[n][i]: times the node handed row i over
    pos,       \* pos[n][s]: the position of a subscriber on the node
    ofaults,
    retried    \* ghost: nodes that met an error which repeats rows

outboxNodes == <<okind, msgs, onode, oleader, handled, pos, ofaults, retried>>

Ids == 1..Len(msgs)
CommittedIds(s) == {i \in Ids : msgs[i].st = "committed" /\ msgs[i].shard = s}
MaxCommitted == Max({0} \cup UNION {CommittedIds(s) : s \in OShards})
Top(s) == Cardinality(CommittedIds(s))
OFault == ofaults < MaxOFaults /\ ofaults' = ofaults + 1

OutboxInit ==
    /\ okind \in OKinds /\ msgs = <<>>
    /\ onode = [n \in ONodes |-> [pc |-> "off", base |-> 0, cur |-> [s \in OShards |-> 0]]]
    /\ oleader = [s \in OShards |-> {}]
    /\ handled = [n \in ONodes |-> [i \in 1..MaxMsgs |-> 0]]
    /\ pos = [n \in ONodes |-> [s \in OShards |-> 0]]
    /\ ofaults = 0 /\ retried = {}

-----------------------------------------------------------------------------
(* Publishing: the SQL functions                                           *)

\* Under the row lock of the shard the row gets its id.  Control messages
\* go to all nodes or to one.
ShardFree(s) == \A i \in Ids : msgs[i].shard = s => msgs[i].st # "open"
BeginPublish ==
    /\ Len(msgs) < MaxMsgs /\ \E n \in ONodes : onode[n].pc # "off"
    /\ \E s \in OShards : \E to \in IF okind = "controller" THEN {"all"} \cup ONodes ELSE {"all"} :
        /\ ShardFree(s)
        /\ msgs' = Append(msgs, [to |-> to, shard |-> s, st |-> "open", off |-> 0,
                                 at |-> {n \in ONodes : okind # "fanout" /\ onode[n].pc = "up"}])
    /\ UNCHANGED <<okind, onode, oleader, handled, pos, ofaults, retried>>

\* The transaction commits with the next offset of its channel, or fails.
EndPublish(i) ==
    /\ msgs[i].st = "open"
    /\ \/ msgs' = [msgs EXCEPT ![i].st = "committed", ![i].off = Top(msgs[i].shard) + 1] /\ UNCHANGED ofaults
       \/ msgs' = [msgs EXCEPT ![i].st = "aborted"] /\ OFault
    /\ UNCHANGED <<okind, onode, oleader, handled, pos, retried>>

-----------------------------------------------------------------------------
(* The node                                                                *)

\* Where the workers start: at the newest row, read before they are started;
\* when that fails at the beginning.  With fan-out each reads it again.
StartCursors == IF okind = "fanout" THEN {0} ELSE {MaxCommitted, 0}

\* RegisterControlEventHandler, RegisterEventHandler.
Register(n) ==
    /\ onode[n].pc = "off"
    /\ \E base \in StartCursors :
        /\ IF base = MaxCommitted \/ okind = "fanout" THEN UNCHANGED <<ofaults, retried>>
           ELSE OFault /\ retried' = retried \cup {n}
        /\ onode' = [onode EXCEPT ![n] = [pc |-> "up", base |-> base, cur |-> [s \in OShards |-> base]]]
    /\ pos' = [pos EXCEPT ![n] = [s \in OShards |-> Top(s)]]
    /\ UNCHANGED <<okind, msgs, oleader, handled>>

\* Run's context ends, Close.
CloseNode(n) ==
    /\ onode[n].pc = "up" /\ onode' = [onode EXCEPT ![n].pc = "closed"] /\ OFault
    /\ oleader' = [s \in OShards |-> oleader[s] \ {n}]
    /\ UNCHANGED <<okind, msgs, handled, pos, retried>>

\* runOutboxWorkerWithLock: whoever gets the shard's lock starts behind the
\* newest row; rows its predecessor had not forwarded are skipped.
AcquireShard(n, s) ==
    /\ okind = "fanout" /\ onode[n].pc = "up" /\ oleader[s] = {}
    /\ oleader' = [oleader EXCEPT ![s] = {n}] /\ onode' = [onode EXCEPT ![n].cur[s] = MaxCommitted]
    /\ UNCHANGED <<okind, msgs, handled, pos, ofaults, retried>>
LoseShard(n, s) ==
    /\ n \in oleader[s] /\ OFault /\ oleader' = [oleader EXCEPT ![s] = {}]
    /\ onode' = [onode EXCEPT ![n].cur[s] = 0]
    /\ UNCHANGED <<okind, msgs, handled, pos, retried>>

Polls(n, s) == onode[n].pc = "up" /\ (okind = "fanout" => n \in oleader[s])

\* The rows of a batch: of the shard, behind the cursor, the first by id.
BatchOf(n, s) ==
    LET behind == {i \in CommittedIds(s) : i > onode[n].cur[s]}
    IN  {i \in behind : Cardinality({j \in behind : j < i}) < OBatch}

\* What a handler is given: control messages for the node or for all.
For(n, rows) == {i \in rows : okind # "fanout" /\ msgs[i].to \in {"all", n}}
HandOver(n, rows) == [handled EXCEPT ![n] = [i \in 1..MaxMsgs |-> IF i \in For(n, rows) THEN @[i] + 1 ELSE @[i]]]

\* A subscriber takes the next offset, ignores an old one, and reads the
\* history from the database when it sees a gap.
Taken(p, s, rows) ==
    IF msgs[Min(rows)].off > p + 1 THEN Top(s)
    ELSE IF msgs[Max(rows)].off > p THEN msgs[Max(rows)].off ELSE p

\* processControlBatch, processOutboxBatch: all rows handed over, the cursor
\* moves.  With fan-out the inner broker takes them to every node.
FannedTo(n) == IF okind = "fanout" THEN {m \in ONodes : onode[m].pc = "up"} ELSE {n}
DeliverBatch(n, s) ==
    /\ Polls(n, s) /\ BatchOf(n, s) # {}
    /\ LET rows == BatchOf(n, s)
       IN  /\ handled' = HandOver(n, rows)
           /\ pos' = [m \in ONodes |-> IF m \in FannedTo(n) THEN [pos[m] EXCEPT ![s] = Taken(@, s, rows)] ELSE pos[m]]
           /\ onode' = [onode EXCEPT ![n].cur[s] = Max(rows)]
    /\ UNCHANGED <<okind, msgs, oleader, ofaults, retried>>

\* The inner broker's Publish fails: logged, the cursor moves all the same.
FanoutLost(n, s) ==
    /\ okind = "fanout" /\ Polls(n, s) /\ BatchOf(n, s) # {} /\ OFault
    /\ onode' = [onode EXCEPT ![n].cur[s] = Max(BatchOf(n, s))]
    /\ UNCHANGED <<okind, msgs, oleader, handled, pos, retried>>

BatchErrorMutant(n, s) ==
    /\ Polls(n, s) /\ BatchOf(n, s) # {} /\ OFault
    /\ onode' = [onode EXCEPT ![n].cur[s] = Max(BatchOf(n, s))] /\ retried' = retried \cup {n}
    /\ UNCHANGED <<okind, msgs, oleader, handled, pos>>

\* An error while reading: the cursor stays.  The controller has already
\* handled the rows before it, the map broker reads all before it delivers.
BatchError(n, s) ==
    /\ Polls(n, s) /\ BatchOf(n, s) # {} /\ OFault
    /\ \E k \in {0} \cup (IF okind = "controller" THEN BatchOf(n, s) ELSE {}) :
        handled' = HandOver(n, {i \in BatchOf(n, s) : i <= k})
    /\ retried' = IF okind = "controller" THEN retried \cup {n} ELSE retried
    /\ UNCHANGED <<okind, msgs, onode, oleader, pos>>

\* ReliableDelivery: without fan-out subscribers are spared the periodic
\* position check.
ReliableDelivery == okind # "fanout"
PositionSync(n, s) ==
    /\ ~ReliableDelivery /\ onode[n].pc = "up" /\ pos[n][s] < Top(s)
    /\ pos' = [pos EXCEPT ![n][s] = Top(s)]
    /\ UNCHANGED <<okind, msgs, onode, oleader, handled, ofaults, retried>>

OutboxNext ==
    \/ BeginPublish \/ \E i \in Ids : EndPublish(i)
    \/ \E n \in ONodes : \/ Register(n) \/ CloseNode(n)
                         \/ \E s \in OShards :
                              \/ AcquireShard(n, s) \/ LoseShard(n, s) \/ DeliverBatch(n, s)
                              \/ FanoutLost(n, s) \/ BatchError(n, s) \/ PositionSync(n, s)

OutboxSpec == OutboxInit /\ [][OutboxNext]_outboxNodes

\* Transactions end; the workers of a node poll and its position check comes
\* round: each is a goroutine or timer of its own, so this is less than they get.
OutboxFairness ==
    /\ WF_outboxNodes(\E i \in Ids : EndPublish(i))
    /\ \A n \in ONodes : WF_outboxNodes(\E s \in OShards : DeliverBatch(n, s) \/ PositionSync(n, s))

-----------------------------------------------------------------------------
(* Properties                                                              *)

\* What a node that is up still owes: rows for it published after it had
\* registered or, with fan-out, offsets its subscribers have not seen.
Owes(n) ==
    /\ onode[n].pc = "up"
    /\ IF ReliableDelivery
       THEN \E i \in Ids : /\ msgs[i].st = "committed" /\ n \in msgs[i].at /\ msgs[i].to \in {"all", n}
                           /\ handled[n][i] = 0
       ELSE \E s \in OShards : pos[n][s] < Top(s)

\* A message whose publish begins after the node has registered is handed
\* over in the end, in whatever order the transactions of several shards
\* commit and whatever reads fail; with fan-out subscribers see everything
\* although leaders change (each starting behind the newest row) and the
\* inner broker loses messages.
NodeCatchesUp == \A n \in ONodes : []<>~Owes(n)

\* A node hands a message over twice, or one older than its registration,
\* only after an error that makes it read rows again.
NoReplay ==
    \A n \in ONodes \ retried : \A i \in Ids : handled[n][i] > 0 =>
        i > onode[n].base /\ handled[n][i] = 1

\* Without fan-out a subscriber is never behind what its node has handed
\* over: no gap is left to the position check that is skipped.
PositionFollowsCursor ==
    ReliableDelivery => \A n \in ONodes \ retried : onode[n].pc = "up" => \A s \in OShards :
        \A i \in CommittedIds(s) : (i <= onode[n].cur[s] /\ n \in msgs[i].at) => msgs[i].off <= pos[n][s]

\* Delivery to the nodes: nothing twice, nothing skipped, everything in the end.
NodeOutboxWorks == []NoReplay /\ []PositionFollowsCursor /\ NodeCatchesUp
=============================================================================
