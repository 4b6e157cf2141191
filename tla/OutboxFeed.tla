----------------------------- MODULE OutboxFeed -----------------------------
(***************************************************************************)
(* What an outbox promises the nodes that read it, whatever the mechanism: *)
(* rows are only ever appended behind the rows of their shard, a node that *)
(* joins gets a starting point, and from there on it receives the rows of  *)
(* each shard one by one, in id order, none left out except rows that were *)
(* deleted.                                                                *)
(***************************************************************************)
EXTENDS Integers

CONSTANT Nodes

VARIABLES
    log,   \* rows published; records with at least id and shard
    gone,  \* rows deleted since
    up,    \* nodes that are reading
    from,  \* starting point of each node
    got    \* rows each node received since it joined

feedVars == <<log, gone, up, from, got>>

Init ==
    /\ log = {} /\ gone = {} /\ up = {}
    /\ from = [n \in Nodes |-> 0]
    /\ got = [n \in Nodes |-> {}]

\* New rows of a shard come after every published row of that shard.
Append ==
    /\ log \subseteq log'
    /\ \A r \in log' \ log : \A q \in log : q.shard = r.shard => q.id < r.id
    /\ UNCHANGED <<gone, up, from, got>>

Delete ==
    /\ gone \subseteq gone' /\ gone' \subseteq log
    /\ UNCHANGED <<log, up, from, got>>

Join(n) ==
    /\ n \notin up
    /\ up' = up \cup {n}
    /\ from' = [from EXCEPT ![n] = from'[n]]
    /\ got' = [got EXCEPT ![n] = {}]
    /\ UNCHANGED <<log, gone>>

Leave(n) ==
    /\ n \in up
    /\ up' = up \ {n}
    /\ from' = [from EXCEPT ![n] = 0]
    /\ got' = [got EXCEPT ![n] = {}]
    /\ UNCHANGED <<log, gone>>

\* The next row of a shard: everything before it was received or deleted,
\* nothing after it was received.
Receive(n) ==
    /\ n \in up
    /\ \E r \in log \ got[n] :
         /\ from[n] < r.id
         /\ \A q \in log : q.shard = r.shard =>
              /\ from[n] < q.id /\ q.id < r.id => q \in got[n] \cup gone
              /\ q \in got[n] => q.id < r.id
         /\ got' = [got EXCEPT ![n] = @ \cup {r}]
    /\ UNCHANGED <<log, gone, up, from>>

Next == Append \/ Delete \/ \E n \in Nodes : Join(n) \/ Leave(n) \/ Receive(n)

Spec == Init /\ [][Next]_feedVars
=============================================================================
