------------------------------ MODULE Partitioner ------------------------------
(***************************************************************************)
(* Daily partitions of a stream table (pgoutbox.Partitioner): every node   *)
(* creates partitions ahead of time and drops old ones, each with its own  *)
(* clock, while publications are inserted with the database's clock.       *)
(*                                                                         *)
(* A day has DayLength ticks.  A partition is known by its name, and a     *)
(* name by what parsePartitionDate makes of it: "own" names follow         *)
(* {ParentTable}_{YYYY}_{MM}_{DD}, "dated" ones only end in a date, and    *)
(* "other" ones do not parse.                                              *)
(***************************************************************************)
EXTENDS Integers

CONSTANTS
    PassNodes,
    DayLength,      \* ticks per day
    LookaheadDays,
    RetentionDays,  \* zero or negative: never drop
    Skew,           \* a node's clock is at most this far from the database's
    StartTime,      \* when the cluster starts
    UserPartitions, \* partitions attached by hand
    MaxTime,        \* bound: database clock
    MaxErrors       \* bound: failing statements

VARIABLES
    now,     \* database clock
    parts,   \* child partitions of the parent table
    storedRows,    \* insertion times of the rows in the table
    passPc,      \* per node: "tick" (waiting for the ticker), "list" or "drop"
    todo,    \* per node: partitions the pass has still to drop
    created, \* history variable: days whose partition a pass has created
    lost,    \* history variable: rows dropped with a partition, and when
    errors

partVars == <<now, parts, storedRows, passPc, todo, created, lost, errors>>

Names == {"own", "dated", "other"}
Partition == [day: Nat, name: Names]

ASSUME ClockAssumption ==
    /\ DayLength \in Nat \ {0} /\ LookaheadDays \in Nat /\ RetentionDays \in Int
    /\ Skew \in Nat /\ StartTime \in Nat /\ Skew <= StartTime
    /\ MaxTime \in Nat /\ MaxErrors \in Nat
ASSUME UserAssumption ==
    UserPartitions \subseteq Partition /\ \A p \in UserPartitions : p.name # "own"

Day(t) == t \div DayLength
Own(d) == [day |-> d, name |-> "own"]

\* time.Now() on some node.
Clocks == (now - Skew) .. (now + Skew)

Error == errors < MaxErrors /\ errors' = errors + 1

-----------------------------------------------------------------------------
\* Today and LookaheadDays more.
EnsuredDays(t) == Day(t) .. (Day(t) + LookaheadDays)

\* CREATE TABLE IF NOT EXISTS, day by day; an error ends the loop and the pass
\* goes on to DropOldPartitions.
EnsureLookaheadPartitions(n) ==
    /\ passPc[n] = "tick"
    /\ \E t \in Clocks : \E days \in SUBSET EnsuredDays(t) :
         /\ \/ days = EnsuredDays(t) /\ UNCHANGED errors
            \/ \E failed \in EnsuredDays(t) :
                 days = {d \in EnsuredDays(t) : d < failed} /\ Error
         /\ parts' = parts \cup {Own(d) : d \in days}
         /\ created' = created \cup days
    /\ passPc' = [passPc EXCEPT ![n] = "list"]
    /\ UNCHANGED <<now, storedRows, todo, lost>>

CutoffMutant(t) == t - (RetentionDays - 1) * DayLength

Cutoff(t) == t - RetentionDays * DayLength

ParsesMutant(p) == p.name = "dated"

\* parsePartitionDate looks at the last three parts of the name only.
Parses(p) == p.name \in {"own", "dated"}

\* The partition's date, at midnight, is before the cutoff.
Old(p, t) == Parses(p) /\ p.day * DayLength < Cutoff(t)

\* DropOldPartitions up to its loop: the early return without a retention,
\* which leaves nothing to drop, the cutoff, and the pg_inherits query.
ListPartitions(n) ==
    /\ passPc[n] = "list"
    /\ \/ /\ \E t \in Clocks :
               todo' = [todo EXCEPT ![n] = {p \in parts : RetentionDays > 0 /\ Old(p, t)}]
          /\ passPc' = [passPc EXCEPT ![n] = "drop"]
          /\ UNCHANGED errors
       \/ /\ RetentionDays > 0 /\ Error
          /\ passPc' = [passPc EXCEPT ![n] = "tick"]
          /\ UNCHANGED todo
    /\ UNCHANGED <<now, parts, storedRows, created, lost>>

\* DROP TABLE IF EXISTS of one partition; an error is logged and the loop
\* goes on with the next one.
DropPartition(n, p) ==
    /\ passPc[n] = "drop" /\ p \in todo[n]
    /\ todo' = [todo EXCEPT ![n] = @ \ {p}]
    /\ \/ /\ parts' = parts \ {p}
          /\ storedRows' = {r \in storedRows : Day(r) # p.day \/ p \notin parts}
          /\ lost' = lost \cup {[at |-> r, when |-> now] : r \in storedRows \ storedRows'}
          /\ UNCHANGED errors
       \/ Error /\ UNCHANGED <<parts, storedRows, lost>>
    /\ UNCHANGED <<now, passPc, created>>

EndPass(n) ==
    /\ passPc[n] = "drop" /\ todo[n] = {}
    /\ passPc' = [passPc EXCEPT ![n] = "tick"]
    /\ UNCHANGED <<now, parts, storedRows, todo, created, lost, errors>>

-----------------------------------------------------------------------------
\* A publication is inserted, into the partition of the database's day.
InsertRow ==
    /\ \E p \in parts : p.day = Day(now)
    /\ storedRows' = storedRows \cup {now}
    /\ UNCHANGED <<now, parts, passPc, todo, created, lost, errors>>

Tick ==
    /\ now < MaxTime
    /\ now' = now + 1
    /\ UNCHANGED <<parts, storedRows, passPc, todo, created, lost, errors>>

\* EnsureSchema has run the lookahead once.
PartInit ==
    /\ now = StartTime
    /\ parts = UserPartitions \cup {Own(d) : d \in EnsuredDays(StartTime)}
    /\ storedRows = {}
    /\ passPc = [n \in PassNodes |-> "tick"]
    /\ todo = [n \in PassNodes |-> {}]
    /\ created = EnsuredDays(StartTime)
    /\ lost = {}
    /\ errors = 0

Pass(n) ==
    \/ EnsureLookaheadPartitions(n) \/ ListPartitions(n) \/ EndPass(n)
    \/ \E p \in todo[n] : DropPartition(n, p)

PartNext == (\E n \in PassNodes : Pass(n)) \/ InsertRow \/ Tick

PartSpec == PartInit /\ [][PartNext]_partVars

-----------------------------------------------------------------------------
(* Properties.                                                             *)

\* Every variable keeps its type, and only a pass that has listed has
\* something left to drop.
PartTypeOK ==
    /\ now \in Nat /\ created \subseteq Nat /\ errors \in 0 .. MaxErrors
    /\ parts \subseteq Partition
    /\ storedRows \subseteq Nat
    /\ passPc \in [PassNodes -> {"tick", "list", "drop"}]
    /\ \A n \in PassNodes : todo[n] \subseteq Partition /\ (todo[n] # {} => passPc[n] = "drop")
    /\ lost \subseteq [at: Nat, when: Nat]

\* No pass of any node drops what another has created ahead: a day that is
\* not over keeps its partition, so that inserts find it.
LookaheadKept ==
    \A d \in created : d >= Day(now) => Own(d) \in parts

\* A row survives one day less than RetentionDays, however the node clocks and
\* passes interleave with the inserts.
KeptAlmostRetention ==
    \A x \in lost : x.when - x.at > (RetentionDays - 1) * DayLength - Skew

\* No pass takes away what inserts or readers still need.
PartitionsKept == PartTypeOK /\ LookaheadKept /\ KeptAlmostRetention

\* "lookahead only, never drop": without a retention no partition is dropped.
ZeroRetentionKeepsAll ==
    RetentionDays <= 0 => \A d \in created : Own(d) \in parts

\* Disk space is given back: no partition stays for ever past its retention.
OldPartitionsGo ==
    \A d \in 0 .. Day(Cutoff(MaxTime) - Skew) :
        []<>(RetentionDays > 0 /\ d * DayLength < Cutoff(now) - Skew => Own(d) \notin parts)
=============================================================================
