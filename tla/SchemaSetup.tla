---------------------------- MODULE SchemaSetup ----------------------------
(***************************************************************************)
(* EnsureSchema: how nodes create and upgrade the tables of the PostgreSQL *)
(* map broker, stream broker and controller when they start                *)
(* (internal/pgschema and the EnsureSchema methods).  Nodes of different   *)
(* binaries start concurrently during a rolling deploy, each step is a     *)
(* statement of its own, and a statement that fails ends the process.      *)
(*                                                                         *)
(* The database is external: a statement batch without parameters is one   *)
(* transaction, an advisory lock ends with its session.  A migration is    *)
(* idempotent, as the source asks of it.                                   *)
(***************************************************************************)
EXTENDS Naturals, Sequences, FiniteSets

CONSTANTS
    SNodes,        \* nodes
    MaxVersion,    \* schemaVersion of the newest binary
    ShardsOf,      \* ShardsOf[n]: NumShards of the node
    SchemaKinds,   \* "map", "stream", "controller" or some of them
    Databases,     \* "empty", "installed" or both: what the nodes start with
    MaxSchemaFaults \* failed statements, crashes, dropped tables

ASSUME SchemaAssumption ==
    /\ SNodes # {} /\ MaxVersion \in Nat \ {0} /\ \A n \in SNodes : ShardsOf[n] \in Nat \ {0}
    /\ Databases \subseteq {"empty", "installed"}

VARIABLES
    skind,    \* whose schema
    legacy,   \* the stream table is from a build that did not partition it
    sdb,      \* per variant: [shape, row, funcs, shards]
    migLock,  \* holder of the migration lock
    snode,    \* per node: [pc, bin, at]
    fresh,    \* isFresh: nodes whose EnsureSchema found no version row
    sfaults,
    torn,     \* ghost: an installation was interrupted between its transactions
    dropped,  \* ghost: an operator dropped a stream table
    mixed     \* ghost: a fresh installer met the tables of an older binary

schema == <<skind, legacy, sdb, migLock, snode, fresh, sfaults, torn, dropped, mixed>>

\* newPgNames: both table sets are kept whichever is active; the controller
\* has one.
Variants == IF skind = "controller" THEN <<"jsonb">> ELSE <<"jsonb", "binary">>
Active == "jsonb"
VariantSet == {Variants[i] : i \in DOMAIN Variants}

\* shape: columns of the tables (0: no table); row: schema_version (0: no
\* table or row); funcs: the SQL functions (0: none); shards: shard_lock.
NoSchema == [shape |-> 0, row |-> 0, funcs |-> 0, shards |-> {}]
Installed(v) == [shape |-> v, row |-> v, funcs |-> v, shards |-> 0..(ShardsOf[CHOOSE n \in SNodes : TRUE] - 1)]

\* An empty database meets nodes of any binaries, an installed one those that
\* installed it (the rolling deploy is Upgrade).  The controller has one
\* binary: it has no migrations, a second version would need them.
Binaries(d) ==
    IF skind = "controller" THEN {MaxVersion} ELSE IF d = "empty" THEN 1..MaxVersion ELSE {1}
SchemaInit ==
    /\ skind \in SchemaKinds
    /\ \E d \in Databases :
        /\ sdb = [x \in VariantSet |-> IF d = "empty" THEN NoSchema ELSE Installed(1)]
        /\ \E bins \in [SNodes -> Binaries(d)] :
              snode = [n \in SNodes |-> [pc |-> "off", bin |-> bins[n], at |-> 1]]
        /\ (skind = "controller" /\ d = "installed") => MaxVersion = 1
        /\ legacy \in {FALSE, d = "installed"}
    /\ migLock = {} /\ fresh = {} /\ sfaults = 0 /\ torn = FALSE /\ dropped = FALSE /\ mixed = FALSE

Goto(n, pc) == snode' = [snode EXCEPT ![n].pc = pc, ![n].at = 1]
SFault == sfaults < MaxSchemaFaults /\ sfaults' = sfaults + 1

-----------------------------------------------------------------------------
(* Starting and failing                                                    *)

StartNode(n) ==
    /\ snode[n].pc \in {"off", "down"} /\ Goto(n, "read")
    /\ UNCHANGED <<skind, legacy, sdb, migLock, sfaults, torn, dropped, fresh, mixed>>

\* Rolling deploy: the node comes back with the next binary.
Upgrade(n) ==
    /\ snode[n].pc = "serving" /\ snode[n].bin < MaxVersion
    /\ snode' = [snode EXCEPT ![n] = [pc |-> "down", bin |-> @.bin + 1, at |-> 1]]
    /\ UNCHANGED <<skind, legacy, sdb, migLock, sfaults, torn, dropped, fresh, mixed>>

\* A statement returns an error that is not, or not any more, retried, or
\* the process dies: the migration lock goes with the session, the node
\* starts again.
Installing(n) == snode[n].pc = "ddl" /\ snode[n].at > 1
FailNode(n) ==
    /\ snode[n].pc \notin {"off", "down", "serving", "refused"} /\ SFault
    /\ Goto(n, "down") /\ migLock' = migLock \ {n} /\ fresh' = fresh \ {n}
    /\ torn' = (torn \/ Installing(n))
    /\ UNCHANGED <<skind, legacy, sdb, dropped, mixed>>

\* A partial restore or an operator's DROP: schema_version survives.
DropTable ==
    /\ SFault /\ \E n \in SNodes : snode[n].pc # "off"
    /\ sdb[Active].shape # 0 /\ sdb' = [sdb EXCEPT ![Active].shape = 0] /\ dropped' = TRUE
    /\ UNCHANGED <<skind, legacy, migLock, snode, torn, fresh, mixed>>

-----------------------------------------------------------------------------
(* EnsureSchema                                                            *)

\* ReadSchemaVersion: a missing table or row is a fresh install, any other
\* error is one (FailNode).  The fast path needs the version of the binary;
\* CheckDowngrade refuses a newer database; only the brokers migrate.
ReadVersion(n) ==
    /\ snode[n].pc = "read"
    /\ Goto(n, LET v == sdb[Active].row
               IN  IF v = 0 THEN "ddl" ELSE IF v = snode[n].bin THEN "probe"
                   ELSE IF v > snode[n].bin THEN "refused"
                   ELSE IF skind = "controller" THEN "ddl" ELSE "lock")
    /\ fresh' = IF sdb[Active].row = 0 THEN fresh \cup {n} ELSE fresh \ {n}
    /\ UNCHANGED <<skind, legacy, sdb, migLock, sfaults, torn, dropped, mixed>>

\* The probe of the stream table: when it is missing the slow path runs.
Probe(n) ==
    /\ snode[n].pc = "probe"
    /\ Goto(n, IF sdb[Active].shape # 0 THEN IF skind = "map" THEN "fast" ELSE "verify"
               ELSE IF skind = "controller" THEN "ddl" ELSE "lock")
    /\ UNCHANGED <<skind, legacy, sdb, migLock, sfaults, torn, dropped, fresh, mixed>>

\* AcquireMigrationLock, then the version is read again: a fresh database
\* or a newer one by now.
LockMigrations(n) ==
    /\ snode[n].pc = "lock" /\ migLock = {} /\ migLock' = {n} /\ Goto(n, "migrate")
    /\ UNCHANGED <<skind, legacy, sdb, sfaults, torn, dropped, fresh, mixed>>

\* ApplyMigrationInTx: the tables and the version row of both variants in
\* one transaction; it fails when a variant has none.
Migrated(v) ==
    [x \in VariantSet |-> [sdb[x] EXCEPT !.shape = IF @ < v THEN v ELSE @, !.row = v]]
MigrateMutant(n) ==
    LET row == sdb[Active].row
        v == row + 1
    IN  /\ snode[n].pc = "migrate"
        /\ IF row = 0 \/ row >= snode[n].bin
           THEN Goto(n, IF row > snode[n].bin THEN "refused" ELSE "ddl") /\ migLock' = migLock \ {n} /\ UNCHANGED sdb
           ELSE sdb' = [x \in VariantSet |-> IF x = Active THEN Migrated(v)[x] ELSE [sdb[x] EXCEPT !.row = v]]
                /\ UNCHANGED <<snode, migLock>>
        /\ UNCHANGED <<skind, legacy, sfaults, torn, dropped, fresh, mixed>>
MigrateKeepsLock(n) ==
    LET row == sdb[Active].row
        v == row + 1
    IN  /\ snode[n].pc = "migrate"
        /\ IF row = 0 \/ row >= snode[n].bin
           THEN Goto(n, IF row > snode[n].bin THEN "refused" ELSE "ddl") /\ UNCHANGED <<sdb, migLock>>
           ELSE sdb' = Migrated(v) /\ UNCHANGED <<snode, migLock>>
        /\ UNCHANGED <<skind, legacy, sfaults, torn, dropped, fresh, mixed>>

Migrate(n) ==
    LET row == sdb[Active].row
        v == row + 1
    IN  /\ snode[n].pc = "migrate"
        /\ IF row = 0 \/ row >= snode[n].bin
           THEN Goto(n, IF row > snode[n].bin THEN "refused" ELSE "ddl") /\ migLock' = migLock \ {n} /\ UNCHANGED sdb
           ELSE IF \A x \in VariantSet : sdb[x].shape # 0 /\ sdb[x].row # 0
           THEN sdb' = Migrated(v) /\ UNCHANGED <<snode, migLock>>
           ELSE Goto(n, "down") /\ migLock' = migLock \ {n} /\ UNCHANGED sdb
        /\ UNCHANGED <<skind, legacy, sfaults, torn, dropped, fresh, mixed>>

\* The tables of each variant, then the functions of each, one transaction
\* each: IF NOT EXISTS keeps what is there, functions are replaced.
DDLStatements == [i \in 1..(2 * Len(Variants)) |->
    [what |-> IF i <= Len(Variants) THEN "tables" ELSE "functions",
     variant |-> Variants[((i - 1) % Len(Variants)) + 1]]]
ExecDDL(n) ==
    /\ snode[n].pc = "ddl"
    /\ LET s == DDLStatements[snode[n].at]
           t == sdb[s.variant]
           b == snode[n].bin
       IN  /\ sdb' = [sdb EXCEPT ![s.variant] =
                  IF s.what = "functions" THEN [t EXCEPT !.funcs = b]
                  ELSE [t EXCEPT !.shape = IF @ = 0 THEN b ELSE @, !.row = IF @ = 0 THEN 1 ELSE @]]
           /\ mixed' = (mixed \/ (n \in fresh /\ s.what = "tables" /\ t.shape # 0 /\ t.shape < b))
    /\ IF snode[n].at < Len(DDLStatements) THEN snode' = [snode EXCEPT ![n].at = @ + 1] ELSE Goto(n, "shards")
    /\ UNCHANGED <<skind, legacy, migLock, sfaults, torn, dropped, fresh>>

\* reconcileShardLock: for each variant missing shards are inserted, then
\* the ones from NumShards on deleted; a missing table is an error.
ShardStatements == [i \in 1..(2 * Len(Variants)) |->
    [what |-> IF i % 2 = 1 THEN "insert" ELSE "trim", variant |-> Variants[(i + 1) \div 2]]]
Reconciled(what, shards, num) == IF what = "insert" THEN shards \cup 0..(num - 1) ELSE shards \cap 0..(num - 1)
ReconcileShardLock(n) ==
    LET s == ShardStatements[snode[n].at]
    IN  /\ snode[n].pc \in {"fast", "shards"}
        /\ IF sdb[s.variant].row = 0 THEN Goto(n, "down") /\ UNCHANGED sdb
           ELSE /\ sdb' = [sdb EXCEPT ![s.variant].shards = Reconciled(s.what, @, ShardsOf[n])]
                /\ IF snode[n].at < Len(ShardStatements) THEN snode' = [snode EXCEPT ![n].at = @ + 1]
                   ELSE Goto(n, IF snode[n].pc = "shards" THEN "parts" ELSE IF skind = "map" THEN "serving" ELSE "fastParts")
        /\ UNCHANGED <<skind, legacy, migLock, sfaults, torn, dropped, fresh, mixed>>

\* verifyPartitionedShape: a stream table that is not partitioned needs an
\* operator.  The map broker does not look on its fast path.
VerifyShape(n) ==
    /\ snode[n].pc = "verify" /\ Goto(n, IF legacy THEN "refused" ELSE "fast")
    /\ UNCHANGED <<skind, legacy, sdb, migLock, sfaults, torn, dropped, fresh, mixed>>

\* ensurePartitionedStream, ensureInitialPartitions (the partitions are those
\* of Partitioner); after a fast path this is the end.
InitialPartitions(n) ==
    /\ snode[n].pc \in {"parts", "fastParts"}
    /\ Goto(n, IF snode[n].pc = "fastParts" THEN "serving" ELSE IF legacy /\ ~dropped THEN "refused" ELSE "version")
    /\ UNCHANGED <<skind, legacy, sdb, migLock, sfaults, torn, dropped, fresh, mixed>>

\* SetSchemaVersion: one UPDATE per variant.
SetVersion(n) ==
    /\ snode[n].pc = "version"
    /\ sdb' = [sdb EXCEPT ![Variants[snode[n].at]].row = IF @ = 0 THEN 0 ELSE snode[n].bin]
    /\ IF snode[n].at < Len(Variants) THEN snode' = [snode EXCEPT ![n].at = @ + 1] /\ UNCHANGED fresh
       ELSE Goto(n, "serving") /\ fresh' = fresh \ {n}
    /\ UNCHANGED <<skind, legacy, migLock, sfaults, torn, dropped, mixed>>

SchemaStep(n) ==
    \/ ReadVersion(n) \/ Probe(n) \/ LockMigrations(n) \/ Migrate(n)
    \/ ExecDDL(n) \/ ReconcileShardLock(n) \/ VerifyShape(n) \/ InitialPartitions(n) \/ SetVersion(n)

SchemaNext ==
    \/ DropTable
    \/ \E n \in SNodes : \/ StartNode(n) \/ Upgrade(n) \/ FailNode(n)
                         \/ ReadVersion(n) \/ Probe(n) \/ LockMigrations(n) \/ Migrate(n)
                         \/ ExecDDL(n) \/ ReconcileShardLock(n) \/ VerifyShape(n) \/ InitialPartitions(n) \/ SetVersion(n)

SchemaSpec == SchemaInit /\ [][SchemaNext]_schema

\* A started node executes its statements, a failed one is started again;
\* the lock is granted in turn.
SchemaFairness ==
    \A n \in SNodes : /\ SF_schema(LockMigrations(n))
                      /\ WF_schema((SchemaStep(n) \/ (snode[n].pc = "down" /\ StartNode(n))))

-----------------------------------------------------------------------------
(* Properties                                                              *)

\* The version row never claims columns the tables do not have, in neither
\* variant, whatever fails and whoever upgrades at the same time: else the
\* next start would skip the migrations that are missing.  One case is outside:
\* a node that found no version row, and so skips the migrations, but meets the
\* tables of an older binary that installs at the same time - CREATE IF NOT
\* EXISTS keeps them and SetVersion writes the newer version over them.
VersionHonest == ~dropped /\ ~mixed => \A x \in VariantSet : sdb[x].row <= sdb[x].shape

\* Between two binaries a version row goes back in one way only: SetVersion is
\* unconditional, and that of an older binary that installed the schema can
\* come after the migrations, or the SetVersion, of the newer one.  Else a node
\* of the old binary does not undo what the new one wrote.
VersionNeverBack ==
    [][~dropped' /\ MaxVersion <= 2 =>
          \/ \A x \in VariantSet : sdb'[x].row >= sdb[x].row
          \/ \E n \in fresh : snode[n].pc = "version" /\ snode[n].bin < MaxVersion]_schema

\* In a cluster with one number of shards a serving node finds a row of
\* shard_lock for each of them: without one the publish functions would lock
\* nothing.
ShardsLocked ==
    (\A n, m \in SNodes : ShardsOf[n] = ShardsOf[m]) =>
        \A n \in SNodes : snode[n].pc = "serving" => 0..(ShardsOf[n] - 1) \subseteq sdb[Active].shards

\* No node stays in its start for ever: it gets to serve or is refused as too
\* old, through concurrent installations and upgrades, if no installation was
\* torn.
StartsOrRefused ==
    \A n \in SNodes : []<>(snode[n].pc \in {"off", "serving", "refused"} \/ torn \/ dropped)

\* What the next start relies on: an honest version and the rows of its shards.
SchemaSafe == VersionHonest /\ ShardsLocked

\* A cluster comes through an upgrade, and goes back only by the SetVersion of
\* an older binary that was installing.
SchemaProgress == StartsOrRefused /\ VersionNeverBack

\* EnsureSchema "creates all required database objects idempotently": a node
\* whose EnsureSchema returned without an error has its SQL functions.
ServingIsComplete == \A n \in SNodes : snode[n].pc = "serving" => sdb[Active].funcs # 0
=============================================================================
