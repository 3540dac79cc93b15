----------------------------- MODULE SchemaState -----------------------------
(***************************************************************************)
(* What the schema of a PostgreSQL registry consists of: the migrations    *)
(* that the releases of ModelGuard ship (registry/migrations.py), what is  *)
(* in the database, where the processes that run these releases stand, and *)
(* what must be true of it all.  The steps are those of SchemaMigrations.  *)
(* The SQL of a migration is modelled by its checksum: equal exactly when  *)
(* the SQL is equal.                                                       *)
(***************************************************************************)
EXTENDS Naturals, Sequences, FiniteSets

CONSTANTS
    Processes,      \* processes with a PostgresRegistry
    Releases,       \* releases of ModelGuard
    MIGRATIONS,     \* what a release ships: the SQL of versions 1, 2, ...
    NoProcess,      \* "nobody holds _MIGRATION_LOCK"
    None,           \* no row for a version
    MaxMigrates,    \* bound: migrate() calls per behaviour
    MaxRestarts     \* bound: processes restarted with another release

Sql == UNION {{MIGRATIONS[r][v] : v \in DOMAIN MIGRATIONS[r]} : r \in Releases}
Versions == UNION {DOMAIN MIGRATIONS[r] : r \in Releases}
RowSets == [Versions -> Sql \cup {None}]

ASSUME ShippedAssumption ==
    \A r \in Releases : MIGRATIONS[r] \in Seq(Sql) /\ MIGRATIONS[r] # << >>
ASSUME NamesAssumption == NoProcess \notin Processes /\ None \notin Sql \cup RowSets
ASSUME MigrationBoundsAssumption == MaxMigrates \in Nat /\ MaxRestarts \in Nat

LATEST_VERSION(r) == Len(MIGRATIONS[r])

VARIABLES
    schema,             \* the SQL executed and committed, in order
    migrationTable,     \* modelguard_schema_migrations: None, or its rows by version
    migrationLock,      \* the process holding _MIGRATION_LOCK
    release,            \* the release each process runs
    verified,           \* _schema_verified of its registry object
    migrationPc,        \* the next statement of each process
    tx,                 \* what the open transaction of a process has read and done
    outcome,            \* how the latest call of a process ended
    migrates, restarts      \* counters for the bounds

NoRows == [v \in Versions |-> None]
Recorded(rows) == {v \in Versions : rows[v] # None}

\* SELECT version, checksum: the committed rows, in a snapshot of its own.
CommittedRows == IF migrationTable = None THEN NoRows ELSE migrationTable

-----------------------------------------------------------------------------
(* Properties.                                                             *)

\* The first n migrations of a release.
Prefix(r, n) == SubSeq(MIGRATIONS[r], 1, n)

\* The committed schema changes only from a prefix of what one release ships
\* to all of it: whoever migrates at the same time, and wherever migrate()
\* dies, no database is left half migrated, and none mixes the SQL of two
\* releases that disagree.
UpgradesAreWhole ==
    [][\E r \in Releases :
          /\ Len(schema) < LATEST_VERSION(r)
          /\ schema = Prefix(r, Len(schema))
          /\ schema' = MIGRATIONS[r]]_schema

\* The migrations table tells what was executed: version v is recorded with
\* the v-th SQL that ran, and nothing ran that is not recorded.
RecordIsTrue ==
    /\ Recorded(CommittedRows) = DOMAIN schema
    /\ \A v \in DOMAIN schema : CommittedRows[v] = schema[v]

\* "If a shipped migration's SQL ever differs from what was applied, the
\* registry refuses to run": whenever an operation runs, also one of an
\* object that verified the schema long ago, and whenever migrate() has
\* returned, the schema starts with exactly the migrations the release of
\* that process ships, whatever was migrated since.
OperatesOnShippedSchema ==
    \A p \in Processes : migrationPc[p] = "operate" \/ outcome[p] = "migrated" =>
        /\ Len(schema) >= LATEST_VERSION(release[p])
        /\ Prefix(release[p], LATEST_VERSION(release[p])) = SubSeq(schema, 1, LATEST_VERSION(release[p]))
=============================================================================
