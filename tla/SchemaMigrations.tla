-------------------------- MODULE SchemaMigrations --------------------------
(***************************************************************************)
(* Schema migrations of the PostgreSQL registry (registry/migrations.py,   *)
(* migrate() and the schema check of registry/postgres.py).  Processes of  *)
(* different ModelGuard releases share one database: some call migrate(),  *)
(* possibly at the same time, others use the registry through objects      *)
(* that check the schema on their first connection only.                   *)
(*                                                                         *)
(* migrate() is one READ COMMITTED transaction: every statement sees what  *)
(* was committed when it started, DDL is rolled back with the rest, and    *)
(* an advisory transaction lock is held until commit or rollback.  The     *)
(* connection may break at any moment, also between the server's commit    *)
(* and the client hearing of it.                                           *)
(***************************************************************************)
EXTENDS SchemaState

database == <<schema, migrationTable>>
counters == <<migrates, restarts>>
vars == <<schema, migrationTable, migrationLock, release, verified, migrationPc, tx, outcome,
          migrates, restarts>>

NoTx == [rows |-> NoRows, sql |-> << >>, now |-> {}]
Tx == [rows : RowSets, sql : Seq(Sql), now : SUBSET Versions]

PcMigrate == {"lock", "bootstrap", "read", "execute", "record", "commit"}
PcOwner == PcMigrate \ {"lock"}
PcUse == {"verify", "operate"}
Results == {"none", "migrated", "used", "refused", "error"}

TypeOK ==
    /\ schema \in Seq(Sql)
    /\ migrationTable \in RowSets \cup {None}
    /\ migrationLock \in Processes \cup {NoProcess}
    /\ release \in [Processes -> Releases]
    /\ verified \in [Processes -> BOOLEAN]
    /\ migrationPc \in [Processes -> {"idle"} \cup PcMigrate \cup PcUse]
    /\ tx \in [Processes -> Tx]
    /\ outcome \in [Processes -> Results]
    /\ migrates \in 0..MaxMigrates
    /\ restarts \in 0..MaxRestarts

-----------------------------------------------------------------------------
(* The checks, on rows that were read.                                     *)

Newer(r, rows) == \E v \in Recorded(rows) : v > LATEST_VERSION(r)
Missing(r, rows) == \E v \in DOMAIN MIGRATIONS[r] : rows[v] = None
Older(r, rows) == \A v \in Recorded(rows) : v < LATEST_VERSION(r)

\* _check_checksums(): every applied version that is shipped has the shipped SQL.
_check_checksums_NewestOnly(r, rows) ==
    LET v == LATEST_VERSION(r) IN v \in Recorded(rows) => rows[v] = MIGRATIONS[r][v]
_check_checksums(r, rows) ==
    \A v \in Recorded(rows) \cap DOMAIN MIGRATIONS[r] : rows[v] = MIGRATIONS[r][v]

-----------------------------------------------------------------------------
(* Statements.                                                             *)

Step(p, from, to) ==
    /\ migrationPc[p] = from
    /\ migrationPc' = [migrationPc EXCEPT ![p] = to]

\* The connection closes: its transaction is over and its lock released.
Return(p, r) ==
    /\ migrationPc' = [migrationPc EXCEPT ![p] = "idle"]
    /\ tx' = [tx EXCEPT ![p] = NoTx]
    /\ outcome' = [outcome EXCEPT ![p] = r]
    /\ migrationLock' = IF migrationLock = p THEN NoProcess ELSE migrationLock

(* migrate().                                                              *)

MigrateBegin(p) ==
    /\ Step(p, "idle", "lock")
    /\ migrates < MaxMigrates
    /\ migrates' = migrates + 1
    /\ outcome' = [outcome EXCEPT ![p] = "none"]
    /\ UNCHANGED <<database, migrationLock, release, verified, tx, restarts>>

\* SELECT pg_advisory_xact_lock(_MIGRATION_LOCK)
AcquireLock_Missing(p) ==
    /\ Step(p, "lock", "bootstrap")
    /\ UNCHANGED <<database, migrationLock, release, verified, tx, outcome, counters>>
AcquireLock(p) ==
    /\ Step(p, "lock", "bootstrap")
    /\ migrationLock = NoProcess
    /\ migrationLock' = p
    /\ UNCHANGED <<database, release, verified, tx, outcome, counters>>

\* BOOTSTRAP_SQL: CREATE TABLE IF NOT EXISTS; published by the commit.
Bootstrap(p) ==
    /\ Step(p, "bootstrap", "read")
    /\ UNCHANGED <<database, migrationLock, release, verified, tx, outcome, counters>>

\* The versions of the loop that are not in what was read.
Pending(p) == {v \in DOMAIN MIGRATIONS[release[p]] : tx[p].rows[v] = None}

ReadApplied(p) ==
    /\ migrationPc[p] = "read"
    /\ ~Newer(release[p], CommittedRows)
    /\ _check_checksums(release[p], CommittedRows)
    /\ migrationPc' = [migrationPc EXCEPT ![p] = IF Missing(release[p], CommittedRows) THEN "execute" ELSE "commit"]
    /\ tx' = [tx EXCEPT ![p].rows = CommittedRows]
    /\ UNCHANGED <<database, migrationLock, release, verified, outcome, counters>>

RefuseMigrate(p) ==
    /\ migrationPc[p] = "read"
    /\ Newer(release[p], CommittedRows) \/ ~_check_checksums(release[p], CommittedRows)
    /\ Return(p, "refused")
    /\ UNCHANGED <<database, release, verified, counters>>

\* MIGRATIONS is in version order.
NextVersion(p) == CHOOSE v \in Pending(p) : \A w \in Pending(p) : v <= w

\* conn.execute(migration.sql)
ExecuteMigration(p) ==
    /\ Step(p, "execute", "record")
    /\ tx' = [tx EXCEPT ![p].sql = Append(@, MIGRATIONS[release[p]][NextVersion(p)])]
    /\ UNCHANGED <<database, migrationLock, release, verified, outcome, counters>>

\* INSERT INTO modelguard_schema_migrations; applied_now.append(version)
RecordMigration(p) ==
    /\ migrationPc[p] = "record"
    /\ LET v == NextVersion(p) IN
        /\ tx' = [tx EXCEPT ![p].rows = [@ EXCEPT ![v] = MIGRATIONS[release[p]][v]],
                            ![p].now = @ \cup {v}]
        /\ migrationPc' = [migrationPc EXCEPT ![p] = IF Pending(p) = {v} THEN "commit" ELSE "execute"]
    /\ UNCHANGED <<database, migrationLock, release, verified, outcome, counters>>

\* The commit publishes the table, its rows and the DDL together; the answer
\* may be lost.
CommitMigrate(p) ==
    /\ migrationPc[p] = "commit"
    /\ schema' = schema \o tx[p].sql
    /\ migrationTable' = [v \in Versions |-> IF v \in tx[p].now THEN tx[p].rows[v] ELSE CommittedRows[v]]
    /\ Return(p, "migrated") \/ Return(p, "error")
    /\ UNCHANGED <<release, verified, counters>>

(* Any other operation: _connect() with check_schema.                      *)

UseBegin(p) ==
    /\ migrationPc[p] = "idle"
    /\ migrationPc' = [migrationPc EXCEPT ![p] = IF verified[p] THEN "operate" ELSE "verify"]
    /\ outcome' = [outcome EXCEPT ![p] = "none"]
    /\ UNCHANGED <<database, migrationLock, release, verified, tx, counters>>

_verify_schema(r) ==
    /\ migrationTable # None
    /\ ~Older(r, migrationTable) /\ ~Newer(r, migrationTable)
    /\ _check_checksums(r, migrationTable)

VerifyPasses(p) ==
    /\ Step(p, "verify", "operate")
    /\ _verify_schema(release[p])
    /\ verified' = [verified EXCEPT ![p] = TRUE]
    /\ UNCHANGED <<database, migrationLock, release, tx, outcome, counters>>

VerifyRefuses(p) ==
    /\ migrationPc[p] = "verify"
    /\ ~_verify_schema(release[p])
    /\ Return(p, "refused")
    /\ UNCHANGED <<database, release, verified, counters>>

\* The statements of the operation itself.
Operate(p) ==
    /\ migrationPc[p] = "operate"
    /\ Return(p, "used")
    /\ UNCHANGED <<database, release, verified, counters>>

\* Rollback: lost connection, statement timeout (also while waiting for the
\* lock), missing privilege, or a process that died.
Abort_Autocommit(p) ==
    /\ migrationPc[p] # "idle"
    /\ Return(p, "error")
    /\ schema' = schema \o tx[p].sql
    /\ UNCHANGED <<migrationTable, release, verified, counters>>
Abort(p) ==
    /\ migrationPc[p] # "idle"
    /\ Return(p, "error")
    /\ UNCHANGED <<database, release, verified, counters>>

\* A new process, with a new registry object, of any release.
Restart(p, r) ==
    /\ migrationPc[p] = "idle"
    /\ restarts < MaxRestarts
    /\ restarts' = restarts + 1
    /\ release' = [release EXCEPT ![p] = r]
    /\ verified' = [verified EXCEPT ![p] = FALSE]
    /\ outcome' = [outcome EXCEPT ![p] = "none"]
    /\ UNCHANGED <<database, migrationLock, migrationPc, tx, migrates>>

-----------------------------------------------------------------------------
Init ==
    /\ schema = << >> /\ migrationTable = None
    /\ migrationLock = NoProcess
    /\ release \in [Processes -> Releases]
    /\ verified = [p \in Processes |-> FALSE]
    /\ migrationPc = [p \in Processes |-> "idle"]
    /\ tx = [p \in Processes |-> NoTx]
    /\ outcome = [p \in Processes |-> "none"]
    /\ migrates = 0 /\ restarts = 0

\* The steps a started call takes by itself.
Progress(p) ==
    \/ AcquireLock(p) \/ Bootstrap(p) \/ ReadApplied(p) \/ RefuseMigrate(p)
    \/ ExecuteMigration(p) \/ RecordMigration(p) \/ CommitMigrate(p)
    \/ VerifyPasses(p) \/ VerifyRefuses(p) \/ Operate(p)

Next ==
    \E p \in Processes :
        \/ MigrateBegin(p) \/ UseBegin(p) \/ Progress(p) \/ Abort(p)
        \/ \E r \in Releases : Restart(p, r)

Spec == Init /\ [][Next]_vars

\* The server runs every statement that is not waiting, and serves those
\* who wait for a lock in order.
Fairness == \A p \in Processes : SF_vars(Progress(p))
=============================================================================
