----------------------- MODULE SchemaMigrationsProofs -----------------------
(***************************************************************************)
(* TLAPS proofs about SchemaMigrations, for any processes, releases and    *)
(* shipped migrations: the migrations table tells what was executed, the   *)
(* schema changes only from a prefix of a release to all of it, and an     *)
(* operation runs only on the schema of its release.                       *)
(***************************************************************************)
EXTENDS SchemaMigrations, SequenceTheorems, TLAPS

-----------------------------------------------------------------------------
(* The inductive invariant.                                                *)

\* The statements of migrate() that work from what was read.
PcTx == {"execute", "record", "commit"}

\* _MIGRATION_LOCK belongs to the process past pg_advisory_xact_lock.
OwnsLock(p) == migrationPc[p] \in PcOwner <=> migrationLock = p

\* How many migrations are executed, committed ones included, and how many
\* of them the transaction of p sees recorded.
Executed(p) == Len(schema) + Len(tx[p].sql)
Noted(p) == IF migrationPc[p] = "record" THEN Executed(p) - 1 ELSE Executed(p)

\* The open transaction continues the committed schema with the migrations
\* of its release, in order, and records each right after it.
InOrder(p) ==
    /\ migrationPc[p] \notin PcTx => tx[p] = NoTx
    /\ migrationPc[p] \in PcTx =>
        /\ Executed(p) <= LATEST_VERSION(release[p])
        /\ \A v \in 1..Len(schema) : schema[v] = MIGRATIONS[release[p]][v]
        /\ \A i \in 1..Len(tx[p].sql) : tx[p].sql[i] = MIGRATIONS[release[p]][Len(schema) + i]
        /\ \A v \in Versions : tx[p].rows[v] # None <=> v <= Noted(p)
        /\ \A v \in Versions : v <= Noted(p) => tx[p].rows[v] = MIGRATIONS[release[p]][v]
        /\ \A v \in Versions : v \in tx[p].now <=> Len(schema) < v /\ v <= Noted(p)
        /\ migrationPc[p] = "execute" => Executed(p) < LATEST_VERSION(release[p])
        /\ migrationPc[p] = "record" => 0 < Len(tx[p].sql)
        /\ migrationPc[p] = "commit" => Executed(p) = LATEST_VERSION(release[p])

\* The schema starts with everything a release ships.
Ships(r) ==
    /\ LATEST_VERSION(r) <= Len(schema)
    /\ \A v \in 1..LATEST_VERSION(r) : schema[v] = MIGRATIONS[r][v]

\* A remembered verification stays true.
Trusts(p) == verified[p] \/ migrationPc[p] = "operate" \/ outcome[p] = "migrated" => Ships(release[p])

\* RecordIsTrue, one version at a time.
TableTells ==
    /\ Len(schema) = 0 \/ Len(schema) \in Versions
    /\ \A v \in Versions : CommittedRows[v] # None <=> v <= Len(schema)
    /\ \A v \in Versions : v <= Len(schema) => CommittedRows[v] = schema[v]

Inv ==
    /\ TypeOK
    /\ TableTells
    /\ \A p \in Processes : OwnsLock(p) /\ InOrder(p) /\ Trusts(p)

-----------------------------------------------------------------------------
(* Versions and shipped migrations.                                        *)

\* What a release ships are the versions 1, 2, ... up to its latest.
LEMMA Shipped ==
    ASSUME NEW r \in Releases
    PROVE  /\ MIGRATIONS[r] \in Seq(Sql)
           /\ LATEST_VERSION(r) \in Nat \ {0}
           /\ DOMAIN MIGRATIONS[r] = 1..LATEST_VERSION(r)
           /\ 1..LATEST_VERSION(r) \subseteq Versions
           /\ \A v \in 1..LATEST_VERSION(r) : MIGRATIONS[r][v] \in Sql /\ MIGRATIONS[r][v] # None
<1>1. MIGRATIONS[r] \in Seq(Sql) /\ MIGRATIONS[r] # << >>
  BY ShippedAssumption
<1>2. LATEST_VERSION(r) \in Nat \ {0} /\ DOMAIN MIGRATIONS[r] = 1..LATEST_VERSION(r)
  BY <1>1, EmptySeq, LenProperties DEF LATEST_VERSION
<1>3. 1..LATEST_VERSION(r) \subseteq Versions
  BY <1>2 DEF Versions
<1>4. \A v \in 1..LATEST_VERSION(r) : MIGRATIONS[r][v] \in Sql
  BY <1>1, <1>2, ElementOfSeq DEF LATEST_VERSION
<1> QED
  BY <1>1, <1>2, <1>3, <1>4, NamesAssumption

\* A version is positive, and every earlier number is a version.
LEMMA VersionOrder ==
    ASSUME NEW v \in Versions
    PROVE  v \in Nat \ {0} /\ 1..v \subseteq Versions
<1>1. PICK r \in Releases : v \in 1..LATEST_VERSION(r)
  BY Shipped DEF Versions
<1> QED
  BY <1>1, Shipped

\* The committed rows are rows, whether or not the table exists.
LEMMA CommittedType ==
    ASSUME TypeOK
    PROVE  CommittedRows \in RowSets
BY DEF TypeOK, CommittedRows, NoRows, RowSets

\* RecordIsTrue follows from its pointwise form.
LEMMA TableIsRecord ==
    ASSUME TypeOK, TableTells
    PROVE  RecordIsTrue
<1>1. DOMAIN schema = 1..Len(schema) /\ Len(schema) \in Nat
  BY LenProperties DEF TypeOK
<1>2. \A v \in Versions : v \in DOMAIN schema <=> v <= Len(schema)
  BY <1>1, VersionOrder
<1>3. DOMAIN schema \subseteq Versions
  BY <1>1, VersionOrder DEF TableTells
<1> QED
  BY <1>1, <1>2, <1>3 DEF TableTells, RecordIsTrue, Recorded

\* Of what is pending, the next version is the one after those noted.
LEMMA NextIsFollowing ==
    ASSUME Inv, NEW p \in Processes, migrationPc[p] \in {"execute", "record"}
    PROVE  /\ Noted(p) \in Nat
           /\ NextVersion(p) = Noted(p) + 1
           /\ NextVersion(p) \in 1..LATEST_VERSION(release[p])
           /\ Pending(p) = (Noted(p) + 1)..LATEST_VERSION(release[p])
<1> DEFINE r == release[p]
<1>1. r \in Releases /\ Len(schema) \in Nat /\ Len(tx[p].sql) \in Nat
  BY LenProperties DEF Inv, TypeOK, Tx
<1>2. InOrder(p)
  BY DEF Inv
<1>3. Noted(p) \in Nat /\ Noted(p) + 1 <= LATEST_VERSION(r)
  BY <1>1, <1>2, Shipped DEF InOrder, Noted, Executed, PcTx
<1>4. Pending(p) = (Noted(p) + 1)..LATEST_VERSION(r)
  <2>1. \A v \in 1..LATEST_VERSION(r) : tx[p].rows[v] = None <=> ~(v <= Noted(p))
    BY <1>1, <1>2, Shipped DEF InOrder, PcTx
  <2> QED
    BY <1>1, <1>3, <2>1, Shipped DEF Pending
<1>5. NextVersion(p) = Noted(p) + 1
  <2> DEFINE first(v) == \A w \in Pending(p) : v <= w
  <2>1. Noted(p) + 1 \in Pending(p) /\ first(Noted(p) + 1)
    BY <1>1, <1>3, <1>4, Shipped
  <2>2. NextVersion(p) \in Pending(p) /\ first(NextVersion(p))
    BY <2>1 DEF NextVersion
  <2> QED
    BY <1>1, <1>3, <1>4, <2>1, <2>2, Shipped
<1> QED
  BY <1>1, <1>3, <1>4, <1>5, Shipped

-----------------------------------------------------------------------------
(* Types.                                                                  *)

LEMMA TypeInit ==
    ASSUME Init
    PROVE  TypeOK
<1>1. NoTx \in Tx
  BY EmptySeq DEF NoTx, NoRows, Tx, RowSets
<1>2. schema \in Seq(Sql)
  BY EmptySeq DEF Init
<1> QED
  BY <1>1, <1>2, MigrationBoundsAssumption DEF Init, TypeOK, Results

\* Ending a call keeps the types of what it changes.
LEMMA ReturnType ==
    ASSUME TypeOK, NEW p \in Processes, NEW e \in Results, Return(p, e)
    PROVE  /\ migrationPc' \in [Processes -> {"idle"} \cup PcMigrate \cup PcUse]
           /\ tx' \in [Processes -> Tx]
           /\ outcome' \in [Processes -> Results]
           /\ migrationLock' \in Processes \cup {NoProcess}
<1>1. NoTx \in Tx
  BY EmptySeq DEF NoTx, NoRows, Tx, RowSets
<1> QED
  BY <1>1 DEF TypeOK, Return

\* A process that ended its call is idle and has no transaction and no lock.
LEMMA ReturnEnds ==
    ASSUME TypeOK, NEW p \in Processes, NEW e \in Results, Return(p, e)
    PROVE  migrationPc'[p] = "idle" /\ tx'[p] = NoTx /\ outcome'[p] = e /\ migrationLock' # p
BY NamesAssumption DEF TypeOK, Return

\* One transaction record changes and keeps its type.
LEMMA TxType ==
    ASSUME TypeOK, NEW p \in Processes, NEW t \in Tx, tx' = [tx EXCEPT ![p] = t]
    PROVE  tx' \in [Processes -> Tx] /\ tx'[p] = t
BY DEF TypeOK

\* A transaction record after one or two of its fields changed.
LEMMA TxFields ==
    ASSUME NEW t \in Tx, NEW x
    PROVE  /\ [t EXCEPT !.rows = x] = [rows |-> x, sql |-> t.sql, now |-> t.now]
           /\ [t EXCEPT !.sql = x] = [rows |-> t.rows, sql |-> x, now |-> t.now]
           /\ [t EXCEPT !.now = x] = [rows |-> t.rows, sql |-> t.sql, now |-> x]
<1>1. [t EXCEPT !.rows = x] = [rows |-> x, sql |-> t.sql, now |-> t.now]
  BY DEF Tx
<1>2. [t EXCEPT !.sql = x] = [rows |-> t.rows, sql |-> x, now |-> t.now]
  BY DEF Tx
<1>3. [t EXCEPT !.now = x] = [rows |-> t.rows, sql |-> t.sql, now |-> x]
  BY DEF Tx
<1> QED
  BY <1>1, <1>2, <1>3

\* What was read becomes the rows of the transaction.
LEMMA ReadTx ==
    ASSUME Inv, NEW p \in Processes, ReadApplied(p)
    PROVE  /\ tx' \in [Processes -> Tx]
           /\ tx'[p].rows = CommittedRows /\ tx'[p].sql = tx[p].sql /\ tx'[p].now = tx[p].now
<1> DEFINE t == [rows |-> CommittedRows, sql |-> tx[p].sql, now |-> tx[p].now]
<1>1. tx[p] \in Tx /\ tx \in [Processes -> Tx]
  BY DEF Inv, TypeOK
<1>2. t \in Tx
  BY <1>1, CommittedType DEF Inv, Tx
<1>3. [tx[p] EXCEPT !.rows = CommittedRows] = t
  BY <1>1, TxFields
<1>4. tx' = [tx EXCEPT ![p] = t]
  BY <1>1, <1>3 DEF ReadApplied
<1>5. tx' \in [Processes -> Tx] /\ tx'[p] = t
  BY <1>2, <1>4, TxType DEF Inv
<1> QED
  BY <1>5

\* Executing a migration appends its SQL.
LEMMA ExecuteTx ==
    ASSUME Inv, NEW p \in Processes, ExecuteMigration(p)
    PROVE  /\ tx' \in [Processes -> Tx]
           /\ tx'[p].rows = tx[p].rows /\ tx'[p].now = tx[p].now
           /\ tx'[p].sql = Append(tx[p].sql, MIGRATIONS[release[p]][NextVersion(p)])
<1> DEFINE m == MIGRATIONS[release[p]][NextVersion(p)]
           t == [rows |-> tx[p].rows, sql |-> Append(tx[p].sql, m), now |-> tx[p].now]
<1>1. tx[p] \in Tx /\ release[p] \in Releases /\ tx \in [Processes -> Tx]
  BY DEF Inv, TypeOK
<1>2. m \in Sql
  BY <1>1, NextIsFollowing, Shipped DEF ExecuteMigration, Step
<1>3. Append(tx[p].sql, m) \in Seq(Sql)
  BY <1>1, <1>2, AppendProperties DEF Tx
<1>4. t \in Tx
  BY <1>1, <1>3 DEF Tx
<1>5. [tx[p] EXCEPT !.sql = Append(@, m)] = t
  BY <1>1, TxFields
<1>6. tx' = [tx EXCEPT ![p] = t]
  BY <1>1, <1>5 DEF ExecuteMigration
<1>7. tx' \in [Processes -> Tx] /\ tx'[p] = t
  BY <1>4, <1>6, TxType DEF Inv
<1> QED
  BY <1>7

\* Recording it inserts one row.
LEMMA RecordTx ==
    ASSUME Inv, NEW p \in Processes, RecordMigration(p)
    PROVE  /\ tx' \in [Processes -> Tx]
           /\ tx'[p].rows = [tx[p].rows EXCEPT ![NextVersion(p)] = MIGRATIONS[release[p]][NextVersion(p)]]
           /\ tx'[p].sql = tx[p].sql /\ tx'[p].now = tx[p].now \cup {NextVersion(p)}
<1> DEFINE v == NextVersion(p)
           m == MIGRATIONS[release[p]][v]
           new == [tx[p].rows EXCEPT ![v] = m]
           t == [rows |-> new, sql |-> tx[p].sql, now |-> tx[p].now \cup {v}]
<1>1. tx[p] \in Tx /\ release[p] \in Releases /\ tx \in [Processes -> Tx]
  BY DEF Inv, TypeOK
<1>2. v \in Versions /\ m \in Sql
  BY <1>1, NextIsFollowing, Shipped DEF RecordMigration
<1>3. t \in Tx
  BY <1>1, <1>2 DEF Tx, RowSets
<1>4. [tx[p] EXCEPT !.rows = [@ EXCEPT ![v] = m], !.now = @ \cup {v}] = t
  <2> DEFINE u == [rows |-> new, sql |-> tx[p].sql, now |-> tx[p].now]
  <2>1. [tx[p] EXCEPT !.rows = new] = u
    BY <1>1, TxFields
  <2>2. u \in Tx /\ u.rows = new /\ u.sql = tx[p].sql /\ u.now = tx[p].now
    BY <1>1, <1>2 DEF Tx, RowSets
  <2>3. [u EXCEPT !.now = @ \cup {v}] = t
    <3> HIDE DEF u
    <3>1. [u EXCEPT !.now = @ \cup {v}] = [rows |-> u.rows, sql |-> u.sql, now |-> u.now \cup {v}]
      BY <2>2, TxFields
    <3> QED
      BY <2>2, <3>1
  <2> QED
    BY <2>1, <2>3
<1>5. tx' = [tx EXCEPT ![p] = t]
  BY <1>1, <1>4 DEF RecordMigration
<1>6. tx' \in [Processes -> Tx] /\ tx'[p] = t
  BY <1>3, <1>5, TxType DEF Inv
<1> QED
  BY <1>6

\* Every action keeps the types.
LEMMA TypeStep ==
    ASSUME Inv, [Next]_vars
    PROVE  TypeOK'
<1> USE DEF Inv, PcMigrate, PcUse, Results
<1>1. CASE UNCHANGED vars
  BY <1>1 DEF vars, TypeOK
<1>2. ASSUME NEW p \in Processes, MigrateBegin(p) \/ UseBegin(p) \/ AcquireLock(p) \/ Bootstrap(p)
      PROVE  TypeOK'
  BY <1>2, MigrationBoundsAssumption
  DEF TypeOK, MigrateBegin, UseBegin, AcquireLock, Bootstrap, Step, database, counters
<1>3. ASSUME NEW p \in Processes, ReadApplied(p) \/ ExecuteMigration(p) \/ RecordMigration(p)
      PROVE  TypeOK'
  <2>1. tx' \in [Processes -> Tx]
    BY <1>3, ReadTx, ExecuteTx, RecordTx
  <2> QED
    BY <1>3, <2>1
    DEF TypeOK, ReadApplied, ExecuteMigration, RecordMigration, Step, database, counters
<1>4. ASSUME NEW p \in Processes, RefuseMigrate(p) \/ VerifyRefuses(p) \/ Operate(p) \/ Abort(p)
      PROVE  TypeOK'
  <2>1. PICK e \in Results : Return(p, e)
    BY <1>4 DEF RefuseMigrate, VerifyRefuses, Operate, Abort
  <2>2. UNCHANGED <<database, release, verified, counters>>
    BY <1>4 DEF RefuseMigrate, VerifyRefuses, Operate, Abort
  <2> QED
    BY <2>1, <2>2, ReturnType DEF TypeOK, database, counters
<1>5. ASSUME NEW p \in Processes, CommitMigrate(p)
      PROVE  TypeOK'
  <2>1. PICK e \in Results : Return(p, e)
    BY <1>5 DEF CommitMigrate
  <2>2. schema' \in Seq(Sql)
    <3>1. tx[p].sql \in Seq(Sql)
      BY DEF TypeOK, Tx
    <3> QED
      BY <1>5, <3>1, ConcatProperties DEF TypeOK, CommitMigrate
  <2>3. migrationTable' \in RowSets
    <3>1. tx[p].rows \in RowSets
      BY DEF TypeOK, Tx
    <3> QED
      BY <1>5, <3>1, CommittedType DEF CommitMigrate, RowSets
  <2> QED
    BY <1>5, <2>1, <2>2, <2>3, ReturnType DEF TypeOK, CommitMigrate, counters
<1>6. ASSUME NEW p \in Processes, VerifyPasses(p)
      PROVE  TypeOK'
  BY <1>6 DEF TypeOK, VerifyPasses, Step, database, counters
<1>7. ASSUME NEW p \in Processes, NEW r \in Releases, Restart(p, r)
      PROVE  TypeOK'
  BY <1>7, MigrationBoundsAssumption DEF TypeOK, Restart, database
<1> QED
  BY <1>1, <1>2, <1>3, <1>4, <1>5, <1>6, <1>7 DEF Next, Progress

-----------------------------------------------------------------------------
(* Steps.                                                                  *)

Does(p) ==
    \/ MigrateBegin(p) \/ UseBegin(p) \/ Progress(p) \/ Abort(p)
    \/ \E r \in Releases : Restart(p, r)

\* A step of one process leaves the others, and whether they own the lock, alone.
LEMMA OthersWait ==
    ASSUME TypeOK, NEW p \in Processes, NEW o \in Processes \ {p}, Does(p)
    PROVE  /\ migrationPc'[o] = migrationPc[o] /\ tx'[o] = tx[o] /\ outcome'[o] = outcome[o]
           /\ release'[o] = release[o] /\ verified'[o] = verified[o]
           /\ migrationLock' = o <=> migrationLock = o
<1> USE NamesAssumption DEF TypeOK, Step, Return, counters
<1>1. CASE MigrateBegin(p) \/ UseBegin(p) \/ AcquireLock(p) \/ Bootstrap(p)
  BY <1>1 DEF MigrateBegin, UseBegin, AcquireLock, Bootstrap
<1>2. CASE ReadApplied(p) \/ ExecuteMigration(p) \/ RecordMigration(p)
  <2>1. tx'[o] = tx[o]
    BY <1>2 DEF ReadApplied, ExecuteMigration, RecordMigration
  <2> QED
    BY <1>2, <2>1 DEF ReadApplied, ExecuteMigration, RecordMigration
<1>3. CASE RefuseMigrate(p) \/ CommitMigrate(p) \/ VerifyRefuses(p) \/ Operate(p) \/ Abort(p)
  BY <1>3 DEF RefuseMigrate, CommitMigrate, VerifyRefuses, Operate, Abort
<1>4. CASE VerifyPasses(p) \/ \E r \in Releases : Restart(p, r)
  BY <1>4 DEF VerifyPasses, Restart
<1> QED
  BY <1>1, <1>2, <1>3, <1>4 DEF Does, Progress

\* Only the commit changes the database.
LEMMA DatabaseWaits ==
    ASSUME NEW p \in Processes, Does(p), ~CommitMigrate(p)
    PROVE  schema' = schema /\ migrationTable' = migrationTable
BY DEF Does, Progress, MigrateBegin, UseBegin, AcquireLock, Bootstrap, ReadApplied, RefuseMigrate,
       ExecuteMigration, RecordMigration, VerifyPasses, VerifyRefuses, Operate, Abort, Restart, database

\* What a process knows stays true while neither it nor the schema changes.
LEMMA Undisturbed ==
    ASSUME NEW o \in Processes, InOrder(o), Trusts(o),
           migrationPc'[o] = migrationPc[o], tx'[o] = tx[o], outcome'[o] = outcome[o],
           release'[o] = release[o], verified'[o] = verified[o], schema' = schema
    PROVE  InOrder(o)' /\ Trusts(o)'
<1>1. Executed(o)' = Executed(o) /\ Noted(o)' = Noted(o)
  BY DEF Executed, Noted
<1> QED
  BY <1>1 DEF InOrder, Trusts, Ships

\* A process whose call ended has nothing open.
LEMMA EndedInOrder ==
    ASSUME NEW p \in Processes, migrationPc'[p] \notin PcTx, tx'[p] = NoTx
    PROVE  InOrder(p)'
BY DEF InOrder

\* What migrate() reads is a prefix of what its release ships.
LEMMA ReadIsPrefix ==
    ASSUME Inv, NEW r \in Releases, ~Newer(r, CommittedRows), _check_checksums(r, CommittedRows)
    PROVE  /\ Len(schema) \in Nat
           /\ Len(schema) <= LATEST_VERSION(r)
           /\ \A v \in 1..Len(schema) : schema[v] = MIGRATIONS[r][v]
           /\ Missing(r, CommittedRows) <=> Len(schema) < LATEST_VERSION(r)
<1>1. Len(schema) \in Nat
  BY LenProperties DEF Inv, TypeOK
<1>2. Len(schema) <= LATEST_VERSION(r)
  <2>1. CASE Len(schema) \in Versions
    <3>1. Len(schema) \in Recorded(CommittedRows)
      BY <1>1, <2>1 DEF Inv, TableTells, Recorded
    <3> QED
      BY <1>1, <3>1, Shipped DEF Newer
  <2> QED
    BY <1>1, <2>1, Shipped DEF Inv, TableTells
<1>3. ASSUME NEW v \in 1..Len(schema)
      PROVE  schema[v] = MIGRATIONS[r][v]
  <2>1. v \in Versions /\ v \in DOMAIN MIGRATIONS[r]
    BY <1>1, <1>2, Shipped
  <2>2. CommittedRows[v] # None /\ CommittedRows[v] = schema[v]
    BY <1>1, <2>1 DEF Inv, TableTells
  <2> QED
    BY <2>1, <2>2 DEF _check_checksums, Recorded
<1>4. Missing(r, CommittedRows) <=> Len(schema) < LATEST_VERSION(r)
  <2>1. \A v \in DOMAIN MIGRATIONS[r] : CommittedRows[v] = None <=> ~(v <= Len(schema))
    BY Shipped DEF Inv, TableTells
  <2>2. LATEST_VERSION(r) \in DOMAIN MIGRATIONS[r]
    BY Shipped
  <2> QED
    BY <1>1, <1>2, <2>1, <2>2, Shipped DEF Missing
<1> QED
  BY <1>1, <1>2, <1>3, <1>4

\* The rows that were read are those of the schema, and nothing was executed.
LEMMA ReadInOrder ==
    ASSUME Inv, NEW p \in Processes, ReadApplied(p)
    PROVE  InOrder(p)'
<1> DEFINE r == release[p]
<1>1. r \in Releases /\ release' = release /\ schema' = schema
  BY DEF Inv, TypeOK, ReadApplied, database
<1>2. tx[p] = NoTx
  BY DEF Inv, InOrder, PcTx, ReadApplied
<1>3. tx'[p].rows = CommittedRows /\ tx'[p].sql = << >> /\ tx'[p].now = {}
  BY <1>2, ReadTx DEF NoTx
<1>4. migrationPc'[p] = IF Missing(r, CommittedRows) THEN "execute" ELSE "commit"
  BY DEF Inv, TypeOK, ReadApplied
<1>5. Executed(p)' = Len(schema) /\ Noted(p)' = Len(schema)
  <2>1. Len(tx'[p].sql) = 0
    BY <1>3, EmptySeq
  <2>2. Len(schema) \in Nat
    BY LenProperties DEF Inv, TypeOK
  <2> QED
    BY <1>1, <1>4, <2>1, <2>2 DEF Executed, Noted
<1>6. /\ Len(schema) \in Nat
      /\ Len(schema) <= LATEST_VERSION(r)
      /\ \A v \in 1..Len(schema) : schema[v] = MIGRATIONS[r][v]
      /\ Missing(r, CommittedRows) <=> Len(schema) < LATEST_VERSION(r)
  BY <1>1, ReadIsPrefix DEF ReadApplied
<1>7. \A v \in Versions :
          /\ tx'[p].rows[v] # None <=> v <= Len(schema)
          /\ v <= Len(schema) => tx'[p].rows[v] = MIGRATIONS[r][v]
          /\ v \in tx'[p].now <=> Len(schema) < v /\ v <= Len(schema)
  <2> SUFFICES ASSUME NEW v \in Versions
               PROVE  /\ CommittedRows[v] # None <=> v <= Len(schema)
                      /\ v <= Len(schema) => CommittedRows[v] = MIGRATIONS[r][v]
                      /\ ~(Len(schema) < v /\ v <= Len(schema))
    BY <1>3
  <2> QED
    BY <1>6, VersionOrder DEF Inv, TableTells
<1>8. \A i \in 1..Len(tx'[p].sql) : tx'[p].sql[i] = MIGRATIONS[r][Len(schema) + i]
  BY <1>3, EmptySeq
<1> QED
  BY <1>1, <1>4, <1>5, <1>6, <1>7, <1>8, Shipped DEF InOrder, PcTx

\* Executing the next migration continues the list.
LEMMA ExecuteInOrder ==
    ASSUME Inv, NEW p \in Processes, ExecuteMigration(p)
    PROVE  InOrder(p)'
<1> DEFINE r == release[p]
           m == MIGRATIONS[r][NextVersion(p)]
<1>1. r \in Releases /\ release' = release /\ schema' = schema /\ migrationPc[p] = "execute" /\ migrationPc'[p] = "record"
  BY DEF Inv, TypeOK, ExecuteMigration, Step, database
<1>2. InOrder(p) /\ tx[p].sql \in Seq(Sql) /\ Len(tx[p].sql) \in Nat /\ Len(schema) \in Nat
  BY LenProperties DEF Inv, TypeOK, Tx
<1>3. tx'[p].rows = tx[p].rows /\ tx'[p].now = tx[p].now /\ tx'[p].sql = Append(tx[p].sql, m)
  BY ExecuteTx
<1>4. NextVersion(p) = Executed(p) + 1 /\ NextVersion(p) <= LATEST_VERSION(r) /\ m \in Sql
  BY <1>1, NextIsFollowing, Shipped DEF Noted
<1>5. /\ Len(tx'[p].sql) = Len(tx[p].sql) + 1
      /\ \A i \in 1..Len(tx[p].sql) : tx'[p].sql[i] = tx[p].sql[i]
      /\ tx'[p].sql[Len(tx[p].sql) + 1] = m
  BY <1>2, <1>3, <1>4, AppendProperties
<1>6. Executed(p)' = Executed(p) + 1 /\ Noted(p)' = Noted(p)
  BY <1>1, <1>2, <1>5 DEF Executed, Noted
<1>7. ASSUME NEW i \in 1..Len(tx'[p].sql)
      PROVE  tx'[p].sql[i] = MIGRATIONS[r][Len(schema) + i]
  <2>1. CASE i = Len(tx[p].sql) + 1
    BY <1>2, <1>4, <1>5, <2>1 DEF Executed
  <2>2. CASE i \in 1..Len(tx[p].sql)
    BY <1>1, <1>2, <1>5, <2>2 DEF InOrder, PcTx
  <2> QED
    BY <1>2, <1>5, <2>1, <2>2
<1> QED
  BY <1>1, <1>2, <1>3, <1>4, <1>5, <1>6, <1>7 DEF InOrder, PcTx

\* Recording it notes one more version.
LEMMA RecordInOrder ==
    ASSUME Inv, NEW p \in Processes, RecordMigration(p)
    PROVE  InOrder(p)'
<1> DEFINE r == release[p]
           n == NextVersion(p)
<1>1. /\ r \in Releases /\ release' = release /\ schema' = schema /\ migrationPc[p] = "record"
      /\ migrationPc'[p] = IF Pending(p) = {n} THEN "commit" ELSE "execute"
  BY DEF Inv, TypeOK, RecordMigration, database
<1>2. /\ InOrder(p) /\ tx[p].sql \in Seq(Sql) /\ Len(tx[p].sql) \in Nat /\ Len(schema) \in Nat
      /\ tx[p].rows \in RowSets
  BY LenProperties DEF Inv, TypeOK, Tx
<1>3. /\ tx'[p].rows = [tx[p].rows EXCEPT ![n] = MIGRATIONS[r][n]]
      /\ tx'[p].now = tx[p].now \cup {n}
      /\ tx'[p].sql = tx[p].sql
  BY RecordTx
<1>4. /\ n = Executed(p) /\ n = Noted(p) + 1 /\ Noted(p) \in Nat
      /\ n \in 1..LATEST_VERSION(r) /\ n \in Versions
      /\ Pending(p) = n..LATEST_VERSION(r)
      /\ MIGRATIONS[r][n] # None
  BY <1>1, <1>2, NextIsFollowing, Shipped DEF Noted, Executed
<1>5. Executed(p)' = Executed(p) /\ Noted(p)' = n
  BY <1>1, <1>3, <1>4 DEF Executed, Noted
<1>6. ASSUME NEW v \in Versions
      PROVE  /\ tx'[p].rows[v] # None <=> v <= n
             /\ v <= n => tx'[p].rows[v] = MIGRATIONS[r][v]
             /\ v \in tx'[p].now <=> Len(schema) < v /\ v <= n
  <2>1. v \in Nat /\ Len(schema) < n
    BY <1>1, <1>2, <1>4, VersionOrder DEF InOrder, Executed, PcTx
  <2>2. tx'[p].rows[v] = IF v = n THEN MIGRATIONS[r][n] ELSE tx[p].rows[v]
    BY <1>2, <1>3 DEF RowSets
  <2>3. v \in tx'[p].now <=> v = n \/ v \in tx[p].now
    BY <1>3
  <2> QED
    BY <1>1, <1>2, <1>4, <2>1, <2>2, <2>3 DEF InOrder, PcTx
<1>7. Pending(p) = {n} <=> n = LATEST_VERSION(r)
  BY <1>1, <1>4, Shipped
<1>8. /\ \A v \in 1..Len(schema') : schema'[v] = MIGRATIONS[r][v]
      /\ \A i \in 1..Len(tx'[p].sql) : tx'[p].sql[i] = MIGRATIONS[r][Len(schema') + i]
  BY <1>1, <1>2, <1>3 DEF InOrder, PcTx
<1>9. /\ Executed(p)' <= LATEST_VERSION(r)
      /\ migrationPc'[p] = "execute" => Executed(p)' < LATEST_VERSION(r)
      /\ migrationPc'[p] = "commit" => Executed(p)' = LATEST_VERSION(r)
      /\ migrationPc'[p] \in PcTx /\ migrationPc'[p] # "record"
  <2>1. LATEST_VERSION(r) \in Nat
    BY <1>1, Shipped
  <2>3. n \in Nat /\ n <= LATEST_VERSION(r)
    BY <1>4, <2>1
  <2>4. Executed(p)' = n
    BY <1>4, <1>5
  <2>2. migrationPc'[p] = IF n = LATEST_VERSION(r) THEN "commit" ELSE "execute"
    BY <1>1, <1>7
  <2> QED
    BY <2>1, <2>2, <2>3, <2>4 DEF PcTx
<1> QED
  BY <1>1, <1>5, <1>6, <1>8, <1>9 DEF InOrder

\* The commit completes the schema to what the release of its process ships.
LEMMA CommitCompletes ==
    ASSUME Inv, NEW p \in Processes, CommitMigrate(p)
    PROVE  /\ schema' = MIGRATIONS[release[p]]
           /\ Len(schema) \in Nat
           /\ Len(schema) <= LATEST_VERSION(release[p])
           /\ \A v \in 1..Len(schema) : schema[v] = MIGRATIONS[release[p]][v]
<1> DEFINE r == release[p]
           k == Len(schema)
           n == Len(tx[p].sql)
<1>1. /\ r \in Releases /\ schema \in Seq(Sql) /\ tx[p].sql \in Seq(Sql) /\ k \in Nat /\ n \in Nat
  BY LenProperties DEF Inv, TypeOK, Tx
<1>2. /\ k + n = LATEST_VERSION(r)
      /\ \A v \in 1..k : schema[v] = MIGRATIONS[r][v]
      /\ \A i \in 1..n : tx[p].sql[i] = MIGRATIONS[r][k + i]
  BY DEF Inv, InOrder, Executed, PcTx, CommitMigrate
<1>3. /\ schema' \in Seq(Sql) /\ Len(schema') = k + n
      /\ \A v \in 1..(k + n) : schema'[v] = IF v <= k THEN schema[v] ELSE tx[p].sql[v - k]
  BY <1>1, ConcatProperties DEF CommitMigrate
<1>4. ASSUME NEW v \in 1..(k + n)
      PROVE  schema'[v] = MIGRATIONS[r][v]
  <2>1. CASE v <= k
    BY <1>1, <1>2, <1>3, <2>1
  <2>2. CASE ~(v <= k)
    <3>1. v - k \in 1..n /\ k + (v - k) = v
      BY <1>1, <2>2
    <3> QED
      BY <1>2, <1>3, <2>2, <3>1
  <2> QED
    BY <2>1, <2>2
<1>5. schema' = MIGRATIONS[r]
  <2>1. MIGRATIONS[r] \in Seq(Sql) /\ Len(MIGRATIONS[r]) = k + n
    BY <1>1, <1>2, Shipped DEF LATEST_VERSION
  <2> QED
    BY <1>3, <1>4, <2>1, SeqEqual
<1> QED
  BY <1>1, <1>2, <1>5

\* The commit publishes the rows together with the schema.
LEMMA CommitTells ==
    ASSUME Inv, NEW p \in Processes, CommitMigrate(p)
    PROVE  TableTells'
<1> DEFINE r == release[p]
           L == LATEST_VERSION(r)
<1>1. r \in Releases /\ InOrder(p) /\ migrationPc[p] = "commit" /\ TableTells
  BY DEF Inv, TypeOK, CommitMigrate
<1>2. /\ schema' = MIGRATIONS[r] /\ Len(schema) \in Nat /\ Len(schema) <= L
      /\ \A v \in 1..Len(schema) : schema[v] = MIGRATIONS[r][v]
  BY CommitCompletes
<1>3. L \in Versions /\ L \in Nat /\ Len(schema') = L
  BY <1>1, <1>2, Shipped DEF LATEST_VERSION
<1>4. migrationTable' # None
  <2>1. migrationTable' \in RowSets
    <3>1. tx[p].rows \in RowSets
      BY DEF Inv, TypeOK, Tx
    <3> QED
      BY <3>1, CommittedType DEF Inv, CommitMigrate, RowSets
  <2> QED
    BY <2>1, NamesAssumption
<1>5. ASSUME NEW v \in Versions
      PROVE  /\ CommittedRows'[v] # None <=> v <= L
             /\ v <= L => CommittedRows'[v] = schema'[v]
  <2>1. CommittedRows'[v] = IF v \in tx[p].now THEN tx[p].rows[v] ELSE CommittedRows[v]
    BY <1>4 DEF CommittedRows, CommitMigrate
  <2>2. Noted(p) = L
    BY <1>1 DEF InOrder, Noted, PcTx
  <2>3. /\ v \in tx[p].now <=> Len(schema) < v /\ v <= L
        /\ tx[p].rows[v] # None <=> v <= L
        /\ v <= L => tx[p].rows[v] = MIGRATIONS[r][v]
    BY <1>1, <2>2 DEF InOrder, PcTx
  <2>4. v \in Nat \ {0}
    BY VersionOrder
  <2>5. CASE v \in tx[p].now
    BY <1>2, <2>1, <2>3, <2>5
  <2>6. CASE v \notin tx[p].now
    <3>1. v <= L <=> v <= Len(schema)
      BY <1>2, <1>3, <2>3, <2>4, <2>6
    <3>2. v <= Len(schema) => CommittedRows[v] = MIGRATIONS[r][v]
      BY <1>1, <1>2, <2>4 DEF TableTells
    <3> QED
      BY <1>1, <1>2, <2>1, <2>6, <3>1, <3>2 DEF TableTells
  <2> QED
    BY <2>5, <2>6
<1> QED
  BY <1>3, <1>5 DEF TableTells

\* What the schema starts with, it starts with after the commit.
LEMMA ShipsStays ==
    ASSUME Inv, NEW p \in Processes, Does(p), NEW r \in Releases, Ships(r)
    PROVE  Ships(r)'
<1>1. CASE ~CommitMigrate(p)
  BY <1>1, DatabaseWaits DEF Ships
<1>2. CASE CommitMigrate(p)
  <2>1. /\ schema' = MIGRATIONS[release[p]] /\ Len(schema) \in Nat
        /\ Len(schema) <= LATEST_VERSION(release[p])
        /\ \A v \in 1..Len(schema) : schema[v] = MIGRATIONS[release[p]][v]
    BY <1>2, CommitCompletes
  <2>2. release[p] \in Releases /\ LATEST_VERSION(r) \in Nat /\ LATEST_VERSION(release[p]) \in Nat
    BY Shipped DEF Inv, TypeOK
  <2> QED
    BY <2>1, <2>2 DEF Ships, LATEST_VERSION
<1> QED
  BY <1>1, <1>2

\* A schema that passes the check starts with what the release ships.
LEMMA VerifiedShips ==
    ASSUME Inv, NEW r \in Releases, _verify_schema(r)
    PROVE  Ships(r)
<1>1. CommittedRows = migrationTable /\ Len(schema) \in Nat /\ LATEST_VERSION(r) \in Nat
  BY LenProperties, Shipped DEF Inv, TypeOK, _verify_schema, CommittedRows
<1>2. ~Newer(r, CommittedRows) /\ _check_checksums(r, CommittedRows)
  BY <1>1 DEF _verify_schema
<1>3. LATEST_VERSION(r) <= Len(schema)
  <2>1. PICK v \in Recorded(CommittedRows) : ~(v < LATEST_VERSION(r))
    BY <1>1 DEF _verify_schema, Older
  <2>2. v \in Versions /\ v \in Nat /\ v <= Len(schema)
    BY <2>1, VersionOrder DEF Recorded, Inv, TableTells
  <2> QED
    BY <1>1, <2>1, <2>2
<1> QED
  BY <1>1, <1>2, <1>3, ReadIsPrefix DEF Ships

\* The process that moves keeps its part of the invariant.
LEMMA MoverInv ==
    ASSUME Inv, NEW p \in Processes, Does(p)
    PROVE  OwnsLock(p)' /\ InOrder(p)' /\ Trusts(p)'
<1> USE DEF Inv
<1>0. PICK r \in Releases : r = release[p]
  BY DEF TypeOK
<1>1. Trusts(p) /\ (Ships(r) => Ships(r)')
  BY ShipsStays
<1>2. CASE MigrateBegin(p) \/ UseBegin(p)
  <2>1. /\ migrationPc[p] = "idle" /\ migrationPc'[p] \notin PcOwner \cup PcTx
        /\ migrationPc'[p] = "operate" => verified[p]
        /\ outcome'[p] = "none" /\ UNCHANGED <<migrationLock, tx, release, verified>>
    BY <1>2 DEF MigrateBegin, UseBegin, Step, TypeOK, PcOwner, PcMigrate, PcTx
  <2>2. OwnsLock(p)' /\ InOrder(p)'
    BY <2>1, EndedInOrder DEF OwnsLock, InOrder, PcOwner, PcMigrate, PcTx
  <2> QED
    BY <1>0, <1>1, <2>1, <2>2 DEF Trusts
<1>3. CASE AcquireLock(p) \/ Bootstrap(p)
  <2>1. /\ migrationPc[p] \in {"lock", "bootstrap"} /\ migrationPc'[p] \in {"bootstrap", "read"} /\ migrationLock' = p
        /\ UNCHANGED <<tx, release, verified, outcome>>
    BY <1>3 DEF AcquireLock, Bootstrap, Step, TypeOK, OwnsLock, PcOwner, PcMigrate
  <2>2. OwnsLock(p)' /\ InOrder(p)'
    BY <2>1, EndedInOrder DEF OwnsLock, InOrder, PcOwner, PcMigrate, PcTx
  <2> QED
    BY <1>0, <1>1, <2>1, <2>2 DEF Trusts
<1>4. CASE ReadApplied(p) \/ ExecuteMigration(p) \/ RecordMigration(p)
  <2>1. /\ migrationPc[p] \in PcOwner /\ migrationPc'[p] \in PcTx
        /\ UNCHANGED <<migrationLock, release, verified, outcome>>
    BY <1>4 DEF ReadApplied, ExecuteMigration, RecordMigration, Step, TypeOK, PcOwner, PcMigrate, PcTx
  <2>2. InOrder(p)'
    BY <1>4, ReadInOrder, ExecuteInOrder, RecordInOrder
  <2> QED
    BY <1>0, <1>1, <2>1, <2>2 DEF Trusts, OwnsLock, PcOwner, PcMigrate, PcTx
<1>5. CASE RefuseMigrate(p) \/ VerifyRefuses(p) \/ Operate(p) \/ Abort(p)
  <2>1. PICK e \in Results \ {"migrated"} : Return(p, e)
    BY <1>5 DEF RefuseMigrate, VerifyRefuses, Operate, Abort, Results
  <2>2. migrationPc'[p] = "idle" /\ tx'[p] = NoTx /\ outcome'[p] # "migrated" /\ migrationLock' # p
    BY <2>1, ReturnEnds
  <2>3. UNCHANGED <<release, verified>>
    BY <1>5 DEF RefuseMigrate, VerifyRefuses, Operate, Abort
  <2> QED
    BY <1>0, <1>1, <2>2, <2>3, EndedInOrder DEF OwnsLock, Trusts, PcOwner, PcMigrate, PcTx
<1>6. CASE CommitMigrate(p)
  <2>1. PICK e \in Results : Return(p, e)
    BY <1>6 DEF CommitMigrate, Results
  <2>2. migrationPc'[p] = "idle" /\ tx'[p] = NoTx /\ migrationLock' # p
    BY <2>1, ReturnEnds
  <2>3. release' = release
    BY <1>6 DEF CommitMigrate
  <2>4. Ships(r)'
    <3>1. schema' = MIGRATIONS[r]
      BY <1>0, <1>6, CommitCompletes
    <3> QED
      BY <3>1, Shipped DEF Ships, LATEST_VERSION
  <2> QED
    BY <1>0, <2>2, <2>3, <2>4, EndedInOrder DEF OwnsLock, Trusts, PcOwner, PcMigrate, PcTx
<1>7. CASE VerifyPasses(p)
  <2>1. /\ migrationPc[p] = "verify" /\ migrationPc'[p] = "operate" /\ UNCHANGED <<migrationLock, tx, release>>
        /\ _verify_schema(release[p])
    BY <1>7 DEF VerifyPasses, Step, TypeOK
  <2>2. Ships(r)'
    BY <1>0, <1>1, <2>1, VerifiedShips
  <2> QED
    BY <1>0, <2>1, <2>2, EndedInOrder DEF OwnsLock, InOrder, Trusts, PcOwner, PcMigrate, PcTx
<1>8. CASE \E s \in Releases : Restart(p, s)
  <2>1. /\ migrationPc[p] = "idle" /\ migrationPc'[p] = "idle" /\ UNCHANGED <<migrationLock, tx>>
        /\ ~verified'[p] /\ outcome'[p] = "none"
    BY <1>8 DEF Restart, TypeOK
  <2> QED
    BY <2>1, EndedInOrder DEF OwnsLock, InOrder, Trusts, PcOwner, PcMigrate, PcTx
<1> QED
  BY <1>2, <1>3, <1>4, <1>5, <1>6, <1>7, <1>8 DEF Does, Progress

\* While one process moves, the others keep theirs: nobody else is past the
\* lock when the schema changes.
LEMMA OthersInv ==
    ASSUME Inv, NEW p \in Processes, Does(p), NEW o \in Processes \ {p}
    PROVE  OwnsLock(o)' /\ InOrder(o)' /\ Trusts(o)'
<1>1. /\ migrationPc'[o] = migrationPc[o] /\ tx'[o] = tx[o] /\ outcome'[o] = outcome[o]
      /\ release'[o] = release[o] /\ verified'[o] = verified[o]
      /\ migrationLock' = o <=> migrationLock = o
  BY OthersWait DEF Inv
<1>2. OwnsLock(o) /\ InOrder(o) /\ Trusts(o) /\ release[o] \in Releases
  BY DEF Inv, TypeOK
<1>3. OwnsLock(o)'
  BY <1>1, <1>2 DEF OwnsLock
<1>4. CASE ~CommitMigrate(p)
  BY <1>1, <1>2, <1>3, <1>4, DatabaseWaits, Undisturbed
<1>5. CASE CommitMigrate(p)
  <2>1. migrationLock = p
    BY <1>5 DEF Inv, OwnsLock, CommitMigrate, PcOwner, PcMigrate
  <2>2. migrationPc[o] \notin PcTx
    BY <1>2, <2>1 DEF OwnsLock, PcOwner, PcMigrate, PcTx
  <2>3. InOrder(o)'
    BY <1>1, <1>2, <2>2, EndedInOrder DEF InOrder
  <2>4. Trusts(o)'
    <3>1. PICK r \in Releases : r = release[o]
      BY <1>2
    <3>2. Ships(r) => Ships(r)'
      BY ShipsStays
    <3> QED
      BY <1>1, <1>2, <3>1, <3>2 DEF Trusts
  <2> QED
    BY <1>3, <2>3, <2>4
<1> QED
  BY <1>4, <1>5

LEMMA InitInv ==
    ASSUME Init
    PROVE  Inv
<1>1. TypeOK
  BY TypeInit
<1>2. TableTells
  <2>1. Len(schema) = 0 /\ \A v \in Versions : CommittedRows[v] = None
    BY EmptySeq DEF Init, CommittedRows, NoRows
  <2> QED
    BY <2>1, VersionOrder DEF TableTells
<1>3. \A p \in Processes : OwnsLock(p) /\ InOrder(p) /\ Trusts(p)
  BY NamesAssumption DEF Init, OwnsLock, InOrder, Trusts, PcOwner, PcMigrate, PcTx
<1> QED
  BY <1>1, <1>2, <1>3 DEF Inv

LEMMA NextInv ==
    ASSUME Inv, [Next]_vars
    PROVE  Inv'
<1>1. TypeOK'
  BY TypeStep
<1>2. CASE UNCHANGED vars
  <2>1. /\ schema' = schema /\ migrationTable' = migrationTable /\ migrationLock' = migrationLock /\ release' = release
        /\ verified' = verified /\ migrationPc' = migrationPc /\ tx' = tx /\ outcome' = outcome
    BY <1>2 DEF vars
  <2>2. \A p \in Processes : OwnsLock(p)' /\ InOrder(p)' /\ Trusts(p)'
    BY <2>1, Undisturbed DEF Inv, OwnsLock
  <2> QED
    BY <1>1, <2>1, <2>2 DEF Inv, TableTells, CommittedRows
<1>3. ASSUME NEW p \in Processes, Does(p)
      PROVE  Inv'
  <2>1. TableTells'
    <3>1. CASE ~CommitMigrate(p)
      BY <1>3, <3>1, DatabaseWaits DEF Inv, TableTells, CommittedRows
    <3> QED
      BY <3>1, CommitTells
  <2>2. ASSUME NEW o \in Processes
        PROVE  OwnsLock(o)' /\ InOrder(o)' /\ Trusts(o)'
    BY <1>3, MoverInv, OthersInv
  <2> QED
    BY <1>1, <2>1, <2>2 DEF Inv
<1> QED
  BY <1>2, <1>3 DEF Next, Does

\* The invariant: the lock's owner alone has SQL open, in the order of its
\* release, and the table tells what is committed.
THEOREM Invariance == Spec => []Inv
BY InitInv, NextInv, PTL DEF Spec

-----------------------------------------------------------------------------
(* What it gives.                                                          *)

\* Types.
THEOREM TypeCorrect == Spec => []TypeOK
<1>1. Inv => TypeOK
  BY DEF Inv
<1> QED
  BY <1>1, Invariance, PTL

\* Whoever migrates at the same time and wherever a connection breaks, the
\* migrations table lists exactly the migrations that were executed.
THEOREM RecordsAreTrue == Spec => []RecordIsTrue
<1>1. Inv => RecordIsTrue
  BY TableIsRecord DEF Inv
<1> QED
  BY <1>1, Invariance, PTL

\* The schema of a release is a prefix of another exactly where they agree.
LEMMA PrefixIsSchema ==
    ASSUME NEW r \in Releases, NEW s \in Seq(Sql), NEW n \in Nat, n <= LATEST_VERSION(r), n <= Len(s),
           \A v \in 1..n : s[v] = MIGRATIONS[r][v]
    PROVE  Prefix(r, n) = SubSeq(s, 1, n)
<1>1. \A v \in 1..n : MIGRATIONS[r][v] \in Sql /\ s[v] \in Sql
  BY Shipped, ElementOfSeq, LenProperties
<1>2. /\ Prefix(r, n) \in Seq(Sql) /\ Len(Prefix(r, n)) = n
      /\ \A v \in 1..n : Prefix(r, n)[v] = MIGRATIONS[r][v]
  BY <1>1, SubSeqProperties, SMTT(30) DEF Prefix
<1>3. /\ SubSeq(s, 1, n) \in Seq(Sql) /\ Len(SubSeq(s, 1, n)) = n
      /\ \A v \in 1..n : SubSeq(s, 1, n)[v] = s[v]
  BY <1>1, SubSeqProperties, SMTT(30)
<1> QED
  BY <1>2, <1>3, SeqEqual

\* An operation, also of a registry object that checked the schema long ago,
\* runs only on a schema that starts with what its release ships, and
\* migrate() returns only when that holds.
THEOREM OperationsFindTheirSchema == Spec => []OperatesOnShippedSchema
<1>1. ASSUME Inv
      PROVE  OperatesOnShippedSchema
  <2> SUFFICES ASSUME NEW p \in Processes, migrationPc[p] = "operate" \/ outcome[p] = "migrated"
               PROVE  /\ Len(schema) >= LATEST_VERSION(release[p])
                      /\ Prefix(release[p], LATEST_VERSION(release[p]))
                            = SubSeq(schema, 1, LATEST_VERSION(release[p]))
    BY DEF OperatesOnShippedSchema
  <2>1. Ships(release[p]) /\ release[p] \in Releases /\ schema \in Seq(Sql)
    BY <1>1 DEF Inv, Trusts, TypeOK
  <2>2. LATEST_VERSION(release[p]) \in Nat /\ Len(schema) \in Nat
    BY <2>1, Shipped, LenProperties
  <2>3. LATEST_VERSION(release[p]) <= Len(schema)
    BY <2>1 DEF Ships
  <2>4. Prefix(release[p], LATEST_VERSION(release[p])) = SubSeq(schema, 1, LATEST_VERSION(release[p]))
    <3>1. PICK r \in Releases, n \in Nat : r = release[p] /\ n = LATEST_VERSION(r)
      BY <2>1, <2>2
    <3>2. n <= LATEST_VERSION(r) /\ n <= Len(schema) /\ \A v \in 1..n : schema[v] = MIGRATIONS[r][v]
      BY <2>1, <2>3, <3>1 DEF Ships
    <3>3. Prefix(r, n) = SubSeq(schema, 1, n)
      BY <2>1, <3>2, PrefixIsSchema
    <3> QED
      BY <3>1, <3>3
  <2> QED
    BY <2>2, <2>3, <2>4
<1> QED
  BY <1>1, Invariance, PTL

\* No step leaves the database half migrated or mixes two releases: the
\* schema changes only from a prefix of one release's migrations to all of them.
THEOREM UpgradesComplete == Spec => UpgradesAreWhole
<1> DEFINE Whole ==
        \E r \in Releases :
          /\ Len(schema) < LATEST_VERSION(r)
          /\ schema = Prefix(r, Len(schema))
          /\ schema' = MIGRATIONS[r]
<1>1. ASSUME Inv, [Next]_vars
      PROVE  [Whole]_schema
  <2> SUFFICES ASSUME schema' # schema
               PROVE  Whole
    OBVIOUS
  <2>1. PICK p \in Processes : CommitMigrate(p)
    BY <1>1, DatabaseWaits DEF Next, Does, vars
  <2> DEFINE r == release[p]
  <2>2. /\ schema' = MIGRATIONS[r] /\ Len(schema) \in Nat /\ Len(schema) <= LATEST_VERSION(r)
        /\ \A v \in 1..Len(schema) : schema[v] = MIGRATIONS[r][v]
    BY <1>1, <2>1, CommitCompletes
  <2>3. r \in Releases /\ schema \in Seq(Sql)
    BY <1>1 DEF Inv, TypeOK
  <2>4. Len(schema) # LATEST_VERSION(r)
    BY <2>2, <2>3, Shipped, SeqEqual DEF LATEST_VERSION
  <2>5. schema = Prefix(r, Len(schema))
    <3>1. Prefix(r, Len(schema)) = SubSeq(schema, 1, Len(schema))
      BY <2>2, <2>3, PrefixIsSchema
    <3> QED
      BY <2>3, <3>1, SubSeqFull
  <2>6. Len(schema) < LATEST_VERSION(r)
    BY <2>2, <2>3, <2>4, Shipped
  <2> QED
    BY <2>2, <2>3, <2>5, <2>6
<1> QED
  BY <1>1, Invariance, PTL DEF Spec, UpgradesAreWhole
=============================================================================
