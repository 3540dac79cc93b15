------------------------- MODULE MCPostgresRegistry -------------------------
(***************************************************************************)
(* Model-checking instance of what ModelGuard keeps in PostgreSQL: the     *)
(* registry's tables, and the schema they belong to.  Operations and       *)
(* migrations are transactions of their own, under different locks, and    *)
(* neither writes to the tables of the other: each behaviour is about one. *)
(***************************************************************************)
EXTENDS PostgresRegistry, SchemaState

\* The processes that use the registry are those that migrate.
ASSUME ProcessesAssumption == Processes = Clients

CONSTANTS older, newer, edited, sql1, sql2, sql3, sqlX

\* A release, one that adds two migrations, and one that edited a released one.
MCMigrations ==
    [r \in {older, newer, edited} |->
        IF r = older THEN <<sql1>> ELSE IF r = newer THEN <<sql1, sql2, sql3>> ELSE <<sqlX, sql2>>]

VARIABLE part       \* what a behaviour is about

Schema == INSTANCE SchemaMigrations

registryVars == vars
schemaVars == <<schema, migrationTable, migrationLock, release, verified, migrationPc, tx, outcome,
                migrates, restarts>>

\* Which releases the processes run matters in one part only.
DatabaseInit ==
    /\ part \in {"registry", "schema"} /\ Init /\ Schema!Init
    /\ part = "registry" => \A p \in Processes : release[p] = older

DatabaseNext ==
    /\ UNCHANGED part
    /\ \/ part = "registry" /\ Next /\ UNCHANGED schemaVars
       \/ part = "schema" /\ Schema!Next /\ UNCHANGED registryVars

DatabaseSpec == DatabaseInit /\ [][DatabaseNext]_<<part, registryVars, schemaVars>>
FairDatabaseSpec == DatabaseSpec /\ Fairness /\ Schema!Fairness

-----------------------------------------------------------------------------
(* Liveness of both parts.                                                 *)

\* Every call returns, of an operation or of migrate(): nobody waits for ever on
\* an advisory lock or a unique key, whichever transactions fail.
Busy(c) == pc[c] # "idle" \/ migrationPc[c] # "idle"
NobodyWaitsForEver == \A c \in Clients : Busy(c) ~> ~Busy(c)
=============================================================================
