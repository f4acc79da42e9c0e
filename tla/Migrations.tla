------------------------------ MODULE Migrations ------------------------------
(***************************************************************************)
(* Database.init() of src/db.py: the migrations of a SQLite file, run by one *)
(* process that may crash anywhere and starts again.                         *)
(*                                                                          *)
(* What is durable and what a crash undoes follows sqlite3's transactions:   *)
(* init() opens one with BEGIN; executescript() commits whatever is pending  *)
(* and runs every statement of its script in autocommit; the next INSERT or  *)
(* UPDATE opens a transaction again, and CREATE and ALTER take part in it.   *)
(***************************************************************************)
EXTENDS Naturals, Sequences

VARIABLES
    durable,   \* what the file holds: objects, versions recorded, timestamps
    conn,      \* the same, as init()'s connection sees it
    inTx,      \* whether that connection has a transaction open
    line,      \* statement reached in the current migration; 0 before its start
    phase,     \* "down", "migrating", "failed", "migrated"
    crashes    \* crashes since the file was last migrated

CONSTANT MaxCrashes    \* crashes in a row

ASSUME MigrationsAssumption == MaxCrashes \in Nat

migrationVars == <<durable, conn, inTx, line, phase, crashes>>

Version == 1..9    \* DB_SCHEMA_VERSION, MIGRATIONS
Latest == 9

\* Columns that a later version added and that _create_base_schema() now creates.
Columns(table) ==
    CASE table = "models" -> {"provider_rank"}
      [] table = "request_log" -> {"log_columns", "selected_context_window"}
      [] OTHER -> {}

TableOf(column) == IF column = "provider_rank" THEN "models" ELSE "request_log"

BaseTables == <<"models", "request_log", "leaderboard_cache", "config_overrides",
                "managed_secrets", "secret_vault_config", "gateway_auth_config">>

Do(op, on) == [op |-> op, on |-> on]

\* migrate_to_v1() ... migrate_to_v9()
Statements(v) ==
    CASE v = 1 -> [i \in DOMAIN BaseTables |-> Do("create", BaseTables[i])]
      [] v = 2 -> <<Do("drop", "indexes"), Do("create", "indexes")>>
      [] v = 3 -> <<Do("restamp", "config_overrides"), Do("restamp", "leaderboard_cache")>>
      [] v = 4 -> <<Do("add", "log_columns")>>
      [] v = 5 -> <<Do("add", "selected_context_window")>>
      [] v = 6 -> <<Do("add", "provider_rank"), Do("copy", "models")>>
      [] v = 7 -> <<Do("create", "managed_secrets")>>
      [] v = 8 -> <<Do("create", "secret_vault_config")>>
      [] v = 9 -> <<Do("create", "gateway_auth_config")>>

IsScript(v) == v \in {1, 2}    \* executescript()

\* What a version is there for.
Provides(v) ==
    CASE v = 1 -> {BaseTables[i] : i \in 1..4}
      [] v = 2 -> {"indexes"}
      [] v = 3 -> {}
      [] v = 4 -> {"log_columns"}
      [] v = 5 -> {"selected_context_window"}
      [] v = 6 -> {"provider_rank"}
      [] v = 7 -> {"managed_secrets"}
      [] v = 8 -> {"secret_vault_config"}
      [] v = 9 -> {"gateway_auth_config"}

\* A file as release r left it; release 0 is a file that does not exist yet.  Up to
\* release 2 rows carry SQLite's CURRENT_TIMESTAMP format.
Release(r) ==
    [objects |-> UNION {Provides(v) : v \in 1..r},
     versions |-> 1..r,
     stamp |-> [t \in {"config_overrides", "leaderboard_cache"} |->
                   IF r \in {1, 2} THEN "sqlite" ELSE "utc"]]

MigrationInit ==
    /\ durable \in {Release(r) : r \in 0..Latest}
    /\ conn = durable
    /\ inTx = FALSE
    /\ line = 0
    /\ phase = "down"
    /\ crashes = 0

\* The migrations left, in their order; init() skips those recorded.
Pending(file) == Version \ file.versions
Current == CHOOSE v \in Pending(conn) : \A w \in Pending(conn) : v <= w

\* _connect(), BEGIN, CREATE TABLE IF NOT EXISTS schema_migrations, SELECT version
BeginInit ==
    /\ phase = "down"
    /\ phase' = "migrating"
    /\ conn' = durable
    /\ inTx' = TRUE
    /\ line' = 0
    /\ UNCHANGED <<durable, crashes>>

\* The script's own COMMIT comes first.
StartMigration ==
    /\ phase = "migrating" /\ line = 0 /\ Pending(conn) # {}
    /\ line' = 1
    /\ IF IsScript(Current)
       THEN durable' = conn /\ inTx' = FALSE
       ELSE UNCHANGED <<durable, inTx>>
    /\ UNCHANGED <<conn, phase, crashes>>

\* OperationalError: no such table.  CREATE and DROP say IF [NOT] EXISTS, and
\* _add_column_if_missing() looks first.
Raises(stmt, file) ==
    \/ stmt.op = "add" /\ TableOf(stmt.on) \notin file.objects
    \/ stmt.op \in {"restamp", "copy"} /\ stmt.on \notin file.objects

\* The WHERE ... GLOB of migrate_to_v3() picks the rows in SQLite's format only.
Effect(stmt, file) ==
    CASE stmt.op = "create" -> [file EXCEPT !.objects = @ \cup {stmt.on} \cup
                                   IF stmt.on \in @ THEN {} ELSE Columns(stmt.on)]
      [] stmt.op = "drop" -> [file EXCEPT !.objects = @ \ {stmt.on}]
      [] stmt.op = "add" -> [file EXCEPT !.objects = @ \cup {stmt.on}]
      [] stmt.op = "restamp" -> [file EXCEPT !.stamp[stmt.on] =
                                    IF @ = "sqlite" THEN "utc" ELSE @]
      [] stmt.op = "copy" -> file

\* One statement of a migration; an UPDATE opens a transaction.
RunStatement ==
    /\ phase = "migrating" /\ line > 0 /\ line <= Len(Statements(Current))
    /\ LET stmt == Statements(Current)[line]
           after == Effect(stmt, conn)
           tx == inTx \/ stmt.op \in {"restamp", "copy"}
       IN IF Raises(stmt, conn)
          THEN phase' = "failed" /\ conn' = durable /\ inTx' = FALSE /\ line' = 0
               /\ UNCHANGED durable
          ELSE /\ conn' = after
               /\ inTx' = tx
               /\ durable' = IF tx THEN durable ELSE after
               /\ line' = line + 1
               /\ UNCHANGED phase
    /\ UNCHANGED crashes

\* The version is recorded before its script runs.
RecordFirst ==
    /\ phase = "migrating" /\ line = 1
    /\ conn' = [conn EXCEPT !.versions = @ \cup {Current}]
    /\ inTx' = TRUE
    /\ line' = 0
    /\ UNCHANGED <<durable, phase, crashes>>

\* INSERT INTO schema_migrations opens a transaction if there is none.
RecordVersion ==
    /\ phase = "migrating" /\ line > 0 /\ line > Len(Statements(Current))
    /\ conn' = [conn EXCEPT !.versions = @ \cup {Current}]
    /\ inTx' = TRUE
    /\ line' = 0
    /\ UNCHANGED <<durable, phase, crashes>>

\* conn.commit(), close()
CommitInit ==
    /\ phase = "migrating" /\ line = 0 /\ Pending(conn) = {}
    /\ durable' = conn
    /\ inTx' = FALSE
    /\ phase' = "migrated"
    /\ crashes' = 0
    /\ UNCHANGED <<conn, line>>

\* The process ends; what its connection had not committed is gone.
CrashInit ==
    /\ phase = "migrating" /\ crashes < MaxCrashes
    /\ crashes' = crashes + 1
    /\ phase' = "down"
    /\ conn' = durable
    /\ inTx' = FALSE
    /\ line' = 0
    /\ UNCHANGED durable

InitStep ==
    \/ BeginInit
    \/ StartMigration
    \/ RunStatement
    \/ RecordVersion
    \/ CommitInit

-------------------------------------------------------------------------------
\* A version that is recorded in the file has left in it what it is there for,
\* whatever crash came between the script and the record (db.py:453-458).
RecordedIsApplied ==
    \A v \in durable.versions : Provides(v) \subseteq durable.objects

\* Running a migration again over what a crash left never raises and never touches
\* a timestamp twice.
RerunIsHarmless ==
    /\ phase # "failed"
    /\ \A t \in DOMAIN durable.stamp : durable.stamp[t] # "garbled"

\* A crash anywhere in Database.init() leaves a file that the next start can migrate.
CrashSafe == RecordedIsApplied /\ RerunIsHarmless
===============================================================================
