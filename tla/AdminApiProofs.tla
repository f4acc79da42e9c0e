---------------------------- MODULE AdminApiProofs ----------------------------
(***************************************************************************)
(* Proofs about AdminApi, for any sets of tokens and clients and any bounds.  *)
(*                                                                          *)
(* Migrations.  A file that init() works on records the versions 1..k and     *)
(* holds at least what they provide; the connection's file and the durable    *)
(* one are both of this kind, they are the same outside a transaction, and    *)
(* what the statements of version k + 1 that were already run are there for    *)
(* is in the connection's file.  So no statement finds its table missing, and  *)
(* the version is recorded over a file that has all it provides.              *)
(*                                                                          *)
(* Reloads.  As long as no handler has overtaken a refresh, what a thread has  *)
(* read and will put back is what the tables and the last handler say; with    *)
(* that, the fields of app.state are either not set yet or current, and a      *)
(* vault that has secrets is the one in app.state, so that setup is refused.   *)
(***************************************************************************)
EXTENDS AdminApi, SequenceTheorems, TLAPS

\* The migrations

AllObjects == UNION {Provides(v) : v \in Version}
Stamped == {"config_overrides", "leaderboard_cache"}
File == [objects : SUBSET AllObjects, versions : SUBSET Version,
         stamp : [Stamped -> {"sqlite", "utc"}]]

\* A file with the versions 1..k.
Migrated(file, k) ==
    /\ file \in File
    /\ file.versions = 1..k
    /\ \A v \in 1..k : Provides(v) \subseteq file.objects
    /\ k >= 3 => \A t \in Stamped : file.stamp[t] = "utc"

\* What a statement is there for.
Done(stmt, file) ==
    /\ stmt.op \in {"create", "add"} => stmt.on \in file.objects
    /\ stmt.op = "restamp" => file.stamp[stmt.on] = "utc"

\* init() has recorded k versions and is before statement l of the next.
Reached(file, k, l) ==
    l > 0 => /\ k < Latest
             /\ l <= Len(Statements(k + 1)) + 1
             /\ \A i \in DOMAIN Statements(k + 1) : i < l => Done(Statements(k + 1)[i], file)

InitInv ==
    /\ \E j \in 0..Latest : Migrated(durable, j)
    /\ phase \in {"down", "migrating", "migrated", "running", "aborted"}
    /\ phase # "migrating" => line = 0 /\ conn = durable
    /\ phase \in {"migrated", "running", "aborted"} => Migrated(durable, Latest)
    /\ line \in Nat
    /\ inTx \in BOOLEAN
    /\ ~inTx => conn = durable
    /\ \E k \in 0..Latest : Migrated(conn, k) /\ Reached(conn, k, line)

-------------------------------------------------------------------------------
\* The reloads

HoldsVault == {"store", "secrets", "clear", "fill", "put settings", "put vault"}
HoldsStore == {"secrets", "clear", "fill", "put settings", "put vault", "put store"}
Pc == {"idle", "set store", "overrides", "vault", "put status", "auth", "put auth"}
          \cup HoldsVault \cup HoldsStore
Auth == Token \cup {Open, EnvAuth}
Frame == [pc : Pc, valid : BOOLEAN, vault : Vault, store : Vault,
          key : {"env", "managed"}, auth : Auth]
App == [key : {"env", "managed"}, vault : Vault, store : Vault, unlocked : BOOLEAN,
        auth : Auth]
Tables == [override : {"fine", "bad"}, vault : Vault, secret : Vault,
           auth : {"inherit", "disabled"} \cup Token]

Bounded == {es \in Seq(Entry) : Len(es) <= MaxEntries}

TypeInv ==
    /\ TypeOK
    /\ frame \in [Thread -> Frame]
    /\ frame["refresh"].pc # "set store"
    /\ throttles \in [Category -> Bounded]
    /\ fileValid \in BOOLEAN /\ overtaken \in BOOLEAN /\ raised \in BOOLEAN

\* A process that does not run holds nothing.
DownInv == phase # "running" => wanted = 0 /\ \A t \in Thread : frame[t] = Idle

\* What is held and will be put back is current.
HeldInv ==
    \A t \in Thread :
        /\ frame[t].pc \in HoldsVault => frame[t].vault = tables.vault
        /\ frame[t].pc \in HoldsStore => frame[t].store = wanted
        /\ frame[t].pc = "put auth" => frame[t].auth = Resolve(tables.auth)

\* The vault in app.state and the stored one.
StateInv ==
    /\ app.store = wanted
    /\ app.vault \in {0, tables.vault}
    /\ tables.secret # 0 => app.vault = tables.vault
    /\ IF frame["loop"].pc = "set store" THEN frame["loop"].store \in {0, tables.vault}
       ELSE app.store \in {0, tables.vault}

VaultIndInv ==
    /\ TypeInv
    /\ DownInv
    /\ SecretsDecryptable
    /\ phase = "running" /\ ~overtaken => HeldInv /\ StateInv
    /\ AuthCurrent

IndInv == InitInv /\ VaultIndInv

-------------------------------------------------------------------------------
\* Lemmas about the migrations

\* What each version provides, spelled out.
LEMMA ProvidesValues ==
    /\ Provides(1) = {"models", "request_log", "leaderboard_cache", "config_overrides"}
    /\ Provides(2) = {"indexes"}
    /\ Provides(3) = {}
    /\ Provides(4) = {"log_columns"}
    /\ Provides(5) = {"selected_context_window"}
    /\ Provides(6) = {"provider_rank"}
    /\ Provides(7) = {"managed_secrets"}
    /\ Provides(8) = {"secret_vault_config"}
    /\ Provides(9) = {"gateway_auth_config"}
<1>1. Provides(1) = {BaseTables[i] : i \in 1..4}  BY DEF Provides
<1>2. 1..4 = {1, 2, 3, 4}  OBVIOUS
<1>3. /\ BaseTables[1] = "models" /\ BaseTables[2] = "request_log"
      /\ BaseTables[3] = "leaderboard_cache" /\ BaseTables[4] = "config_overrides"
    BY DEF BaseTables
<1>4. Provides(1) = {"models", "request_log", "leaderboard_cache", "config_overrides"}
    BY <1>1, <1>2, <1>3
<1>5. Provides(2) = {"indexes"} /\ Provides(3) = {} /\ Provides(4) = {"log_columns"}
    BY DEF Provides
<1>6. Provides(5) = {"selected_context_window"} /\ Provides(6) = {"provider_rank"}
    BY DEF Provides
<1>7. /\ Provides(7) = {"managed_secrets"} /\ Provides(8) = {"secret_vault_config"}
      /\ Provides(9) = {"gateway_auth_config"}
    BY DEF Provides
<1>. QED  BY <1>4, <1>5, <1>6, <1>7

\* The versions one by one.
LEMMA VersionValues == Version = {1, 2, 3, 4, 5, 6, 7, 8, 9}
BY DEF Version

\* Every object some version provides.
LEMMA ObjectValues ==
    AllObjects = {"models", "request_log", "leaderboard_cache", "config_overrides", "indexes",
                  "log_columns", "selected_context_window", "provider_rank", "managed_secrets",
                  "secret_vault_config", "gateway_auth_config"}
<1>1. AllObjects = Provides(1) \cup Provides(2) \cup Provides(3) \cup Provides(4)
          \cup Provides(5) \cup Provides(6) \cup Provides(7) \cup Provides(8) \cup Provides(9)
    BY VersionValues DEF AllObjects
<1>. QED  BY <1>1, ProvidesValues

\* The statements one by one.
LEMMA StatementValues ==
    /\ Len(Statements(1)) = 7
    /\ \A i \in 1..7 : Statements(1)[i] = Do("create", BaseTables[i])
    /\ Statements(2) = <<Do("drop", "indexes"), Do("create", "indexes")>>
    /\ Statements(3) = <<Do("restamp", "config_overrides"), Do("restamp", "leaderboard_cache")>>
    /\ Statements(4) = <<Do("add", "log_columns")>>
    /\ Statements(5) = <<Do("add", "selected_context_window")>>
    /\ Statements(6) = <<Do("add", "provider_rank"), Do("copy", "models")>>
    /\ Statements(7) = <<Do("create", "managed_secrets")>>
    /\ Statements(8) = <<Do("create", "secret_vault_config")>>
    /\ Statements(9) = <<Do("create", "gateway_auth_config")>>
<1>2. DOMAIN BaseTables = 1..7  BY DEF BaseTables
<1>3. Statements(1) = [i \in 1..7 |-> Do("create", BaseTables[i])]
    BY <1>2 DEF Statements
<1>4. Len(Statements(1)) = 7  BY <1>3
<1>5. /\ Statements(2) = <<Do("drop", "indexes"), Do("create", "indexes")>>
      /\ Statements(3) = <<Do("restamp", "config_overrides"), Do("restamp", "leaderboard_cache")>>
      /\ Statements(4) = <<Do("add", "log_columns")>>
    BY DEF Statements
<1>6. /\ Statements(5) = <<Do("add", "selected_context_window")>>
      /\ Statements(6) = <<Do("add", "provider_rank"), Do("copy", "models")>>
      /\ Statements(7) = <<Do("create", "managed_secrets")>>
    BY DEF Statements
<1>7. /\ Statements(8) = <<Do("create", "secret_vault_config")>>
      /\ Statements(9) = <<Do("create", "gateway_auth_config")>>
    BY DEF Statements
<1>. QED  BY <1>3, <1>4, <1>5, <1>6, <1>7

\* The base tables one by one.
LEMMA TableValues ==
    /\ BaseTables[1] = "models" /\ BaseTables[2] = "request_log"
    /\ BaseTables[3] = "leaderboard_cache" /\ BaseTables[4] = "config_overrides"
    /\ BaseTables[5] = "managed_secrets" /\ BaseTables[6] = "secret_vault_config"
    /\ BaseTables[7] = "gateway_auth_config"
BY DEF BaseTables

\* The kinds of statement that occur.
Kind(v) ==
    CASE v = 1 -> {Do("create", BaseTables[i]) : i \in 1..7}
      [] v = 2 -> {Do("drop", "indexes"), Do("create", "indexes")}
      [] v = 3 -> {Do("restamp", t) : t \in Stamped}
      [] v = 4 -> {Do("add", "log_columns")}
      [] v = 5 -> {Do("add", "selected_context_window")}
      [] v = 6 -> {Do("add", "provider_rank"), Do("copy", "models")}
      [] v = 7 -> {Do("create", "managed_secrets")}
      [] v = 8 -> {Do("create", "secret_vault_config")}
      [] v = 9 -> {Do("create", "gateway_auth_config")}

\* A version's statements: their number and their kind.
LEMMA StatementKinds ==
    ASSUME NEW v \in Version
    PROVE  /\ Len(Statements(v)) \in Nat
           /\ Len(Statements(v)) = IF v = 1 THEN 7 ELSE IF v \in {2, 3, 6} THEN 2 ELSE 1
           /\ DOMAIN Statements(v) = 1..Len(Statements(v))
           /\ \A i \in DOMAIN Statements(v) : Statements(v)[i] \in Kind(v)
<1>1. v \in {1, 2, 3, 4, 5, 6, 7, 8, 9}  BY VersionValues
<1>2. CASE v = 1
    <2>1. Len(Statements(1)) = 7 /\ \A i \in 1..7 : Statements(1)[i] = Do("create", BaseTables[i])
        BY StatementValues
    <2>2. DOMAIN Statements(1) = 1..7
        <3>2. DOMAIN BaseTables = 1..7  BY DEF BaseTables
        <3>. QED  BY <3>2 DEF Statements
    <2>3. Kind(1) = {Do("create", BaseTables[i]) : i \in 1..7}  BY DEF Kind
    <2>. QED  BY <1>2, <2>1, <2>2, <2>3
<1>3. CASE v = 2
    <2>1. Kind(2) = {Do("drop", "indexes"), Do("create", "indexes")}  BY DEF Kind
    <2>. QED  BY <1>3, <2>1, StatementValues
<1>4. CASE v = 3
    <2>1. Kind(3) = {Do("restamp", t) : t \in Stamped}  BY DEF Kind
    <2>. QED  BY <1>4, <2>1, StatementValues DEF Stamped
<1>5. CASE v = 4
    <2>1. Kind(4) = {Do("add", "log_columns")}  BY DEF Kind
    <2>. QED  BY <1>5, <2>1, StatementValues
<1>6. CASE v = 5
    <2>1. Kind(5) = {Do("add", "selected_context_window")}  BY DEF Kind
    <2>. QED  BY <1>6, <2>1, StatementValues
<1>7. CASE v = 6
    <2>1. Kind(6) = {Do("add", "provider_rank"), Do("copy", "models")}  BY DEF Kind
    <2>. QED  BY <1>7, <2>1, StatementValues
<1>8. CASE v = 7
    <2>1. Kind(7) = {Do("create", "managed_secrets")}  BY DEF Kind
    <2>. QED  BY <1>8, <2>1, StatementValues
<1>9. CASE v = 8
    <2>1. Kind(8) = {Do("create", "secret_vault_config")}  BY DEF Kind
    <2>. QED  BY <1>9, <2>1, StatementValues
<1>10. CASE v = 9
    <2>1. Kind(9) = {Do("create", "gateway_auth_config")}  BY DEF Kind
    <2>. QED  BY <1>10, <2>1, StatementValues
<1>. QED  BY <1>1, <1>2, <1>3, <1>4, <1>5, <1>6, <1>7, <1>8, <1>9, <1>10

\* The statements by what they do.
LEMMA KindCases ==
    ASSUME NEW v \in Version, NEW stmt \in Kind(v)
    PROVE  \/ \E x \in AllObjects : stmt = Do("create", x)
           \/ v = 2 /\ stmt = Do("drop", "indexes")
           \/ v \in {4, 5, 6} /\ \E x \in AllObjects : stmt = Do("add", x)
           \/ v = 3 /\ \E x \in Stamped : stmt = Do("restamp", x)
           \/ v = 6 /\ stmt = Do("copy", "models")
<1>1. v \in {1, 2, 3, 4, 5, 6, 7, 8, 9}  BY VersionValues
<1>2. CASE v = 1
    <2>1. Kind(1) = {Do("create", BaseTables[i]) : i \in 1..7}  BY DEF Kind
    <2>2. \A i \in 1..7 : BaseTables[i] \in AllObjects
        <3>1. 1..7 = {1, 2, 3, 4, 5, 6, 7}  OBVIOUS
        <3>. QED  BY <3>1, TableValues, ObjectValues
    <2>. QED  BY <1>2, <2>1, <2>2
<1>3. CASE v = 2
    <2>1. Kind(2) = {Do("drop", "indexes"), Do("create", "indexes")}  BY DEF Kind
    <2>2. "indexes" \in AllObjects  BY ObjectValues
    <2>. QED  BY <1>3, <2>1, <2>2
<1>4. CASE v = 3
    <2>1. Kind(3) = {Do("restamp", t) : t \in Stamped}  BY DEF Kind
    <2>. QED  BY <1>4, <2>1
<1>5. CASE v = 4
    <2>1. Kind(4) = {Do("add", "log_columns")}  BY DEF Kind
    <2>2. "log_columns" \in AllObjects  BY ObjectValues
    <2>. QED  BY <1>5, <2>1, <2>2
<1>6. CASE v = 5
    <2>1. Kind(5) = {Do("add", "selected_context_window")}  BY DEF Kind
    <2>2. "selected_context_window" \in AllObjects  BY ObjectValues
    <2>. QED  BY <1>6, <2>1, <2>2
<1>7. CASE v = 6
    <2>1. Kind(6) = {Do("add", "provider_rank"), Do("copy", "models")}  BY DEF Kind
    <2>2. "provider_rank" \in AllObjects  BY ObjectValues
    <2>. QED  BY <1>7, <2>1, <2>2
<1>8. CASE v = 7
    <2>1. Kind(7) = {Do("create", "managed_secrets")}  BY DEF Kind
    <2>2. "managed_secrets" \in AllObjects  BY ObjectValues
    <2>. QED  BY <1>8, <2>1, <2>2
<1>9. CASE v = 8
    <2>1. Kind(8) = {Do("create", "secret_vault_config")}  BY DEF Kind
    <2>2. "secret_vault_config" \in AllObjects  BY ObjectValues
    <2>. QED  BY <1>9, <2>1, <2>2
<1>10. CASE v = 9
    <2>1. Kind(9) = {Do("create", "gateway_auth_config")}  BY DEF Kind
    <2>2. "gateway_auth_config" \in AllObjects  BY ObjectValues
    <2>. QED  BY <1>10, <2>1, <2>2
<1>. QED  BY <1>1, <1>2, <1>3, <1>4, <1>5, <1>6, <1>7, <1>8, <1>9, <1>10

\* A statement does what it is there for, and undoes only the indexes.
LEMMA EffectFields ==
    ASSUME NEW v \in Version, NEW stmt \in Kind(v), NEW file \in File
    PROVE  LET e == Effect(stmt, file)
           IN /\ e \in File
              /\ e.versions = file.versions
              /\ file.objects \ {"indexes"} \subseteq e.objects
              /\ stmt.op # "drop" => file.objects \subseteq e.objects
              /\ \A t \in Stamped : file.stamp[t] = "utc" => e.stamp[t] = "utc"
              /\ Done(stmt, e)
<1>. DEFINE e == Effect(stmt, file)
<1>0. file.objects \in SUBSET AllObjects /\ file.stamp \in [Stamped -> {"sqlite", "utc"}]
    BY DEF File
<1>1. CASE \E x \in AllObjects : stmt = Do("create", x)
    <2>1. PICK x \in AllObjects : stmt = Do("create", x)  BY <1>1
    <2>2. stmt.op = "create" /\ stmt.on = x  BY <2>1 DEF Do
    <2>. DEFINE cols == IF x \in file.objects THEN {} ELSE Columns(x)
                objs == file.objects \cup {x} \cup cols
    <2>3. e = [file EXCEPT !.objects = objs]  BY <2>2 DEF Effect
    <2>4. Columns(x) \in SUBSET AllObjects  BY ObjectValues DEF Columns
    <2>5. objs \in SUBSET AllObjects /\ file.objects \subseteq objs /\ x \in objs
        BY <2>4, <1>0
    <2>. HIDE DEF objs, e
    <2>6. /\ e \in File /\ e.objects = objs
          /\ e.versions = file.versions /\ e.stamp = file.stamp
        BY <2>3, <2>5 DEF File
    <2>. QED  BY <2>2, <2>5, <2>6 DEF Done, e
<1>2. CASE stmt = Do("drop", "indexes")
    <2>1. stmt.op = "drop" /\ stmt.on = "indexes"  BY <1>2 DEF Do
    <2>. DEFINE objs == file.objects \ {"indexes"}
    <2>2. e = [file EXCEPT !.objects = objs]  BY <2>1 DEF Effect
    <2>3. objs \in SUBSET AllObjects  BY <1>0
    <2>. HIDE DEF objs, e
    <2>4. /\ e \in File /\ e.objects = objs
          /\ e.versions = file.versions /\ e.stamp = file.stamp
        BY <2>2, <2>3 DEF File
    <2>. QED  BY <2>1, <2>4 DEF Done, e, objs
<1>3. CASE \E x \in AllObjects : stmt = Do("add", x)
    <2>1. PICK x \in AllObjects : stmt = Do("add", x)  BY <1>3
    <2>2. stmt.op = "add" /\ stmt.on = x  BY <2>1 DEF Do
    <2>. DEFINE objs == file.objects \cup {x}
    <2>3. e = [file EXCEPT !.objects = objs]  BY <2>2 DEF Effect
    <2>4. objs \in SUBSET AllObjects /\ file.objects \subseteq objs /\ x \in objs  BY <1>0
    <2>. HIDE DEF objs, e
    <2>5. /\ e \in File /\ e.objects = objs
          /\ e.versions = file.versions /\ e.stamp = file.stamp
        BY <2>3, <2>4 DEF File
    <2>. QED  BY <2>2, <2>4, <2>5 DEF Done, e
<1>4. CASE \E x \in Stamped : stmt = Do("restamp", x)
    <2>1. PICK x \in Stamped : stmt = Do("restamp", x)  BY <1>4
    <2>2. stmt.op = "restamp" /\ stmt.on = x  BY <2>1 DEF Do
    <2>. DEFINE new == IF file.stamp[x] = "sqlite" THEN "utc" ELSE file.stamp[x]
                stamps == [file.stamp EXCEPT ![x] = new]
    <2>3. new = "utc"  BY <1>0
    <2>4. e = [file EXCEPT !.stamp = stamps]  BY <2>2 DEF Effect
    <2>. HIDE DEF new
    <2>5. /\ stamps \in [Stamped -> {"sqlite", "utc"}]
          /\ stamps[x] = "utc"
          /\ \A t \in Stamped : file.stamp[t] = "utc" => stamps[t] = "utc"
        BY <2>3, <1>0
    <2>. HIDE DEF stamps, e
    <2>6. /\ e \in File /\ e.objects = file.objects
          /\ e.versions = file.versions /\ e.stamp = stamps
        BY <2>4, <2>5 DEF File
    <2>. QED  BY <2>2, <2>5, <2>6 DEF Done, e
<1>5. CASE stmt = Do("copy", "models")
    <2>1. stmt.op = "copy"  BY <1>5 DEF Do
    <2>2. e = file  BY <2>1 DEF Effect
    <2>. HIDE DEF e
    <2>. QED  BY <2>1, <2>2 DEF Done, e
<1>. QED  BY KindCases, <1>1, <1>2, <1>3, <1>4, <1>5

\* No statement of the next version finds its table missing.
LEMMA NeverRaises ==
    ASSUME NEW k \in 0..Latest, k < Latest, NEW file, Migrated(file, k), NEW stmt \in Kind(k + 1)
    PROVE  ~Raises(stmt, file)
<1>1. k + 1 \in Version /\ k \in Nat  BY DEF Version, Latest
<1>2. k >= 1 => {"models", "request_log", "leaderboard_cache", "config_overrides"} \subseteq file.objects
    <2>. SUFFICES ASSUME k >= 1  PROVE Provides(1) \subseteq file.objects
        BY ProvidesValues
    <2>1. 1 \in 1..k  BY <1>1
    <2>. QED  BY <2>1 DEF Migrated
<1>3. CASE \E x \in AllObjects : stmt = Do("create", x)  BY <1>3 DEF Raises, Do
<1>4. CASE stmt = Do("drop", "indexes")  BY <1>4 DEF Raises, Do
<1>5. CASE k + 1 \in {4, 5, 6} /\ \E x \in AllObjects : stmt = Do("add", x)
    <2>1. PICK x \in AllObjects : stmt = Do("add", x)  BY <1>5
    <2>2. TableOf(x) \in file.objects  BY <1>1, <1>2, <1>5 DEF TableOf
    <2>. QED  BY <2>1, <2>2 DEF Raises, Do
<1>6. CASE k + 1 = 3 /\ \E x \in Stamped : stmt = Do("restamp", x)
    <2>1. PICK x \in Stamped : stmt = Do("restamp", x)  BY <1>6
    <2>2. x \in file.objects  BY <1>1, <1>2, <1>6 DEF Stamped
    <2>. QED  BY <2>1, <2>2 DEF Raises, Do
<1>7. CASE k + 1 = 6 /\ stmt = Do("copy", "models")
    <2>1. "models" \in file.objects  BY <1>1, <1>2, <1>7
    <2>. QED  BY <2>1, <1>7 DEF Raises, Do
<1>. QED  BY <1>1, KindCases, <1>3, <1>4, <1>5, <1>6, <1>7

\* A statement of the next version leaves the recorded ones applied.
LEMMA StatementKeeps ==
    ASSUME NEW k \in 0..Latest, k < Latest, NEW file, Migrated(file, k), NEW stmt \in Kind(k + 1)
    PROVE  Migrated(Effect(stmt, file), k)
<1>. DEFINE e == Effect(stmt, file)
<1>1. k + 1 \in Version /\ k \in Nat  BY DEF Version, Latest
<1>2. file \in File  BY DEF Migrated
<1>3. /\ e \in File
      /\ e.versions = file.versions
      /\ file.objects \ {"indexes"} \subseteq e.objects
      /\ stmt.op # "drop" => file.objects \subseteq e.objects
      /\ \A t \in Stamped : file.stamp[t] = "utc" => e.stamp[t] = "utc"
    BY <1>1, <1>2, EffectFields
<1>4. stmt.op = "drop" => k = 1
    <2>. SUFFICES ASSUME stmt.op = "drop"  PROVE k + 1 = 2
        BY <1>1
    <2>. QED  BY <1>1, KindCases DEF Do
<1>. HIDE DEF e
<1>5. ASSUME NEW v \in 1..k  PROVE Provides(v) \subseteq e.objects
    <2>1. Provides(v) \subseteq file.objects  BY DEF Migrated
    <2>2. CASE stmt.op # "drop"  BY <2>1, <2>2, <1>3
    <2>3. CASE stmt.op = "drop"
        <3>1. v = 1  BY <2>3, <1>4
        <3>2. "indexes" \notin Provides(1)  BY ProvidesValues
        <3>. QED  BY <3>1, <3>2, <2>1, <1>3
    <2>. QED  BY <2>2, <2>3
<1>6. k >= 3 => \A t \in Stamped : e.stamp[t] = "utc"  BY <1>3 DEF Migrated
<1>7. e.versions = 1..k  BY <1>3 DEF Migrated
<1>. QED  BY <1>3, <1>5, <1>6, <1>7 DEF Migrated, e

\* What an earlier statement of the same version has done stays done.
LEMMA EarlierStays ==
    ASSUME NEW v \in Version, NEW file \in File,
           NEW i \in DOMAIN Statements(v), NEW l \in DOMAIN Statements(v), i < l,
           Done(Statements(v)[i], file)
    PROVE  Done(Statements(v)[i], Effect(Statements(v)[l], file))
<1>. DEFINE s == Statements(v)[i]
            t == Statements(v)[l]
            e == Effect(t, file)
<1>1. s \in Kind(v) /\ t \in Kind(v) /\ DOMAIN Statements(v) = 1..Len(Statements(v))
    BY StatementKinds
<1>2. t.op # "drop"
    <2>. SUFFICES ASSUME t.op = "drop"  PROVE FALSE
        OBVIOUS
    <2>1. v = 2
        <3>. HIDE DEF t
        <3>. QED  BY <1>1, KindCases DEF Do
    <2>2. Statements(2) = <<Do("drop", "indexes"), Do("create", "indexes")>>
        BY StatementValues
    <2>3. i \in 1..2 /\ l \in 1..2  BY <2>1, <2>2
    <2>4. l = 2  BY <2>3
    <2>5. t = Do("create", "indexes")  BY <2>1, <2>2, <2>4
    <2>. QED  BY <2>5 DEF Do
<1>3. s.op = "restamp" => s.on \in Stamped
    <2>. HIDE DEF s
    <2>. QED  BY <1>1, KindCases DEF Do
<1>4. /\ file.objects \subseteq e.objects
      /\ \A x \in Stamped : file.stamp[x] = "utc" => e.stamp[x] = "utc"
    <2>. HIDE DEF t
    <2>. QED  BY <1>1, <1>2, EffectFields
<1>. HIDE DEF s, e
<1>5. Done(s, file)  BY DEF s
<1>6. Done(s, e)  BY <1>3, <1>4, <1>5 DEF Done
<1>. QED  BY <1>6 DEF s, e, t

\* When all its statements are done the version has left what it is there for.
LEMMA AllDone ==
    ASSUME NEW v \in Version, NEW file \in File,
           \A i \in DOMAIN Statements(v) : Done(Statements(v)[i], file)
    PROVE  /\ Provides(v) \subseteq file.objects
           /\ v = 3 => \A t \in Stamped : file.stamp[t] = "utc"
<1>1. v \in {1, 2, 3, 4, 5, 6, 7, 8, 9}  BY VersionValues
<1>2. DOMAIN Statements(v) = 1..Len(Statements(v))
    BY StatementKinds
<1>3. \A x : Done(Do("create", x), file) => x \in file.objects  BY DEF Done, Do
<1>4. \A x : Done(Do("add", x), file) => x \in file.objects  BY DEF Done, Do
<1>5. \A x : Done(Do("restamp", x), file) => file.stamp[x] = "utc"  BY DEF Done, Do
<1>6. CASE v = 1
    <2>1. \A i \in 1..7 : Done(Do("create", BaseTables[i]), file)
        BY <1>2, <1>6, StatementValues
    <2>2. \A i \in 1..7 : BaseTables[i] \in file.objects  BY <2>1, <1>3
    <2>3. 1 \in 1..7 /\ 2 \in 1..7 /\ 3 \in 1..7 /\ 4 \in 1..7  OBVIOUS
    <2>4. /\ "models" \in file.objects /\ "request_log" \in file.objects
          /\ "leaderboard_cache" \in file.objects /\ "config_overrides" \in file.objects
        BY <2>2, <2>3, TableValues
    <2>. QED  BY <2>4, <1>6, ProvidesValues
<1>7. CASE v = 2
    <2>1. Statements(2) = <<Do("drop", "indexes"), Do("create", "indexes")>>
        BY StatementValues
    <2>2. 2 \in DOMAIN Statements(2) /\ Statements(2)[2] = Do("create", "indexes")  BY <2>1
    <2>3. "indexes" \in file.objects  BY <2>2, <1>3, <1>7
    <2>. QED  BY <2>3, <1>7, ProvidesValues
<1>8. CASE v = 3
    <2>1. Statements(3) = <<Do("restamp", "config_overrides"), Do("restamp", "leaderboard_cache")>>
        BY StatementValues
    <2>2. /\ 1 \in DOMAIN Statements(3) /\ Statements(3)[1] = Do("restamp", "config_overrides")
          /\ 2 \in DOMAIN Statements(3) /\ Statements(3)[2] = Do("restamp", "leaderboard_cache")
        BY <2>1
    <2>3. file.stamp["config_overrides"] = "utc" /\ file.stamp["leaderboard_cache"] = "utc"
        BY <2>2, <1>5, <1>8
    <2>. QED  BY <2>3, <1>8, ProvidesValues DEF Stamped
<1>9. CASE v \in {4, 5, 6}
    <2>. DEFINE x == IF v = 4 THEN "log_columns" ELSE IF v = 5 THEN "selected_context_window"
                     ELSE "provider_rank"
    <2>1. 1 \in DOMAIN Statements(v) /\ Statements(v)[1] = Do("add", x)
        BY <1>9, StatementValues
    <2>2. x \in file.objects  BY <2>1, <1>4
    <2>3. Provides(v) = {x}  BY <1>9, ProvidesValues
    <2>. QED  BY <2>2, <2>3, <1>9
<1>10. CASE v \in {7, 8, 9}
    <2>. DEFINE x == IF v = 7 THEN "managed_secrets" ELSE IF v = 8 THEN "secret_vault_config"
                     ELSE "gateway_auth_config"
    <2>1. 1 \in DOMAIN Statements(v) /\ Statements(v)[1] = Do("create", x)
        BY <1>10, StatementValues
    <2>2. x \in file.objects  BY <2>1, <1>3
    <2>3. Provides(v) = {x}  BY <1>10, ProvidesValues
    <2>. QED  BY <2>2, <2>3, <1>10
<1>. QED  BY <1>1, <1>6, <1>7, <1>8, <1>9, <1>10

\* Recording the next version, once its statements have been run.
LEMMA RecordKeeps ==
    ASSUME NEW k \in 0..Latest, k < Latest, NEW file, Migrated(file, k),
           \A i \in DOMAIN Statements(k + 1) : Done(Statements(k + 1)[i], file)
    PROVE  Migrated([file EXCEPT !.versions = @ \cup {k + 1}], k + 1)
<1>. DEFINE vs == file.versions \cup {k + 1}
            r == [file EXCEPT !.versions = vs]
<1>1. k + 1 \in Version /\ k \in Nat /\ file \in File  BY DEF Version, Latest, Migrated
<1>2. /\ Provides(k + 1) \subseteq file.objects
      /\ k + 1 = 3 => \A t \in Stamped : file.stamp[t] = "utc"
    BY <1>1, AllDone
<1>3. vs = 1..(k + 1) /\ vs \in SUBSET Version
    <2>1. vs = 1..(k + 1)  BY <1>1 DEF Migrated
    <2>. QED  BY <2>1, <1>1 DEF Version
<1>. HIDE DEF vs
<1>4. r \in File /\ r.versions = vs /\ r.objects = file.objects /\ r.stamp = file.stamp
    BY <1>1, <1>3 DEF File
<1>. HIDE DEF r
<1>5. ASSUME NEW v \in 1..(k + 1)  PROVE Provides(v) \subseteq r.objects
    <2>1. CASE v = k + 1  BY <2>1, <1>2, <1>4
    <2>2. CASE v # k + 1
        <3>1. v \in 1..k  BY <2>2, <1>1
        <3>. QED  BY <3>1, <1>4 DEF Migrated
    <2>. QED  BY <2>1, <2>2
<1>6. ASSUME k + 1 >= 3  PROVE \A t \in Stamped : r.stamp[t] = "utc"
    <2>1. CASE k + 1 = 3  BY <2>1, <1>2, <1>4
    <2>2. CASE k + 1 # 3
        <3>1. k >= 3  BY <2>2, <1>6, <1>1
        <3>. QED  BY <3>1, <1>4 DEF Migrated
    <2>. QED  BY <2>1, <2>2
<1>7. Migrated(r, k + 1)  BY <1>3, <1>4, <1>5, <1>6 DEF Migrated
<1>. QED  BY <1>7 DEF r, vs

\* The file a release leaves.
LEMMA ReleaseMigrated ==
    ASSUME NEW r \in 0..Latest
    PROVE  Migrated(Release(r), r)
<1>. DEFINE f == Release(r)
            objs == UNION {Provides(v) : v \in 1..r}
            stamps == [t \in Stamped |-> IF r \in {1, 2} THEN "sqlite" ELSE "utc"]
<1>1. r \in Nat /\ 1..r \in SUBSET Version  BY DEF Version, Latest
<1>2. f = [objects |-> objs, versions |-> 1..r, stamp |-> stamps]
    BY DEF Release, Stamped
<1>3. objs \in SUBSET AllObjects /\ \A v \in 1..r : Provides(v) \subseteq objs
    BY <1>1 DEF AllObjects
<1>4. stamps \in [Stamped -> {"sqlite", "utc"}]  OBVIOUS
<1>5. r >= 3 => \A t \in Stamped : stamps[t] = "utc"  BY <1>1
<1>. HIDE DEF f, objs, stamps
<1>6. f \in File /\ f.objects = objs /\ f.versions = 1..r /\ f.stamp = stamps
    BY <1>1, <1>2, <1>3, <1>4 DEF File
<1>7. Migrated(f, r)  BY <1>3, <1>5, <1>6 DEF Migrated
<1>. QED  BY <1>7 DEF f

\* A file with all versions is what the latest release makes.
LEMMA FullyMigrated ==
    ASSUME NEW file, Migrated(file, Latest)
    PROVE  file = Release(Latest)
<1>. DEFINE objs == UNION {Provides(v) : v \in 1..Latest}
            stamps == [t \in Stamped |-> IF Latest \in {1, 2} THEN "sqlite" ELSE "utc"]
<1>1. Release(Latest) = [objects |-> objs, versions |-> 1..Latest, stamp |-> stamps]
    BY DEF Release, Stamped
<1>2. file = [objects |-> file.objects, versions |-> file.versions, stamp |-> file.stamp]
    BY DEF Migrated, File
<1>3. file.objects = objs
    <2>1. file.objects \subseteq AllObjects /\ AllObjects = objs
        BY DEF Migrated, File, AllObjects, Version, Latest
    <2>2. objs \subseteq file.objects  BY DEF Migrated
    <2>. QED  BY <2>1, <2>2
<1>4. file.stamp = stamps
    <2>1. file.stamp \in [Stamped -> {"sqlite", "utc"}]  BY DEF Migrated, File
    <2>2. \A t \in Stamped : file.stamp[t] = "utc"  BY DEF Migrated, Latest
    <2>3. \A t \in Stamped : stamps[t] = "utc"  BY DEF Latest
    <2>. QED  BY <2>1, <2>2, <2>3
<1>5. file.versions = 1..Latest  BY DEF Migrated
<1>. QED  BY <1>1, <1>2, <1>3, <1>4, <1>5

\* The migration init() has reached.
LEMMA CurrentVersion ==
    ASSUME NEW k \in 0..Latest, Migrated(conn, k)
    PROVE  /\ Pending(conn) # {} <=> k < Latest
           /\ k < Latest => Current = k + 1
<1>1. k \in Nat /\ k <= 9 /\ Latest = 9  BY DEF Latest
<1>2. Pending(conn) = (k + 1)..9
    <2>1. conn.versions = 1..k  BY DEF Migrated
    <2>. QED  BY <2>1, <1>1 DEF Pending, Version
<1>3. Pending(conn) # {} <=> k < Latest
    <2>1. k < 9 => k + 1 \in (k + 1)..9  BY <1>1
    <2>2. ~(k < 9) => (k + 1)..9 = {}  BY <1>1
    <2>. QED  BY <2>1, <2>2, <1>1, <1>2
<1>4. ASSUME k < Latest  PROVE Current = k + 1
    <2>1. k + 1 \in Pending(conn) /\ \A w \in Pending(conn) : k + 1 <= w
        BY <1>1, <1>2, <1>4
    <2>2. \A v \in Pending(conn) : (\A w \in Pending(conn) : v <= w) => v = k + 1
        BY <2>1, <1>1, <1>2
    <2>. QED  BY <2>1, <2>2 DEF Current
<1>. QED  BY <1>3, <1>4

-------------------------------------------------------------------------------
\* The steps of init() and the invariant

\* A file of any release is there at the first start.
LEMMA InitInvInit == MigrationInit => InitInv
<1>. SUFFICES ASSUME MigrationInit  PROVE InitInv
    OBVIOUS
<1>1. PICK r \in 0..Latest : durable = Release(r)  BY DEF MigrationInit
<1>2. Migrated(durable, r)  BY <1>1, ReleaseMigrated
<1>3. conn = durable /\ inTx = FALSE /\ line = 0 /\ phase = "down"  BY DEF MigrationInit
<1>4. Reached(conn, r, 0)  BY DEF Reached
<1>. QED  BY <1>1, <1>2, <1>3, <1>4 DEF InitInv

\* One statement.
LEMMA RunStatementKeeps ==
    ASSUME InitInv, RunStatement
    PROVE  InitInv' /\ phase' = phase
<1>1. /\ phase = "migrating" /\ line > 0 /\ line \in Nat /\ inTx \in BOOLEAN
      /\ ~inTx => conn = durable
    BY DEF InitInv, RunStatement
<1>2. PICK k \in 0..Latest : Migrated(conn, k) /\ Reached(conn, k, line)  BY DEF InitInv
<1>3. PICK j \in 0..Latest : Migrated(durable, j)  BY DEF InitInv
<1>. DEFINE v == k + 1
            stmt == Statements(v)[line]
            after == Effect(stmt, conn)
            tx == inTx \/ stmt.op \in {"restamp", "copy"}
<1>4. /\ k < Latest
      /\ \A i \in DOMAIN Statements(v) : i < line => Done(Statements(v)[i], conn)
    BY <1>1, <1>2 DEF Reached
<1>5. Current = v  BY <1>2, <1>4, CurrentVersion
<1>6. v \in Version /\ conn \in File  BY <1>2, <1>4 DEF Version, Latest, Migrated
<1>7. Len(Statements(v)) \in Nat /\ DOMAIN Statements(v) = 1..Len(Statements(v))
    BY <1>6, StatementKinds
<1>8. line \in DOMAIN Statements(v)
    <2>1. line <= Len(Statements(v))  BY <1>5 DEF RunStatement
    <2>. QED  BY <2>1, <1>1, <1>7
<1>9. stmt \in Kind(v)  BY <1>6, <1>8, StatementKinds
<1>10. ~Raises(stmt, conn)
    <2>. HIDE DEF stmt
    <2>. QED  BY <1>2, <1>4, <1>9, NeverRaises
<1>11. /\ conn' = after
       /\ inTx' = tx
       /\ durable' = IF tx THEN durable ELSE after
       /\ line' = line + 1
       /\ phase' = phase
    BY <1>5, <1>10 DEF RunStatement
<1>12. Migrated(after, k)
    <2>. HIDE DEF stmt
    <2>. QED  BY <1>2, <1>4, <1>9, StatementKeeps
<1>13. \A i \in DOMAIN Statements(v) : i < line + 1 => Done(Statements(v)[i], after)
    <2>. SUFFICES ASSUME NEW i \in DOMAIN Statements(v), i < line + 1
                  PROVE  Done(Statements(v)[i], after)
        OBVIOUS
    <2>1. CASE i = line
        <3>1. Done(stmt, after)
            <4>. HIDE DEF stmt
            <4>. QED  BY <1>6, <1>9, EffectFields
        <3>. QED  BY <2>1, <3>1
    <2>2. CASE i # line
        <3>1. i < line  BY <2>2, <1>1, <1>7
        <3>2. Done(Statements(v)[i], conn)  BY <3>1, <1>4
        <3>. QED  BY <3>1, <3>2, <1>6, <1>8, EarlierStays
    <2>. QED  BY <2>1, <2>2
<1>. HIDE DEF after, tx
<1>14. Reached(after, k, line + 1)
    <2>1. line + 1 <= Len(Statements(v)) + 1  BY <1>1, <1>7, <1>8
    <2>. QED  BY <2>1, <1>4, <1>13 DEF Reached
<1>15. \E i \in 0..Latest : Migrated(durable', i)  BY <1>3, <1>11, <1>12
<1>16. tx \in BOOLEAN  BY <1>1 DEF tx
<1>17. ~inTx' => conn' = durable'  BY <1>11
<1>. QED  BY <1>1, <1>2, <1>11, <1>12, <1>14, <1>15, <1>16, <1>17 DEF InitInv

\* Every other step of init(), and its crash.
LEMMA InitStepKeeps ==
    ASSUME InitInv, InitStep \/ CrashInit
    PROVE  InitInv' /\ phase # "running" /\ phase' # "running"
<1>0. /\ phase \in {"down", "migrating", "migrated", "running", "aborted"}
      /\ line \in Nat /\ inTx \in BOOLEAN
      /\ ~inTx => conn = durable
      /\ phase # "migrating" => line = 0 /\ conn = durable
    BY DEF InitInv
<1>1. PICK k \in 0..Latest : Migrated(conn, k) /\ Reached(conn, k, line)  BY DEF InitInv
<1>2. PICK j \in 0..Latest : Migrated(durable, j)  BY DEF InitInv
<1>3. /\ Pending(conn) # {} <=> k < Latest
      /\ k < Latest => Current = k + 1
    BY <1>1, CurrentVersion
<1>4. \A i \in 0..Latest : i \in Nat /\ i <= Latest  BY DEF Latest
<1>5. CASE BeginInit
    <2>1. /\ phase = "down" /\ phase' = "migrating" /\ conn' = durable /\ inTx' = TRUE
          /\ line' = 0 /\ durable' = durable
        BY <1>5 DEF BeginInit
    <2>2. Reached(conn', j, line')  BY <2>1 DEF Reached
    <2>. QED  BY <2>1, <2>2, <1>2 DEF InitInv
<1>6. CASE StartMigration
    <2>1. /\ phase = "migrating" /\ phase' = phase /\ line' = 1 /\ conn' = conn
          /\ Pending(conn) # {}
          /\ \/ durable' = conn /\ inTx' = FALSE
             \/ durable' = durable /\ inTx' = inTx
        BY <1>6 DEF StartMigration
    <2>2. k < Latest  BY <2>1, <1>3
    <2>3. k + 1 \in Version  BY <2>2 DEF Version, Latest
    <2>4. Len(Statements(k + 1)) \in Nat /\ DOMAIN Statements(k + 1) = 1..Len(Statements(k + 1))
        BY <2>3, StatementKinds
    <2>5. Reached(conn, k, 1)  BY <2>2, <2>4 DEF Reached
    <2>6. \E i \in 0..Latest : Migrated(durable', i)  BY <2>1, <1>1, <1>2
    <2>7. inTx' \in BOOLEAN /\ (~inTx' => conn' = durable')  BY <2>1, <1>0
    <2>8. Migrated(conn', k) /\ Reached(conn', k, line')  BY <2>1, <2>5, <1>1
    <2>. QED  BY <2>1, <2>6, <2>7, <2>8 DEF InitInv
<1>7. CASE RunStatement
    <2>1. phase = "migrating"  BY <1>7 DEF RunStatement
    <2>. QED  BY <2>1, <1>7, RunStatementKeeps
<1>8. CASE RecordVersion
    <2>1. /\ phase = "migrating" /\ phase' = phase /\ line > 0
          /\ line > Len(Statements(Current))
          /\ conn' = [conn EXCEPT !.versions = @ \cup {Current}]
          /\ inTx' = TRUE /\ line' = 0 /\ durable' = durable
        BY <1>8 DEF RecordVersion
    <2>2. /\ k < Latest
          /\ \A i \in DOMAIN Statements(k + 1) : i < line => Done(Statements(k + 1)[i], conn)
        BY <2>1, <1>1 DEF Reached
    <2>3. Current = k + 1 /\ k + 1 \in Version  BY <2>2, <1>3 DEF Version, Latest
    <2>4. Len(Statements(k + 1)) \in Nat /\ DOMAIN Statements(k + 1) = 1..Len(Statements(k + 1))
        BY <2>3, StatementKinds
    <2>5. \A i \in DOMAIN Statements(k + 1) : i < line
        BY <2>1, <2>3, <2>4, <1>0
    <2>6. Migrated(conn', k + 1)
        <3>1. conn' = [conn EXCEPT !.versions = @ \cup {k + 1}]  BY <2>1, <2>3
        <3>2. \A i \in DOMAIN Statements(k + 1) : Done(Statements(k + 1)[i], conn)
            BY <2>2, <2>5
        <3>. QED  BY <3>1, <3>2, <2>2, <1>1, RecordKeeps
    <2>7. k + 1 \in 0..Latest  BY <2>2 DEF Latest
    <2>8. Reached(conn', k + 1, 0)  BY DEF Reached
    <2>. QED  BY <2>1, <2>6, <2>7, <2>8, <1>2 DEF InitInv
<1>9. CASE CommitInit
    <2>1. /\ phase = "migrating" /\ phase' = "migrated" /\ line = 0 /\ line' = line
          /\ Pending(conn) = {} /\ durable' = conn /\ conn' = conn /\ inTx' = FALSE
        BY <1>9 DEF CommitInit
    <2>2. k = Latest  BY <2>1, <1>3, <1>4 DEF Latest
    <2>. QED  BY <2>1, <2>2, <1>1 DEF InitInv
<1>10. CASE CrashInit
    <2>1. /\ phase = "migrating" /\ phase' = "down" /\ line' = 0
          /\ durable' = durable /\ conn' = durable /\ inTx' = FALSE
        BY <1>10 DEF CrashInit
    <2>2. Reached(conn', j, line')  BY <2>1 DEF Reached
    <2>. QED  BY <2>1, <2>2, <1>2 DEF InitInv
<1>. QED  BY <1>5, <1>6, <1>7, <1>8, <1>9, <1>10 DEF InitStep

\* The phases of the process around init().
LEMMA PhaseKeeps ==
    ASSUME InitInv, UNCHANGED <<durable, conn, inTx, line>>,
           \/ phase = "migrated" /\ phase' \in {"running", "aborted"}
           \/ phase \in {"running", "aborted"} /\ phase' = "down"
           \/ phase' = phase
    PROVE  InitInv'
BY DEF InitInv

\* What the invariant says of the file.
LEMMA InitInvSafe == InitInv => MigrationsInv
<1>. SUFFICES ASSUME InitInv  PROVE MigrationsInv
    OBVIOUS
<1>1. PICK j \in 0..Latest : Migrated(durable, j)  BY DEF InitInv
<1>2. RecordedIsApplied  BY <1>1 DEF RecordedIsApplied, Migrated
<1>3. RerunIsHarmless
    <2>1. durable.stamp \in [Stamped -> {"sqlite", "utc"}]  BY <1>1 DEF Migrated, File
    <2>2. phase # "failed"  BY DEF InitInv
    <2>. QED  BY <2>1, <2>2 DEF RerunIsHarmless
<1>4. SchemaReady
    <2>. SUFFICES ASSUME phase \in {"migrated", "running", "aborted"}
                  PROVE  durable = Release(Latest)
        BY DEF SchemaReady
    <2>1. Migrated(durable, Latest)  BY DEF InitInv
    <2>. QED  BY <2>1, FullyMigrated
<1>. QED  BY <1>2, <1>3, <1>4 DEF MigrationsInv, CrashSafe

-------------------------------------------------------------------------------
\* The throttles keep their type

\* Without a client's entry.
LEMMA OthersBounded ==
    ASSUME NEW es \in Seq(Entry), NEW c
    PROVE  /\ Others(es, c) \in Seq(Entry)
           /\ Len(Others(es, c)) <= Len(es)
           /\ Known(es, c) => Len(Others(es, c)) = Len(es) - 1 /\ EntryOf(es, c) \in Entry
<1>. DEFINE n == IndexOf(es, c)
            s == SubSeq(es, 1, n - 1)
            t == SubSeq(es, n + 1, Len(es))
<1>1. CASE ~Known(es, c)
    <2>1. Others(es, c) = es  BY <1>1 DEF Others
    <2>2. Len(es) <= Len(es)  OBVIOUS
    <2>. QED  BY <1>1, <2>1, <2>2
<1>2. CASE Known(es, c)
    <2>1. n \in 1..Len(es)
        <3>1. n \in DOMAIN es  BY <1>2 DEF Known, IndexOf
        <3>. QED  BY <3>1
    <2>. HIDE DEF n
    <2>2. s \in Seq(Entry) /\ Len(s) = n - 1  BY <2>1
    <2>3. t \in Seq(Entry) /\ Len(t) = Len(es) - n
        <3>1. \A i \in (n + 1)..Len(es) : es[i] \in Entry  BY <2>1
        <3>2. t \in Seq(Entry)  BY <3>1, <2>1
        <3>3. Len(t) = Len(es) - n  BY <2>1
        <3>. QED  BY <3>2, <3>3
    <2>. HIDE DEF s, t
    <2>4. Others(es, c) = s \o t  BY <1>2 DEF Others, RemoveAt, n, s, t
    <2>5. s \o t \in Seq(Entry) /\ Len(s \o t) = Len(s) + Len(t)
        BY <2>2, <2>3, ConcatProperties
    <2>6. Len(s \o t) = Len(es) - 1  BY <2>1, <2>2, <2>3, <2>5
    <2>7. Len(es) - 1 <= Len(es)  OBVIOUS
    <2>8. EntryOf(es, c) \in Entry  BY <2>1 DEF EntryOf, n
    <2>. QED  BY <2>4, <2>5, <2>6, <2>7, <2>8
<1>. QED  BY <1>1, <1>2

\* After a look.
LEMMA LookedAtBounded ==
    ASSUME NEW es \in Bounded, NEW c
    PROVE  LookedAt(es, c) \in Bounded
<1>0. es \in Seq(Entry) /\ Len(es) <= MaxEntries /\ MaxEntries \in Nat /\ Len(es) \in Nat
    BY ThrottleAssumption DEF Bounded
<1>. DEFINE o == Others(es, c)
            e == EntryOf(es, c)
<1>1. o \in Seq(Entry) /\ Len(o) <= Len(es)
      /\ (Known(es, c) => Len(o) = Len(es) - 1 /\ e \in Entry)
    BY <1>0, OthersBounded
<1>2. CASE Known(es, c) /\ e.age < Window
    <2>1. LookedAt(es, c) = Append(o, e)  BY <1>2 DEF LookedAt
    <2>. HIDE DEF o, e
    <2>2. Append(o, e) \in Seq(Entry) /\ Len(Append(o, e)) = Len(es)  BY <1>0, <1>1, <1>2
    <2>. QED  BY <2>1, <2>2, <1>0 DEF Bounded
<1>3. CASE ~(Known(es, c) /\ e.age < Window)
    <2>1. LookedAt(es, c) = o  BY <1>3 DEF LookedAt
    <2>. HIDE DEF o
    <2>2. Len(o) <= MaxEntries  BY <1>0, <1>1
    <2>. QED  BY <2>1, <2>2, <1>1 DEF Bounded
<1>. QED  BY <1>2, <1>3

\* After a failure.
LEMMA FailBounded ==
    ASSUME NEW es \in Bounded, NEW c \in Client
    PROVE  Fail(es, c) \in Bounded
<1>0. es \in Seq(Entry) /\ Len(es) <= MaxEntries /\ Len(es) \in Nat
    BY DEF Bounded
<1>1. MaxEntries \in Nat \ {0} /\ Limit \in Nat \ {0} /\ Window \in Nat \ {0}
    BY ThrottleAssumption
<1>. DEFINE o == Others(es, c)
            e == EntryOf(es, c)
            new == IF Known(es, c) /\ e.age < Window
                   THEN [e EXCEPT !.count = AtMost(e.count + 1, Limit)]
                   ELSE [client |-> c, count |-> 1, age |-> 0]
            all == Append(o, new)
<1>2. o \in Seq(Entry) /\ Len(o) <= Len(es) /\ (Known(es, c) => e \in Entry)
    BY <1>0, OthersBounded
<1>3. Fail(es, c) = IF Len(all) > MaxEntries THEN Tail(all) ELSE all  BY DEF Fail
<1>. HIDE DEF o, e
<1>4. new \in Entry
    <2>1. CASE Known(es, c) /\ e.age < Window
        <3>. DEFINE n == AtMost(e.count + 1, Limit)
        <3>1. n \in 1..Limit  BY <2>1, <1>1, <1>2 DEF AtMost, Entry
        <3>. HIDE DEF n
        <3>2. [e EXCEPT !.count = n] \in Entry  BY <2>1, <1>2, <3>1 DEF Entry
        <3>. QED  BY <3>2, <2>1 DEF n
    <2>2. CASE ~(Known(es, c) /\ e.age < Window)
        <3>1. 1 \in 1..Limit /\ 0 \in 0..Window  BY <1>1
        <3>2. [client |-> c, count |-> 1, age |-> 0] \in Entry  BY <3>1 DEF Entry
        <3>. QED  BY <3>2, <2>2
    <2>. QED  BY <2>1, <2>2
<1>. HIDE DEF new
<1>5. all \in Seq(Entry) /\ Len(all) = Len(o) + 1 /\ Len(o) \in Nat  BY <1>2, <1>4
<1>. HIDE DEF all
<1>6. CASE Len(all) > MaxEntries
    <2>1. Len(all) = MaxEntries + 1  BY <1>6, <1>5, <1>0, <1>1, <1>2
    <2>2. Tail(all) \in Seq(Entry) /\ Len(Tail(all)) = MaxEntries  BY <2>1, <1>1, <1>5
    <2>3. Len(Tail(all)) <= MaxEntries  BY <2>2, <1>1
    <2>. QED  BY <2>2, <2>3, <1>3, <1>6 DEF Bounded
<1>7. CASE ~(Len(all) > MaxEntries)
    <2>1. Len(all) <= MaxEntries  BY <1>7, <1>5, <1>1
    <2>. QED  BY <2>1, <1>3, <1>5, <1>7 DEF Bounded
<1>. QED  BY <1>6, <1>7

\* After an attempt.
LEMMA AttemptBounded ==
    ASSUME NEW es \in Bounded, NEW c \in Client, NEW valid \in BOOLEAN
    PROVE  Attempt(es, c, valid).entries \in Bounded
<1>. DEFINE look == LookedAt(es, c)
<1>1. look \in Bounded  BY LookedAtBounded
<1>2. CASE Blocks(es, c)
    <2>1. Attempt(es, c, valid).entries = look  BY <1>2 DEF Attempt
    <2>. QED  BY <2>1, <1>1
<1>3. CASE ~Blocks(es, c) /\ valid
    <2>1. Attempt(es, c, valid).entries = Others(look, c)  BY <1>3 DEF Attempt, Reset
    <2>. HIDE DEF look
    <2>2. look \in Seq(Entry) /\ Len(look) <= MaxEntries /\ MaxEntries \in Nat
        BY <1>1, ThrottleAssumption DEF Bounded
    <2>3. Others(look, c) \in Seq(Entry) /\ Len(Others(look, c)) <= Len(look)
        BY <2>2, OthersBounded
    <2>4. Len(Others(look, c)) <= MaxEntries
        <3>1. Len(Others(look, c)) \in Nat /\ Len(look) \in Nat  BY <2>2, <2>3
        <3>. QED  BY <3>1, <2>2, <2>3
    <2>. QED  BY <2>1, <2>3, <2>4 DEF Bounded
<1>4. CASE ~Blocks(es, c) /\ ~valid
    <2>1. Attempt(es, c, valid).entries = LookedAt(Fail(look, c), c)  BY <1>4 DEF Attempt
    <2>. HIDE DEF look
    <2>2. Fail(look, c) \in Bounded  BY <1>1, FailBounded
    <2>. QED  BY <2>1, <2>2, LookedAtBounded
<1>. QED  BY <1>2, <1>3, <1>4

\* After a tick.
LEMMA ElapseBounded ==
    ASSUME NEW es \in Bounded
    PROVE  Elapse(es) \in Bounded
<1>0. es \in Seq(Entry) /\ Len(es) <= MaxEntries /\ Len(es) \in Nat /\ DOMAIN es = 1..Len(es)
    BY DEF Bounded
<1>. DEFINE aged(e) == [e EXCEPT !.age = AtMost(e.age + 1, Window)]
            r == [i \in 1..Len(es) |-> aged(es[i])]
<1>1. Elapse(es) = r  BY <1>0 DEF Elapse
<1>2. \A e \in Entry : aged(e) \in Entry
    <2>. TAKE e \in Entry
    <2>. DEFINE n == AtMost(e.age + 1, Window)
    <2>1. n \in 0..Window  BY ThrottleAssumption DEF Entry, AtMost
    <2>. HIDE DEF n
    <2>2. [e EXCEPT !.age = n] \in Entry  BY <2>1 DEF Entry
    <2>. QED  BY <2>2 DEF n
<1>. HIDE DEF aged
<1>3. r \in [1..Len(es) -> Entry]  BY <1>0, <1>2
<1>4. r \in Seq(Entry) /\ Len(r) = Len(es)  BY <1>3, <1>0
<1>. QED  BY <1>0, <1>1, <1>4 DEF Bounded

-------------------------------------------------------------------------------
\* The steps of a reload

\* What requests have to show is a token or nothing.
LEMMA ResolveAuth ==
    ASSUME NEW auth \in {"inherit", "disabled"} \cup Token
    PROVE  Resolve(auth) \in Auth
BY DEF Resolve, Auth

\* A step of one thread that reads, or puts back what it holds.
LEMMA ReloadKeeps ==
    ASSUME VaultIndInv, NEW t \in Thread, phase = "running",
           UNCHANGED outer,
           NEW f \in Frame, frame' = [frame EXCEPT ![t] = f],
           f.pc # "set store", frame[t].pc # "set store",
           app' \in App, registry' \in {"empty", "env", "managed"}, raised' \in BOOLEAN,
           ~overtaken =>
               /\ f.pc \in HoldsVault => f.vault = tables.vault
               /\ f.pc \in HoldsStore => f.store = wanted
               /\ f.pc = "put auth" => f.auth = Resolve(tables.auth)
               /\ app'.store = wanted
               /\ app'.vault \in {0, tables.vault}
               /\ tables.secret # 0 => app'.vault = tables.vault
               /\ \/ f.pc # "idle" /\ app'.auth = app.auth /\ raised' = raised
                  \/ raised'
                  \/ app'.auth = Resolve(tables.auth)
    PROVE  VaultIndInv'
<1>1. /\ phase' = phase /\ tables' = tables /\ fileValid' = fileValid /\ throttles' = throttles
      /\ made' = made /\ ops' = ops /\ wanted' = wanted /\ overtaken' = overtaken
      /\ crashes' = crashes
    BY DEF outer, migrationVars
<1>2. frame \in [Thread -> Frame] /\ frame["refresh"].pc # "set store"
    BY DEF VaultIndInv, TypeInv
<1>3. /\ frame' \in [Thread -> Frame]
      /\ frame'[t] = f
      /\ \A u \in Thread : u # t => frame'[u] = frame[u]
    BY <1>2
<1>4. "loop" \in Thread /\ "refresh" \in Thread  BY DEF Thread
<1>5. TypeInv'
    <2>1. frame'["refresh"].pc # "set store"  BY <1>2, <1>3, <1>4
    <2>2. TypeOK'  BY <1>1 DEF VaultIndInv, TypeInv, TypeOK, App, Auth
    <2>. QED  BY <2>1, <2>2, <1>1, <1>3 DEF VaultIndInv, TypeInv
<1>6. DownInv'  BY <1>1 DEF DownInv
<1>7. SecretsDecryptable'  BY <1>1 DEF VaultIndInv, SecretsDecryptable
<1>8. ASSUME ~overtaken  PROVE HeldInv'
    <2>1. HeldInv  BY <1>8 DEF VaultIndInv
    <2>. SUFFICES ASSUME NEW u \in Thread
                  PROVE  /\ frame'[u].pc \in HoldsVault => frame'[u].vault = tables.vault
                         /\ frame'[u].pc \in HoldsStore => frame'[u].store = wanted
                         /\ frame'[u].pc = "put auth" => frame'[u].auth = Resolve(tables.auth)
        BY <1>1 DEF HeldInv, Resolve
    <2>2. CASE u = t  BY <2>2, <1>3, <1>8
    <2>3. CASE u # t  BY <2>1, <2>3, <1>3 DEF HeldInv
    <2>. QED  BY <2>2, <2>3
<1>9. ASSUME ~overtaken  PROVE StateInv'
    <2>1. StateInv  BY <1>9 DEF VaultIndInv
    <2>2. app'.store = wanted /\ app.store = wanted /\ app'.vault \in {0, tables.vault}
        BY <2>1, <1>9 DEF StateInv
    <2>3. IF frame'["loop"].pc = "set store" THEN frame'["loop"].store \in {0, tables.vault}
          ELSE app'.store \in {0, tables.vault}
        <3>1. CASE t = "loop"  BY <3>1, <2>1, <2>2, <1>3 DEF StateInv
        <3>2. CASE t # "loop"  BY <3>2, <2>1, <2>2, <1>3, <1>4 DEF StateInv
        <3>. QED  BY <3>1, <3>2
    <2>. QED  BY <2>2, <2>3, <1>1, <1>9 DEF StateInv
<1>10. AuthCurrent'
    <2>. SUFFICES ASSUME frame'["loop"].pc = "idle", ~overtaken, ~raised'
                  PROVE  app'.auth = Resolve(tables.auth)
        BY <1>1 DEF AuthCurrent, Resolve
    <2>1. CASE f.pc # "idle" /\ app'.auth = app.auth /\ raised' = raised
        <3>1. t # "loop"  BY <2>1, <1>3
        <3>2. frame["loop"].pc = "idle"  BY <3>1, <1>3, <1>4
        <3>. QED  BY <3>2, <2>1 DEF VaultIndInv, AuthCurrent
    <2>. QED  BY <2>1
<1>. QED  BY <1>1, <1>5, <1>6, <1>7, <1>8, <1>9, <1>10 DEF VaultIndInv

\* The vault's configuration is read.
LEMMA ReadVaultKeeps ==
    ASSUME VaultIndInv, NEW t \in Thread, ReadVault(t)
    PROVE  VaultIndInv'
<1>. DEFINE f == [frame[t] EXCEPT !.pc = "store", !.vault = tables.vault]
<1>1. /\ frame[t].pc = "vault"
      /\ phase = "running"
      /\ frame' = [frame EXCEPT ![t] = f]
      /\ raised' = raised
      /\ UNCHANGED outer
      /\ app' = app
      /\ registry' = registry
    BY DEF ReadVault, At, Go
<1>2. /\ frame[t] \in Frame /\ app \in App /\ tables \in Tables
      /\ registry \in {"empty", "env", "managed"} /\ raised \in BOOLEAN
    BY DEF VaultIndInv, TypeInv, TypeOK, App, Auth, Tables
<1>3. "store" \in Pc  BY DEF Pc, HoldsVault, HoldsStore
<1>4. tables.vault \in Vault  BY <1>2 DEF Tables
<1>5. f \in Frame /\ f.pc = "store" /\ f.vault = tables.vault
      /\ f.store = frame[t].store /\ f.auth = frame[t].auth
    BY <1>2, <1>3, <1>4 DEF Frame
<1>. HIDE DEF f
<1>7. app' \in App /\ app'.store = app.store /\ app'.vault = app.vault /\ app'.auth = app.auth
    BY <1>1, <1>2
<1>8. registry' \in {"empty", "env", "managed"}  BY <1>1, <1>2
<1>9. /\ frame[t].pc \notin HoldsVault /\ f.pc \in HoldsVault
      /\ frame[t].pc \notin HoldsStore /\ f.pc \notin HoldsStore
    BY <1>1, <1>5 DEF HoldsVault, HoldsStore
<1>10. ASSUME ~overtaken
       PROVE  /\ f.pc \in HoldsVault => f.vault = tables.vault
              /\ f.pc \in HoldsStore => f.store = wanted
              /\ f.pc = "put auth" => f.auth = Resolve(tables.auth)
              /\ app'.store = wanted
              /\ app'.vault \in {0, tables.vault}
              /\ tables.secret # 0 => app'.vault = tables.vault
    <2>1. HeldInv /\ StateInv  BY <1>1, <1>10 DEF VaultIndInv
    <2>. QED  BY <2>1, <1>5, <1>7, <1>9 DEF HeldInv, StateInv
<1>11. f.pc # "idle" /\ app'.auth = app.auth /\ raised' = raised  BY <1>1, <1>5, <1>7
<1>12. f.pc # "set store" /\ frame[t].pc # "set store"  BY <1>1, <1>5
<1>. QED  BY <1>1, <1>2, <1>5, <1>7, <1>8, <1>10, <1>11, <1>12, ReloadKeeps

\* The secret store is read.
LEMMA ReadStoreKeeps ==
    ASSUME VaultIndInv, NEW t \in Thread, ReadStore(t)
    PROVE  VaultIndInv'
<1>. DEFINE f == [frame[t] EXCEPT !.pc = "secrets", !.store = app.store]
<1>1. /\ frame[t].pc = "store"
      /\ phase = "running"
      /\ frame' = [frame EXCEPT ![t] = f]
      /\ raised' = raised
      /\ UNCHANGED outer
      /\ app' = app
      /\ registry' = registry
    BY DEF ReadStore, At, Go
<1>2. /\ frame[t] \in Frame /\ app \in App /\ tables \in Tables
      /\ registry \in {"empty", "env", "managed"} /\ raised \in BOOLEAN
    BY DEF VaultIndInv, TypeInv, TypeOK, App, Auth, Tables
<1>3. "secrets" \in Pc  BY DEF Pc, HoldsVault, HoldsStore
<1>4. app.store \in Vault  BY <1>2 DEF App
<1>5. f \in Frame /\ f.pc = "secrets" /\ f.vault = frame[t].vault
      /\ f.store = app.store /\ f.auth = frame[t].auth
    BY <1>2, <1>3, <1>4 DEF Frame
<1>. HIDE DEF f
<1>7. app' \in App /\ app'.store = app.store /\ app'.vault = app.vault /\ app'.auth = app.auth
    BY <1>1, <1>2
<1>8. registry' \in {"empty", "env", "managed"}  BY <1>1, <1>2
<1>9. /\ frame[t].pc \in HoldsVault /\ f.pc \in HoldsVault
      /\ frame[t].pc \notin HoldsStore /\ f.pc \in HoldsStore
    BY <1>1, <1>5 DEF HoldsVault, HoldsStore
<1>10. ASSUME ~overtaken
       PROVE  /\ f.pc \in HoldsVault => f.vault = tables.vault
              /\ f.pc \in HoldsStore => f.store = wanted
              /\ f.pc = "put auth" => f.auth = Resolve(tables.auth)
              /\ app'.store = wanted
              /\ app'.vault \in {0, tables.vault}
              /\ tables.secret # 0 => app'.vault = tables.vault
    <2>1. HeldInv /\ StateInv  BY <1>1, <1>10 DEF VaultIndInv
    <2>. QED  BY <2>1, <1>5, <1>7, <1>9 DEF HeldInv, StateInv
<1>11. f.pc # "idle" /\ app'.auth = app.auth /\ raised' = raised  BY <1>1, <1>5, <1>7
<1>12. f.pc # "set store" /\ frame[t].pc # "set store"  BY <1>1, <1>5
<1>. QED  BY <1>1, <1>2, <1>5, <1>7, <1>8, <1>10, <1>11, <1>12, ReloadKeeps

\* The secrets are decrypted.
LEMMA ReadSecretsKeeps ==
    ASSUME VaultIndInv, NEW t \in Thread, ReadSecrets(t)
    PROVE  VaultIndInv'
<1>. DEFINE f == [frame[t] EXCEPT !.pc = "clear", !.key = LoadKey(tables.secret, frame[t].store)]
<1>1. /\ frame[t].pc = "secrets"
      /\ phase = "running"
      /\ frame' = [frame EXCEPT ![t] = f]
      /\ raised' = raised
      /\ UNCHANGED outer
      /\ app' = app
      /\ registry' = registry
    BY DEF ReadSecrets, At, Go
<1>2. /\ frame[t] \in Frame /\ app \in App /\ tables \in Tables
      /\ registry \in {"empty", "env", "managed"} /\ raised \in BOOLEAN
    BY DEF VaultIndInv, TypeInv, TypeOK, App, Auth, Tables
<1>3. "clear" \in Pc  BY DEF Pc, HoldsVault, HoldsStore
<1>4. LoadKey(tables.secret, frame[t].store) \in {"env", "managed"}
    BY DEF LoadKey, ApplyManagedSecrets
<1>5. f \in Frame /\ f.pc = "clear" /\ f.vault = frame[t].vault
      /\ f.store = frame[t].store /\ f.auth = frame[t].auth
    BY <1>2, <1>3, <1>4 DEF Frame
<1>. HIDE DEF f
<1>7. app' \in App /\ app'.store = app.store /\ app'.vault = app.vault /\ app'.auth = app.auth
    BY <1>1, <1>2
<1>8. registry' \in {"empty", "env", "managed"}  BY <1>1, <1>2
<1>9. /\ frame[t].pc \in HoldsVault /\ f.pc \in HoldsVault
      /\ frame[t].pc \in HoldsStore /\ f.pc \in HoldsStore
    BY <1>1, <1>5 DEF HoldsVault, HoldsStore
<1>10. ASSUME ~overtaken
       PROVE  /\ f.pc \in HoldsVault => f.vault = tables.vault
              /\ f.pc \in HoldsStore => f.store = wanted
              /\ f.pc = "put auth" => f.auth = Resolve(tables.auth)
              /\ app'.store = wanted
              /\ app'.vault \in {0, tables.vault}
              /\ tables.secret # 0 => app'.vault = tables.vault
    <2>1. HeldInv /\ StateInv  BY <1>1, <1>10 DEF VaultIndInv
    <2>. QED  BY <2>1, <1>5, <1>7, <1>9 DEF HeldInv, StateInv
<1>11. f.pc # "idle" /\ app'.auth = app.auth /\ raised' = raised  BY <1>1, <1>5, <1>7
<1>12. f.pc # "set store" /\ frame[t].pc # "set store"  BY <1>1, <1>5
<1>. QED  BY <1>1, <1>2, <1>5, <1>7, <1>8, <1>10, <1>11, <1>12, ReloadKeeps

\* The registry is filled again.
LEMMA FillRegistryKeeps ==
    ASSUME VaultIndInv, NEW t \in Thread, FillRegistry(t)
    PROVE  VaultIndInv'
<1>. DEFINE f == [frame[t] EXCEPT !.pc = "put settings"]
<1>1. /\ frame[t].pc = "fill"
      /\ phase = "running"
      /\ frame' = [frame EXCEPT ![t] = f]
      /\ raised' = raised
      /\ UNCHANGED outer
      /\ app' = app
      /\ registry' = frame[t].key
    BY DEF FillRegistry, At, Go
<1>2. /\ frame[t] \in Frame /\ app \in App /\ tables \in Tables
      /\ registry \in {"empty", "env", "managed"} /\ raised \in BOOLEAN
    BY DEF VaultIndInv, TypeInv, TypeOK, App, Auth, Tables
<1>3. "put settings" \in Pc  BY DEF Pc, HoldsVault, HoldsStore
<1>5. f \in Frame /\ f.pc = "put settings" /\ f.vault = frame[t].vault
      /\ f.store = frame[t].store /\ f.auth = frame[t].auth
    BY <1>2, <1>3 DEF Frame
<1>. HIDE DEF f
<1>7. app' \in App /\ app'.store = app.store /\ app'.vault = app.vault /\ app'.auth = app.auth
    BY <1>1, <1>2
<1>8. registry' \in {"empty", "env", "managed"}  BY <1>1, <1>2 DEF Frame
<1>9. /\ frame[t].pc \in HoldsVault /\ f.pc \in HoldsVault
      /\ frame[t].pc \in HoldsStore /\ f.pc \in HoldsStore
    BY <1>1, <1>5 DEF HoldsVault, HoldsStore
<1>10. ASSUME ~overtaken
       PROVE  /\ f.pc \in HoldsVault => f.vault = tables.vault
              /\ f.pc \in HoldsStore => f.store = wanted
              /\ f.pc = "put auth" => f.auth = Resolve(tables.auth)
              /\ app'.store = wanted
              /\ app'.vault \in {0, tables.vault}
              /\ tables.secret # 0 => app'.vault = tables.vault
    <2>1. HeldInv /\ StateInv  BY <1>1, <1>10 DEF VaultIndInv
    <2>. QED  BY <2>1, <1>5, <1>7, <1>9 DEF HeldInv, StateInv
<1>11. f.pc # "idle" /\ app'.auth = app.auth /\ raised' = raised  BY <1>1, <1>5, <1>7
<1>12. f.pc # "set store" /\ frame[t].pc # "set store"  BY <1>1, <1>5
<1>. QED  BY <1>1, <1>2, <1>5, <1>7, <1>8, <1>10, <1>11, <1>12, ReloadKeeps

\* The settings are put in app.state.
LEMMA PutSettingsKeeps ==
    ASSUME VaultIndInv, NEW t \in Thread, PutSettings(t)
    PROVE  VaultIndInv'
<1>. DEFINE f == [frame[t] EXCEPT !.pc = "put vault", !.key = "env"]
<1>1. /\ frame[t].pc = "put settings"
      /\ phase = "running"
      /\ frame' = [frame EXCEPT ![t] = f]
      /\ raised' = raised
      /\ UNCHANGED outer
      /\ app' = [app EXCEPT !.key = frame[t].key]
      /\ registry' = registry
    BY DEF PutSettings, At, Go
<1>2. /\ frame[t] \in Frame /\ app \in App /\ tables \in Tables
      /\ registry \in {"empty", "env", "managed"} /\ raised \in BOOLEAN
    BY DEF VaultIndInv, TypeInv, TypeOK, App, Auth, Tables
<1>3. "put vault" \in Pc  BY DEF Pc, HoldsVault, HoldsStore
<1>5. f \in Frame /\ f.pc = "put vault" /\ f.vault = frame[t].vault
      /\ f.store = frame[t].store /\ f.auth = frame[t].auth
    BY <1>2, <1>3 DEF Frame
<1>. HIDE DEF f
<1>6. frame[t].key \in {"env", "managed"}  BY <1>2 DEF Frame
<1>7. app' \in App /\ app'.store = app.store /\ app'.vault = app.vault /\ app'.auth = app.auth
    BY <1>1, <1>2, <1>6 DEF App
<1>8. registry' \in {"empty", "env", "managed"}  BY <1>1, <1>2
<1>9. /\ frame[t].pc \in HoldsVault /\ f.pc \in HoldsVault
      /\ frame[t].pc \in HoldsStore /\ f.pc \in HoldsStore
    BY <1>1, <1>5 DEF HoldsVault, HoldsStore
<1>10. ASSUME ~overtaken
       PROVE  /\ f.pc \in HoldsVault => f.vault = tables.vault
              /\ f.pc \in HoldsStore => f.store = wanted
              /\ f.pc = "put auth" => f.auth = Resolve(tables.auth)
              /\ app'.store = wanted
              /\ app'.vault \in {0, tables.vault}
              /\ tables.secret # 0 => app'.vault = tables.vault
    <2>1. HeldInv /\ StateInv  BY <1>1, <1>10 DEF VaultIndInv
    <2>. QED  BY <2>1, <1>5, <1>7, <1>9 DEF HeldInv, StateInv
<1>11. f.pc # "idle" /\ app'.auth = app.auth /\ raised' = raised  BY <1>1, <1>5, <1>7
<1>12. f.pc # "set store" /\ frame[t].pc # "set store"  BY <1>1, <1>5
<1>. QED  BY <1>1, <1>2, <1>5, <1>7, <1>8, <1>10, <1>11, <1>12, ReloadKeeps

\* The vault's configuration is put in app.state.
LEMMA PutVaultKeeps ==
    ASSUME VaultIndInv, NEW t \in Thread, PutVault(t)
    PROVE  VaultIndInv'
<1>. DEFINE f == [frame[t] EXCEPT !.pc = "put store", !.vault = 0]
<1>1. /\ frame[t].pc = "put vault"
      /\ phase = "running"
      /\ frame' = [frame EXCEPT ![t] = f]
      /\ raised' = raised
      /\ UNCHANGED outer
      /\ app' = [app EXCEPT !.vault = frame[t].vault]
      /\ registry' = registry
    BY DEF PutVault, At, Go
<1>2. /\ frame[t] \in Frame /\ app \in App /\ tables \in Tables
      /\ registry \in {"empty", "env", "managed"} /\ raised \in BOOLEAN
    BY DEF VaultIndInv, TypeInv, TypeOK, App, Auth, Tables
<1>3. "put store" \in Pc  BY DEF Pc, HoldsVault, HoldsStore
<1>4. 0 \in Vault  BY AdminAssumption DEF Vault
<1>5. f \in Frame /\ f.pc = "put store" /\ f.vault = 0
      /\ f.store = frame[t].store /\ f.auth = frame[t].auth
    BY <1>2, <1>3, <1>4 DEF Frame
<1>. HIDE DEF f
<1>6. frame[t].vault \in Vault  BY <1>2 DEF Frame
<1>7. app' \in App /\ app'.store = app.store /\ app'.auth = app.auth /\ app'.vault = frame[t].vault
    BY <1>1, <1>2, <1>6 DEF App
<1>8. registry' \in {"empty", "env", "managed"}  BY <1>1, <1>2
<1>9. /\ frame[t].pc \in HoldsVault /\ f.pc \notin HoldsVault
      /\ frame[t].pc \in HoldsStore /\ f.pc \in HoldsStore
    BY <1>1, <1>5 DEF HoldsVault, HoldsStore
<1>10. ASSUME ~overtaken
       PROVE  /\ f.pc \in HoldsVault => f.vault = tables.vault
              /\ f.pc \in HoldsStore => f.store = wanted
              /\ f.pc = "put auth" => f.auth = Resolve(tables.auth)
              /\ app'.store = wanted
              /\ app'.vault \in {0, tables.vault}
              /\ tables.secret # 0 => app'.vault = tables.vault
    <2>1. HeldInv /\ StateInv  BY <1>1, <1>10 DEF VaultIndInv
    <2>. QED  BY <2>1, <1>5, <1>7, <1>9 DEF HeldInv, StateInv
<1>11. f.pc # "idle" /\ app'.auth = app.auth /\ raised' = raised  BY <1>1, <1>5, <1>7
<1>12. f.pc # "set store" /\ frame[t].pc # "set store"  BY <1>1, <1>5
<1>. QED  BY <1>1, <1>2, <1>5, <1>7, <1>8, <1>10, <1>11, <1>12, ReloadKeeps

\* The store is put back in app.state.
LEMMA PutStoreKeeps ==
    ASSUME VaultIndInv, NEW t \in Thread, PutStore(t)
    PROVE  VaultIndInv'
<1>. DEFINE f == [frame[t] EXCEPT !.pc = "put status"]
<1>1. /\ frame[t].pc = "put store"
      /\ phase = "running"
      /\ frame' = [frame EXCEPT ![t] = f]
      /\ raised' = raised
      /\ UNCHANGED outer
      /\ app' = [app EXCEPT !.store = frame[t].store]
      /\ registry' = registry
    BY DEF PutStore, At, Go
<1>2. /\ frame[t] \in Frame /\ app \in App /\ tables \in Tables
      /\ registry \in {"empty", "env", "managed"} /\ raised \in BOOLEAN
    BY DEF VaultIndInv, TypeInv, TypeOK, App, Auth, Tables
<1>3. "put status" \in Pc  BY DEF Pc, HoldsVault, HoldsStore
<1>5. f \in Frame /\ f.pc = "put status" /\ f.vault = frame[t].vault
      /\ f.store = frame[t].store /\ f.auth = frame[t].auth
    BY <1>2, <1>3 DEF Frame
<1>. HIDE DEF f
<1>6. frame[t].store \in Vault  BY <1>2 DEF Frame
<1>7. app' \in App /\ app'.vault = app.vault /\ app'.auth = app.auth /\ app'.store = frame[t].store
    BY <1>1, <1>2, <1>6 DEF App
<1>8. registry' \in {"empty", "env", "managed"}  BY <1>1, <1>2
<1>9. /\ frame[t].pc \notin HoldsVault /\ f.pc \notin HoldsVault
      /\ frame[t].pc \in HoldsStore /\ f.pc \notin HoldsStore
    BY <1>1, <1>5 DEF HoldsVault, HoldsStore
<1>10. ASSUME ~overtaken
       PROVE  /\ f.pc \in HoldsVault => f.vault = tables.vault
              /\ f.pc \in HoldsStore => f.store = wanted
              /\ f.pc = "put auth" => f.auth = Resolve(tables.auth)
              /\ app'.store = wanted
              /\ app'.vault \in {0, tables.vault}
              /\ tables.secret # 0 => app'.vault = tables.vault
    <2>1. HeldInv /\ StateInv  BY <1>1, <1>10 DEF VaultIndInv
    <2>. QED  BY <2>1, <1>5, <1>7, <1>9 DEF HeldInv, StateInv
<1>11. f.pc # "idle" /\ app'.auth = app.auth /\ raised' = raised  BY <1>1, <1>5, <1>7
<1>12. f.pc # "set store" /\ frame[t].pc # "set store"  BY <1>1, <1>5
<1>. QED  BY <1>1, <1>2, <1>5, <1>7, <1>8, <1>10, <1>11, <1>12, ReloadKeeps

\* The vault's status is put in app.state.
LEMMA PutStatusKeeps ==
    ASSUME VaultIndInv, NEW t \in Thread, PutStatus(t)
    PROVE  VaultIndInv'
<1>. DEFINE f == [frame[t] EXCEPT !.pc = "auth", !.store = 0]
<1>1. /\ frame[t].pc = "put status"
      /\ phase = "running"
      /\ frame' = [frame EXCEPT ![t] = f]
      /\ raised' = raised
      /\ UNCHANGED outer
      /\ app' = [app EXCEPT !.unlocked = (frame[t].store # 0)]
      /\ registry' = registry
    BY DEF PutStatus, At, Go
<1>2. /\ frame[t] \in Frame /\ app \in App /\ tables \in Tables
      /\ registry \in {"empty", "env", "managed"} /\ raised \in BOOLEAN
    BY DEF VaultIndInv, TypeInv, TypeOK, App, Auth, Tables
<1>3. "auth" \in Pc  BY DEF Pc, HoldsVault, HoldsStore
<1>4. 0 \in Vault  BY AdminAssumption DEF Vault
<1>5. f \in Frame /\ f.pc = "auth" /\ f.vault = frame[t].vault
      /\ f.store = 0 /\ f.auth = frame[t].auth
    BY <1>2, <1>3, <1>4 DEF Frame
<1>. HIDE DEF f
<1>6. (frame[t].store # 0) \in BOOLEAN  BY <1>2 DEF Frame
<1>7. app' \in App /\ app'.store = app.store /\ app'.vault = app.vault /\ app'.auth = app.auth
    BY <1>1, <1>2, <1>6 DEF App
<1>8. registry' \in {"empty", "env", "managed"}  BY <1>1, <1>2
<1>9. /\ frame[t].pc \notin HoldsVault /\ f.pc \notin HoldsVault
      /\ frame[t].pc \notin HoldsStore /\ f.pc \notin HoldsStore
    BY <1>1, <1>5 DEF HoldsVault, HoldsStore
<1>10. ASSUME ~overtaken
       PROVE  /\ f.pc \in HoldsVault => f.vault = tables.vault
              /\ f.pc \in HoldsStore => f.store = wanted
              /\ f.pc = "put auth" => f.auth = Resolve(tables.auth)
              /\ app'.store = wanted
              /\ app'.vault \in {0, tables.vault}
              /\ tables.secret # 0 => app'.vault = tables.vault
    <2>1. HeldInv /\ StateInv  BY <1>1, <1>10 DEF VaultIndInv
    <2>. QED  BY <2>1, <1>5, <1>7, <1>9 DEF HeldInv, StateInv
<1>11. f.pc # "idle" /\ app'.auth = app.auth /\ raised' = raised  BY <1>1, <1>5, <1>7
<1>12. f.pc # "set store" /\ frame[t].pc # "set store"  BY <1>1, <1>5
<1>. QED  BY <1>1, <1>2, <1>5, <1>7, <1>8, <1>10, <1>11, <1>12, ReloadKeeps

\* The gateway auth is read and resolved.
LEMMA ReadAuthKeeps ==
    ASSUME VaultIndInv, NEW t \in Thread, ReadAuth(t)
    PROVE  VaultIndInv'
<1>. DEFINE f == [frame[t] EXCEPT !.pc = "put auth", !.auth = Resolve(tables.auth)]
<1>1. /\ frame[t].pc = "auth"
      /\ phase = "running"
      /\ frame' = [frame EXCEPT ![t] = f]
      /\ raised' = raised
      /\ UNCHANGED outer
      /\ app' = app
      /\ registry' = registry
    BY DEF ReadAuth, At, Go
<1>2. /\ frame[t] \in Frame /\ app \in App /\ tables \in Tables
      /\ registry \in {"empty", "env", "managed"} /\ raised \in BOOLEAN
    BY DEF VaultIndInv, TypeInv, TypeOK, App, Auth, Tables
<1>3. "put auth" \in Pc  BY DEF Pc, HoldsVault, HoldsStore
<1>4. Resolve(tables.auth) \in Auth  BY <1>2, ResolveAuth DEF Tables
<1>5. f \in Frame /\ f.pc = "put auth" /\ f.vault = frame[t].vault
      /\ f.store = frame[t].store /\ f.auth = Resolve(tables.auth)
    BY <1>2, <1>3, <1>4 DEF Frame
<1>. HIDE DEF f
<1>7. app' \in App /\ app'.store = app.store /\ app'.vault = app.vault /\ app'.auth = app.auth
    BY <1>1, <1>2
<1>8. registry' \in {"empty", "env", "managed"}  BY <1>1, <1>2
<1>9. /\ frame[t].pc \notin HoldsVault /\ f.pc \notin HoldsVault
      /\ frame[t].pc \notin HoldsStore /\ f.pc \notin HoldsStore
    BY <1>1, <1>5 DEF HoldsVault, HoldsStore
<1>10. ASSUME ~overtaken
       PROVE  /\ f.pc \in HoldsVault => f.vault = tables.vault
              /\ f.pc \in HoldsStore => f.store = wanted
              /\ f.pc = "put auth" => f.auth = Resolve(tables.auth)
              /\ app'.store = wanted
              /\ app'.vault \in {0, tables.vault}
              /\ tables.secret # 0 => app'.vault = tables.vault
    <2>1. HeldInv /\ StateInv  BY <1>1, <1>10 DEF VaultIndInv
    <2>. QED  BY <2>1, <1>5, <1>7, <1>9 DEF HeldInv, StateInv
<1>11. f.pc # "idle" /\ app'.auth = app.auth /\ raised' = raised  BY <1>1, <1>5, <1>7
<1>12. f.pc # "set store" /\ frame[t].pc # "set store"  BY <1>1, <1>5
<1>. QED  BY <1>1, <1>2, <1>5, <1>7, <1>8, <1>10, <1>11, <1>12, ReloadKeeps

\* An idle frame holds nothing.
LEMMA IdleFrame ==
    /\ Idle \in Frame
    /\ Idle.pc = "idle"
    /\ "idle" \notin HoldsVault /\ "idle" \notin HoldsStore
<1>1. "idle" \in Pc /\ "idle" \notin HoldsVault /\ "idle" \notin HoldsStore
    BY DEF Pc, HoldsVault, HoldsStore
<1>2. 0 \in Vault  BY AdminAssumption DEF Vault
<1>3. Open \in Auth  BY DEF Auth
<1>4. Idle \in Frame  BY <1>1, <1>2, <1>3 DEF Idle, Frame
<1>. QED  BY <1>1, <1>4 DEF Idle

\* A reload that ends by an exception has put back nothing more.
LEMMA RaiseKeeps ==
    ASSUME VaultIndInv, NEW t \in Thread, phase = "running", frame[t].pc # "set store",
           UNCHANGED <<outer, app>>, registry' \in {"empty", "env", "managed"}, Raise(t)
    PROVE  VaultIndInv'
<1>1. /\ frame' = [frame EXCEPT ![t] = Idle] /\ raised' = TRUE
      /\ UNCHANGED outer /\ app' = app
    BY DEF Raise, Go
<1>2. app' \in App /\ app' = app /\ raised' \in BOOLEAN
    BY <1>1 DEF VaultIndInv, TypeInv, TypeOK, App, Auth
<1>3. Idle \in Frame /\ Idle.pc = "idle" /\ Idle.pc \notin HoldsVault /\ Idle.pc \notin HoldsStore
      /\ Idle.pc # "set store"
    BY IdleFrame
<1>4. ASSUME ~overtaken
      PROVE  /\ app'.store = wanted
             /\ app'.vault \in {0, tables.vault}
             /\ tables.secret # 0 => app'.vault = tables.vault
    <2>1. StateInv  BY <1>4 DEF VaultIndInv
    <2>. QED  BY <2>1, <1>2 DEF StateInv
<1>5. Idle.pc # "put auth"  BY <1>3
<1>6. raised'  BY <1>1
<1>. QED  BY <1>1, <1>2, <1>3, <1>4, <1>5, <1>6, ReloadKeeps

\* The overrides are read; apply_overrides() may raise.
LEMMA ReadOverridesKeeps ==
    ASSUME VaultIndInv, NEW t \in Thread, ReadOverrides(t)
    PROVE  VaultIndInv'
<1>. DEFINE f == [frame[t] EXCEPT !.pc = "vault", !.valid = fileValid]
<1>1. /\ frame[t].pc = "overrides" /\ phase = "running"
      /\ UNCHANGED <<outer, app>> /\ UNCHANGED outer /\ app' = app /\ registry' = registry
    BY DEF ReadOverrides, At
<1>2. /\ frame[t] \in Frame /\ app \in App /\ fileValid \in BOOLEAN
      /\ registry \in {"empty", "env", "managed"} /\ raised \in BOOLEAN
    BY DEF VaultIndInv, TypeInv, TypeOK, App, Auth
<1>3. CASE Raise(t)
    <2>1. registry' \in {"empty", "env", "managed"} /\ frame[t].pc # "set store"  BY <1>1, <1>2
    <2>. QED  BY <2>1, <1>1, <1>3, RaiseKeeps
<1>4. CASE frame' = [frame EXCEPT ![t] = f] /\ raised' = raised
    <2>1. "vault" \in Pc /\ "vault" \notin HoldsVault /\ "vault" \notin HoldsStore
        BY DEF Pc, HoldsVault, HoldsStore
    <2>2. f \in Frame /\ f.pc = "vault"  BY <2>1, <1>2 DEF Frame
    <2>. HIDE DEF f
    <2>3. app' \in App /\ registry' \in {"empty", "env", "managed"} /\ raised' \in BOOLEAN
        BY <1>1, <1>2, <1>4
    <2>4. ASSUME ~overtaken
          PROVE  /\ app'.store = wanted
                 /\ app'.vault \in {0, tables.vault}
                 /\ tables.secret # 0 => app'.vault = tables.vault
        <3>1. StateInv  BY <2>4, <1>1 DEF VaultIndInv
        <3>. QED  BY <3>1, <1>1 DEF StateInv
    <2>5. f.pc \notin HoldsVault /\ f.pc \notin HoldsStore /\ f.pc # "put auth"  BY <2>1, <2>2
    <2>6. f.pc # "idle" /\ app'.auth = app.auth /\ raised' = raised  BY <2>2, <1>1, <1>4
    <2>7. f.pc # "set store" /\ frame[t].pc # "set store"  BY <2>2, <1>1
    <2>. QED  BY <2>2, <2>3, <2>4, <2>5, <2>6, <2>7, <1>1, <1>4, ReloadKeeps
<1>. QED  BY <1>3, <1>4 DEF ReadOverrides, Go

\* The registry is emptied; validate_provider_api_base() may raise.
LEMMA ClearRegistryKeeps ==
    ASSUME VaultIndInv, NEW t \in Thread, ClearRegistry(t)
    PROVE  VaultIndInv'
<1>. DEFINE f == [frame[t] EXCEPT !.pc = "fill"]
<1>1. /\ frame[t].pc = "clear" /\ phase = "running"
      /\ UNCHANGED <<outer, app>> /\ UNCHANGED outer /\ app' = app /\ registry' = "empty"
    BY DEF ClearRegistry, At
<1>2. frame[t] \in Frame /\ app \in App /\ raised \in BOOLEAN
    BY DEF VaultIndInv, TypeInv, TypeOK, App, Auth
<1>3. CASE Raise(t)
    <2>1. registry' \in {"empty", "env", "managed"} /\ frame[t].pc # "set store"  BY <1>1
    <2>. QED  BY <2>1, <1>1, <1>3, RaiseKeeps
<1>4. CASE frame' = [frame EXCEPT ![t] = f] /\ raised' = raised
    <2>1. "fill" \in Pc  BY DEF Pc, HoldsVault, HoldsStore
    <2>2. f \in Frame /\ f.pc = "fill" /\ f.vault = frame[t].vault /\ f.store = frame[t].store
        BY <2>1, <1>2 DEF Frame
    <2>. HIDE DEF f
    <2>3. app' \in App /\ registry' \in {"empty", "env", "managed"} /\ raised' \in BOOLEAN
        BY <1>1, <1>2, <1>4
    <2>4. frame[t].pc \in HoldsVault /\ frame[t].pc \in HoldsStore
        BY <1>1 DEF HoldsVault, HoldsStore
    <2>5. ASSUME ~overtaken
          PROVE  /\ f.vault = tables.vault
                 /\ f.store = wanted
                 /\ app'.store = wanted
                 /\ app'.vault \in {0, tables.vault}
                 /\ tables.secret # 0 => app'.vault = tables.vault
        <3>1. HeldInv /\ StateInv  BY <2>5, <1>1 DEF VaultIndInv
        <3>. QED  BY <3>1, <2>2, <2>4, <1>1 DEF HeldInv, StateInv
    <2>6. f.pc # "put auth" /\ f.pc # "set store" /\ frame[t].pc # "set store"  BY <2>2, <1>1
    <2>7. f.pc # "idle" /\ app'.auth = app.auth /\ raised' = raised  BY <2>2, <1>1, <1>4
    <2>. QED  BY <2>2, <2>3, <2>5, <2>6, <2>7, <1>1, <1>4, ReloadKeeps
<1>. QED  BY <1>3, <1>4 DEF ClearRegistry, Go

\* The gateway auth is put in app.state, and the reload ends.
LEMMA PutAuthKeeps ==
    ASSUME VaultIndInv, NEW t \in Thread, PutAuth(t)
    PROVE  VaultIndInv'
<1>1. /\ frame[t].pc = "put auth" /\ phase = "running"
      /\ UNCHANGED outer /\ app' = [app EXCEPT !.auth = frame[t].auth] /\ registry' = registry
      /\ frame' = [frame EXCEPT ![t] = Idle] /\ raised' = FALSE
    BY DEF PutAuth, At, Go
<1>2. frame[t] \in Frame /\ app \in App /\ registry \in {"empty", "env", "managed"}
    BY DEF VaultIndInv, TypeInv, TypeOK, App, Auth
<1>3. frame[t].auth \in Auth  BY <1>2 DEF Frame
<1>4. /\ app' \in App /\ app'.auth = frame[t].auth
      /\ app'.store = app.store /\ app'.vault = app.vault
    BY <1>1, <1>2, <1>3 DEF App
<1>5. Idle \in Frame /\ Idle.pc = "idle" /\ Idle.pc \notin HoldsVault /\ Idle.pc \notin HoldsStore
      /\ Idle.pc # "set store" /\ Idle.pc # "put auth"
    BY IdleFrame
<1>6. ASSUME ~overtaken
      PROVE  /\ app'.store = wanted
             /\ app'.vault \in {0, tables.vault}
             /\ tables.secret # 0 => app'.vault = tables.vault
             /\ app'.auth = Resolve(tables.auth)
    <2>1. HeldInv /\ StateInv  BY <1>6, <1>1 DEF VaultIndInv
    <2>. QED  BY <2>1, <1>1, <1>4 DEF HeldInv, StateInv
<1>7. raised' \in BOOLEAN /\ registry' \in {"empty", "env", "managed"}
      /\ frame[t].pc # "set store"
    BY <1>1, <1>2
<1>. QED  BY <1>1, <1>4, <1>5, <1>6, <1>7, ReloadKeeps

\* Every step of a reload.
LEMMA ReloadStepKeeps ==
    ASSUME VaultIndInv, NEW t \in Thread, ReloadStep(t)
    PROVE  VaultIndInv' /\ UNCHANGED migrationVars
<1>1. VaultIndInv'
    BY ReadOverridesKeeps, ReadVaultKeeps, ReadStoreKeeps, ReadSecretsKeeps, ClearRegistryKeeps,
       FillRegistryKeeps, PutSettingsKeeps, PutVaultKeeps, PutStoreKeeps, PutStatusKeeps,
       ReadAuthKeeps, PutAuthKeeps DEF ReloadStep
<1>2. UNCHANGED outer
    BY DEF ReloadStep, ReadOverrides, ReadVault, ReadStore, ReadSecrets, ClearRegistry,
           FillRegistry, PutSettings, PutVault, PutStore, PutStatus, ReadAuth, PutAuth
<1>. QED  BY <1>1, <1>2 DEF outer

\* The refresh starts.
LEMMA ConfigRefreshKeeps ==
    ASSUME VaultIndInv, ConfigRefresh
    PROVE  VaultIndInv' /\ UNCHANGED migrationVars
<1>. DEFINE f == [Idle EXCEPT !.pc = "overrides"]
<1>1. /\ frame["refresh"].pc = "idle" /\ phase = "running"
      /\ UNCHANGED outer /\ app' = app /\ registry' = registry /\ raised' = raised
      /\ frame' = [frame EXCEPT !["refresh"] = f]
    BY DEF ConfigRefresh, At, Go
<1>2. app \in App /\ registry \in {"empty", "env", "managed"} /\ raised \in BOOLEAN
    BY DEF VaultIndInv, TypeInv, TypeOK, App, Auth
<1>3. "overrides" \in Pc /\ "overrides" \notin HoldsVault /\ "overrides" \notin HoldsStore
    BY DEF Pc, HoldsVault, HoldsStore
<1>4. f \in Frame /\ f.pc = "overrides"  BY <1>3, IdleFrame DEF Frame
<1>. HIDE DEF f
<1>5. ASSUME ~overtaken
      PROVE  /\ app'.store = wanted
             /\ app'.vault \in {0, tables.vault}
             /\ tables.secret # 0 => app'.vault = tables.vault
    <2>1. StateInv  BY <1>5, <1>1 DEF VaultIndInv
    <2>. QED  BY <2>1, <1>1 DEF StateInv
<1>6. /\ f.pc \notin HoldsVault /\ f.pc \notin HoldsStore /\ f.pc # "put auth"
      /\ f.pc # "set store" /\ f.pc # "idle"
    BY <1>3, <1>4
<1>7. /\ app' \in App /\ app'.auth = app.auth /\ raised' \in BOOLEAN
      /\ registry' \in {"empty", "env", "managed"} /\ frame["refresh"].pc # "set store"
      /\ "refresh" \in Thread
    BY <1>1, <1>2 DEF Thread
<1>8. VaultIndInv'  BY <1>1, <1>4, <1>5, <1>6, <1>7, ReloadKeeps
<1>. QED  BY <1>1, <1>8 DEF outer

-------------------------------------------------------------------------------
\* The handlers

\* What _check_gateway_auth() and the vault's throttle leave.
LEMMA ChecksBounded ==
    ASSUME TypeInv, NEW c \in Client, NEW valid \in BOOLEAN
    PROVE  /\ AfterCheck(c, valid) \in [Category -> Bounded]
           /\ [AfterCheck(c, TRUE) EXCEPT !["vault"] = VaultAttempt(c, valid).entries]
                  \in [Category -> Bounded]
<1>1. throttles \in [Category -> Bounded] /\ "gateway" \in Category /\ "vault" \in Category
    BY DEF TypeInv, Category
<1>2. throttles["gateway"] \in Bounded /\ throttles["vault"] \in Bounded  BY <1>1
<1>3. \A v \in BOOLEAN : GatewayAttempt(c, v).entries \in Bounded
    BY <1>2, AttemptBounded DEF GatewayAttempt
<1>4. VaultAttempt(c, valid).entries \in Bounded
    BY <1>2, AttemptBounded DEF VaultAttempt
<1>5. \A v \in BOOLEAN : AfterCheck(c, v) \in [Category -> Bounded]
    <2>. TAKE v \in BOOLEAN
    <2>. DEFINE es == GatewayAttempt(c, v).entries
    <2>1. es \in Bounded  BY <1>3
    <2>2. AfterCheck(c, v) = IF app.auth = Open THEN throttles
                             ELSE [throttles EXCEPT !["gateway"] = es]
        BY DEF AfterCheck
    <2>. HIDE DEF es
    <2>. QED  BY <2>1, <2>2, <1>1
<1>6. AfterCheck(c, TRUE) \in [Category -> Bounded]  BY <1>5
<1>. DEFINE a == AfterCheck(c, TRUE)
            es == VaultAttempt(c, valid).entries
<1>. HIDE DEF a, es
<1>7. [a EXCEPT !["vault"] = es] \in [Category -> Bounded]  BY <1>1, <1>4, <1>6 DEF a, es
<1>. QED  BY <1>5, <1>7 DEF a, es

\* A step that leaves what is stored and what the threads hold.
LEMMA OutsideKeeps ==
    ASSUME VaultIndInv, throttles' \in [Category -> Bounded], ops' \in 0..MaxOps,
           fileValid' \in BOOLEAN,
           UNCHANGED <<phase, crashes, tables, app, registry, frame, made, wanted, overtaken,
                       raised>>
    PROVE  VaultIndInv'
<1>1. TypeOK'
    <2>1. \A k \in Category : throttles'[k] \in Seq(Entry) /\ Len(throttles'[k]) <= MaxEntries
        BY DEF Bounded
    <2>. QED  BY <2>1 DEF VaultIndInv, TypeInv, TypeOK
<1>2. TypeInv'  BY <1>1 DEF VaultIndInv, TypeInv
<1>3. DownInv' /\ SecretsDecryptable'  BY DEF VaultIndInv, DownInv, SecretsDecryptable
<1>4. phase' = "running" /\ ~overtaken' => HeldInv' /\ StateInv'
    BY DEF VaultIndInv, HeldInv, StateInv, Resolve
<1>5. AuthCurrent'  BY DEF VaultIndInv, AuthCurrent, Resolve
<1>. QED  BY <1>2, <1>3, <1>4, <1>5 DEF VaultIndInv

\* A counted operation stays within the bound.
LEMMA OpsCounted ==
    ASSUME TypeInv, ops < MaxOps
    PROVE  ops + 1 \in 0..MaxOps
<1>1. ops \in 0..MaxOps  BY DEF TypeInv, TypeOK
<1>. QED  BY <1>1, AdminAssumption

\* A request that only reads or is refused.
LEMMA ReadOnlyRequestKeeps ==
    ASSUME VaultIndInv, NEW c \in Client, NEW valid \in BOOLEAN, ReadOnlyRequest(c, valid)
    PROVE  VaultIndInv' /\ UNCHANGED migrationVars
<1>1. TypeInv /\ ops \in 0..MaxOps /\ fileValid \in BOOLEAN  BY DEF VaultIndInv, TypeInv, TypeOK
<1>2. /\ ops < MaxOps /\ throttles' = AfterCheck(c, valid) /\ ops' \in {ops, ops + 1}
      /\ UNCHANGED <<tables, fileValid, app, registry, frame, made, wanted, overtaken, raised>>
      /\ UNCHANGED migrationVars
    BY DEF ReadOnlyRequest
<1>3. throttles' \in [Category -> Bounded]  BY <1>1, <1>2, ChecksBounded
<1>4. ops' \in 0..MaxOps  BY <1>1, <1>2, OpsCounted
<1>5. phase' = phase /\ crashes' = crashes  BY <1>2 DEF migrationVars
<1>. QED  BY <1>1, <1>2, <1>3, <1>4, <1>5, OutsideKeeps

\* A password that is not taken.
LEMMA UnlockRefusedKeeps ==
    ASSUME VaultIndInv, NEW c \in Client, NEW right \in BOOLEAN, UnlockRefused(c, right)
    PROVE  VaultIndInv' /\ UNCHANGED migrationVars
<1>1. TypeInv /\ ops \in 0..MaxOps /\ fileValid \in BOOLEAN  BY DEF VaultIndInv, TypeInv, TypeOK
<1>2. /\ ops < MaxOps /\ ops' = ops + 1
      /\ throttles' = [AfterCheck(c, TRUE) EXCEPT !["vault"] = VaultAttempt(c, right).entries]
      /\ UNCHANGED <<tables, fileValid, app, registry, frame, made, wanted, overtaken, raised>>
      /\ UNCHANGED migrationVars
    BY DEF UnlockRefused
<1>3. throttles' \in [Category -> Bounded]  BY <1>1, <1>2, ChecksBounded
<1>4. ops' \in 0..MaxOps  BY <1>1, <1>2, OpsCounted
<1>5. phase' = phase /\ crashes' = crashes  BY <1>2 DEF migrationVars
<1>. QED  BY <1>1, <1>2, <1>3, <1>4, <1>5, OutsideKeeps

\* Edits of the file and the clock.
LEMMA SurroundingsKeep ==
    ASSUME VaultIndInv, EditFile \/ Tick
    PROVE  VaultIndInv' /\ UNCHANGED migrationVars
<1>1. /\ TypeInv /\ ops \in 0..MaxOps /\ fileValid \in BOOLEAN
      /\ throttles \in [Category -> Bounded]
    BY DEF VaultIndInv, TypeInv, TypeOK
<1>2. CASE EditFile
    <2>1. /\ ops < MaxOps /\ ops' = ops + 1 /\ fileValid' \in BOOLEAN /\ throttles' = throttles
          /\ UNCHANGED <<tables, app, registry, frame, made, wanted, overtaken, raised>>
          /\ UNCHANGED migrationVars
        BY <1>2 DEF EditFile
    <2>2. ops' \in 0..MaxOps  BY <1>1, <2>1, OpsCounted
    <2>3. phase' = phase /\ crashes' = crashes  BY <2>1 DEF migrationVars
    <2>. QED  BY <1>1, <2>1, <2>2, <2>3, OutsideKeeps
<1>3. CASE Tick
    <2>1. /\ throttles' = [k \in Category |-> Elapse(throttles[k])]
          /\ ops' = ops /\ fileValid' = fileValid
          /\ UNCHANGED <<tables, app, registry, frame, made, wanted, overtaken, raised>>
          /\ UNCHANGED migrationVars
        BY <1>3 DEF Tick
    <2>2. \A k \in Category : Elapse(throttles[k]) \in Bounded  BY <1>1, ElapseBounded
    <2>3. throttles' \in [Category -> Bounded]  BY <2>1, <2>2
    <2>4. phase' = phase /\ crashes' = crashes  BY <2>1 DEF migrationVars
    <2>. QED  BY <1>1, <2>1, <2>3, <2>4, OutsideKeeps
<1>. QED  BY <1>2, <1>3

\* What the refresh thread holds, spelled out.
LEMMA HoldsValues ==
    /\ Holds("vault") <=> frame["refresh"].pc \in HoldsVault
    /\ Holds("store") <=> frame["refresh"].pc \in HoldsStore
    /\ Holds("auth") <=> frame["refresh"].pc = "put auth"
BY DEF Holds, HoldsVault, HoldsStore

\* The loop's frame after a handler: at its first step, or about to set the store.
LEMMA LoopFrame ==
    ASSUME TypeInv, NEW store \in Vault, NEW pc \in {"overrides", "set store"},
           NEW f, f \in {[Idle EXCEPT !.pc = pc], [Idle EXCEPT !.pc = pc, !.store = store]},
           Go("loop", f)
    PROVE  /\ frame' \in [Thread -> Frame]
           /\ frame'["loop"] = f /\ f.pc = pc
           /\ frame'["refresh"] = frame["refresh"]
           /\ f.pc \notin HoldsVault /\ f.pc \notin HoldsStore
           /\ frame'["refresh"].pc # "set store"
<1>1. pc \in Pc /\ pc \notin HoldsVault /\ pc \notin HoldsStore  BY DEF Pc, HoldsVault, HoldsStore
<1>2. Idle \in Frame  BY IdleFrame
<1>3. f \in Frame /\ f.pc = pc  BY <1>1, <1>2 DEF Frame
<1>4. frame \in [Thread -> Frame] /\ frame["refresh"].pc # "set store"  BY DEF TypeInv
<1>5. frame' = [frame EXCEPT !["loop"] = f]  BY DEF Go
<1>6. "loop" \in Thread /\ "refresh" \in Thread /\ "loop" # "refresh"  BY DEF Thread
<1>7. frame' \in [Thread -> Frame] /\ frame'["loop"] = f /\ frame'["refresh"] = frame["refresh"]
    BY <1>3, <1>4, <1>5, <1>6
<1>. QED  BY <1>1, <1>3, <1>4, <1>7

\* A handler that changes a table and starts its reload.
LEMMA ChangeKeeps ==
    ASSUME VaultIndInv, NEW c \in Client, NEW new \in Tables, new.vault = tables.vault,
           phase = "running" /\ ~overtaken /\ frame["loop"].pc = "idle" =>
               \/ new.secret \in {0, tables.secret}
               \/ new.secret = tables.vault /\ app.vault = tables.vault,
           Change(c, new)
    PROVE  VaultIndInv' /\ UNCHANGED migrationVars
<1>. DEFINE f == [Idle EXCEPT !.pc = "overrides"]
<1>1. /\ frame["loop"].pc = "idle" /\ phase = "running" /\ ops < MaxOps /\ ops' = ops + 1
      /\ throttles' = AfterCheck(c, TRUE) /\ tables' = new /\ Go("loop", f)
      /\ overtaken' = (overtaken \/ (new.auth # tables.auth /\ Holds("auth")))
      /\ UNCHANGED <<fileValid, app, registry, made, wanted, raised>>
      /\ UNCHANGED migrationVars
    BY DEF Change, At
<1>2. phase' = phase /\ crashes' = crashes  BY <1>1 DEF migrationVars
<1>3. /\ TypeInv /\ TypeOK /\ overtaken \in BOOLEAN /\ fileValid \in BOOLEAN
      /\ raised \in BOOLEAN
    BY DEF VaultIndInv, TypeInv
<1>4. 0 \in Vault  BY AdminAssumption DEF Vault
<1>5. /\ frame' \in [Thread -> Frame] /\ frame'["loop"].pc = "overrides"
      /\ frame'["refresh"] = frame["refresh"]
      /\ frame'["loop"].pc \notin HoldsVault /\ frame'["loop"].pc \notin HoldsStore
      /\ frame'["refresh"].pc # "set store"
    BY <1>1, <1>3, <1>4, LoopFrame
<1>. HIDE DEF f
<1>6. throttles' \in [Category -> Bounded] /\ ops' \in 0..MaxOps
    BY <1>1, <1>3, ChecksBounded, OpsCounted
<1>7. TypeInv'
    <2>1. \A k \in Category : throttles'[k] \in Seq(Entry) /\ Len(throttles'[k]) <= MaxEntries
        BY <1>6 DEF Bounded
    <2>2. TypeOK'  BY <2>1, <1>1, <1>2, <1>3, <1>6 DEF TypeOK, Tables
    <2>3. overtaken' \in BOOLEAN  BY <1>1, <1>3
    <2>. QED  BY <2>2, <2>3, <1>1, <1>3, <1>5, <1>6 DEF TypeInv
<1>8. DownInv'  BY <1>1, <1>2 DEF DownInv
<1>9. ASSUME ~overtaken'
      PROVE  HeldInv' /\ StateInv' /\ (new.secret # 0 => new.secret = new.vault)
    <2>1. ~overtaken /\ ~(new.auth # tables.auth /\ Holds("auth"))  BY <1>1, <1>9
    <2>2. HeldInv /\ StateInv /\ SecretsDecryptable  BY <1>1, <2>1 DEF VaultIndInv
    <2>3. new.secret # 0 => new.secret = tables.vault /\ app.vault = tables.vault
        BY <2>1, <2>2, <1>1 DEF StateInv, SecretsDecryptable
    <2>4. StateInv'
        <3>1. app.store = wanted /\ app.vault \in {0, tables.vault}
              /\ app.store \in {0, tables.vault}
            BY <2>2, <1>1 DEF StateInv
        <3>. QED  BY <3>1, <2>3, <1>1, <1>5 DEF StateInv
    <2>5. HeldInv'
        <3>1. Thread = {"loop", "refresh"} /\ "refresh" \in Thread  BY DEF Thread
        <3>2. /\ frame["refresh"].pc \in HoldsVault => frame["refresh"].vault = tables.vault
              /\ frame["refresh"].pc \in HoldsStore => frame["refresh"].store = wanted
              /\ frame["refresh"].pc = "put auth" =>
                     frame["refresh"].auth = Resolve(tables.auth)
            BY <2>2, <3>1 DEF HeldInv
        <3>3. frame["refresh"].pc = "put auth" => new.auth = tables.auth
            BY <2>1, HoldsValues
        <3>4. frame["refresh"].pc = "put auth" => frame["refresh"].auth = Resolve(new.auth)
            BY <3>2, <3>3
        <3>5. \A t \in Thread :
                  /\ frame'[t].pc \in HoldsVault => frame'[t].vault = new.vault
                  /\ frame'[t].pc \in HoldsStore => frame'[t].store = wanted
                  /\ frame'[t].pc = "put auth" => frame'[t].auth = Resolve(new.auth)
            BY <3>1, <3>2, <3>4, <1>5
        <3>. QED  BY <3>5, <1>1 DEF HeldInv, Resolve
    <2>. QED  BY <2>3, <2>4, <2>5
<1>10. SecretsDecryptable'  BY <1>1, <1>9 DEF SecretsDecryptable
<1>11. AuthCurrent'  BY <1>5 DEF AuthCurrent
<1>. QED  BY <1>1, <1>7, <1>8, <1>9, <1>10, <1>11 DEF VaultIndInv

\* The handlers of the tables: gateway auth, overrides, managed keys.
LEMMA TableHandlersKeep ==
    ASSUME VaultIndInv, NEW c \in Client,
           \/ \E token \in Token : SetGatewayAuth(c, token)
           \/ DisableGatewayAuth(c)
           \/ InheritGatewayAuth(c)
           \/ \E value \in {"fine", "bad"} : SetConfig(c, value)
           \/ DeleteConfig(c)
           \/ SetSecret(c)
           \/ DeleteSecret(c)
    PROVE  VaultIndInv' /\ UNCHANGED migrationVars
<1>0. tables \in Tables /\ app \in App  BY DEF VaultIndInv, TypeInv, TypeOK, Tables, App, Auth
<1>1. 0 \in Vault /\ app.store \in Vault  BY <1>0, AdminAssumption DEF Vault, App
<1>2. ASSUME NEW auth \in {"inherit", "disabled"} \cup Token, Change(c, SetGatewayAuthConfig(auth))
      PROVE  VaultIndInv' /\ UNCHANGED migrationVars
    <2>. DEFINE new == SetGatewayAuthConfig(auth)
    <2>1. new \in Tables /\ new.vault = tables.vault /\ new.secret = tables.secret
        BY <1>0 DEF SetGatewayAuthConfig, Tables
    <2>. HIDE DEF new
    <2>2. Change(c, new)  BY <1>2 DEF new
    <2>. QED  BY <2>1, <2>2, ChangeKeeps
<1>3. ASSUME NEW value \in {"fine", "bad"}, Change(c, SetOverride(value))
      PROVE  VaultIndInv' /\ UNCHANGED migrationVars
    <2>. DEFINE new == SetOverride(value)
    <2>1. new \in Tables /\ new.vault = tables.vault /\ new.secret = tables.secret
        BY <1>0 DEF SetOverride, Tables
    <2>. HIDE DEF new
    <2>2. Change(c, new)  BY <1>3 DEF new
    <2>. QED  BY <2>1, <2>2, ChangeKeeps
<1>4. CASE DeleteConfig(c)
    <2>1. DeleteOverride = SetOverride("fine")  BY DEF DeleteOverride, SetOverride
    <2>2. Change(c, SetOverride("fine"))  BY <1>4, <2>1 DEF DeleteConfig
    <2>. QED  BY <2>2, <1>3
<1>5. CASE SetSecret(c)
    <2>. DEFINE new == SetManagedSecret(app.store)
    <2>1. new \in Tables /\ new.vault = tables.vault /\ new.secret = app.store
        BY <1>0, <1>1 DEF SetManagedSecret, Tables
    <2>. HIDE DEF new
    <2>2. Change(c, new) /\ app.vault # 0 /\ app.store # 0
        BY <1>5 DEF SetSecret, Unlocked, new
    <2>3. phase = "running" /\ ~overtaken /\ frame["loop"].pc = "idle" =>
              app.store = tables.vault /\ app.vault = tables.vault
        BY <2>2 DEF VaultIndInv, StateInv
    <2>. QED  BY <2>1, <2>2, <2>3, ChangeKeeps
<1>6. CASE DeleteSecret(c)
    <2>. DEFINE new == DeleteManagedSecret
    <2>1. new \in Tables /\ new.vault = tables.vault /\ new.secret = 0
        BY <1>0, <1>1 DEF DeleteManagedSecret, Tables
    <2>. HIDE DEF new
    <2>2. Change(c, new)  BY <1>6 DEF DeleteSecret, new
    <2>. QED  BY <2>1, <2>2, ChangeKeeps
<1>7. CASE \E token \in Token : SetGatewayAuth(c, token)
    BY <1>7, <1>2 DEF SetGatewayAuth
<1>8. CASE DisableGatewayAuth(c)  BY <1>8, <1>2 DEF DisableGatewayAuth
<1>9. CASE InheritGatewayAuth(c)  BY <1>9, <1>2 DEF InheritGatewayAuth
<1>10. CASE \E value \in {"fine", "bad"} : SetConfig(c, value)
    BY <1>10, <1>3 DEF SetConfig
<1>. QED  BY <1>4, <1>5, <1>6, <1>7, <1>8, <1>9, <1>10

\* A vault handler before it sets the store.  When it replaces the vault, app.state has
\* none, and so no secret is stored.
LEMMA ToSetStoreKeeps ==
    ASSUME VaultIndInv, NEW c \in Client, NEW store \in Vault,
           NEW after \in [Category -> Bounded], ToSetStore(c, store, after),
           tables' \in Tables, tables'.secret = tables.secret, tables'.auth = tables.auth,
           made' \in Vault, overtaken' \in BOOLEAN,
           overtaken => overtaken',
           ~overtaken' /\ phase = "running" => store \in {0, tables'.vault},
           \/ tables' = tables
           \/ app.vault = 0 /\ (overtaken' \/ ~Holds("vault"))
    PROVE  VaultIndInv' /\ UNCHANGED migrationVars
<1>. DEFINE f == [Idle EXCEPT !.pc = "set store", !.store = store]
<1>1. /\ frame["loop"].pc = "idle" /\ phase = "running" /\ ops < MaxOps /\ ops' = ops + 1
      /\ throttles' = after /\ Go("loop", f)
      /\ UNCHANGED <<fileValid, app, registry, wanted, raised>>
      /\ UNCHANGED migrationVars
    BY DEF ToSetStore, At
<1>2. phase' = phase /\ crashes' = crashes  BY <1>1 DEF migrationVars
<1>3. /\ TypeInv /\ TypeOK /\ overtaken \in BOOLEAN /\ fileValid \in BOOLEAN
      /\ raised \in BOOLEAN
    BY DEF VaultIndInv, TypeInv
<1>4. Idle \in Frame /\ f.store = store  BY IdleFrame DEF Frame
<1>5. /\ frame' \in [Thread -> Frame] /\ frame'["loop"] = f /\ f.pc = "set store"
      /\ frame'["refresh"] = frame["refresh"]
      /\ f.pc \notin HoldsVault /\ f.pc \notin HoldsStore
      /\ frame'["refresh"].pc # "set store"
    BY <1>1, <1>3, LoopFrame
<1>. HIDE DEF f
<1>6. throttles' \in [Category -> Bounded] /\ ops' \in 0..MaxOps
    BY <1>1, <1>3, OpsCounted
<1>7. TypeInv'
    <2>1. \A k \in Category : throttles'[k] \in Seq(Entry) /\ Len(throttles'[k]) <= MaxEntries
        BY <1>6 DEF Bounded
    <2>2. TypeOK'  BY <2>1, <1>1, <1>2, <1>3, <1>6 DEF TypeOK, Tables
    <2>. QED  BY <2>2, <1>1, <1>3, <1>5, <1>6 DEF TypeInv
<1>8. DownInv'  BY <1>1, <1>2 DEF DownInv
<1>9. ASSUME ~overtaken'
      PROVE  HeldInv' /\ StateInv' /\ (tables'.secret # 0 => tables'.secret = tables'.vault)
    <2>1. HeldInv /\ StateInv /\ SecretsDecryptable /\ ~overtaken  BY <1>1, <1>9 DEF VaultIndInv
    <2>2. \/ tables' = tables
          \/ app.vault = 0 /\ tables.secret = 0 /\ frame["refresh"].pc \notin HoldsVault
        <3>1. app.vault = 0 => tables.secret = 0
            BY <2>1 DEF StateInv, SecretsDecryptable
        <3>. QED  BY <3>1, <1>9, HoldsValues
    <2>3. tables'.secret # 0 => tables'.secret = tables'.vault /\ app.vault = tables'.vault
        BY <2>1, <2>2 DEF StateInv, SecretsDecryptable
    <2>4. StateInv'
        <3>1. app.store = wanted /\ app.vault \in {0, tables'.vault}
            BY <2>1, <2>2 DEF StateInv
        <3>2. frame'["loop"].pc = "set store" /\ frame'["loop"].store \in {0, tables'.vault}
            BY <1>1, <1>4, <1>5, <1>9
        <3>. QED  BY <3>1, <3>2, <2>3, <1>1 DEF StateInv
    <2>5. HeldInv'
        <3>1. Thread = {"loop", "refresh"} /\ "refresh" \in Thread  BY DEF Thread
        <3>2. /\ frame["refresh"].pc \in HoldsVault => frame["refresh"].vault = tables'.vault
              /\ frame["refresh"].pc \in HoldsStore => frame["refresh"].store = wanted
              /\ frame["refresh"].pc = "put auth" =>
                     frame["refresh"].auth = Resolve(tables.auth)
            BY <2>1, <2>2, <3>1 DEF HeldInv
        <3>3. \A t \in Thread :
                  /\ frame'[t].pc \in HoldsVault => frame'[t].vault = tables'.vault
                  /\ frame'[t].pc \in HoldsStore => frame'[t].store = wanted
                  /\ frame'[t].pc = "put auth" => frame'[t].auth = Resolve(tables.auth)
            BY <3>1, <3>2, <1>5
        <3>. QED  BY <3>3, <1>1 DEF HeldInv, Resolve
    <2>. QED  BY <2>3, <2>4, <2>5
<1>10. SecretsDecryptable'  BY <1>9 DEF SecretsDecryptable
<1>11. AuthCurrent'  BY <1>5 DEF AuthCurrent
<1>. QED  BY <1>1, <1>7, <1>8, <1>9, <1>10, <1>11 DEF VaultIndInv

\* The vault's handlers.
LEMMA VaultHandlersKeep ==
    ASSUME VaultIndInv, NEW c \in Client, SetupVault(c) \/ UnlockVault(c) \/ LockVault(c)
    PROVE  VaultIndInv' /\ UNCHANGED migrationVars
<1>0. /\ TypeInv /\ tables \in Tables /\ app \in App /\ made \in Vault /\ overtaken \in BOOLEAN
    BY DEF VaultIndInv, TypeInv, TypeOK, Tables, App, Auth
<1>1. 0 \in Vault /\ app.vault \in Vault  BY <1>0, AdminAssumption DEF Vault, App
<1>2. /\ AfterCheck(c, TRUE) \in [Category -> Bounded]
      /\ [AfterCheck(c, TRUE) EXCEPT !["vault"] = VaultAttempt(c, TRUE).entries]
             \in [Category -> Bounded]
    BY <1>0, ChecksBounded
<1>3. CASE SetupVault(c)
    <2>1. /\ app.vault = 0 /\ made < MaxVaults /\ made' = NewVault
          /\ tables' = SetSecretVaultConfig(NewVault)
          /\ overtaken' = (overtaken \/ Holds("vault"))
          /\ ToSetStore(c, NewVault, AfterCheck(c, TRUE))
        BY <1>3 DEF SetupVault
    <2>2. NewVault \in Vault  BY <2>1, <1>0, AdminAssumption DEF NewVault, Vault
    <2>. HIDE DEF NewVault
    <2>3. /\ tables' \in Tables /\ tables'.secret = tables.secret /\ tables'.auth = tables.auth
          /\ tables'.vault = NewVault
        BY <2>1, <2>2, <1>0 DEF SetSecretVaultConfig, Tables
    <2>4. overtaken' \in BOOLEAN /\ (overtaken => overtaken') /\ (overtaken' \/ ~Holds("vault"))
        BY <2>1, <1>0
    <2>5. NewVault \in {0, tables'.vault}  BY <2>3
    <2>. QED  BY <2>1, <2>2, <2>3, <2>4, <2>5, <1>2, ToSetStoreKeeps
<1>4. CASE UnlockVault(c)
    <2>. DEFINE after == [AfterCheck(c, TRUE) EXCEPT !["vault"] = VaultAttempt(c, TRUE).entries]
    <2>1. /\ ToSetStore(c, app.vault, after) /\ tables' = tables /\ made' = made
          /\ overtaken' = overtaken
        BY <1>4 DEF UnlockVault
    <2>2. after \in [Category -> Bounded]  BY <1>2
    <2>. HIDE DEF after
    <2>3. ~overtaken' /\ phase = "running" => app.vault \in {0, tables'.vault}
        BY <2>1 DEF VaultIndInv, StateInv
    <2>4. /\ tables' \in Tables /\ tables'.secret = tables.secret /\ tables'.auth = tables.auth
          /\ made' \in Vault /\ overtaken' \in BOOLEAN /\ (overtaken => overtaken')
        BY <2>1, <1>0
    <2>. QED  BY <2>1, <2>2, <2>3, <2>4, <1>1, ToSetStoreKeeps
<1>5. CASE LockVault(c)
    <2>1. /\ ToSetStore(c, 0, AfterCheck(c, TRUE)) /\ tables' = tables /\ made' = made
          /\ overtaken' = overtaken
        BY <1>5 DEF LockVault
    <2>4. /\ tables' \in Tables /\ tables'.secret = tables.secret /\ tables'.auth = tables.auth
          /\ made' \in Vault /\ overtaken' \in BOOLEAN /\ (overtaken => overtaken')
          /\ 0 \in {0, tables'.vault}
        BY <2>1, <1>0
    <2>. QED  BY <2>1, <2>4, <1>1, <1>2, ToSetStoreKeeps
<1>. QED  BY <1>3, <1>4, <1>5

\* Every request.
LEMMA HandlerKeeps ==
    ASSUME VaultIndInv, NEW c \in Client, Handler(c)
    PROVE  VaultIndInv' /\ UNCHANGED migrationVars
<1>1. CASE SetupVault(c) \/ UnlockVault(c) \/ LockVault(c)  BY <1>1, VaultHandlersKeep
<1>2. CASE \E valid \in BOOLEAN : ReadOnlyRequest(c, valid) \/ UnlockRefused(c, valid)
    BY <1>2, ReadOnlyRequestKeeps, UnlockRefusedKeeps
<1>3. CASE \/ \E token \in Token : SetGatewayAuth(c, token)
           \/ DisableGatewayAuth(c)
           \/ InheritGatewayAuth(c)
           \/ \E value \in {"fine", "bad"} : SetConfig(c, value)
           \/ DeleteConfig(c)
           \/ SetSecret(c)
           \/ DeleteSecret(c)
    BY <1>3, TableHandlersKeep
<1>. QED  BY <1>1, <1>2, <1>3 DEF Handler

\* The store is set; a refresh that has read the old one is overtaken.
LEMMA SetStoreKeeps ==
    ASSUME VaultIndInv, SetStore
    PROVE  VaultIndInv' /\ UNCHANGED migrationVars
<1>. DEFINE f == [Idle EXCEPT !.pc = "overrides"]
            s == frame["loop"].store
<1>1. /\ frame["loop"].pc = "set store" /\ phase = "running"
      /\ app' = [app EXCEPT !.store = s] /\ wanted' = s /\ Go("loop", f)
      /\ overtaken' = (overtaken \/ Holds("store"))
      /\ UNCHANGED <<tables, fileValid, registry, throttles, made, ops, raised>>
      /\ UNCHANGED migrationVars
    BY DEF SetStore, At
<1>2. phase' = phase /\ crashes' = crashes  BY <1>1 DEF migrationVars
<1>3. /\ TypeInv /\ TypeOK /\ overtaken \in BOOLEAN /\ fileValid \in BOOLEAN
      /\ raised \in BOOLEAN /\ throttles \in [Category -> Bounded] /\ app \in App
    BY DEF VaultIndInv, TypeInv, TypeOK, App, Auth
<1>4. 0 \in Vault  BY AdminAssumption DEF Vault
<1>5. /\ frame' \in [Thread -> Frame] /\ frame'["loop"].pc = "overrides"
      /\ frame'["refresh"] = frame["refresh"]
      /\ frame'["loop"].pc \notin HoldsVault /\ frame'["loop"].pc \notin HoldsStore
      /\ frame'["refresh"].pc # "set store"
    BY <1>1, <1>3, <1>4, LoopFrame
<1>. HIDE DEF f
<1>6. s \in Vault
    <2>1. frame["loop"] \in Frame  BY DEF VaultIndInv, TypeInv, Thread
    <2>. QED  BY <2>1 DEF Frame
<1>7. app' \in App /\ app'.store = s /\ app'.vault = app.vault  BY <1>1, <1>3, <1>6 DEF App
<1>8. TypeInv'
    <2>1. TypeOK'  BY <1>1, <1>2, <1>3, <1>6, <1>7 DEF TypeOK, App, Auth
    <2>2. overtaken' \in BOOLEAN  BY <1>1, <1>3
    <2>. QED  BY <2>1, <2>2, <1>1, <1>3, <1>5 DEF TypeInv
<1>9. DownInv'  BY <1>1, <1>2 DEF DownInv
<1>10. ASSUME ~overtaken'  PROVE HeldInv' /\ StateInv'
    <2>1. ~overtaken /\ frame["refresh"].pc \notin HoldsStore  BY <1>1, <1>10, HoldsValues
    <2>2. HeldInv /\ StateInv  BY <1>1, <2>1 DEF VaultIndInv
    <2>3. s \in {0, tables.vault}  BY <2>2, <1>1 DEF StateInv
    <2>4. StateInv'  BY <2>2, <2>3, <1>1, <1>5, <1>7 DEF StateInv
    <2>5. HeldInv'
        <3>1. Thread = {"loop", "refresh"} /\ "refresh" \in Thread  BY DEF Thread
        <3>2. /\ frame["refresh"].pc \in HoldsVault => frame["refresh"].vault = tables.vault
              /\ frame["refresh"].pc = "put auth" =>
                     frame["refresh"].auth = Resolve(tables.auth)
            BY <2>2, <3>1 DEF HeldInv
        <3>3. \A t \in Thread :
                  /\ frame'[t].pc \in HoldsVault => frame'[t].vault = tables.vault
                  /\ frame'[t].pc \in HoldsStore => frame'[t].store = s
                  /\ frame'[t].pc = "put auth" => frame'[t].auth = Resolve(tables.auth)
            BY <3>1, <3>2, <2>1, <1>5
        <3>. QED  BY <3>3, <1>1 DEF HeldInv, Resolve
    <2>. QED  BY <2>4, <2>5
<1>11. SecretsDecryptable'  BY <1>1 DEF VaultIndInv, SecretsDecryptable
<1>12. AuthCurrent'  BY <1>5 DEF AuthCurrent
<1>. QED  BY <1>1, <1>8, <1>9, <1>10, <1>11, <1>12 DEF VaultIndInv

-------------------------------------------------------------------------------
\* The process

\* While the process is not running only the types and the tables matter.
LEMMA DownKeeps ==
    ASSUME VaultIndInv, phase' # "running", TypeInv', wanted' = 0,
           \A t \in Thread : frame'[t] = Idle, UNCHANGED <<tables, overtaken>>
    PROVE  VaultIndInv'
<1>1. DownInv'  BY DEF DownInv
<1>2. SecretsDecryptable'  BY DEF VaultIndInv, SecretsDecryptable
<1>3. AuthCurrent'  BY DEF AuthCurrent
<1>. QED  BY <1>1, <1>2, <1>3 DEF VaultIndInv

\* The startup, restart and stop of the process.
LEMMA StartupKeeps ==
    ASSUME IndInv, Startup
    PROVE  IndInv'
<1>0. /\ VaultIndInv /\ TypeInv /\ TypeOK /\ tables \in Tables /\ app \in App
      /\ registry \in {"empty", "env", "managed"} /\ InitInv
    BY DEF IndInv, VaultIndInv, TypeInv, TypeOK, Tables, App, Auth
<1>1. /\ phase = "migrated" /\ phase' \in {"running", "aborted"}
      /\ UNCHANGED <<durable, conn, inTx, line>>
      /\ UNCHANGED <<crashes, tables, fileValid, frame, throttles, made, ops, wanted,
                     overtaken, raised>>
    BY DEF Startup
<1>2. InitInv'  BY <1>0, <1>1, PhaseKeeps
<1>3. wanted = 0 /\ \A t \in Thread : frame[t] = Idle  BY <1>0, <1>1 DEF VaultIndInv, DownInv
<1>4. CASE phase' = "running"
    <2>. DEFINE k == LoadKey(tables.secret, 0)
                a == Resolve(tables.auth)
    <2>1. /\ app' = [key |-> k, vault |-> tables.vault, store |-> 0, unlocked |-> FALSE,
                     auth |-> a]
          /\ registry' = k
        BY <1>4 DEF Startup
    <2>2. k \in {"env", "managed"}  BY DEF LoadKey, ApplyManagedSecrets
    <2>3. a \in Auth  BY <1>0, ResolveAuth DEF Tables
    <2>4. 0 \in Vault /\ tables.vault \in Vault  BY <1>0, AdminAssumption DEF Vault, Tables
    <2>. HIDE DEF k, a
    <2>5. app' \in App /\ app'.vault = tables.vault /\ app'.store = 0 /\ app'.auth = a
        BY <2>1, <2>2, <2>3, <2>4 DEF App
    <2>6. registry' \in {"empty", "env", "managed"}  BY <2>1, <2>2
    <2>7. TypeOK'  BY <2>5, <2>6, <1>0, <1>1 DEF TypeOK, App, Auth
    <2>8. TypeInv'  BY <2>7, <1>0, <1>1 DEF TypeInv
    <2>9. DownInv'  BY <1>4 DEF DownInv
    <2>10. SecretsDecryptable'  BY <1>0, <1>1 DEF VaultIndInv, SecretsDecryptable
    <2>11. HeldInv'
        <3>1. \A t \in Thread : /\ frame'[t].pc \notin HoldsVault /\ frame'[t].pc \notin HoldsStore
                                /\ frame'[t].pc # "put auth"
            BY <1>1, <1>3, IdleFrame
        <3>. QED  BY <3>1 DEF HeldInv
    <2>12. StateInv'
        <3>1. frame'["loop"].pc # "set store"  BY <1>1, <1>3, IdleFrame DEF Thread
        <3>. QED  BY <3>1, <2>5, <1>1, <1>3 DEF StateInv
    <2>13. AuthCurrent'
        <3>1. app'.auth = Resolve(tables.auth)  BY <2>5 DEF a
        <3>. QED  BY <3>1, <1>1 DEF AuthCurrent, Resolve
    <2>. QED  BY <2>8, <2>9, <2>10, <2>11, <2>12, <2>13, <1>2 DEF IndInv, VaultIndInv
<1>5. CASE phase' = "aborted"
    <2>1. app' = app /\ registry' = registry  BY <1>5 DEF Startup
    <2>2. TypeOK'  BY <2>1, <1>0, <1>1 DEF TypeOK
    <2>3. TypeInv'  BY <2>2, <1>0, <1>1 DEF TypeInv
    <2>4. phase' # "running" /\ wanted' = 0 /\ \A t \in Thread : frame'[t] = Idle
        BY <1>1, <1>3, <1>5
    <2>5. VaultIndInv'  BY <2>3, <2>4, <1>0, <1>1, DownKeeps
    <2>. QED  BY <2>5, <1>2 DEF IndInv
<1>. QED  BY <1>1, <1>4, <1>5

\* The end of the process.
LEMMA StopKeeps ==
    ASSUME IndInv, Stop
    PROVE  IndInv'
<1>0. VaultIndInv /\ TypeInv /\ TypeOK /\ InitInv  BY DEF IndInv, VaultIndInv, TypeInv
<1>1. /\ phase = "running" /\ ops < MaxOps /\ ops' = ops + 1 /\ phase' = "down"
      /\ app' = Blank /\ registry' = "empty" /\ frame' = [t \in Thread |-> Idle]
      /\ throttles' = [k \in Category |-> <<>>] /\ wanted' = 0 /\ raised' = FALSE
      /\ UNCHANGED <<durable, conn, inTx, line>>
      /\ UNCHANGED <<crashes, tables, fileValid, made, overtaken>>
    BY DEF Stop
<1>2. InitInv'  BY <1>0, <1>1, PhaseKeeps
<1>3. 0 \in Vault /\ Open \in Auth  BY AdminAssumption DEF Vault, Auth
<1>4. app' \in App  BY <1>1, <1>3 DEF Blank, App
<1>5. <<>> \in Bounded
    <2>1. <<>> \in Seq(Entry) /\ Len(<<>>) = 0  OBVIOUS
    <2>. QED  BY <2>1, ThrottleAssumption DEF Bounded
<1>6. throttles' \in [Category -> Bounded]  BY <1>1, <1>5
<1>7. /\ frame' \in [Thread -> Frame] /\ \A t \in Thread : frame'[t] = Idle
      /\ frame'["refresh"].pc # "set store"
    BY <1>1, IdleFrame DEF Thread
<1>8. ops' \in 0..MaxOps  BY <1>0, <1>1, OpsCounted
<1>9. TypeOK'
    <2>1. \A k \in Category : throttles'[k] \in Seq(Entry) /\ Len(throttles'[k]) <= MaxEntries
        BY <1>6 DEF Bounded
    <2>. QED  BY <2>1, <1>0, <1>1, <1>3, <1>4, <1>8 DEF TypeOK, App, Auth
<1>10. TypeInv'  BY <1>9, <1>0, <1>1, <1>6, <1>7 DEF TypeInv
<1>11. VaultIndInv'  BY <1>10, <1>0, <1>1, <1>7, DownKeeps
<1>. QED  BY <1>2, <1>11 DEF IndInv

\* A process that is started again.
LEMMA RestartKeeps ==
    ASSUME IndInv, Restart
    PROVE  IndInv'
<1>0. VaultIndInv /\ TypeInv /\ TypeOK /\ InitInv  BY DEF IndInv, VaultIndInv, TypeInv
<1>1. /\ phase = "aborted" /\ phase' = "down" /\ UNCHANGED <<durable, conn, inTx, line>>
      /\ crashes' = crashes /\ UNCHANGED adminVars
    BY DEF Restart
<1>2. InitInv'  BY <1>0, <1>1, PhaseKeeps
<1>3. /\ UNCHANGED <<tables, fileValid, app, registry, frame, throttles, made, ops, wanted,
                     overtaken, raised>>
      /\ UNCHANGED <<tables, overtaken>>
    BY <1>1 DEF adminVars
<1>4. TypeOK'  BY <1>0, <1>1, <1>3 DEF TypeOK
<1>5. TypeInv'  BY <1>4, <1>0, <1>3 DEF TypeInv
<1>6. phase' # "running" /\ wanted' = 0 /\ \A t \in Thread : frame'[t] = Idle
    BY <1>0, <1>1, <1>3 DEF VaultIndInv, DownInv
<1>7. VaultIndInv'  BY <1>5, <1>6, <1>0, <1>3, DownKeeps
<1>. QED  BY <1>2, <1>7 DEF IndInv

\* The steps of init() and its crash.
LEMMA MigrateKeeps ==
    ASSUME IndInv, Migrate
    PROVE  IndInv'
<1>0. /\ VaultIndInv /\ TypeInv /\ TypeOK /\ InitInv /\ crashes \in 0..MaxCrashes
    BY DEF IndInv, VaultIndInv, TypeInv, TypeOK
<1>1. InitStep \/ CrashInit  BY DEF Migrate
<1>2. InitInv' /\ phase # "running" /\ phase' # "running"  BY <1>0, <1>1, InitStepKeeps
<1>3. /\ UNCHANGED <<tables, fileValid, app, registry, frame, throttles, made, ops, wanted,
                     overtaken, raised>>
      /\ UNCHANGED <<tables, overtaken>>
    BY DEF Migrate, adminVars
<1>4. crashes' \in 0..MaxCrashes
    <2>1. CASE CrashInit
        <3>1. crashes < MaxCrashes /\ crashes' = crashes + 1  BY <2>1 DEF CrashInit
        <3>. QED  BY <3>1, <1>0, MigrationsAssumption
    <2>2. CASE InitStep
        <3>1. crashes' \in {0, crashes}
            BY <2>2 DEF InitStep, BeginInit, StartMigration, RunStatement, RecordVersion,
                        CommitInit
        <3>. QED  BY <3>1, <1>0, MigrationsAssumption
    <2>. QED  BY <2>1, <2>2, <1>1
<1>5. TypeOK'  BY <1>0, <1>3, <1>4 DEF TypeOK
<1>6. TypeInv'  BY <1>5, <1>0, <1>3 DEF TypeInv
<1>7. wanted' = 0 /\ \A t \in Thread : frame'[t] = Idle
    BY <1>0, <1>2, <1>3 DEF VaultIndInv, DownInv
<1>8. VaultIndInv'  BY <1>6, <1>7, <1>0, <1>2, <1>3, DownKeeps
<1>. QED  BY <1>2, <1>8 DEF IndInv

-------------------------------------------------------------------------------
\* The invariant and the theorems

\* The invariant at the start.
LEMMA IndInvInit == Init => IndInv
<1>. SUFFICES ASSUME Init  PROVE IndInv
    OBVIOUS
<1>1. /\ tables = [override |-> "fine", vault |-> 0, secret |-> 0, auth |-> "inherit"]
      /\ fileValid = TRUE /\ app = Blank /\ registry = "empty"
      /\ frame = [t \in Thread |-> Idle] /\ throttles = [k \in Category |-> <<>>]
      /\ made = 0 /\ ops = 0 /\ wanted = 0 /\ overtaken = FALSE /\ raised = FALSE
      /\ crashes = 0 /\ phase = "down" /\ MigrationInit
    BY DEF Init, MigrationInit
<1>2. InitInv  BY <1>1, InitInvInit
<1>3. 0 \in Vault /\ Open \in Auth  BY AdminAssumption DEF Vault, Auth
<1>4. app \in App /\ tables \in Tables  BY <1>1, <1>3 DEF Blank, App, Tables
<1>5. throttles \in [Category -> Bounded]
    <2>1. <<>> \in Seq(Entry) /\ Len(<<>>) = 0  OBVIOUS
    <2>2. <<>> \in Bounded  BY <2>1, ThrottleAssumption DEF Bounded
    <2>. QED  BY <2>2, <1>1
<1>6. 0 \in 0..MaxOps /\ 0 \in 0..MaxCrashes  BY AdminAssumption, MigrationsAssumption
<1>7. TypeOK
    <2>1. \A k \in Category : throttles[k] \in Seq(Entry) /\ Len(throttles[k]) <= MaxEntries
        BY <1>5 DEF Bounded
    <2>. QED  BY <2>1, <1>1, <1>3, <1>4, <1>6 DEF TypeOK, App, Auth, Tables
<1>8. /\ frame \in [Thread -> Frame] /\ \A t \in Thread : frame[t] = Idle
      /\ frame["refresh"].pc # "set store"
    BY <1>1, IdleFrame DEF Thread
<1>9. TypeInv  BY <1>1, <1>5, <1>7, <1>8 DEF TypeInv
<1>10. DownInv /\ AuthCurrent  BY <1>1, <1>8 DEF DownInv, AuthCurrent
<1>11. SecretsDecryptable  BY <1>1 DEF SecretsDecryptable
<1>. QED  BY <1>1, <1>2, <1>9, <1>10, <1>11 DEF IndInv, VaultIndInv

\* Every step.
LEMMA IndInvStep == IndInv /\ [Next]_vars => IndInv'
<1>. SUFFICES ASSUME IndInv, [Next]_vars  PROVE IndInv'
    OBVIOUS
<1>0. InitInv /\ VaultIndInv  BY DEF IndInv
<1>1. ASSUME VaultIndInv', UNCHANGED migrationVars  PROVE IndInv'
    <2>1. UNCHANGED <<durable, conn, inTx, line>> /\ phase' = phase  BY <1>1 DEF migrationVars
    <2>2. InitInv'  BY <1>0, <2>1, PhaseKeeps
    <2>. QED  BY <2>2, <1>1 DEF IndInv
<1>2. CASE Migrate  BY <1>2, MigrateKeeps
<1>3. CASE Startup  BY <1>3, StartupKeeps
<1>4. CASE Stop  BY <1>4, StopKeeps
<1>5. CASE Restart  BY <1>5, RestartKeeps
<1>6. CASE EditFile \/ Tick
    <2>1. VaultIndInv' /\ UNCHANGED migrationVars  BY <1>0, <1>6, SurroundingsKeep
    <2>. QED  BY <2>1, <1>1
<1>7. CASE \E t \in Thread : ReloadStep(t)
    <2>1. VaultIndInv' /\ UNCHANGED migrationVars  BY <1>0, <1>7, ReloadStepKeeps
    <2>. QED  BY <2>1, <1>1
<1>8. CASE ConfigRefresh
    <2>1. VaultIndInv' /\ UNCHANGED migrationVars  BY <1>0, <1>8, ConfigRefreshKeeps
    <2>. QED  BY <2>1, <1>1
<1>9. CASE SetStore
    <2>1. VaultIndInv' /\ UNCHANGED migrationVars  BY <1>0, <1>9, SetStoreKeeps
    <2>. QED  BY <2>1, <1>1
<1>10. CASE \E c \in Client : Handler(c)
    <2>1. VaultIndInv' /\ UNCHANGED migrationVars  BY <1>0, <1>10, HandlerKeeps
    <2>. QED  BY <2>1, <1>1
<1>11. CASE UNCHANGED vars
    <2>1. UNCHANGED migrationVars
          /\ UNCHANGED <<tables, app, registry, frame, made, wanted, overtaken, raised>>
          /\ throttles' = throttles /\ ops' = ops /\ fileValid' = fileValid
        BY <1>11 DEF vars, adminVars
    <2>2. phase' = phase /\ crashes' = crashes  BY <2>1 DEF migrationVars
    <2>3. throttles' \in [Category -> Bounded] /\ ops' \in 0..MaxOps /\ fileValid' \in BOOLEAN
        BY <2>1, <1>0 DEF VaultIndInv, TypeInv, TypeOK
    <2>4. VaultIndInv'  BY <1>0, <2>1, <2>2, <2>3, OutsideKeeps
    <2>. QED  BY <2>1, <2>4, <1>1
<1>. QED  BY <1>2, <1>3, <1>4, <1>5, <1>6, <1>7, <1>8, <1>9, <1>10, <1>11 DEF Next

\* It holds throughout.
LEMMA IndInvHolds == Spec => []IndInv
<1>1. Init => IndInv  BY IndInvInit
<1>2. IndInv /\ [Next]_vars => IndInv'  BY IndInvStep
<1>. QED  BY <1>1, <1>2, PTL DEF Spec

\* Database.init() from any release, with any number of crashes at any statement: a
\* recorded version has all it provides, no statement of a rerun raises, no timestamp is
\* converted twice, and the handlers find the schema of the latest release
\* (db.py:441-458).
THEOREM MigrationsSafe == Spec => []MigrationsInv
<1>1. IndInv => MigrationsInv  BY InitInvSafe DEF IndInv
<1>. QED  BY <1>1, IndInvHolds, PTL

\* The vault, however handlers, the reloads of two threads and restarts interleave, until
\* a handler overtakes a refresh: it is open or locked as the last handler left it, and a
\* stored secret belongs to the stored vault (main.py:301, proxy.py:909).
THEOREM VaultSound == Spec => []VaultInv
<1>1. IndInv => VaultInv
    BY DEF IndInv, VaultIndInv, TypeInv, StateInv, VaultInv, StoreKept
<1>. QED  BY <1>1, IndInvHolds, PTL

\* Between requests, unless a reload raised or was overtaken, requests are checked
\* against the gateway auth that is stored (main.py:303).
THEOREM AuthIsCurrent == Spec => []AuthCurrent
<1>1. IndInv => AuthCurrent  BY DEF IndInv, VaultIndInv
<1>. QED  BY <1>1, IndInvHolds, PTL
===============================================================================
