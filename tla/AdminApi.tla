------------------------------- MODULE AdminApi -------------------------------
(***************************************************************************)
(* The runtime configuration of the gateway: the admin handlers of           *)
(* src/proxy.py, reload_settings() and the startup of src/main.py, the       *)
(* vault of src/secret_store.py and the tables of src/db.py they work on.    *)
(*                                                                          *)
(* A handler runs on the event loop from its first to its last line without  *)
(* an await, so handlers do not interleave; but the config_refresh job runs  *)
(* reload_settings() on a thread of the scheduler, between any two steps of  *)
(* a handler.  Both build everything in locals and then put it in app.state  *)
(* one field after the other, under no lock.                                 *)
(*                                                                          *)
(* One override, one managed provider key and one configuration file stand   *)
(* for all; an override is fine when it is absent or apply_overrides() takes *)
(* it.  A password or a token is right or wrong; a vault is a number, and an *)
(* unlocked store and an encrypted secret are the vault's they belong to.    *)
(***************************************************************************)
EXTENDS Migrations, FailureThrottle

CONSTANTS
    Token,       \* managed gateway keys
    EnvAuth,     \* what GATEWAY_API_KEY asks for: a token, or Open if it is not set
    Open,        \* no authentication
    MaxVaults,   \* vaults set up
    MaxOps       \* admin changes, refused credentials, edits of the file and restarts

ASSUME AdminAssumption ==
    /\ Open \notin Token
    /\ MaxVaults \in Nat
    /\ MaxOps \in Nat

Vault == 0..MaxVaults     \* 0 is no vault, a locked store, no secret
Thread == {"loop", "refresh"}
Category == {"gateway", "vault"}

VARIABLES
    tables,      \* config_overrides, secret_vault_config, managed_secrets, gateway_auth_config
    fileValid,   \* whether every api_base of config.yaml passes validation
    app,         \* app.state
    registry,    \* the provider's key in the registry: "empty", "env" or "managed"
    frame,       \* per thread, where its reload_settings() is and its locals
    throttles,   \* auth_failure_throttles
    made,        \* vaults made so far
    ops,         \* changes so far
    wanted,      \* history: the store the last handler to set it has set
    overtaken,   \* history: a handler changed what a refresh had read and not put back yet
    raised       \* history: the last reload to end has raised

adminVars == <<tables, fileValid, app, registry, frame, throttles, made, ops, wanted,
               overtaken, raised>>
vars == <<migrationVars, adminVars>>

Idle == [pc |-> "idle", valid |-> TRUE, vault |-> 0, store |-> 0,
         key |-> "env", auth |-> Open]

Blank == [key |-> "env", vault |-> 0, store |-> 0, unlocked |-> FALSE,
          auth |-> Open]

Init ==
    /\ MigrationInit
    /\ tables = [override |-> "fine", vault |-> 0, secret |-> 0, auth |-> "inherit"]
    /\ fileValid = TRUE
    /\ app = Blank
    /\ registry = "empty"
    /\ frame = [t \in Thread |-> Idle]
    /\ throttles = [k \in Category |-> <<>>]
    /\ made = 0
    /\ ops = 0
    /\ wanted = 0
    /\ overtaken = FALSE
    /\ raised = FALSE

-------------------------------------------------------------------------------
\* The rows of the tables, written by way of the writer thread and read back

\* set_override() stores a string as it is and anything else as JSON; get_overrides()
\* decodes what looks like JSON.  Neither refuses a value.
SetOverride(value) == [tables EXCEPT !.override = value]
DeleteOverride == [tables EXCEPT !.override = "fine"]
SetManagedSecret(store) == [tables EXCEPT !.secret = store]
DeleteManagedSecret == [tables EXCEPT !.secret = 0]
SetSecretVaultConfig(v) == [tables EXCEPT !.vault = v]
SetGatewayAuthConfig(auth) == [tables EXCEPT !.auth = auth]

\* What is computed from them

\* apply_overrides(): int() and float() raise on a value they do not understand.
ApplyOverridesRaises(override) == override = "bad"

\* ManagedSecretStore.decrypt(): another vault's secret is an InvalidToken.
Decrypts(store, secret) == store # 0 /\ secret = store

\* apply_managed_secrets(): a key that is missing among the decrypted ones leaves the
\* environment's in the settings.
ApplyManagedSecrets(found) == IF found THEN "managed" ELSE "env"

\* _load_managed_secrets(), decrypt_mapping()
LoadKey(secret, store) == ApplyManagedSecrets(Decrypts(store, secret))

\* _get_gateway_auth_config(), _resolve_gateway_auth_state(): what a request must show
Resolve(auth) ==
    CASE auth = "disabled" -> Open
      [] auth = "inherit" -> EnvAuth
      [] OTHER -> auth

-------------------------------------------------------------------------------
\* reload_settings()

\* A local is forgotten after its last use.

\* What no step of a reload touches.
outer == <<migrationVars, tables, fileValid, throttles, made, ops, wanted, overtaken>>

At(t, pc) == phase = "running" /\ frame[t].pc = pc
Go(t, f) == frame' = [frame EXCEPT ![t] = f]

\* An exception leaves everything assigned so far as it is.
Raise(t) == Go(t, Idle) /\ raised' = TRUE

\* Settings.from_env(), get_overrides(), apply_overrides()
ReadOverrides(t) ==
    /\ At(t, "overrides")
    /\ IF ApplyOverridesRaises(tables.override)
       THEN Raise(t)
       ELSE /\ Go(t, [frame[t] EXCEPT !.pc = "vault", !.valid = fileValid])
            /\ UNCHANGED raised
    /\ UNCHANGED <<outer, app, registry>>

\* _get_secret_vault_config()
ReadVault(t) ==
    /\ At(t, "vault")
    /\ Go(t, [frame[t] EXCEPT !.pc = "store", !.vault = tables.vault])
    /\ UNCHANGED <<outer, app, registry, raised>>

\* getattr(app.state, "secret_store", None)
ReadStore(t) ==
    /\ At(t, "store")
    /\ Go(t, [frame[t] EXCEPT !.pc = "secrets", !.store = app.store])
    /\ UNCHANGED <<outer, app, registry, raised>>

\* _load_managed_secrets(), apply_managed_secrets()
ReadSecrets(t) ==
    /\ At(t, "secrets")
    /\ Go(t, [frame[t] EXCEPT !.pc = "clear", !.key = LoadKey(tables.secret, frame[t].store)])
    /\ UNCHANGED <<outer, app, registry, raised>>

\* register_configured(): the registry is emptied first, then validate_provider_api_base()
\* may raise.
ClearRegistry(t) ==
    /\ At(t, "clear")
    /\ registry' = "empty"
    /\ IF frame[t].valid
       THEN Go(t, [frame[t] EXCEPT !.pc = "fill"]) /\ UNCHANGED raised
       ELSE Raise(t)
    /\ UNCHANGED <<outer, app>>

FillRegistry(t) ==
    /\ At(t, "fill")
    /\ registry' = frame[t].key
    /\ Go(t, [frame[t] EXCEPT !.pc = "put settings"])
    /\ UNCHANGED <<outer, app, raised>>

PutSettings(t) ==
    /\ At(t, "put settings")
    /\ app' = [app EXCEPT !.key = frame[t].key]
    /\ Go(t, [frame[t] EXCEPT !.pc = "put vault", !.key = "env"])
    /\ UNCHANGED <<outer, registry, raised>>

\* The vault's configuration is left as it was.
PutVaultForgotten(t) ==
    /\ At(t, "put vault")
    /\ Go(t, [frame[t] EXCEPT !.pc = "put store", !.vault = 0])
    /\ UNCHANGED <<outer, app, registry, raised>>

PutVault(t) ==
    /\ At(t, "put vault")
    /\ app' = [app EXCEPT !.vault = frame[t].vault]
    /\ Go(t, [frame[t] EXCEPT !.pc = "put store", !.vault = 0])
    /\ UNCHANGED <<outer, registry, raised>>

PutStore(t) ==
    /\ At(t, "put store")
    /\ app' = [app EXCEPT !.store = frame[t].store]
    /\ Go(t, [frame[t] EXCEPT !.pc = "put status"])
    /\ UNCHANGED <<outer, registry, raised>>

PutStatus(t) ==
    /\ At(t, "put status")
    /\ app' = [app EXCEPT !.unlocked = (frame[t].store # 0)]
    /\ Go(t, [frame[t] EXCEPT !.pc = "auth", !.store = 0])
    /\ UNCHANGED <<outer, registry, raised>>

ReadAuth(t) ==
    /\ At(t, "auth")
    /\ Go(t, [frame[t] EXCEPT !.pc = "put auth", !.auth = Resolve(tables.auth)])
    /\ UNCHANGED <<outer, app, registry, raised>>

\* The handlers are left with the gateway auth of the start.
PutAuthForgotten(t) ==
    /\ At(t, "put auth")
    /\ Go(t, Idle)
    /\ raised' = FALSE
    /\ UNCHANGED <<outer, app, registry>>

\* The rest of the reload (gating, rescheduling, readiness) is in ModelHealth.
PutAuth(t) ==
    /\ At(t, "put auth")
    /\ app' = [app EXCEPT !.auth = frame[t].auth]
    /\ Go(t, Idle)
    /\ raised' = FALSE
    /\ UNCHANGED <<outer, registry>>

ReloadStep(t) ==
    \/ ReadOverrides(t) \/ ReadVault(t) \/ ReadStore(t) \/ ReadSecrets(t)
    \/ ClearRegistry(t) \/ FillRegistry(t)
    \/ PutSettings(t) \/ PutVault(t) \/ PutStore(t) \/ PutStatus(t)
    \/ ReadAuth(t) \/ PutAuth(t)

\* The config_refresh job, every five minutes, at most one at a time.
ConfigRefresh ==
    /\ At("refresh", "idle")
    /\ Go("refresh", [Idle EXCEPT !.pc = "overrides"])
    /\ UNCHANGED <<outer, app, registry, raised>>

-------------------------------------------------------------------------------
\* The handlers.  Each one first runs _check_gateway_auth().

GatewayAttempt(c, valid) == Attempt(throttles["gateway"], c, valid)
Passes(c, valid) == app.auth = Open \/ GatewayAttempt(c, valid).status = 200
AfterCheck(c, valid) ==
    IF app.auth = Open THEN throttles
    ELSE [throttles EXCEPT !["gateway"] = GatewayAttempt(c, valid).entries]

\* A request that is refused, that is answered 4xx by a check of its own, or that only
\* reads: what it leaves is its trace in the throttle.
ReadOnlyRequest(c, valid) ==
    /\ At("loop", "idle") /\ ops < MaxOps
    /\ throttles' = AfterCheck(c, valid)
    /\ ops' = IF Passes(c, valid) THEN ops ELSE ops + 1
    /\ UNCHANGED <<migrationVars, tables, fileValid, app, registry, frame, made, wanted,
                   overtaken, raised>>

\* The refresh thread holds a value it has read and will put back.
Holds(what) ==
    frame["refresh"].pc \in
        CASE what = "vault" -> {"store", "secrets", "clear", "fill", "put settings", "put vault"}
          [] what = "store" -> {"secrets", "clear", "fill", "put settings", "put vault",
                                "put store"}
          [] what = "auth" -> {"put auth"}

\* An authorized change of a table: enqueue, flush(), reload_settings().
Change(c, new) ==
    /\ At("loop", "idle") /\ ops < MaxOps
    /\ Passes(c, TRUE)
    /\ throttles' = AfterCheck(c, TRUE)
    /\ ops' = ops + 1
    /\ tables' = new
    /\ overtaken' = (overtaken \/ (new.auth # tables.auth /\ Holds("auth")))
    /\ Go("loop", [Idle EXCEPT !.pc = "overrides"])
    /\ UNCHANGED <<migrationVars, fileValid, app, registry, made, wanted, raised>>

SetGatewayAuth(c, token) == Change(c, SetGatewayAuthConfig(token))
DisableGatewayAuth(c) == Change(c, SetGatewayAuthConfig("disabled"))
InheritGatewayAuth(c) == Change(c, SetGatewayAuthConfig("inherit"))

\* Nobody looks at the value: apply_overrides() is its first reader.
SetConfig(c, value) == Change(c, SetOverride(value))
DeleteConfig(c) == Change(c, DeleteOverride)

\* _require_secret_management_unlocked()
Unlocked == app.vault # 0 /\ app.store # 0

SetSecret(c) == Unlocked /\ Change(c, SetManagedSecret(app.store))
DeleteSecret(c) == Unlocked /\ Change(c, DeleteManagedSecret)

\* A vault handler goes on to SetStore with the store it has made.
ToSetStore(c, store, after) ==
    /\ At("loop", "idle") /\ ops < MaxOps
    /\ Passes(c, TRUE)
    /\ throttles' = after
    /\ ops' = ops + 1
    /\ Go("loop", [Idle EXCEPT !.pc = "set store", !.store = store])
    /\ UNCHANGED <<migrationVars, fileValid, app, registry, wanted, raised>>

\* create_vault_config(): a new salt makes a vault no earlier password opens.
NewVault == made + 1

\* Setup without its 409.
SetupVaultAgain(c) ==
    /\ made < MaxVaults
    /\ made' = NewVault
    /\ tables' = SetSecretVaultConfig(NewVault)
    /\ overtaken' = (overtaken \/ Holds("vault"))
    /\ ToSetStore(c, NewVault, AfterCheck(c, TRUE))

\* The 409 looks at app.state, not at the table.
SetupVault(c) ==
    /\ app.vault = 0
    /\ made < MaxVaults
    /\ made' = NewVault
    /\ tables' = SetSecretVaultConfig(NewVault)
    /\ overtaken' = (overtaken \/ Holds("vault"))
    /\ ToSetStore(c, NewVault, AfterCheck(c, TRUE))

\* unlock_vault() with a right or a wrong password for the configuration in app.state
VaultAttempt(c, right) == Attempt(throttles["vault"], c, right)

UnlockVault(c) ==
    /\ app.vault # 0
    /\ LET answer == VaultAttempt(c, TRUE)
       IN /\ answer.status = 200
          /\ ToSetStore(c, app.vault, [AfterCheck(c, TRUE) EXCEPT !["vault"] = answer.entries])
    /\ UNCHANGED <<tables, made, overtaken>>

\* A wrong password, or one that comes while the vault's throttle blocks.
UnlockRefused(c, right) ==
    /\ At("loop", "idle") /\ ops < MaxOps
    /\ Passes(c, TRUE)
    /\ app.vault # 0
    /\ ops' = ops + 1
    /\ LET answer == VaultAttempt(c, right)
       IN /\ answer.status # 200
          /\ throttles' = [AfterCheck(c, TRUE) EXCEPT !["vault"] = answer.entries]
    /\ UNCHANGED <<migrationVars, tables, fileValid, app, registry, frame, made, wanted,
                   overtaken, raised>>

LockVault(c) ==
    /\ app.vault # 0
    /\ ToSetStore(c, 0, AfterCheck(c, TRUE))
    /\ UNCHANGED <<tables, made, overtaken>>

\* app.state.secret_store = ..., then reload_settings()
SetStore ==
    /\ At("loop", "set store")
    /\ app' = [app EXCEPT !.store = frame["loop"].store]
    /\ wanted' = frame["loop"].store
    /\ overtaken' = (overtaken \/ Holds("store"))
    /\ Go("loop", [Idle EXCEPT !.pc = "overrides"])
    /\ UNCHANGED <<migrationVars, tables, fileValid, registry, throttles, made, ops, raised>>

Handler(c) ==
    \/ \E token \in Token : SetGatewayAuth(c, token)
    \/ DisableGatewayAuth(c)
    \/ InheritGatewayAuth(c)
    \/ \E value \in {"fine", "bad"} : SetConfig(c, value)
    \/ DeleteConfig(c)
    \/ SetSecret(c)
    \/ DeleteSecret(c)
    \/ SetupVault(c)
    \/ UnlockVault(c)
    \/ LockVault(c)
    \/ \E valid \in BOOLEAN : ReadOnlyRequest(c, valid) \/ UnlockRefused(c, valid)

-------------------------------------------------------------------------------
\* The process and what surrounds it

\* A secret that cannot be decrypted yet ends the startup.
StartupNeedsSecrets ==
    /\ phase = "migrated"
    /\ IF ApplyOverridesRaises(tables.override) \/ ~fileValid \/ tables.secret # 0
       THEN phase' = "aborted" /\ UNCHANGED <<app, registry>>
       ELSE /\ phase' = "running"
            /\ app' = [Blank EXCEPT !.vault = tables.vault, !.auth = Resolve(tables.auth)]
            /\ registry' = "env"
    /\ UNCHANGED <<durable, conn, inTx, line, crashes, tables, fileValid, frame, throttles,
                   made, ops, wanted, overtaken, raised>>

\* lifespan() up to its yield: the same computation, before anything runs beside it.
Startup ==
    /\ phase = "migrated"
    /\ IF ApplyOverridesRaises(tables.override) \/ ~fileValid
       THEN phase' = "aborted" /\ UNCHANGED <<app, registry>>
       ELSE /\ phase' = "running"
            /\ app' = [key |-> LoadKey(tables.secret, 0),
                       vault |-> tables.vault, store |-> 0, unlocked |-> FALSE,
                       auth |-> Resolve(tables.auth)]
            /\ registry' = LoadKey(tables.secret, 0)
    /\ UNCHANGED <<durable, conn, inTx, line, crashes, tables, fileValid, frame, throttles,
                   made, ops, wanted, overtaken, raised>>

\* The process ends, by a crash or on purpose; nothing in memory survives.
Stop ==
    /\ phase = "running" /\ ops < MaxOps
    /\ ops' = ops + 1
    /\ phase' = "down"
    /\ app' = Blank
    /\ registry' = "empty"
    /\ frame' = [t \in Thread |-> Idle]
    /\ throttles' = [k \in Category |-> <<>>]
    /\ wanted' = 0
    /\ raised' = FALSE
    /\ UNCHANGED <<durable, conn, inTx, line, crashes, tables, fileValid, made, overtaken>>

\* A process that could not start is started again (install.sh:291, restart:
\* unless-stopped).
Restart ==
    /\ phase = "aborted"
    /\ phase' = "down"
    /\ UNCHANGED <<durable, conn, inTx, line, crashes, adminVars>>

\* The operator edits config.yaml.
EditFile ==
    /\ ops < MaxOps
    /\ ops' = ops + 1
    /\ fileValid' = ~fileValid
    /\ UNCHANGED <<migrationVars, tables, app, registry, frame, throttles, made, wanted,
                   overtaken, raised>>

Tick ==
    /\ phase = "running"
    /\ throttles' = [k \in Category |-> Elapse(throttles[k])]
    /\ UNCHANGED <<migrationVars, tables, fileValid, app, registry, frame, made, ops, wanted,
                   overtaken, raised>>

Migrate == (InitStep \/ CrashInit) /\ UNCHANGED adminVars

Next ==
    \/ Migrate \/ Startup \/ Stop \/ Restart \/ EditFile \/ Tick
    \/ \E t \in Thread : ReloadStep(t)
    \/ ConfigRefresh
    \/ SetStore
    \/ \E c \in Client : Handler(c)

\* The scheduler's thread, the event loop and a starting process go on.
Spec ==
    /\ Init /\ [][Next]_vars
    /\ \A t \in Thread : WF_vars(ReloadStep(t))
    /\ WF_vars(ConfigRefresh) /\ WF_vars(SetStore)
    /\ WF_vars(InitStep /\ UNCHANGED adminVars) /\ WF_vars(Startup) /\ WF_vars(Restart)

-------------------------------------------------------------------------------
TypeOK ==
    /\ tables \in [override : {"fine", "bad"}, vault : Vault, secret : Vault,
                   auth : {"inherit", "disabled"} \cup Token]
    /\ app \in [key : {"env", "managed"}, vault : Vault,
                store : Vault, unlocked : BOOLEAN, auth : Token \cup {Open, EnvAuth}]
    /\ registry \in {"empty", "env", "managed"}
    /\ \A k \in Category : throttles[k] \in Seq(Entry) /\ Len(throttles[k]) <= MaxEntries
    /\ made \in Vault /\ wanted \in Vault
    /\ ops \in 0..MaxOps /\ crashes \in 0..MaxCrashes

\* The vault is open or locked as the last vault handler has left it, however reloads on
\* the refresh thread fall between; main.py:301 breaks this only for a handler that
\* overtakes a refresh.
StoreKept == phase = "running" /\ ~overtaken => app.store = wanted

\* A vault that holds a secret is never set up anew over it: what is stored can be
\* decrypted with the password of the vault that is stored (proxy.py:909).
SecretsDecryptable == ~overtaken /\ tables.secret # 0 => tables.secret = tables.vault

\* Once a gateway-auth handler has returned, requests are checked against what it has
\* stored, unless the reload has raised (main.py:303).
AuthCurrent ==
    phase = "running" /\ frame["loop"].pc = "idle" /\ ~overtaken /\ ~raised =>
        app.auth = Resolve(tables.auth)

Agrees ==
    /\ app.vault = tables.vault
    /\ app.unlocked = (app.store # 0)
    /\ app.key = LoadKey(tables.secret, app.store) /\ registry = app.key
    /\ app.auth = Resolve(tables.auth)

\* Whatever races, exceptions and restarts came before: when the changes end and neither
\* the stored override nor the file makes a reload raise, settings, vault status, registry
\* and gateway auth come to agree with the tables.
ReloadConverges ==
    (ops = MaxOps /\ fileValid /\ tables.override # "bad") ~>
        (phase = "running" /\ Agrees)

\* From any earlier release, after any crash, the gateway starts, unless it is made to
\* abort by an override that no reload accepts or by the file.
StartsUp ==
    phase = "down" ~> phase = "running" \/ tables.override = "bad" \/ ~fileValid

\* The schema is complete when the handlers first use it, and every file ends with
\* canonical timestamps.
SchemaReady == phase \in {"migrated", "running", "aborted"} => durable = Release(Latest)

\* The vault through handlers, reloads and restarts: it is as the handlers left it, and
\* what is stored under it can be read.
VaultInv == TypeOK /\ StoreKept /\ SecretsDecryptable

\* A crash anywhere in a migration does no harm, and the handlers find the whole schema.
MigrationsInv == CrashSafe /\ SchemaReady
===============================================================================
