----------------------------- MODULE ModelHealth -----------------------------
(***************************************************************************)
(* The health and activity of models: the columns of the models table that  *)
(* routing reads, and everyone who writes them - mark_failure() and          *)
(* mark_success() of src/health.py after a request or a probe, the probe     *)
(* batches with their daily budget, discovery, the admin endpoints and the   *)
(* gating of providers by src/main.py.                                       *)
(*                                                                          *)
(* Requests, discovery, probes and the admin handlers run on the event loop; *)
(* the writer and config_refresh_job() are threads of their own.  A write    *)
(* goes to the writer's queue (module WriteLog: applied one at a time, in    *)
(* order) and a read sees the database, never the queue: what a handler read *)
(* may be behind what was already accepted.  db.writer.flush() blocks its    *)
(* caller until the queue is empty, on the event loop everything else too.   *)
(***************************************************************************)
EXTENDS Naturals, Sequences, FiniteSets, SequencesExt

CONSTANTS
    Model, Provider,
    ProviderOf,      \* [Model -> Provider]
    Threshold,       \* health_consecutive_failures_threshold
    MaxBackoff,      \* health_max_backoff_exponent
    Cooldown,        \* health_cooldown_minutes
    Budget,          \* [Provider -> Nat], health_daily_request_budget_by_provider
    Concurrency,     \* health_probe_concurrency
    DayLength,       \* units of time in a UTC day
    Configs,         \* what may be stored: see Config
    MaxTime, MaxMarks, MaxDiscoveries, MaxRefreshes, MaxAdmin, MaxReloads,
    MaxBatches       \* bounds

\* What the environment, the overrides table and the managed secrets say of the
\* providers: those configured for inference, and those with an API key.
Config == [on : SUBSET Provider, keyed : SUBSET Provider]

ASSUME ModelHealthAssumption ==
    /\ IsFiniteSet(Model) /\ IsFiniteSet(Provider)
    /\ ProviderOf \in [Model -> Provider]
    /\ Budget \in [Provider -> Nat]
    /\ Threshold \in Nat \ {0}
    /\ MaxBackoff \in Nat
    /\ Cooldown \in Nat \ {0}
    /\ Concurrency \in Nat \ {0}
    /\ DayLength \in Nat \ {0}
    /\ Configs \subseteq Config
    /\ MaxTime \in Nat

\* No cooldown is empty: arithmetic that the provers have no rule for.
ASSUME CooldownAssumption ==
    \A level \in 0..MaxBackoff : Cooldown * 2 ^ level \in Nat \ {0}

\* Who may be inside reload_settings() or recompute_readiness(): the event loop, and
\* the scheduler's thread with config_refresh_job().
Who == {"loop", "thread"}

\* Who may be inside run_discovery_pipeline(): the scheduled job, which has
\* max_instances=1, and admin_refresh(), which holds discovery_lock.
Runner == {"job", "admin"}

\* Who may be inside _run_probe_batch(): health_job() and a pipeline's bootstrap.
Batcher == {"health", "job", "admin"}

VARIABLES
    models,      \* the models table
    probeRows,   \* request_log rows of probes: [Batcher -> [Provider -> [Day -> count]]],
                 \* told apart by whose batch sent them for BudgetPerRunner alone
    queue,       \* writes accepted and not yet applied
    now,         \* the clock
    stored,      \* the configuration as the database has it
    settings,    \* providers app.state.settings has configured for inference
    present,     \* ids in ProviderRegistry._providers
    keys,        \* those among them whose adapter has an API key
    registry,    \* those among them with inference_enabled
    reload,      \* per caller: the Settings it built, and whom its loop has yet to visit
    gater,       \* per caller: where it is on its way through reload_settings(), flush()
                 \* and recompute_readiness()
    pipeline,    \* per runner: where run_discovery_pipeline() is
    todo,        \* per runner: providers whose discover_models() it has yet to await
    batch,       \* per batcher: its state, utc_day, budget_usage and free permits
    probe,       \* per batcher and model: where probe_one() is
    used,        \* how often each bounded input has happened
    streak       \* history: failures accepted since the last accepted success

vars == <<models, probeRows, queue, now, stored, settings, present, keys, registry,
          reload, gater, pipeline, todo, batch, probe, used, streak>>

configVars == <<stored, settings, present, keys, registry, reload>>
pipelineVars == <<pipeline, todo>>
probeVars == <<batch, probe>>

Day == 0..(MaxTime \div DayLength)
Today == now \div DayLength

\* cooldown_until IS NULL
NULL == 0

\* A row of the models table: failures is consecutive_failures, backoff is
\* backoff_level, cooldown is cooldown_until.
NewRow == [known |-> TRUE, active |-> TRUE, healthy |-> TRUE, failures |-> 0,
           backoff |-> 0, cooldown |-> NULL]

NoRow == [NewRow EXCEPT !.known = FALSE, !.active = FALSE]

\* A batch with no usage read and every permit free; none is running.
NewBatch(day) == [state |-> "running", day |-> day, usage |-> [p \in {} |-> 0],
                  free |-> Concurrency]

NoBatch == [NewBatch(0) EXCEPT !.state = "idle"]

\* After the lifespan has configured the registry, before its first discovery.
Init ==
    /\ models \in [Model -> {NewRow, NoRow}]   \* rows of an earlier run
    /\ probeRows = [b \in Batcher |-> [p \in Provider |-> [d \in Day |-> 0]]]
    /\ queue = <<>>
    /\ now = 0
    /\ stored \in Configs
    /\ settings = stored.on
    /\ present = Provider
    /\ keys = stored.keyed
    /\ registry = stored.on \intersect stored.keyed
    /\ reload = [who \in Who |-> [conf |-> stored, todo |-> {}]]
    /\ gater = [who \in Who |-> "free"]
    /\ pipeline = [r \in Runner |-> "idle"]
    /\ todo = [r \in Runner |-> {}]
    /\ batch = [b \in Batcher |-> NoBatch]
    /\ probe = [b \in Batcher |-> [m \in Model |-> "none"]]
    /\ used = [marks |-> 0, discoveries |-> 0, refreshes |-> 0, admin |-> 0, reloads |-> 0,
               batches |-> 0]
    /\ streak = [m \in Model |-> 0]

-------------------------------------------------------------------------------
\* The statements the writer executes

\* consecutive_failures computed from the row mark_failure() read.
ApplyFailureAsRead(row, w) ==
    [row EXCEPT !.failures = w.backoff, !.backoff = w.backoff, !.cooldown = w.until,
                !.healthy = @ /\ w.backoff < Threshold]

ApplyFailure(row, w) ==
    [row EXCEPT !.failures = @ + 1,
                !.backoff = w.backoff,
                !.cooldown = w.until,
                !.healthy = @ /\ row.failures + 1 < Threshold]

ApplySuccess(row) ==
    [row EXCEPT !.failures = 0, !.backoff = 0, !.cooldown = NULL, !.healthy = TRUE]

\* INSERT ... ON CONFLICT DO UPDATE: is_active and is_healthy are overwritten, the
\* failure counters are not.
ApplyUpsert(row) ==
    IF row.known THEN [row EXCEPT !.active = TRUE, !.healthy = TRUE] ELSE NewRow

\* A row that does not exist is not updated.
Update(m, row) == [models EXCEPT ![m] = IF models[m].known THEN row ELSE @]

Deactivate(S) ==
    [m \in Model |-> IF m \in S THEN [models[m] EXCEPT !.active = FALSE] ELSE models[m]]

WriterApply ==
    /\ queue # <<>>
    /\ queue' = Tail(queue)
    /\ LET w == Head(queue) IN
       /\ models' =
            CASE w.op = "failure" -> Update(w.model, ApplyFailure(models[w.model], w))
              [] w.op = "success" -> Update(w.model, ApplySuccess(models[w.model]))
              [] w.op = "active" -> Update(w.model, [models[w.model] EXCEPT !.active = w.on])
              [] w.op = "upsert" -> [models EXCEPT ![w.model] = ApplyUpsert(@)]
              [] w.op = "deactivate" -> Deactivate(w.models)
              [] OTHER -> models
       /\ probeRows' = IF w.op = "probe" THEN
                            [probeRows EXCEPT ![w.by][w.provider][w.day] = @ + 1]
                       ELSE probeRows
    /\ UNCHANGED <<now, configVars, gater, pipelineVars, probeVars, used, streak>>

-------------------------------------------------------------------------------
\* mark_failure() and mark_success()

NextBackoff(row) == IF row.backoff + 1 < MaxBackoff THEN row.backoff + 1 ELSE MaxBackoff

\* The level comes from the database as it is now; the counter is left to SQL.
FailureWrites(m) ==
    IF models[m].known
    THEN <<[op |-> "failure", model |-> m, backoff |-> NextBackoff(models[m]),
            until |-> now + Cooldown * 2 ^ NextBackoff(models[m])]>>
    ELSE <<>>

SuccessWrites(m) == <<[op |-> "success", model |-> m]>>

CountFailure(m) == [streak EXCEPT ![m] = IF models[m].known THEN @ + 1 ELSE @]
CountSuccess(m) == [streak EXCEPT ![m] = 0]

\* A client request ends; src/proxy.py marks the model it was routed to.
RequestFails(m) ==
    /\ gater.loop = "free"
    /\ models[m].known
    /\ used.marks < MaxMarks
    /\ used' = [used EXCEPT !.marks = @ + 1]
    /\ queue' = queue \o FailureWrites(m)
    /\ streak' = CountFailure(m)
    /\ UNCHANGED <<models, probeRows, now, configVars, gater, pipelineVars,
                   probeVars>>

RequestSucceeds(m) ==
    /\ gater.loop = "free"
    /\ models[m].known
    /\ used.marks < MaxMarks
    /\ used' = [used EXCEPT !.marks = @ + 1]
    /\ queue' = queue \o SuccessWrites(m)
    /\ streak' = CountSuccess(m)
    /\ UNCHANGED <<models, probeRows, now, configVars, gater, pipelineVars,
                   probeVars>>

-------------------------------------------------------------------------------
\* flush(), apply_provider_runtime_state() and recompute_readiness(), in which every
\* job and admin endpoint ends.  who is "loop" or "thread".

At(who, step) == gater[who] = step
Go(who, step) == gater' = [gater EXCEPT ![who] = step]

\* flush() returns: to the caller, or to the recompute_readiness() that follows it.
FlushReturns(who) ==
    /\ gater[who] \in {"drain", "flush", "flushed0", "flushed"}
    /\ queue = <<>>
    /\ Go(who, CASE At(who, "drain") -> "free"
                 [] At(who, "flushed") -> "read"
                 [] OTHER -> "apply")
    /\ UNCHANGED <<models, probeRows, queue, now, configVars, pipelineVars,
                   probeVars, used, streak>>

ModelsOf(p) == {m \in Model : ProviderOf[m] = p}

\* No gating at all.
NoneGated(who) == {}

\* The registered providers, those with an active row and those the settings enable,
\* without the ones the registry has enabled for inference.  reload_settings() passes
\* the settings it built, recompute_readiness() those of app.state.
Gated(who) ==
    {p \in Provider \ registry :
        \/ p \in present
        \/ p \in IF At(who, "apply0") THEN reload[who].conf.on ELSE settings
        \/ \E m \in ModelsOf(p) : models[m].active}

\* apply_provider_runtime_state() reads the rows and the registry,
GateRead(who) ==
    /\ gater[who] \in {"apply0", "apply"}
    /\ reload' = [reload EXCEPT ![who].todo = Gated(who)]
    /\ Go(who, IF At(who, "apply0") THEN "gate0" ELSE "gate")
    /\ UNCHANGED <<models, probeRows, queue, now, stored, settings, present, keys,
                   registry, pipelineVars, probeVars, used, streak>>

\* deactivates the models of each provider in turn,
DeactivateAll(ps) ==
    [i \in 1..Cardinality(ps) |->
        [op |-> "deactivate", models |-> ModelsOf(SetToSeq(ps)[i])]]

\* and waits for the queue if there was any.  reload_settings() does all this once and
\* recompute_readiness() again.
GateWrite(who) ==
    /\ gater[who] \in {"gate0", "gate"}
    /\ queue' = queue \o DeactivateAll(reload[who].todo)
    /\ reload' = [reload EXCEPT ![who].todo = {}]
    /\ Go(who, CASE At(who, "gate0") -> IF reload[who].todo = {} THEN "apply" ELSE "flushed0"
                 [] At(who, "gate") -> IF reload[who].todo = {} THEN "read" ELSE "flushed")
    /\ UNCHANGED <<models, probeRows, now, stored, settings, present, keys, registry,
                   pipelineVars, probeVars, used, streak>>

\* Counting the healthy active rows for app.state.ready, which nothing here reads, is
\* all that is left of recompute_readiness().
RecomputeReadiness(who) ==
    /\ At(who, "read")
    /\ Go(who, "free")
    /\ UNCHANGED <<models, probeRows, queue, now, configVars, pipelineVars, probeVars,
                   used, streak>>

\* admin_enable_model() and admin_disable_model()
AdminSetActive(m, on) ==
    /\ gater.loop = "free"
    /\ models[m].known
    /\ used.admin < MaxAdmin
    /\ used' = [used EXCEPT !.admin = @ + 1]
    /\ queue' = Append(queue, [op |-> "active", model |-> m, on |-> on])
    /\ Go("loop", "flush")
    /\ UNCHANGED <<models, probeRows, now, configVars, pipelineVars, probeVars,
                   streak>>

-------------------------------------------------------------------------------
\* reload_settings(), by whom it may: no lock keeps the thread out of any step of the
\* loop's, or the loop out of the thread's.  A reload that raises is for AdminApi.

\* Settings are built from what is stored.
ReadStored(who, conf) == reload' = [reload EXCEPT ![who] = [conf |-> conf, todo |-> {}]]

\* config_refresh_job(), every five minutes
RefreshBegin ==
    /\ At("thread", "free")
    /\ ReadStored("thread", stored)
    /\ Go("thread", "clear")
    /\ UNCHANGED <<models, probeRows, queue, now, stored, settings, present, keys,
                   registry, pipelineVars, probeVars, used, streak>>

\* An admin handler stores a change, flushes and reloads.
AdminStore(conf) ==
    /\ gater.loop = "free"
    /\ queue = <<>>
    /\ conf # stored
    /\ used.reloads < MaxReloads
    /\ used' = [used EXCEPT !.reloads = @ + 1]
    /\ stored' = conf
    /\ ReadStored("loop", conf)
    /\ Go("loop", "clear")
    /\ UNCHANGED <<models, probeRows, queue, now, settings, present, keys, registry,
                   pipelineVars, probeVars, streak>>

\* admin_refresh(), under discovery_lock, reloads before it runs the pipeline.
AdminRefresh ==
    /\ gater.loop = "free"
    /\ pipeline["admin"] = "idle"
    /\ used.refreshes < MaxRefreshes
    /\ used' = [used EXCEPT !.refreshes = @ + 1]
    /\ pipeline' = [pipeline EXCEPT !["admin"] = "reloading"]
    /\ ReadStored("loop", stored)
    /\ Go("loop", "clear")
    /\ UNCHANGED <<models, probeRows, queue, now, stored, settings, present, keys,
                   registry, todo, probeVars, streak>>

\* A RegisteredProvider the registry no longer holds may still be on the list that the
\* other caller's _sync_registry_runtime_gating() walks; writing to it has no effect.
Forgotten(who, ps) ==
    [w \in Who |-> IF w # who /\ At(w, "sync") THEN [reload[w] EXCEPT !.todo = @ \ ps]
                  ELSE reload[w]]

\* register_configured() begins with an empty registry,
ClearRegistry(who) ==
    /\ At(who, "clear")
    /\ present' = {}
    /\ keys' = {}
    /\ registry' = {}
    /\ reload' = [Forgotten(who, Provider) EXCEPT ![who].todo = Provider]
    /\ Go(who, "register")
    /\ UNCHANGED <<models, probeRows, queue, now, stored, settings, pipelineVars,
                   probeVars, used, streak>>

\* and registers one provider after the other, inference_enabled as configured.
Register(who, p) ==
    /\ At(who, "register")
    /\ p \in reload[who].todo
    /\ reload' = [Forgotten(who, {p}) EXCEPT ![who].todo = @ \ {p}]
    /\ present' = present \union {p}
    /\ keys' = (keys \ {p}) \union ({p} \intersect reload[who].conf.keyed)
    /\ registry' = (registry \ {p}) \union ({p} \intersect reload[who].conf.on)
    /\ UNCHANGED <<models, probeRows, queue, now, stored, settings, gater,
                   pipelineVars, probeVars, used, streak>>

\* _sync_registry_runtime_gating() walks a list of what is registered now.
SyncBegin(who) ==
    /\ At(who, "register")
    /\ reload[who].todo = {}
    /\ reload' = [reload EXCEPT ![who].todo = present]
    /\ Go(who, "sync")
    /\ UNCHANGED <<models, probeRows, queue, now, stored, settings, present, keys,
                   registry, pipelineVars, probeVars, used, streak>>

\* The sync that trusts the configured flag.
SyncConfigured(who, p) ==
    /\ At(who, "sync")
    /\ p \in reload[who].todo
    /\ reload' = [reload EXCEPT ![who].todo = @ \ {p}]
    /\ registry' = (registry \ {p}) \union ({p} \intersect reload[who].conf.on)
    /\ UNCHANGED <<models, probeRows, queue, now, stored, settings, present, keys, gater,
                   pipelineVars, probeVars, used, streak>>

SyncProvider(who, p) ==
    /\ At(who, "sync")
    /\ p \in reload[who].todo
    /\ reload' = [reload EXCEPT ![who].todo = @ \ {p}]
    /\ registry' = (registry \ {p}) \union ({p} \intersect reload[who].conf.on \intersect keys)
    /\ UNCHANGED <<models, probeRows, queue, now, stored, settings, present, keys, gater,
                   pipelineVars, probeVars, used, streak>>

\* app.state.settings
Publish(who) ==
    /\ At(who, "sync")
    /\ reload[who].todo = {}
    /\ settings' = reload[who].conf.on
    /\ Go(who, "apply0")
    /\ UNCHANGED <<models, probeRows, queue, now, stored, present, keys, registry, reload,
                   pipelineVars, probeVars, used, streak>>

-------------------------------------------------------------------------------
\* run_discovery_pipeline(): run_discovery(), ranking, a bootstrap batch, readiness

\* The benchmark cache was refreshed and flushed; registry.all() is read.  Only
\* admin_refresh() takes discovery_lock: the job may run beside it.
DiscoveryBegin(r, enabled) ==
    /\ gater.loop = "free"
    /\ queue = <<>>
    /\ \/ /\ r = "job" /\ pipeline[r] = "idle"
          /\ used.discoveries < MaxDiscoveries
          /\ used' = [used EXCEPT !.discoveries = @ + 1]
       \/ /\ r = "admin" /\ pipeline[r] = "reloading"
          /\ used' = used
    /\ pipeline' = [pipeline EXCEPT ![r] = "discovering"]
    /\ todo' = [todo EXCEPT ![r] = enabled \intersect present]
    /\ UNCHANGED <<models, probeRows, queue, now, configVars, gater, probeVars,
                   streak>>

Upserts(ms) ==
    [i \in 1..Cardinality(ms) |-> [op |-> "upsert", model |-> SetToSeq(ms)[i]]]

\* discover_models() answers: one upsert per model seen, and mark_models_not_seen()
\* for the rest.  Discovery does not ask whether inference is enabled.
DiscoverModels(r, p, seen) ==
    /\ gater.loop = "free"
    /\ p \in todo[r]
    /\ todo' = [todo EXCEPT ![r] = @ \ {p}]
    /\ queue' = (queue \o Upserts(seen))
                   \o <<[op |-> "deactivate", models |-> ModelsOf(p) \ seen]>>
    /\ UNCHANGED <<models, probeRows, now, configVars, gater, pipeline, probeVars,
                   used, streak>>

\* discover_models() raises: the job ends here, the other providers unvisited, and
\* nobody gates what was already upserted.
DiscoverRaises(r) ==
    /\ gater.loop = "free"
    /\ todo[r] # {}
    /\ todo' = [todo EXCEPT ![r] = {}]
    /\ pipeline' = [pipeline EXCEPT ![r] = "idle"]
    /\ UNCHANGED <<models, probeRows, queue, now, configVars, gater, probeVars,
                   used, streak>>

\* flush(), recompute_ranking(), flush(): scores are no part of this module.
DiscoveryDone(r) ==
    /\ gater.loop = "free"
    /\ pipeline[r] = "discovering"
    /\ todo[r] = {}
    /\ pipeline' = [pipeline EXCEPT ![r] = "bootstrap"]
    /\ Go("loop", "drain")
    /\ UNCHANGED <<models, probeRows, queue, now, configVars, todo, probeVars,
                   used, streak>>

\* bootstrap_health_check() finds no candidate; otherwise it is a batch as below.
BootstrapSkips(r) ==
    /\ gater.loop = "free"
    /\ pipeline[r] = "bootstrap"
    /\ batch[r].state = "idle"
    /\ pipeline' = [pipeline EXCEPT ![r] = "idle"]
    /\ Go("loop", "flush")
    /\ UNCHANGED <<models, probeRows, queue, now, configVars, todo, probeVars,
                   used, streak>>

-------------------------------------------------------------------------------
\* _run_probe_batch(): run_health_checks() and bootstrap_health_check()

\* Which active models are due, and in which order, depends on scores and times
\* that nothing here tells apart: any set of active models may be selected.
BatchStart(b, due) ==
    /\ gater.loop = "free"
    /\ batch[b].state = "idle"
    /\ \/ /\ b = "health"
          /\ used.batches < MaxBatches
          /\ used' = [used EXCEPT !.batches = @ + 1]
       \/ /\ b \in Runner /\ pipeline[b] = "bootstrap"
          /\ used' = used
    /\ due # {}
    /\ \A m \in due : models[m].active
    /\ batch' = [batch EXCEPT ![b] = NewBatch(Today)]
    /\ probe' = [probe EXCEPT ![b] = [m \in Model |-> IF m \in due THEN "new" ELSE "none"]]
    /\ UNCHANGED <<models, probeRows, queue, now, configVars, gater, pipelineVars,
                   streak>>

\* The provider may not be probed, or has no probe().
ProbeSkipped(b, m) ==
    /\ gater.loop = "free"
    /\ probe[b][m] = "new"
    /\ probe' = [probe EXCEPT ![b][m] = "done"]
    /\ UNCHANGED <<models, probeRows, queue, now, configVars, gater, pipelineVars,
                   batch, used, streak>>

\* registry.get() raises KeyError: the model is deactivated and skipped.
ProbeUnroutable(b, m) ==
    /\ gater.loop = "free"
    /\ probe[b][m] = "new"
    /\ ProviderOf[m] \notin registry
    /\ queue' = Append(queue, [op |-> "active", model |-> m, on |-> FALSE])
    /\ probe' = [probe EXCEPT ![b][m] = "done"]
    /\ UNCHANGED <<models, probeRows, now, configVars, gater, pipelineVars, batch,
                   used, streak>>

\* get_provider_probe_usage(): the rows say nothing of who sent the probe.
ProbeUsage(p, d) ==
    probeRows["health"][p][d] + probeRows["job"][p][d] + probeRows["admin"][p][d]

\* budget_usage.setdefault(): the first candidate of a provider reads the rows of
\* the day the batch began on, the later ones use what the batch remembers.
UsageSeen(b, p) ==
    IF p \in DOMAIN batch[b].usage THEN batch[b].usage[p]
    ELSE ProbeUsage(p, batch[b].day)

Remember(b, p, n) ==
    [batch EXCEPT ![b].usage =
        [q \in DOMAIN batch[b].usage \union {p} |-> IF q = p THEN n ELSE batch[b].usage[q]]]

\* Under budget_lock: either the budget is used up, or one request is reserved.
ProbeOverBudget(b, m) ==
    /\ gater.loop = "free"
    /\ probe[b][m] = "new"
    /\ ProviderOf[m] \in registry
    /\ LET p == ProviderOf[m] IN
       /\ Budget[p] <= UsageSeen(b, p)
       /\ batch' = Remember(b, p, UsageSeen(b, p))
    /\ probe' = [probe EXCEPT ![b][m] = "done"]
    /\ UNCHANGED <<models, probeRows, queue, now, configVars, gater, pipelineVars,
                   used, streak>>

\* The check without the reservation.
ProbeCheckOnly(b, m) ==
    /\ gater.loop = "free"
    /\ probe[b][m] = "new"
    /\ ProviderOf[m] \in registry
    /\ LET p == ProviderOf[m] IN
       /\ Budget[p] > UsageSeen(b, p)
       /\ batch' = Remember(b, p, UsageSeen(b, p))
    /\ probe' = [probe EXCEPT ![b][m] = "reserved"]
    /\ UNCHANGED <<models, probeRows, queue, now, configVars, gater, pipelineVars,
                   used, streak>>

ProbeReserve(b, m) ==
    /\ gater.loop = "free"
    /\ probe[b][m] = "new"
    /\ ProviderOf[m] \in registry
    /\ LET p == ProviderOf[m] IN
       /\ Budget[p] > UsageSeen(b, p)
       /\ batch' = Remember(b, p, UsageSeen(b, p) + 1)
    /\ probe' = [probe EXCEPT ![b][m] = "reserved"]
    /\ UNCHANGED <<models, probeRows, queue, now, configVars, gater, pipelineVars,
                   used, streak>>

\* async with semaphore
ProbeSend(b, m) ==
    /\ gater.loop = "free"
    /\ probe[b][m] = "reserved"
    /\ batch[b].free > 0
    /\ batch' = [batch EXCEPT ![b].free = @ - 1]
    /\ probe' = [probe EXCEPT ![b][m] = "sent"]
    /\ UNCHANGED <<models, probeRows, queue, now, configVars, gater, pipelineVars,
                   used, streak>>

\* The request_log row carries the day on which the probe ended.
ProbeRow(b, m) == [op |-> "probe", by |-> b, provider |-> ProviderOf[m], day |-> Today]

ProbeEnds(b, m, ok) ==
    /\ gater.loop = "free"
    /\ probe[b][m] = "sent"
    /\ queue' = (queue \o IF ok THEN SuccessWrites(m) ELSE FailureWrites(m))
                   \o <<ProbeRow(b, m)>>
    /\ streak' = IF ok THEN CountSuccess(m) ELSE CountFailure(m)
    /\ batch' = [batch EXCEPT ![b].free = @ + 1]
    /\ probe' = [probe EXCEPT ![b][m] = "done"]
    /\ UNCHANGED <<models, probeRows, now, configVars, gater, pipelineVars, used>>

\* asyncio.gather() returns; every caller then flushes and recomputes readiness.
BatchEnd(b) ==
    /\ gater.loop = "free"
    /\ batch[b].state = "running"
    /\ \A m \in Model : probe[b][m] \in {"none", "done"}
    /\ batch' = [batch EXCEPT ![b] = NoBatch]
    /\ probe' = [probe EXCEPT ![b] = [m \in Model |-> "none"]]
    /\ pipeline' = [r \in Runner |-> IF r = b THEN "idle" ELSE pipeline[r]]
    /\ Go("loop", "flush")
    /\ UNCHANGED <<models, probeRows, queue, now, configVars, todo, used, streak>>

Tick ==
    /\ now < MaxTime
    /\ now' = now + 1
    /\ UNCHANGED <<models, probeRows, queue, configVars, gater, pipelineVars,
                   probeVars, used, streak>>

-------------------------------------------------------------------------------
Probing(b) ==
    \/ \E due \in SUBSET Model : BatchStart(b, due)
    \/ \E m \in Model :
          \/ ProbeSkipped(b, m)
          \/ ProbeUnroutable(b, m)
          \/ ProbeOverBudget(b, m)
          \/ ProbeReserve(b, m)
          \/ ProbeSend(b, m)
          \/ \E ok \in BOOLEAN : ProbeEnds(b, m, ok)
    \/ BatchEnd(b)

Gating(who) ==
    FlushReturns(who) \/ GateRead(who) \/ GateWrite(who) \/ RecomputeReadiness(who)

Reload(who) ==
    \/ ClearRegistry(who)
    \/ SyncBegin(who)
    \/ Publish(who)
    \/ \E p \in Provider : Register(who, p) \/ SyncProvider(who, p)

Discovery(r) ==
    \/ \E enabled \in SUBSET Provider : DiscoveryBegin(r, enabled)
    \/ \E p \in Provider : \E seen \in SUBSET ModelsOf(p) : DiscoverModels(r, p, seen)
    \/ DiscoverRaises(r)
    \/ DiscoveryDone(r)
    \/ BootstrapSkips(r)

Next ==
    \/ WriterApply
    \/ \E m \in Model : RequestFails(m) \/ RequestSucceeds(m)
    \/ \E who \in Who : Gating(who) \/ Reload(who)
    \/ \E m \in Model, on \in BOOLEAN : AdminSetActive(m, on)
    \/ \E conf \in Configs : AdminStore(conf)
    \/ AdminRefresh
    \/ RefreshBegin
    \/ \E r \in Runner : Discovery(r)
    \/ \E b \in Batcher : Probing(b)
    \/ Tick

Spec == Init /\ [][Next]_vars

(***************************************************************************)
(* The writer thread runs and a reload goes on.  The scheduler runs           *)
(* config_refresh_job() every five minutes, for ever, and flush() returns    *)
(* although that job keeps enqueuing: five minutes is time for join() to     *)
(* see the queue empty, hence the strong fairness.                           *)
(***************************************************************************)
Fairness ==
    /\ WF_vars(WriterApply)
    /\ \A who \in Who :
          /\ SF_vars(FlushReturns(who))
          /\ WF_vars(Gating(who) \/ Reload(who))
    /\ WF_vars(RefreshBegin)

FairSpec == Spec /\ Fairness

-------------------------------------------------------------------------------
\* What may be on the writer's queue.
Write ==
    [op : {"failure"}, model : Model, backoff : 0..MaxBackoff, until : Nat \ {0}]
      \union [op : {"success", "upsert"}, model : Model]
      \union [op : {"active"}, model : Model, on : BOOLEAN]
      \union [op : {"deactivate"}, models : SUBSET Model]
      \union [op : {"probe"}, by : Batcher, provider : Provider, day : Day]

TypeOK ==
    /\ queue \in Seq(Write)
    /\ models \in [Model -> [known : BOOLEAN, active : BOOLEAN, healthy : BOOLEAN,
                             failures : Nat, backoff : 0..MaxBackoff, cooldown : Nat]]
    /\ probeRows \in [Batcher -> [Provider -> [Day -> Nat]]]
    /\ now \in 0..MaxTime
    /\ stored \in Config
    /\ settings \subseteq Provider
    /\ registry \subseteq present
    /\ keys \subseteq present
    /\ present \subseteq Provider
    /\ reload \in [Who -> [conf : Config, todo : SUBSET Provider]]
    /\ gater \in [Who -> {"free", "drain", "flush", "clear", "register", "sync", "apply0",
                          "gate0", "flushed0", "apply", "gate", "flushed", "read"}]
    /\ pipeline \in [Runner -> {"idle", "reloading", "discovering", "bootstrap"}]
    /\ todo \in [Runner -> SUBSET Provider]
    /\ \A b \in Batcher : /\ batch[b].state \in {"idle", "running"}
                          /\ batch[b].day \in Day
                          /\ batch[b].free \in 0..Concurrency
    /\ probe \in [Batcher -> [Model -> {"none", "new", "reserved", "sent", "done"}]]

\* Where the marks of a model are on the queue, its successes, and the marks after
\* the last of those.
Marks(m) == {i \in DOMAIN queue : queue[i].op \in {"failure", "success"} /\ queue[i].model = m}
Resets(m) == {i \in Marks(m) : queue[i].op = "success"}
SinceReset(m) == {i \in Marks(m) : \A j \in Resets(m) : j < i}

\* consecutive_failures is exact however far the writer lags behind: once the
\* queue is applied it is the number of failures since the last success, in the
\* order in which requests and probes ended.  (The counter is raised by SQL; a
\* level computed from the row that was read would lose updates.)
FailuresExact ==
    \A m \in Model :
        models[m].known =>
            streak[m] = (IF Resets(m) = {} THEN models[m].failures ELSE 0)
                          + Cardinality(SinceReset(m))

\* A model is taken out of rotation only by Threshold failures in a row, and has
\* a cooldown exactly while it has failures: a success wipes out both, even one
\* that was accepted between a failure's read and its write.
HealthEarned ==
    \A m \in Model :
        models[m].known =>
            /\ ~models[m].healthy => models[m].failures >= Threshold
            /\ models[m].cooldown = NULL <=> models[m].failures = 0

QueuedProbes(b, p, d) ==
    {i \in DOMAIN queue : /\ queue[i].op = "probe" /\ queue[i].by = b
                          /\ queue[i].provider = p /\ queue[i].day = d}

\* "per-provider daily budgets are not overshot" (CHANGELOG.md) is true of one runner at
\* a time, budget_lock and budget_usage being one batch's own: what the batches of one
\* runner send in a day, those still queued with them, stays within the budget,
\* whatever batches of others overlap, however far the writer lags and on whichever
\* side of midnight a probe ends.  Together the three may send three times as much.
BudgetPerRunner ==
    \A b \in Batcher, p \in Provider, d \in Day :
        probeRows[b][p][d] + Cardinality(QueuedProbes(b, p, d)) <= Budget[p]

\* Two reloads may be inside the registry at once, each emptying and filling what the
\* other walks.  Once neither is, every provider is registered and none without a key
\* has inference enabled: whoever registered a provider last has also synced it.
RegistrySettles ==
    (\A who \in Who : gater[who] \notin {"register", "sync"}) =>
        present = Provider /\ registry \subseteq keys

\* A model of a provider that what is stored does not allow to serve does not stay
\* active, whether a discovery that failed half way left it so, a reload that lost a
\* race against the refresh, or a provider registered without its key.
GatedEventually ==
    \A m \in Model :
        (models[m].active /\ ProviderOf[m] \notin stored.on \intersect stored.keyed)
           ~> (~models[m].active \/ ProviderOf[m] \in stored.on \intersect stored.keyed)

\* The health columns against a lagging writer: typed, counters exact, health earned.
MarksInv == TypeOK /\ FailuresExact /\ HealthEarned
===============================================================================
