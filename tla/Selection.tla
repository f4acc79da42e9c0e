------------------------------ MODULE Selection ------------------------------
(***************************************************************************)
(* Routing together with the selection of models to probe (src/health.py):  *)
(* requests are tried on the models routing picks, and fail or succeed;     *)
(* every interval health_job probes a few models, and discovery may come at *)
(* any time; all change the health columns the next choice is made from.    *)
(*                                                                         *)
(* A request, a run and a discovery are one step each: what interleaving them *)
(* and the writer's queue do to the columns is the subject of ModelHealth,  *)
(* which model is chosen is the subject here.  The unit of time is the      *)
(* job's interval; a time stamp is kept as its distance from now.           *)
(***************************************************************************)
EXTENDS Routing

CONSTANTS
    Request,         \* the requests there are, routing's settings included
    Traffic,         \* those of them that are sent
    Optional,        \* the models a provider may stop to list
    Fallback,        \* ranking_fallback_model
    StartupProbes,   \* health_startup_probe_limit
    MaxProbes,       \* health_max_probes_per_run
    TopStale,        \* health_top_n_stale_probe
    StaleAfter,      \* health_stale_after_minutes
    Threshold,       \* health_consecutive_failures_threshold
    Cooldown,        \* health_cooldown_minutes
    MaxBackoff,      \* health_max_backoff_exponent
    Probeable,       \* the models whose provider can be probed, once it is registered:
                     \* its probes are enabled and its budget is not used up
    Reloaded         \* the models, of providers whose probes are enabled, that may be
                     \* chosen while a reload has their provider out of the registry

ASSUME NumbersAssumption ==
    /\ MaxProbes \in Nat /\ TopStale \in Nat /\ StartupProbes \in Nat /\ StaleAfter \in Nat
    /\ Threshold \in Nat \ {0} /\ Cooldown \in Nat \ {0} /\ MaxBackoff \in Nat
\* A fact of arithmetic that the provers do not have.
ASSUME PowersAssumption == \A n \in 0..MaxBackoff : 2^n \in Nat /\ 2^n <= 2^MaxBackoff
ASSUME RequestAssumption ==
    \A r \in Request :
        /\ r.limit \in Nat /\ r.minContext \in Nat /\ r.minOutput \in Nat
        /\ r.estimate = Null \/ \A m \in Model : r.estimate[Row[m].tokenizer] \in Nat
        /\ \/ r.preferences = Null
           \/ /\ r.preferences.maxLatency \in Nat \cup {Null}
              /\ r.preferences.minContext \in Nat \cup {Null}
ASSUME SetsAssumption ==
    /\ Traffic \subseteq Request
    /\ Optional \subseteq Model /\ Probeable \subseteq Model /\ Reloaded \subseteq Model

VARIABLES
    h,     \* the health columns of the models
    runs   \* the runs of health_job, odd or even

vars == <<h, runs>>

Oldest == StaleAfter + 1          \* bound: ages are told apart up to here
Overdue == Cardinality(Model)     \* bound: and the ends of cooldowns

NewRow == [active |-> TRUE, healthy |-> TRUE, cooldown |-> Null, failures |-> 0, backoff |-> 0,
           probe |-> Null, success |-> Null]

Init ==
    /\ h = [m \in Model |-> NewRow]
    /\ runs = 0

\* mark_failure; the failures are counted up to the threshold.
MarkFailure(row) ==
    LET next == Min({row.backoff + 1, MaxBackoff})
    IN [row EXCEPT !.failures = Min({@ + 1, Threshold}),
                   !.backoff = next,
                   !.cooldown = Cooldown * 2^next,
                   !.healthy = @ /\ row.failures + 1 < Threshold]

\* mark_success; only a probe sets last_probe_at.
MarkSuccess(row, probe) ==
    [row EXCEPT !.failures = 0, !.backoff = 0, !.cooldown = Null, !.healthy = TRUE,
                !.success = 0, !.probe = IF probe THEN 0 ELSE @]

-----------------------------------------------------------------------------
\* A request: the candidates are tried in their order until one answers.
Route(r) ==
    LET picked == PickCandidates(h, r)
    IN /\ UNCHANGED runs
       /\ \E failing \in 0..Len(picked) :
            h' = [m \in Model |->
                    IF \E i \in 1..failing : picked[i] = m THEN MarkFailure(h[m])
                    ELSE IF failing < Len(picked) /\ picked[failing + 1] = m
                    THEN MarkSuccess(h[m], FALSE) ELSE h[m]]

-----------------------------------------------------------------------------
Expired == {m \in Model : h[m].active /\ (IF h[m].cooldown = Null THEN FALSE ELSE h[m].cooldown < 0)}
NeverProbed == {m \in Model : h[m].active /\ h[m].probe = Null}
IsOld(age) == IF age = Null THEN TRUE ELSE age > StaleAfter
Stale == {m \in Model : h[m].active /\ IsOld(h[m].success) /\ IsOld(h[m].probe)}

CooldownRowsByScore == Prefix(ByScore(Expired), MaxProbes)

\* The three queries of _select_probe_candidates.
CooldownRows ==
    Prefix(Sorted(Expired, {q \in Expired \X Expired :
                              \/ h[q[1]].cooldown < h[q[2]].cooldown
                              \/ /\ h[q[1]].cooldown = h[q[2]].cooldown
                                 /\ Row[q[1]].score > Row[q[2]].score}), MaxProbes)
NeverProbedRows == Prefix(ByScore(NeverProbed), MaxProbes)
StaleRows == Prefix(ByScore(Stale), TopStale)

\* s without the models that stand in it before.
Distinct(s) ==
    LET first == {i \in 1..Len(s) : \A j \in 1..(i - 1) : s[j] # s[i]}
        at == InOrder(first, {q \in first \X first : q[1] < q[2]})
    IN [k \in 1..Len(at) |-> s[at[k]]]

\* The loop over the buckets: the limit is looked at after a model is added,
\* so a limit of 0 lets one through.
Select(s) == Prefix(Distinct(s), Max({MaxProbes, 1}))

SelectNeverProbedFirst == Select(NeverProbedRows \o CooldownRows \o StaleRows)

\* _select_probe_candidates
SelectProbeCandidates == Select(CooldownRows \o NeverProbedRows \o StaleRows)

\* One interval passes.
Elapsed(row) ==
    [row EXCEPT !.cooldown = IF @ = Null THEN @ ELSE Max({@ - 1, -Overdue}),
                !.probe = IF @ = Null THEN @ ELSE Min({@ + 1, Oldest}),
                !.success = IF @ = Null THEN @ ELSE Min({@ + 1, Oldest})]

\* _run_probe_batch, on the rows t: a model whose provider is missing from the registry
\* is no longer active, one whose provider cannot be probed is skipped.
ProbeBatch(t, chosen, missing, answering) ==
    [m \in Model |-> IF m \in chosen \cap missing THEN [t[m] EXCEPT !.active = FALSE]
                     ELSE IF m \notin chosen \cap Probeable THEN t[m]
                     ELSE IF m \in answering THEN MarkSuccess(t[m], TRUE) ELSE MarkFailure(t[m])]

\* run_health_checks, and the interval to the next run.
HealthRun ==
    /\ runs' = 1 - runs
    /\ \E missing \in SUBSET Reloaded, answering \in SUBSET Range(SelectProbeCandidates) :
         LET t == ProbeBatch(h, Range(SelectProbeCandidates), missing, answering)
         IN h' = [m \in Model |-> Elapsed(t[m])]

\* run_discovery: the models the providers list are active and healthy again,
\* the others are no longer active.
Discovered(seen) ==
    [m \in Model |-> IF m \in seen THEN [h[m] EXCEPT !.active = TRUE, !.healthy = TRUE]
                                   ELSE [h[m] EXCEPT !.active = FALSE]]

\* _select_bootstrap_candidates: the fallback model, then the best; here too
\* the limit is looked at after a model is added.
SelectBootstrapCandidates(t) ==
    LET active == {m \in Model : t[m].active}
        fallback == IF Fallback \in active THEN <<Fallback>> ELSE <<>>
    IN Prefix(Distinct(fallback \o Prefix(ByScore(active), StartupProbes)), Max({StartupProbes, 1}))

\* run_discovery_pipeline
DiscoveryPipeline ==
    /\ UNCHANGED runs
    /\ \E dropped \in SUBSET Optional :
         LET t == Discovered(Model \ dropped)
             chosen == Range(SelectBootstrapCandidates(t))
         IN \E missing \in SUBSET Reloaded, answering \in SUBSET chosen :
               h' = ProbeBatch(t, chosen, missing, answering)

Next ==
    \/ \E r \in Traffic : Route(r)
    \/ HealthRun
    \/ DiscoveryPipeline

\* The scheduler runs health_job at every interval: HealthRun, which is always
\* possible and alone changes runs, happens again and again.
Spec == Init /\ [][Next]_vars /\ WF_runs(runs' = 1 - runs)

-----------------------------------------------------------------------------
TypeOK ==
    /\ runs \in {0, 1}
    /\ h \in [Model -> [active : BOOLEAN, healthy : BOOLEAN,
                        cooldown : {Null} \cup (-Overdue)..(Cooldown * 2^MaxBackoff),
                        failures : 0..Threshold, backoff : 0..MaxBackoff,
                        probe : {Null} \cup 0..Oldest, success : {Null} \cup 0..Oldest]]

Serves(m, r) ==
    /\ h[m].active /\ h[m].healthy /\ h[m].cooldown \notin 0..(Cooldown * 2^MaxBackoff)
    /\ r.needs \subseteq Row[m].supports
    /\ Row[m].maxOutput # Null => Row[m].maxOutput >= r.minOutput
    /\ \A n \in {r.minContext}
              \cup (IF r.estimate = Null THEN {} ELSE {r.estimate[Row[m].tokenizer]})
              \cup (IF r.preferences = Null THEN {} ELSE {r.preferences.minContext} \ {Null}) :
          Row[m].contextWindow >= n

(***************************************************************************)
(* A request is tried on as many different models as the limit and the      *)
(* candidates allow, each of which can serve it: is in service, has what it *)
(* needs, room for its tokens as the model's own tokenizer counts them, and  *)
(* may answer at the length that is asked for.                             *)
(***************************************************************************)
PicksServe ==
    \A r \in Request :
        LET s == PickCandidates(h, r)
        IN /\ Len(s) = Min({r.limit, Cardinality(Candidates(h, r))})
           /\ IsInjective(s)
           /\ \A m \in Range(s) : Serves(m, r)

(***************************************************************************)
(* The model the client names is tried first whenever it can serve, and the *)
(* configured fallback model is tried whenever it can: each has its place   *)
(* even though the list is cut.  With a limit of one there is one place for *)
(* both, and the fallback model takes it.                                   *)
(***************************************************************************)
RequestedAndFallbackTried ==
    \A r \in Request :
        LET s == PickCandidates(h, r)
            S == Candidates(h, r)
            named == IF r.model = "auto" THEN {} ELSE MatchExplicit(S, r.model)
        IN r.limit > 0 =>
             /\ r.fallback \in S => r.fallback \in Range(s)
             /\ named # {} /\ (r.limit > 1 \/ r.fallback \notin S) => s[1] \in named

Dominates(m, n) ==
    /\ Row[m].score >= Row[n].score /\ LatencyOf(m) <= LatencyOf(n)
    /\ Row[m].contextWindow >= Row[n].contextWindow
    /\ h[m].failures + h[m].backoff <= h[n].failures + h[n].backoff
    /\ Row[m].score > Row[n].score \/ LatencyOf(m) < LatencyOf(n)
          \/ Row[m].contextWindow > Row[n].contextWindow

(***************************************************************************)
(* Whatever the client prefers, a model is never tried before, or instead   *)
(* of, one that is no worse in anything and better in score, latency or     *)
(* context.  The fallback model, which has its place whatever its merits,   *)
(* and requests that name a model are apart.                                *)
(***************************************************************************)
BetterFirst ==
    \A r \in Request :
        LET s == PickCandidates(h, r)
            S == Candidates(h, r)
        IN r.preferences # Null /\ MatchExplicit(S, r.model) = {} =>
             \A i \in DOMAIN s : s[i] # r.fallback =>
                \A m \in S : Dominates(m, s[i]) => \E j \in 1..(i - 1) : s[j] = m

(***************************************************************************)
(* A run of the job probes no more models than configured (one, if none),   *)
(* none twice, and leaves no model out of its cooldown waiting for one that *)
(* is not, or whose cooldown ended later.                                   *)
(***************************************************************************)
ProbesInTurn ==
    LET s == SelectProbeCandidates
        chosen == Range(s)
    IN /\ IsInjective(s) /\ Len(s) <= Max({MaxProbes, 1})
       /\ MaxProbes > 0 => \A m \in Expired \ chosen :
             \A n \in chosen : n \in Expired /\ h[n].cooldown <= h[m].cooldown

\* A run finds the provider of a model it has chosen missing from the registry.
FindsMissing == runs' # runs /\ \E m \in Model : h[m].active /\ ~h'[m].active

(***************************************************************************)
(* A model that failed is probed again: once its cooldown is over it does   *)
(* not stay so, however many others fail, provided every provider can be    *)
(* probed (one that cannot keeps its place at the head of the query) and    *)
(* the runs do not go on meeting the registry half filled: the model set    *)
(* inactive then keeps its ended cooldown, and its place once discovery     *)
(* has made it active again.                                                *)
(***************************************************************************)
ExpiredIsProbed ==
    <>[][~FindsMissing]_vars => \A m \in Model : m \in Expired ~> m \notin Expired

\* Every request gets models that can serve it, with a place for the requested and the
\* fallback model.
RoutingInv == TypeOK /\ PicksServe /\ RequestedAndFallbackTried
==============================================================================
