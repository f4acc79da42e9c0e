------------------------------- MODULE Routing -------------------------------
(***************************************************************************)
(* src/routing.py: which models a request is tried on, and in which order.  *)
(*                                                                         *)
(* A model's columns that no request changes are in Row; the health columns *)
(* come as an argument, h.  A score is an integer in units of 1/10000, in   *)
(* which every weight of the source is a whole number.                      *)
(***************************************************************************)
EXTENDS Integers, Sequences, FiniteSets, FiniteSetsExt, SequencesExt

CONSTANTS
    Table,      \* the models, in the order the database returns equal rows
    Row,        \* their columns
    FreeName,   \* a name that ends in ":free" |-> the name without it
    Null        \* SQL's NULL, Python's None

Model == Range(Table)

ASSUME TableAssumption == Table \in Seq(Model) /\ IsInjective(Table)
ASSUME NullAssumption == Null \notin Int
ASSUME RowAssumption ==
    \A m \in Model :
        /\ Row[m].score \in Int /\ Row[m].contextWindow \in Nat
        /\ Row[m].maxOutput \in Nat \cup {Null} /\ Row[m].ttfb \in Nat /\ Row[m].latency \in Nat

Position(m) == CHOOSE i \in DOMAIN Table : Table[i] = m

\* The models in the order of the relation before, those it does not tell apart
\* as they stand in the table.
Precedence(before) ==
    {p \in Model \X Model :
        \/ p \in before
        \/ <<p[2], p[1]>> \notin before /\ Position(p[1]) < Position(p[2])}

\* The elements of S in the order of the relation less, a strict and total one:
\* each stands behind as many as are less.
InOrder(S, less) ==
    [i \in 1..Cardinality(S) |-> CHOOSE m \in S : Cardinality({n \in S : <<n, m>> \in less}) = i - 1]

\* SQLite's ORDER BY, Python's sorted().
Sorted(S, before) == InOrder(S, Precedence(before))

Prefix(s, n) == SubSeq(s, 1, Min({n, Len(s)}))

-----------------------------------------------------------------------------
\* effective_min_context
EffectiveMinContext(r) ==
    IF r.preferences = Null \/ r.preferences.minContext = Null THEN r.minContext
    ELSE Max({r.minContext, r.preferences.minContext})

\* _load_eligible_candidates, before it is sorted.
Eligible(h, r) ==
    {m \in Model :
        /\ h[m].active /\ h[m].healthy
        /\ h[m].cooldown = Null \/ h[m].cooldown < 0
        /\ r.needs \subseteq Row[m].supports
        /\ Row[m].contextWindow >= EffectiveMinContext(r)
        /\ Row[m].maxOutput = Null \/ Row[m].maxOutput >= r.minOutput}

\* _filter_candidates_by_tokenizer_estimate: the estimate depends on the
\* candidate's tokenizer.
FitsEstimate(m, r) ==
    \/ r.estimate = Null
    \/ Row[m].contextWindow >= Max({EffectiveMinContext(r), r.estimate[Row[m].tokenizer]})

\* What pick_candidates chooses from.
Candidates(h, r) == {m \in Eligible(h, r) : FitsEstimate(m, r)}

Named(S, name) == {m \in S : m = name \/ Row[m].providerModel = name}

\* _match_explicit_model
MatchExplicit(S, name) ==
    IF Named(S, name) # {} THEN Named(S, name)
    ELSE IF name \in DOMAIN FreeName THEN Named(S, FreeName[name]) ELSE {}

-----------------------------------------------------------------------------
\* avg_ttfb_ms or avg_latency_ms or 999999.0
LatencyOf(m) ==
    IF Row[m].ttfb # 0 THEN Row[m].ttfb ELSE IF Row[m].latency # 0 THEN Row[m].latency ELSE 999999

Headroom(m) == Max({0, 5000 - LatencyOf(m)})

\* The bonus of _preference_score.
Bonus(h, m, p) ==
    LET unreliable == h[m].failures + h[m].backoff
    IN (IF p.maxLatency # Null /\ LatencyOf(m) > p.maxLatency THEN -250000 ELSE 0)
       + (IF p.minContext # Null /\ Row[m].contextWindow >= p.minContext THEN 100000 ELSE 0)
       + CASE p.preference = "quality" -> Row[m].score * 2000
           [] p.preference = "latency" -> Headroom(m) * 100
           [] p.preference = "context" -> Row[m].contextWindow * 10
           [] p.preference = "reliability" -> Headroom(m) * 20 - unreliable * 150000
           [] OTHER -> Headroom(m) * 20 + Row[m].contextWindow - unreliable * 20000

PreferenceSlowTies(h, m, p) ==
    IF p = Null THEN <<Row[m].score * 10000, 0, 0, 0>>
    ELSE <<Row[m].score * 10000 + Bonus(h, m, p), Row[m].score, LatencyOf(m), Row[m].contextWindow>>

\* _preference_score
PreferenceScore(h, m, p) ==
    IF p = Null THEN <<Row[m].score * 10000, 0, 0, 0>>
    ELSE <<Row[m].score * 10000 + Bonus(h, m, p), Row[m].score, -LatencyOf(m), Row[m].contextWindow>>

\* a > b as Python compares tuples.
Above(a, b) == \E i \in 1..4 : a[i] > b[i] /\ \A j \in 1..(i - 1) : a[j] = b[j]

ByScore(S) == Sorted(S, {q \in Model \X Model : Row[q[1]].score > Row[q[2]].score})
ByPreference(h, S, p) ==
    Sorted(S, {q \in Model \X Model :
                  Above(PreferenceScore(h, q[1], p), PreferenceScore(h, q[2], p))})

\* The order before the fallback model finds its place: the model that was
\* asked for, then the others by score, or all of them by preference.
Ordered(h, r) ==
    LET S == Candidates(h, r)
        explicit == IF r.model = "auto" THEN {} ELSE MatchExplicit(S, r.model)
    IN IF explicit # {} THEN ByScore(explicit) \o ByScore(S \ explicit)
                        ELSE ByPreference(h, S, r.preferences)

InsertAtTheEnd(s, m, limit) == Append(s, m)

\* The fallback model takes the last of the places, if it has none of them.
InsertFallback(s, m, limit) ==
    Prefix(s, Max({limit - 1, 0})) \o <<m>> \o SubSeq(s, Max({limit - 1, 0}) + 1, Len(s))

\* pick_candidates, for a limit that is not negative; the empty sequence is
\* NoHealthyModelsError too.
PickCandidates(h, r) ==
    LET s == Ordered(h, r)
        missing == /\ r.fallback \in Candidates(h, r)
                   /\ \A i \in DOMAIN Prefix(s, r.limit) : s[i] # r.fallback
    IN Prefix(IF missing THEN InsertFallback(s, r.fallback, r.limit) ELSE s, r.limit)
==============================================================================
