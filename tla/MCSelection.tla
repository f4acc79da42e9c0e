----------------------------- MODULE MCSelection -----------------------------
(***************************************************************************)
(* Selection for TLC: three models, of which m1 and m2 differ in latency    *)
(* alone, m2 and m3 share a provider's name, and m3 has an unknown latency. *)
(***************************************************************************)
EXTENDS Selection, TLC

CONSTANTS m1, m2, m3

MCTable == <<m1, m2, m3>>

MCRow ==
    (m1 :> [score |-> 60, supports |-> {"tools"}, contextWindow |-> 8000, maxOutput |-> Null,
            tokenizer |-> "a", providerModel |-> "one:free", ttfb |-> 0, latency |-> 900])
 @@ (m2 :> [score |-> 60, supports |-> {}, contextWindow |-> 8000, maxOutput |-> 100,
            tokenizer |-> "b", providerModel |-> "two", ttfb |-> 300, latency |-> 900])
 @@ (m3 :> [score |-> 40, supports |-> {"tools"}, contextWindow |-> 4000, maxOutput |-> Null,
            tokenizer |-> "a", providerModel |-> "two", ttfb |-> 0, latency |-> 0])

MCFreeName == [n \in {"one:free", "two:free"} |-> IF n = "one:free" THEN "one" ELSE "two"]

Plain == [model |-> "auto", needs |-> {}, minContext |-> 0, minOutput |-> 0, estimate |-> Null,
          preferences |-> Null, limit |-> 2, fallback |-> Null]
Prefers(p) == [preference |-> p, maxLatency |-> Null, minContext |-> Null]

MCRequest ==
    {[Plain EXCEPT !.preferences = Prefers(p)] :
        p \in {"quality", "latency", "context", "reliability"}}
    \cup {[Plain EXCEPT !.model = "two:free", !.limit = l, !.fallback = m3] : l \in 0..2}
    \cup {Plain, [Plain EXCEPT !.model = "one:free", !.fallback = m3],
          [Plain EXCEPT !.preferences = Prefers("balanced"), !.fallback = m3],
          [Plain EXCEPT !.needs = {"tools"}, !.minOutput = 200],
          [Plain EXCEPT !.estimate = [t \in {"a", "b"} |-> IF t = "a" THEN 5000 ELSE 9000]],
          [Plain EXCEPT !.preferences = [Prefers("latency") EXCEPT !.maxLatency = 500,
                                                                   !.minContext = 6000]]}

MCTraffic == {Plain}
==============================================================================
