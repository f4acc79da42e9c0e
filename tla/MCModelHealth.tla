---------------------------- MODULE MCModelHealth ----------------------------
(* Instances of ModelHealth for TLC: the models are of the first provider. *)
EXTENDS ModelHealth, TLC

CONSTANTS m1, m2, p1, p2

FirstProvider == [m \in Model |-> p1]

OneProbe == [p \in Provider |-> 1]

\* The provider is configured and has its key.
OneConfig == {[on |-> {p1}, keyed |-> {p1}]}

\* The first provider has its key, or lost it; the second one is always there.
TwoConfigs == {[on |-> {p1, p2}, keyed |-> {p1, p2}], [on |-> {p1, p2}, keyed |-> {p2}]}
===============================================================================
