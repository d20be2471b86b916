-------------------------- MODULE MCKlinePipeline --------------------------
(* Instances of KlinePipeline for TLC. *)
EXTENDS KlinePipeline, TLC

CONSTANTS p1, p2

\* Two exchanges quoting the same symbol.
SharedSymbol == [p \in Pairs |-> 1]

\* The two exchanges are interchangeable: no action or property tells them
\* apart, and no liveness is checked.
Exchanges == Permutations({p1, p2})

\* Bound: two exchanges trade up to minute 2, later there is at most one.
Bounded == now <= 2 \/ \E p \in Pairs : opened[p] = {}
=============================================================================
