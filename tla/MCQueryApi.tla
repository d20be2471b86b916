----------------------------- MODULE MCQueryApi -----------------------------
(* Values of the constants for TLC.                                        *)
EXTENDS QueryApi, TLC

CONSTANTS alice, bob, r1, r2, r3

OneClient == {alice}
TwoClients == {alice, bob}

ThreeRows == {r1, r2, r3}
TwoRows == {r1, r2}

\* One row per page, or no size given.
OneOrDefault == {0, 1}

\* Rows are told apart by their time only.
AnyRow == Permutations(ThreeRows)
=============================================================================
