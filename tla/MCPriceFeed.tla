---------------------------- MODULE MCPriceFeed ----------------------------
(* Values of the constants for TLC. *)
EXTENDS PriceFeed

CONSTANTS p1, usd

OnePair == {p1}

TheSymbol == [p \in Pairs |-> 1]
=============================================================================
