------------------------- MODULE MCPriceAggregation -------------------------
(* Values of the constants for TLC.                                        *)
EXTENDS PriceAggregation, TLC

CONSTANTS binance, okx, bybit

ThreeExchanges == {binance, okx, bybit}

\* Two multiples of a grain of two and the price half way between them.
SmallPrices == 0 .. 2

\* A fraction of a unit and a unit with a fraction.
SmallVolumes == {1, 3}

\* The order of the visits is arbitrary and nothing tells exchanges apart.
AnyExchange == Permutations(ThreeExchanges)
=============================================================================
