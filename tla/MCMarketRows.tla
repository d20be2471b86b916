---------------------------- MODULE MCMarketRows ----------------------------
(* Values of the constants for TLC.                                        *)
EXTENDS MarketRows

CONSTANTS usd, btc

OneCurrency == {usd}

Price == [s \in Symbols |-> IF s = 1 THEN {1, 20} ELSE {1}]

\* The second symbol is quoted in another coin and has no base asset.
Coin == [s \in Symbols |-> IF s = 1 THEN btc ELSE NoCoin]
=============================================================================
