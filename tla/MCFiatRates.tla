---------------------------- MODULE MCFiatRates ----------------------------
(* Values of the constants for TLC.                                        *)
EXTENDS FiatRates

CONSTANTS api, other, usd, eur

TwoPlatforms == {api, other}
TwoCodes     == {usd, eur}
=============================================================================
