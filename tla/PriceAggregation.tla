-------------------------- MODULE PriceAggregation --------------------------
(***************************************************************************)
(* How the worker merges what several exchanges say about one symbol: the  *)
(* candles of one minute (buildSymbolKlinesFromExchangeKlines) and the     *)
(* quotes of one round (aggregateMarketPriceRecords).  Both loops visit    *)
(* the contributions one by one, in an order nobody fixes, keep a sum, a   *)
(* maximum, a minimum and a count, and divide at the end.                  *)
(*                                                                         *)
(*             mean            top (maximum)      bottom (minimum)         *)
(*   candle    open or close   high               low                      *)
(*   quote     avg             bid                ask                      *)
(*                                                                         *)
(* Prices are whole numbers of the smallest amount the tables can hold.    *)
(***************************************************************************)
EXTENDS Integers

CONSTANTS
    Exchanges,  \* who may contribute
    Prices,     \* prices an exchange may report
    Volumes,    \* volumes it may report, in parts of a unit
    Grain,      \* quotients are rounded to a multiple of this (16 digits)
    Parts       \* parts in one unit of volume

ASSUME AggregationAssumption ==
    /\ Prices \subseteq Nat /\ Volumes \subseteq Nat
    /\ Grain \in Nat \ {0} /\ Parts \in Nat \ {0}

VARIABLES
    kind,    \* what is aggregated
    given,   \* history: the contributions visited so far
    poured,  \* history: the sum of their volumes before any rounding
    acc,     \* the accumulator
    result   \* the aggregated row

vars == <<kind, given, poured, acc, result>>

\* An exchange's candle has its open and close between its low and its high.
\* Of a quote nothing is known: its three prices may come from two books
\* (PriceFeed).
Sound(c) == kind = "candle" => c.bottom <= c.mean /\ c.mean <= c.top

Contribution == [mean : Prices, top : Prices, bottom : Prices, volume : Volumes]

None == [count |-> 0]

Init ==
    /\ kind \in {"candle", "quote"}
    /\ given = [e \in {} |-> None]
    /\ poured = 0
    /\ acc = None /\ result = None

\* Faulty variant: volumes are rounded up.
FloorUp(v) == (v + Parts - 1) \div Parts

\* The crawler stores the volume of a candle in whole units.
Floor(v) == v \div Parts

\* decimal.Div: sixteen digits, half away from zero.
Mean(sum, count) == Grain * ((2 * sum + count * Grain) \div (2 * count * Grain))

\* What a single price becomes under the same rounding.
Rounded(price) == Mean(price, 1)

\* The first contribution starts the accumulator.
StartAcc(c) ==
    [sum |-> c.mean, top |-> c.top, bottom |-> c.bottom,
     volume |-> Floor(c.volume), count |-> 1]

\* Faulty variant: the extremes are those of the last contribution.
AddAccLast(c) ==
    [sum |-> acc.sum + c.mean, top |-> c.top, bottom |-> c.bottom,
     volume |-> acc.volume + Floor(c.volume), count |-> acc.count + 1]

\* Faulty variant: the contribution is added and not counted.
AddAccUncounted(c) ==
    [sum |-> acc.sum + c.mean,
     top |-> IF c.top > acc.top THEN c.top ELSE acc.top,
     bottom |-> IF c.bottom < acc.bottom THEN c.bottom ELSE acc.bottom,
     volume |-> acc.volume + Floor(c.volume), count |-> acc.count]

\* Every other one is added to it.
AddAcc(c) ==
    [sum |-> acc.sum + c.mean,
     top |-> IF c.top > acc.top THEN c.top ELSE acc.top,
     bottom |-> IF c.bottom < acc.bottom THEN c.bottom ELSE acc.bottom,
     volume |-> acc.volume + Floor(c.volume), count |-> acc.count + 1]

Visit(e, c) ==
    /\ result = None /\ e \notin DOMAIN given /\ Sound(c)
    /\ given' = [x \in DOMAIN given \cup {e} |-> IF x = e THEN c ELSE given[x]]
    /\ poured' = poured + c.volume
    /\ acc' = IF acc = None THEN StartAcc(c) ELSE AddAcc(c)
    /\ UNCHANGED <<kind, result>>

\* The row; without a contribution there is none.
Finish ==
    /\ result = None /\ acc # None
    /\ result' = [mean |-> Mean(acc.sum, acc.count), top |-> acc.top,
                  bottom |-> acc.bottom, volume |-> acc.volume]
    /\ UNCHANGED <<kind, given, poured, acc>>

Next == Finish \/ \E e \in Exchanges, c \in Contribution : Visit(e, c)

Spec == Init /\ [][Next]_vars

-----------------------------------------------------------------------------
(* Properties                                                              *)

Accumulator == [sum : Nat, top : Prices, bottom : Prices, volume : Nat,
                count : Nat \ {0}]
Aggregate == [mean : Nat, top : Prices, bottom : Prices, volume : Nat]

\* Types; there is an accumulator as soon as, and not before, something was
\* given.
TypeOK ==
    /\ kind \in {"candle", "quote"}
    /\ DOMAIN given \subseteq Exchanges
    /\ \A e \in DOMAIN given : given[e] \in Contribution /\ Sound(given[e])
    /\ poured \in Nat
    /\ acc \in {None} \cup Accumulator
    /\ acc = None <=> DOMAIN given = {}
    /\ result \in {None} \cup Aggregate

\* The candle of a symbol is a candle up to rounding: its open and close lie
\* between its low and its high, as those of every exchange did, once these are
\* rounded as a division rounds (symbol_kline_handle.go:168-213).  The low and
\* high that are stored are not rounded, so an open or a close may still lie
\* outside them, by less than the last digit a division keeps.
CandleStaysACandle ==
    kind = "candle" /\ result # None =>
        Rounded(result.bottom) <= result.mean /\ result.mean <= Rounded(result.top)

\* The mean lies between the contributions, however many were divided
\* (market_price_handle.go:319-324).
MeanAmongContributions ==
    result # None =>
        \E e, f \in DOMAIN given :
            /\ Rounded(given[e].mean) <= result.mean
            /\ result.mean <= Rounded(given[f].mean)

\* No exchange offers more than the bid, or asks for less than the ask, that
\* is published for the symbol, and some exchange does offer it; the same for
\* high and low (market_price_handle.go:305-311).
BestOfferIsPublished ==
    result # None =>
        /\ \A e \in DOMAIN given :
              given[e].top <= result.top /\ result.bottom <= given[e].bottom
        /\ \E e \in DOMAIN given : given[e].top = result.top
        /\ \E e \in DOMAIN given : given[e].bottom = result.bottom

\* Rounding each exchange's volume down loses less than a unit per exchange
\* (fetch_ohlcv.go:187-192, symbol_kline_handle.go:206).
VolumeShortfall ==
    result # None =>
        /\ result.volume * Parts <= poured
        /\ poured < (result.volume + acc.count) * Parts
=============================================================================
