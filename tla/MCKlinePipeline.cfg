\* Two exchanges quoting the same symbol, exact clocks, gaps between candles,
\* any schedule of the two loops: time enough for the first candle to leave the
\* window, with one exchange from the third minute on.
CONSTANTS
    p1 = p1
    p2 = p2
    Pairs = {p1, p2}
    Symbols = {1}
    SymbolOf <- SharedSymbol
    Lookback = 3
    Skew = 0
    MaxTime = 4
SPECIFICATION Spec
CONSTRAINT Bounded
INVARIANTS OnlyFinalCandles LookbackSuffices
PROPERTIES MissedForGood ImplementsCandleBoard
SYMMETRY Exchanges
