\* Tokens of zero or one decimals, up to two trades.
SPECIFICATION DexSpec
CONSTANTS
    Decimals = {0, 1}
    Reserves = {0, 1, 2}
    MaxChanges = 2
INVARIANT PriceOfThisRound
