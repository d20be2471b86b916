\* Up to three exchanges: division by 1, 2 and 3.
SPECIFICATION Spec
CONSTANTS
    binance = binance
    okx = okx
    bybit = bybit
    Exchanges <- ThreeExchanges
    Prices <- SmallPrices
    Volumes <- SmallVolumes
    Grain = 2
    Parts = 2
INVARIANTS CandleStaysACandle MeanAmongContributions VolumeShortfall
SYMMETRY AnyExchange
\* A finished aggregation has no next step.
CHECK_DEADLOCK FALSE
