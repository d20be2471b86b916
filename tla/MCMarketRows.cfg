\* Days of two seconds, rows of two symbols.
SPECIFICATION Spec
CONSTANTS
    usd = usd
    btc = btc
    NoCoin = NoCoin
    Symbols = {1, 2}
    CoinOf <- Coin
    Convertible = {1}
    Currencies <- OneCurrency
    PricesOf <- Price
    Amounts = {1, 4}
    UintLimit = 4
    Day = 2
    Zones = {0}
    MaxTime = 5
    MaxRows = 3
INVARIANTS OneBasePerDay StrayOnlyOverMidnight QuotesCostNoRow
PROPERTIES RefusedOnlyForItsCap LookupsNeverGoBack
