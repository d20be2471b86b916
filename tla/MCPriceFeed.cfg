\* One pair fetched up to three times and a currency that comes and goes:
\* records, successive rows and the two tables over interrupted visits, rounds
\* that fail half way, restarts of both processes and expiring keys.
CONSTANTS
    p1 = p1
    usd = usd
    Pairs <- OnePair
    Symbols = {1}
    SymbolOf <- TheSymbol
    Currencies = {usd}
    Convertible = {1}
    TTL = 1
    MaxTime = 1
    MaxFetch = 3
    MaxRows = 2
SPECIFICATION Spec
INVARIANTS KeysFollowTheBook TornByAtMostOne TornWithinTTL FiatMatchesMarket
PROPERTIES RowsNeverGoBack ImplementsMarketBoard
