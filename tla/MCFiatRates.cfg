\* One or two platforms, two currencies, two rounds, crashes and outside edits.
SPECIFICATION FairSpec
CONSTANTS
    api = api
    other = other
    usd = usd
    eur = eur
    Platforms <- TwoPlatforms
    Codes <- TwoCodes
    MaxRounds = 2
    MaxTable = 4
INVARIANT RateOfItsRound
PROPERTIES OnlyBootstrapInserts OnlyLoadedRowsChange RoundGetsShorter RoundCompletes
\* After the last round with an empty table nothing is left to do.
CHECK_DEADLOCK FALSE
