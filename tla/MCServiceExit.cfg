\* Does a healthy service exit with status 0?
SPECIFICATION FairSpec
CONSTANTS
    Services <- AllServices
    MaxSignals = 2
INVARIANT GracefulStopSucceeds
\* A worker both of whose loops gave up waits for an interrupt, and the bound
\* MaxSignals may be used up: it then really stands still.
CHECK_DEADLOCK FALSE
