\* All commands, two exchanges, two connection attempts and two migration
\* files; up to two interrupts at any moment.
SPECIFICATION StartupFairSpec
CONSTANTS
    Services <- AllServices
    ServiceOf <- ServicesByCommand
    MaxSignals = 2
    Exchanges = {1, 2}
    Attempts = 2
    Files = 2
INVARIANTS CleanExitIsQuiet CutOnlyBehindAnError QuietServiceStops
INVARIANTS LoopsHaveTheirClients AllOrNothing SchemaGrowsInOrder
PROPERTIES CancelledAppExits CriticalFailureExits SetupEnds
\* A process may be up with nothing to do or have failed, and the bound
\* MaxSignals may be used up: it then really stands still.
CHECK_DEADLOCK FALSE
