\* Remote calls may hang: does a second interrupt end the process?
SPECIFICATION HangingSpec
CONSTANTS
    Services <- AllServices
    MaxSignals = 2
PROPERTY SecondInterruptForcesExit
\* A worker both of whose loops gave up waits for an interrupt, and the bound
\* MaxSignals may be used up: it then really stands still.
CHECK_DEADLOCK FALSE
