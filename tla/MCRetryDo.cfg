SPECIFICATION Spec
CONSTANTS
    Limits <- SmallLimits
    Floor = 1
    Ceiling = 6
    MaxJitter = 2
    Second = 1
    Cancellable = TRUE
INVARIANTS
    AttemptsAsTold
    CancelStopsRetrying
