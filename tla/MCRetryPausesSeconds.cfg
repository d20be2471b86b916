\* NewDB's strategy {Min: 1000, Max: 20_000, MaxJitter: 250}, which are
\* nanoseconds, in a unit of 125 ns.
SPECIFICATION Spec
CONSTANTS
    Limits <- NewDBLimit
    Floor = 8
    Ceiling = 160
    MaxJitter = 2
    Second = 8000000
    Cancellable = FALSE
INVARIANTS
    PausesOfSeconds
