SPECIFICATION Spec
CONSTANTS
    Commands = {c1, c2}
    NULL = NULL
    MaxClock = 4
    Rotates = 3
    Ahead = 2
    Lifetime = 2
    Lag = 1
    MaxCall = 1
    Skew = 1
    Leeway = 0
    TTL = 1
SYMMETRY MCSymmetry
INVARIANTS
    FileIsWhole
    RefusedForCause
PROPERTIES
    AccountsExplained
CHECK_DEADLOCK FALSE
