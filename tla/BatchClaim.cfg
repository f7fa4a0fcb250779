SPECIFICATION Spec
CONSTANTS
    Procs = {p1, p2}
    Bodies = {a, big}
    Oversize = {big}
    NULL = NULL
    Items = 3
    PENDING_TTL = 4
    TTL = 10
    Timeout = 2
    MaxClock = 9
    MaxLost = 1
INVARIANTS RunsAlone RepeatsOnlyLost
PROPERTIES KeyBound
