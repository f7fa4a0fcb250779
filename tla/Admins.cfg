SPECIFICATION Spec
CONSTANTS
    NULL = NULL
    a = a
    b = b
    Emails = {a, b}
    PatIds = {}
    Callers = {c1, c2, c3}
    Config <- MCConfig
    Requests <- Administer
    Limit = 1
    Days = {1}
    MaxClock = 0
    MaxTouches = 1
SYMMETRY Symmetry
CHECK_DEADLOCK FALSE
PROPERTIES
    AdminRemains
    SeedsOnce
