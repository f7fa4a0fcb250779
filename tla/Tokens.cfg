SPECIFICATION Spec
CONSTANTS
    NULL = NULL
    a = a
    b = b
    Emails = {a, b}
    PatIds = {t1, t2}
    Callers = {c1, c2}
    Config <- MCPair
    Requests <- Tokens
    Limit = 1
    Days = {1}
    MaxClock = 2
    MaxTouches = 1
SYMMETRY Symmetry
CHECK_DEADLOCK FALSE
INVARIANTS
    TypeOK
    TokenLimit
    ServedOnGrounds
PROPERTIES
    TokenFate
    ContractSpec
