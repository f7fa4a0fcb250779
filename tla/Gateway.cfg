\* Every call of every front end, tried at most twice.
CONSTANTS
    Calls <- MCCalls
    MaxTries = 2
    Burst = 1
    PENDING = PENDING
    NULL = NULL
SPECIFICATION Spec
INVARIANTS ToldTrue OnceByKey
CHECK_DEADLOCK FALSE
