SPECIFICATION FairSpec
CONSTANTS
    p1 = p1
    p2 = p2
    p3 = p3
    t1 = t1
    noTags = noTags
    someTags = someTags
    pair1 = pair1
    key1 = key1
    NULL = NULL
    TagSets = {noTags, someTags}
    Pairs = {pair1}
    Keys = {key1}
    Procs <- ThreeProcs
    Tenants = {t1}
    Requests <- WaitRequests
    TTL = 1
    PoolSize = 2
    LockKey <- SharedLock
    Detached = FALSE
    MaxClock = 0
    MaxRows = 2
PROPERTIES Finishes
