SPECIFICATION Spec
CONSTANTS
    p1 = p1
    p2 = p2
    p3 = p3
    t1 = t1
    noTags = noTags
    someTags = someTags
    pair1 = pair1
    key1 = key1
    NULL = NULL
    TagSets = {noTags, someTags}
    Pairs = {pair1}
    Keys = {key1}
    Procs <- TwoProcs
    Tenants = {t1}
    Requests <- TenantRequests
    TTL = 1
    PoolSize = 2
    LockKey <- OwnLock
    Detached = FALSE
    MaxClock = 0
    MaxRows = 2
SYMMETRY Symmetry
INVARIANTS NoDangling BlocksDisjoint InOwnBlock HistoryExplains AuditExplains ViewsCurrent
