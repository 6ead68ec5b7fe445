SPECIFICATION MCSpec
CONSTANTS
    UserMaps <- MCUserMaps
    Messages <- MCMessages
    Discoverers = {d1, d2}
    MaxNameLen = 5
    Ways = 1
    Slots = 2
    Life = 3
    TickModulus = 8
    FirstTick = 7
    MaxTime = 3
    MaxEntries = 4
    MaxCalls = 3
    Workers = {w1, w2}
    Signatures = {s1, s2, s3}
    Tags = {a}
    Capacity = 2
    ExpireInterval = 1
    MaxReplayTime = 3
SYMMETRY Symmetry
CHECK_DEADLOCK FALSE
INVARIANTS
    CacheIsAuthentic
    
    CacheIsTimely
    
    CheckpointKept
    AnswersRight
