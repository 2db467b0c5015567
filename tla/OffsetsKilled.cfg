CONSTANTS
    w1 = w1
    w2 = w2
    k1 = k1
    k2 = k2
    Workers = {w1, w2}
    Keys = {k1, k2}
    Owns <- OwnKeys
    SegCap = 3
    LoadCap = 2
    MaxCommits = 7
    MaxRestarts = 2
    MayKill = TRUE
    MayExpire = TRUE
SPECIFICATION Spec
INVARIANTS
    TypeOK
    CacheBackedByLog
    CommitsSurvive
CHECK_DEADLOCK FALSE
