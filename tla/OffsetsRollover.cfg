CONSTANTS
    w1 = w1
    w2 = w2
    k1 = k1
    k2 = k2
    Workers = {w1, w2}
    Keys = {k1, k2}
    Owns <- OwnKeys
    SegCap = 2
    LoadCap = 9
    MaxCommits = 4
    MaxRestarts = 1
    MayKill = FALSE
    MayExpire = FALSE
SPECIFICATION Spec
INVARIANT AckedServed
