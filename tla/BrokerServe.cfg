CONSTANTS
    c1 = c1
    c2 = c2
    c3 = c3
    p1 = p1
    p2 = p2
    Conns = {c1, c2, c3}
    Parts = {p1, p2}
    PoolSize = 2
    MaxBatches = 2
    Broken = {p1}
    AcceptMayFail = TRUE
    OpenMayFail = TRUE
SPECIFICATION FairSpec
INVARIANTS
    TypeOK
    OneStorePerPartition
    KeptStored
    PoolBounded
PROPERTY ShutdownEnds
CHECK_DEADLOCK FALSE
