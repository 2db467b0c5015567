CONSTANTS
    c1 = c1
    c2 = c2
    c3 = c3
    p1 = p1
    p2 = p2
    Conns = {c1}
    Parts = {p1}
    PoolSize = 1
    MaxBatches = 1
    Broken = {}
    AcceptMayFail = FALSE
    OpenMayFail = FALSE
SPECIFICATION Spec
INVARIANT CleanStop
CHECK_DEADLOCK FALSE
