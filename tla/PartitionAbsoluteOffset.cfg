CONSTANTS
    HdrSize = 1
    RecSizes = {2, 4}
    MaxSize = 5
    BufCap = 3
    Retention = 2
    MaxTime = 0
    MaxAppends = 4
    MaxRestarts = 0
    OpenMayFail = FALSE
SPECIFICATION Spec
INVARIANT OffsetsUnique
