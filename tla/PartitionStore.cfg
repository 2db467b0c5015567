CONSTANTS
    HdrSize = 1
    RecSizes = {2, 4, 6}
    MaxSize = 5
    BufCap = 3
    Retention = 1
    MaxTime = 1
    MaxAppends = 3
    MaxRestarts = 1
    OpenMayFail = TRUE
SPECIFICATION LiveSpec
INVARIANTS
    TypeOK
    RecordsApart
    AckedWritableUnlessClosed
    FirstRunSparesActive
    FirstRunRangesApart
PROPERTIES
    FirstRunSealedImmutable
    FirstRunRetentionHonoured
    RetrySucceeds
