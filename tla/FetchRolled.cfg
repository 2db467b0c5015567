CONSTANTS
    NumParts = 1
    Records <- OneBatch
    RecHdr = 1
    Prefix = 2
    MaxBytes = 5
    PartMax = 5
    IntMax = 15
    MaxRecords = 3
    MayRoll = TRUE
    Broken = {}
SPECIFICATION Spec
INVARIANT OutOfRangeRolled
