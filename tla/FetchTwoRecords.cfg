CONSTANTS
    NumParts = 1
    Records <- OneBatch
    RecHdr = 1
    Prefix = 2
    MaxBytes = 12
    PartMax = 12
    IntMax = 15
    MaxRecords = 2
    MayRoll = FALSE
    Broken = {}
SPECIFICATION Spec
INVARIANT WellFramed
