CONSTANTS
    NumParts = 1
    Records <- TwoBatches
    RecHdr = 1
    Prefix = 2
    MaxBytes = 6
    PartMax = 6
    IntMax = 15
    MaxRecords = 2
    MayRoll = FALSE
    Broken = {}
SPECIFICATION Spec
INVARIANT NextFetchLands
