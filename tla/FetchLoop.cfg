CONSTANTS
    NumParts = 3
    Records <- AnyBatch
    RecHdr = 1
    Prefix = 2
    MaxBytes = 10
    PartMax = 7
    IntMax = 15
    MaxRecords = 4
    MayRoll = TRUE
    Broken = {2}
SPECIFICATION FairSpec
INVARIANTS
    TypeOK
    NextFetchLands
    BudgetKept
    OutOfRangeIsBeyond
PROPERTY CatchesUp
