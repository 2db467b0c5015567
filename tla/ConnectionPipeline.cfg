CONSTANTS
    IntMax = 1000
    MaxCount = 2
    Batches <- MCBatches
    Names <- MCNames
    NullTopics = FALSE
    ClientVersions <- MCVersions
    Pipelined = {"Heartbeat"}
    MaxFrames = 2
SPECIFICATION FairSpec
INVARIANTS
    TypeOK
    Aligned
    InOrder
    FramesExact
    ProduceAnswered
PROPERTY ConnectionEnds
CHECK_DEADLOCK FALSE
