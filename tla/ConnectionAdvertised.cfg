CONSTANTS
    IntMax = 1000
    MaxCount = 2
    Batches <- MCBatches
    Names <- MCNames
    NullTopics = FALSE
    ClientVersions <- Advertised
    Pipelined = {"Heartbeat"}
    MaxFrames = 1
SPECIFICATION Spec
INVARIANT FramesExact
CHECK_DEADLOCK FALSE
