CONSTANTS
    IntMax = 60
    MaxCount = 2
    Batches <- MCBatches
    Names <- MCNames
    NullTopics = FALSE
    ClientVersions <- MCVersions
    Pipelined = {"Heartbeat"}
    MaxFrames = 1
SPECIFICATION Spec
INVARIANT FramesExact
CHECK_DEADLOCK FALSE
