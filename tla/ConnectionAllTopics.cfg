CONSTANTS
    IntMax = 1000
    MaxCount = 2
    Batches <- MCBatches
    Names <- MCNames
    NullTopics = TRUE
    ClientVersions <- MCVersions
    Pipelined = {"Heartbeat"}
    MaxFrames = 1
SPECIFICATION Spec
INVARIANT NoPanic
CHECK_DEADLOCK FALSE
