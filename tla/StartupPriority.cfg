CONSTANTS
    MaxPort = 65535
    MaxSegment = 2000000
    MaxPool = 1048576
    Chars <- MCChars
    MaxPartition = 20
    Files <- MCFiles
    Envs <- MCEnvs
    Partitions <- MCPartitions
    OffsetsTopic <- MCOffsetsTopic
    Foreign <- MCForeign
    Unreadable <- MCUnreadable
    OpenMayFail = TRUE
    MaxRestarts = 1
    MaxRequests = 1
SPECIFICATION Spec
INVARIANT FileWins
CHECK_DEADLOCK FALSE
