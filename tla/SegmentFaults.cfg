CONSTANTS
    HdrSize = 2
    Payloads = {0, 1}
    MaxSize = 9
    BufCap = 2
    Interval = 3
    EntrySize = 2
    IdxBufCap = 3
    PosMod = 100
    Windows <- MCWindows
    Junk <- MCJunk
    Faults = {"kill", "power", "log", "idx"}
    MaxAppends = 3
    MaxViews = 1
SPECIFICATION Spec
INVARIANTS
    TypeOK
    AppendOffsetExact
    RecordsApart
    FlushedSurvive
    ViewsReadable
    IndexSound
    LookupIsFloor
PROPERTY RefinesAbstractLog
