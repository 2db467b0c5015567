CONSTANTS
    HdrSize = 2
    Payloads = {1, 3}
    MaxSize = 20
    BufCap = 4
    Interval = 4
    EntrySize = 2
    IdxBufCap = 3
    PosMod = 100
    Windows <- AllWindows
    Junk <- MCJunk
    Faults = {"kill"}
    MaxAppends = 6
    MaxViews = 0
SPECIFICATION Spec
INVARIANT IndexBacked
