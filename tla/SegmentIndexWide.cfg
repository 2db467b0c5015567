CONSTANTS
    HdrSize = 2
    Payloads = {1, 3}
    MaxSize = 20
    BufCap = 4
    Interval = 4
    EntrySize = 2
    IdxBufCap = 3
    PosMod = 8
    Windows <- AllWindows
    Junk <- MCJunk
    Faults = {}
    MaxAppends = 6
    MaxViews = 0
SPECIFICATION Spec
INVARIANT IndexBacked
