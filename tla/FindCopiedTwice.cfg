SPECIFICATION Spec
CONSTANTS
    docs = docs
    note = note
    memo = memo
    blank = blank
    packed = packed
    hosted = hosted
    typed = typed
    a = a
    b = b
    Paths <- MCPaths
    Lower = 1
    Mount <- MCMount
    Data = {blank, packed, hosted, typed}
    Empty = blank
    Links = {}
    MaxReparseDepth = 1
    Procs = {a, b}
    Requests <- RaceRequests
    Starts <- RaceStarts
    Written = {typed}
    Habits = {}
    Faults = {"copy", "kill"}
    MaxCalls = 1
PROPERTY CopyUpKeepsTheOverlay
CHECK_DEADLOCK FALSE
