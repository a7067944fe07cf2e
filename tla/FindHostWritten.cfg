SPECIFICATION Spec
CONSTANTS
    docs = docs
    note = note
    memo = memo
    blank = blank
    packed = packed
    hosted = hosted
    typed = typed
    a = a
    b = b
    Paths <- MCPaths
    Lower = 1
    Mount <- MCMount
    Data = {blank, packed, hosted, typed}
    Empty = blank
    Links = {}
    MaxReparseDepth = 1
    Procs = {a}
    Requests <- OverwriteRequests
    Starts <- SeqStarts
    Written = {typed}
    Habits = {}
    Faults = {"copy", "kill"}
    MaxCalls = 1
PROPERTY LayersKept
CHECK_DEADLOCK FALSE
