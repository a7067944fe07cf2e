SPECIFICATION CallsSpec
CONSTANTS
    docs = docs
    note = note
    memo = memo
    blank = blank
    packed = packed
    hosted = hosted
    typed = typed
    a = a
    b = b
    Paths <- MCPaths
    Lower = 1
    Mount <- MCMount
    Data = {blank, packed, hosted, typed}
    Empty = blank
    Links = {}
    MaxReparseDepth = 1
    Procs = {a}
    Requests <- FileRequests
    Starts <- FileStarts
    Written = {typed}
    Habits = {}
    Faults = {}
    MaxCalls = 3
PROPERTY IsFileTree
CHECK_DEADLOCK FALSE
