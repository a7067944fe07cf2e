SPECIFICATION Spec
CONSTANTS
    r = r
    a = a
    b = b
    c = c
    i = i
    h = h
    w = w
    Keys <- MCKeys
    Data = {i, h, w}
    Absent = Absent
    Bare = Bare
    Gone = Gone
    Untold = Untold
    Procs = {p, q}
    Requests <- MCRequests
    Starts <- MCStarts
    Faults = {"kill", "store"}
    MaxCalls = 3
SYMMETRY MCSymmetry
INVARIANTS
    ReadersAgree
    CallsHold
PROPERTY HostKept
CHECK_DEADLOCK FALSE
