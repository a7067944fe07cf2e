SPECIFICATION Spec
CONSTANTS
    x = x
    y = y
    v = v
    w = w
    p = p
    q = q
    t = t
    u = u
    s = s
    Names = {x, y}
    Values = {v, w}
    Gone = Gone
    Kept = Kept
    Torn = Torn
    NoFile = NoFile
    Untold = Untold
    Composed <- MCComposed
    Earlier <- MCEarlier
    Blocks <- MCBlocks
    Procs = {p, q}
    Threads = {t, u, s}
    ProcessOf <- MCProcessOf
    Faults = {"kill", "crash", "write"}
    MaxCalls = 2
SYMMETRY MCSymmetry
INVARIANTS
    ModificationsSurvive
    StateFileIsWhole
CHECK_DEADLOCK FALSE
