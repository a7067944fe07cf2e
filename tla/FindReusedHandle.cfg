SPECIFICATION SpecSet
CONSTANTS
    j1 = j1
    j2 = j2
    j3 = j3
    init = init
    r1 = r1
    Jobs = {j1, j2, j3}
    Handles = {h1, h2, h3}
    Wakers = {w1, w2}
    Owners = {init, r1}
    Initial = init
    OwnerOf <- MCOwnerOf
    NoHandle = NoHandle
    Faults = {"late", "reuse"}
PROPERTIES
    AllExitedIsTrue
CHECK_DEADLOCK FALSE
