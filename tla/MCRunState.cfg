SPECIFICATION SpecQuery
CONSTANTS
    init = init
    r1 = r1
    Jobs <- MCJobs
    OwnerOf <- MCOwnerOf
    Owners = {init, r1}
    Initial = init
    Requests = {r1}
    AcceptThread = AcceptThread
    Wakers = {r1, AcceptThread}
    Handles = {h1, h2}
    NoHandle = NoHandle
    NoRequest = NoRequest
    MaxQueue = 1
    Failing <- MCFailing
    Faults = {"late", "kill", "post", "wait", "prepare", "accept", "slow"}
INVARIANTS
    ReportsAreTrue
    WokenIsUnderWay
    CountersAreExact
    RollbackIsReported
PROPERTIES
    AllExitedIsTrue
CHECK_DEADLOCK FALSE
