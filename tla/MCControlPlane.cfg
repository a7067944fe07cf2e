SPECIFICATION Spec
CONSTANTS
    init = init
    r1 = r1
    r2 = r2
    Jobs <- MCJobs
    OwnerOf <- MCOwnerOf
    Owners = {init, r1, r2}
    Initial = init
    Requests = {r1, r2}
    AcceptThread = AcceptThread
    Wakers = {r1, r2, AcceptThread}
    Handles = {h1, h2, h3, h4}
    NoHandle = NoHandle
    NoRequest = NoRequest
    MaxQueue = 1
    Failing <- MCFailing
    Faults = {}
INVARIANTS
    NoRequestLost
    RequestIsWhole
    RollbackIsOwn
    NoWakeupLost
    EndsAfterItsPrograms
    ExitCodeIsOfTheConfiguration
PROPERTIES
    ImplementsStartService
CHECK_DEADLOCK FALSE
