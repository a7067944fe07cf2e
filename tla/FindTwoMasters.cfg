SPECIFICATION Spec
CONSTANTS
    Launchers = {l1, l2, l3}
    NoLauncher = NoLauncher
    RaceBudget = 2
    MaxDelay = 2
    MaxAcceptRetries = 1
    l1 = l1
    l2 = l2
    l3 = l3
    Scenarios <- TrioWithGap
INVARIANTS
    OneRuntimeEver
CHECK_DEADLOCK FALSE
