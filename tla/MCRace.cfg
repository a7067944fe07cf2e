SPECIFICATION FairSpec
CONSTANTS
    Launchers = {l1, l2, l3}
    NoLauncher = NoLauncher
    RaceBudget = 3
    MaxDelay = 2
    MaxAcceptRetries = 1
    l1 = l1
    l2 = l2
    l3 = l3
    Scenarios <- Races
INVARIANTS
    OneRuntime
    StartedOnce
    OutcomeIsTrue
PROPERTIES
    EveryLauncherLeaves
CHECK_DEADLOCK FALSE
