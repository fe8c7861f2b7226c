CONSTANTS
    l1 = l1
    l2 = l2
    Lineages = {l1, l2}
    AttemptLimit = 1
    MaxWorkers = 2
    RetryLimit = 1
    ExplorerLimits = {1, 2}
    FrantaLimits = {1}
    FirstExplorerLimit = 1
    FirstFrantaLimit = 1
    MaxEdits = 1
    MaxRestarts = 1
    MaxCycles = 2
    MaxHost = 1
SPECIFICATION FairSpec
CHECK_DEADLOCK FALSE
INVARIANTS
    SortIsWhole
    CandidateStops
PROPERTIES
    TurnReachesSort
