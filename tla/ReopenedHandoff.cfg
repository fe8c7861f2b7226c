CONSTANTS
    l1 = l1
    Lineages = {l1}
    AttemptLimit = 1
    MaxWorkers = 1
    RetryLimit = 0
    ExplorerLimits = {1, 2}
    FrantaLimits = {1}
    FirstExplorerLimit = 1
    FirstFrantaLimit = 1
    MaxEdits = 1
    MaxRestarts = 1
    MaxCycles = 1
    MaxHost = 1
SPECIFICATION Spec
CHECK_DEADLOCK FALSE
INVARIANTS
    HandoffIsFinal
