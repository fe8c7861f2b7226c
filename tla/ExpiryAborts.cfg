CONSTANTS
    l1 = l1
    Lineages = {l1}
    AttemptLimit = 2
    MaxWorkers = 1
    RetryLimit = 1
    ExplorerLimits = {2}
    FrantaLimits = {1}
    FirstExplorerLimit = 2
    FirstFrantaLimit = 1
    MaxEdits = 0
    MaxRestarts = 0
    MaxCycles = 1
    MaxHost = 1
SPECIFICATION Spec
CHECK_DEADLOCK FALSE
INVARIANTS
    PeersSurvive
