SPECIFICATION Spec
CONSTANTS
    Attempts <- TwoAttempts
    Ops = {1, 2}
    Objects <- ContinuedObjects
    MaxScratch = 1
    MaxPerTurn = 3
    MaxLaunch = 2
    MaxCallbacks = 2
    MaxStops = 1
    MaxWriteErrors = 1
INVARIANTS
    OneSortTask
CHECK_DEADLOCK FALSE
