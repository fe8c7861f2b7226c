SPECIFICATION SortSpec
CONSTANTS
    Items = {x}
    Taken = {}
    Declared = {}
    MainRetryLimit = 1
    MaxFiles = 2
    MaxCallbacks = 1
    MaxStops = 0
    MaxOperator = 0
INVARIANTS
    HonestLaunchAccepted
CHECK_DEADLOCK FALSE
