SPECIFICATION FairSort
CONSTANTS
    Items = {x, t}
    Taken = {t}
    Declared = {}
    MainRetryLimit = 1
    MaxFiles = 2
    MaxCallbacks = 2
    MaxStops = 1
    MaxOperator = 1
INVARIANTS
    LedgerInv
    PlanningSeesSort
PROPERTIES
    SortSettles
CHECK_DEADLOCK FALSE
