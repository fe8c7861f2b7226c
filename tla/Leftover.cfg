SPECIFICATION Spec
CONSTANTS
    MaxCalls = 1
    MaxLaunches = 2
    MaxStops = 1
    RetryLimit = 1
    Requests = {}
CHECK_DEADLOCK FALSE
INVARIANTS
    InterruptedCallLaunches
