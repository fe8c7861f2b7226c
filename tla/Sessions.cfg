SPECIFICATION FairSpec
CONSTANTS
    MaxCalls = 2
    MaxLaunches = 3
    MaxStops = 2
    RetryLimit = 1
    Requests = {r1, r2}
CHECK_DEADLOCK FALSE
INVARIANTS
    OneConversation
    QuietAfterRevoke
PROPERTIES
    RevokeCompletes
