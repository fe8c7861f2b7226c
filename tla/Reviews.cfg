CONSTANTS
    c1 = c1
    c2 = c2
    o1 = o1
    NoCall = NoCall
    NoOp = NoOp
    Calls = {c1, c2}
    Ops = {o1}
    FactOps = {o1}
    RetryLimit = 1
    MaxVerifiers = 1
    MaxRestarts = 1
    MaxAuths = 1
SPECIFICATION FairSpec
CHECK_DEADLOCK FALSE
INVARIANTS
    LeaseDiscipline
    PlanningIsGuarded
    AppliedOnce
PROPERTIES
    ReviewSettles
