SPECIFICATION FairSpec
CONSTANTS
    Sprints = {s1}
    Lanes = {l1, l2}
    Tasks = {t1}
    Writer = w
    Proofs = {p1}
    Disproofs = {d1}
    Nothing = Nothing
    RetryLimit = 1
    RoundsPerSession = 1
    MaxCalls = 3
    MaxReviews = 1
    MaxStops = 1
    MaxOperator = 1
    MaxFacts = 2
CHECK_DEADLOCK FALSE
INVARIANTS
    SummaryCoversSprint
    CatalogNeverBehind
    GateStands
PROPERTIES
    SprintReachesBarrier
