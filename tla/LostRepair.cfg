CONSTANTS
    t1 = t1
    NoTask = NoTask
    Tasks = {t1}
    Writer = NoTask
    Kinds = {"fact", "memo"}
    MaxWorkers = 1
    RetryLimit = 1
    RevisionLimit = 2
    MaxOps = 2
    MaxAttempts = 3
    MaxEvidence = 0
    MaxRestarts = 0
    MaxAuths = 0
SPECIFICATION Spec
CHECK_DEADLOCK FALSE
INVARIANTS
    RepairDelivered
