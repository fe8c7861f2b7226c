CONSTANTS
    t1 = t1
    t2 = t2
    NoTask = NoTask
    Tasks = {t1, t2}
    Writer = t1
    Kinds = {"fact", "proposal"}
    MaxWorkers = 1
    RetryLimit = 1
    RevisionLimit = 1
    MaxOps = 1
    MaxAttempts = 3
    MaxEvidence = 0
    MaxRestarts = 1
    MaxAuths = 1
SPECIFICATION FairSpec
CHECK_DEADLOCK FALSE
INVARIANTS
    SlotDiscipline
PROPERTIES
    TaskSettles
