CONSTANTS
    t1 = t1
    NoTask = NoTask
    Tasks = {t1}
    Writer = NoTask
    Kinds = {"fact", "memo"}
    MaxWorkers = 1
    RetryLimit = 1
    RevisionLimit = 1
    MaxOps = 3
    MaxAttempts = 3
    MaxEvidence = 1
    MaxRestarts = 1
    MaxAuths = 0
SPECIFICATION Spec
CHECK_DEADLOCK FALSE
INVARIANTS
    OneRunningAttempt
    RepairsKept
    SoundOutcome
PROPERTIES
    ClosingIsFinal
