SPECIFICATION FairProposals
CONSTANTS
    TempIds = 3
    MaxProposals = 2
    MaxGates = 2
    MaxAttempts = 2
    MaxStops = 1
    MaxOperator = 1
PROPERTIES
    StoppedSettles
CHECK_DEADLOCK FALSE
