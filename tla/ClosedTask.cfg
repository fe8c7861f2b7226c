CONSTANTS
    c1 = c1
    c2 = c2
    o1 = o1
    NoCall = NoCall
    NoOp = NoOp
    Calls = {c1, c2}
    Ops = {o1}
    FactOps = {}
    RetryLimit = 1
    MaxVerifiers = 1
    MaxRestarts = 1
    MaxAuths = 1
SPECIFICATION Spec
SYMMETRY CallSymmetry
CHECK_DEADLOCK FALSE
INVARIANTS
    ClosedMeansTerminal
