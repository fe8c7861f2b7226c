CONSTANTS
    root0 = root0
    m1 = m1
    m2 = m2
    m3 = m3
    m4 = m4
    p1 = p1
    p2 = p2
    p3 = p3
    p4 = p4
    Root = root0
    NoId = NoId
    Ids = {root0, m1, m2, m3, m4}
    Proposals = {p1, p2, p3, p4}
    Published = {"fact", "route", "obligation"}
    Outcomes = {}
    MaxPredecessors = 1
    MaxSoft = 1
    MaxOperands = 0
SPECIFICATION Spec
SYMMETRY StoreSymmetry
CHECK_DEADLOCK FALSE
INVARIANTS
    RoutesHoldNoRevokedFact
