CONSTANTS
    root0 = root0
    m1 = m1
    m2 = m2
    m3 = m3
    p1 = p1
    p2 = p2
    p3 = p3
    Root = root0
    NoId = NoId
    Ids = {root0, m1, m2, m3}
    Proposals = {p1, p2, p3}
    Published = {"fact", "route", "obligation", "claim", "memo"}
    Outcomes = {"proved", "disproved"}
    MaxPredecessors = 2
    MaxSoft = 1
    MaxOperands = 2
SPECIFICATION Spec
SYMMETRY StoreSymmetry
CHECK_DEADLOCK FALSE
INVARIANTS
    ActiveFactsSupported
    StatusesStand
    NothingStrands
