SPECIFICATION BoundedSpec
CONSTANTS
    n1 = n1
    n2 = n2
    n3 = n3
    n4 = n4
    b1 = b1
    Empty = Empty
    None = None
    Node = {n1, n2, n3, n4}
    Leaders <- ThreeLeaders
    SN = {1}
    Batch = {b1}
    Adaptive = FALSE
    CatchUpAt = {n3}
    Faulty = {n1}
    Behind = {n3}
    Patience = 2
    MaxView = 3
INVARIANTS
    CommittedStays
PROPERTIES
    ImplementsDecision
    SomeoneCommits
CHECK_DEADLOCK FALSE
