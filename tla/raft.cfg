SPECIFICATION Spec
CONSTANTS
    n1 = n1
    n2 = n2
    n3 = n3
    n4 = n4
    None = None
    Node = {n1, n2, n3, n4}
    Lead = n1
    Len = 2
    Faulty = {n4}
    Lossy = {n4}
    Candidate = {n3, n4}
    MaxTerm = 2
    MaxFlight = 0
INVARIANTS
    TypeOK
    PrefixOfLeader
    QuorumBacked
PROPERTIES
    ImplementsDecision
    EveryoneAnnounces
CHECK_DEADLOCK FALSE
