SPECIFICATION TimelySpec
CONSTANTS
    n1 = n1
    n2 = n2
    n3 = n3
    r1 = r1
    r2 = r2
    Node = {n1, n2, n3}
    Bootstrap = n1
    Nobody = Nobody
    Req <- TwoReqs
    Proxy <- AtLeaderAndFollower
    Publisher <- TwoReqs
    Block = 2
    MaxAttempts = 2
    Preempt = {"accept"}
    Candidate = {}
    MaxTerm = 0
    MaxGSN = 4
PROPERTIES
    ImplementsOracle
    RequestServed
CHECK_DEADLOCK FALSE
