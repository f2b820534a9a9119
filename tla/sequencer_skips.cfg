SPECIFICATION Spec
CONSTANTS
    n1 = n1
    n2 = n2
    n3 = n3
    r1 = r1
    r2 = r2
    Node = {n1, n2, n3}
    Bootstrap = n1
    Nobody = Nobody
    Req <- OneReq
    Proxy <- AtLeader
    Publisher = {}
    Block = 1
    MaxAttempts = 1
    Preempt = {}
    Candidate = {n3}
    MaxTerm = 1
    MaxGSN = 2
PROPERTIES SkippedNeverIssued
CHECK_DEADLOCK FALSE
