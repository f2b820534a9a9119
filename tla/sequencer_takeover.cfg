SPECIFICATION FairSpec
CONSTANTS
    n1 = n1
    n2 = n2
    n3 = n3
    r1 = r1
    r2 = r2
    Node = {n1, n2, n3}
    Bootstrap = n1
    Nobody = Nobody
    Req <- OneReq
    Proxy <- AtLeader
    Publisher <- OneReq
    Block = 1
    MaxAttempts = 1
    Preempt = {"elect", "resume"}
    Candidate = {n3}
    MaxTerm = 1
    MaxGSN = 3
INVARIANTS
    ElectionSafety
    IssuedBelowMark
    BlocksDisjoint
    TypeOK
PROPERTIES TakeoverDone
CHECK_DEADLOCK FALSE
