SPECIFICATION TimelySpec
CONSTANTS
    n1 = n1
    n2 = n2
    n3 = n3
    r1 = r1
    r2 = r2
    None = None
    Members <- Three
    SN = {0}
    Single = FALSE
    Req <- OneReq
    Reach <- AtProposer
    BatchSize = 1
    Late = {n2}
    Lost <- ToTwo
    Ticks = {"round"}
    CatchUpAt = {n1, n3}
    MaxBallot = 1
INVARIANTS
    Agreement
    QuorumBacked
    PendingBacked
PROPERTIES EveryoneDecides
CHECK_DEADLOCK FALSE
