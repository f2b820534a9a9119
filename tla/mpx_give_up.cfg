SPECIFICATION Spec
CONSTANTS
    n1 = n1
    n2 = n2
    n3 = n3
    r1 = r1
    r2 = r2
    None = None
    Members <- Three
    SN = {0}
    Single = FALSE
    Req <- OneReq
    Reach <- AtProposer
    BatchSize = 1
    Late = {}
    Lost <- NoPromise
    Ticks = {"giveup"}
    CatchUpAt = {}
    MaxBallot = 0
INVARIANTS
    Agreement
CHECK_DEADLOCK FALSE
