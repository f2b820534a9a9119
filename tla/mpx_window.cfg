SPECIFICATION Spec
CONSTANTS
    n1 = n1
    n2 = n2
    n3 = n3
    r1 = r1
    r2 = r2
    None = None
    Members <- Two
    SN = {0, 1}
    Single = TRUE
    Req <- TwoReqs
    Reach <- TwoAtProposer
    BatchSize = 1
    Late = {n2}
    Lost <- ToProposer
    Ticks = {"giveup", "resend"}
    CatchUpAt = {}
    MaxBallot = 0
INVARIANTS
    NothingLost
PROPERTIES ImplementsDecision
CHECK_DEADLOCK FALSE
