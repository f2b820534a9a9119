SPECIFICATION Spec
CONSTANTS
    N = 4
    Ratio = 2
    EpochLength = 4
    LeaderBan = 1
    NumBuckets = 5
    Correct = {1, 3}
    Me = 4
    Deployments <- AllDeployments
    Capacity = 3
    Epochs = 2
INVARIANTS CheckpointInStep QuorumBehind SegmentsAgree FetchedIsKept
PROPERTY Advances
CHECK_DEADLOCK FALSE
