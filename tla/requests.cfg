SPECIFICATION FairSpec
CONSTANTS
    None = None
    MaxReq = 2
    Window = 1
    BacklogSize = 1
    NumBuckets = 2
    BatchSize = 1
    NumPeers = 2
    Epochs = 2
    Fanout = 1
    MaxAborts = 1
INVARIANTS
    IndexCovers
    FollowersAccept
PROPERTIES
    OrderedOnce
    EveryRequestFinishes
