SPECIFICATION FairSpec
CONSTANTS
    n1 = n1
    n2 = n2
    gA = gA
    gB = gB
    x1 = x1
    x3 = x3
    l1 = l1
    Unknown = Unknown
    Group = {gA, gB}
    Deployment <- All
    MaxGsn = 3
INVARIANTS
    TypeOK
    GsnOrder
    LocalOrder
    ReplicasAgree
    GlobalOrder
PROPERTIES
    EverythingDelivered
CHECK_DEADLOCK FALSE
