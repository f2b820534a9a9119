SPECIFICATION Spec
CONSTANTS
    n1 = n1
    n2 = n2
    n3 = n3
    n4 = n4
    None = None
    Empty = Empty
    Nop = Nop
    Node = {n1, n2, n3, n4}
    Lead = n1
    SNs <- TwoLeaders
    Faulty = {n4}
    Shaky = {n4}
    Hasty = {n1, n4}
    MaxView = 2
    Ending = {n1}
INVARIANTS
    ThreeChain
    NoneSkipped
PROPERTIES
    EveryoneAnnounces
CHECK_DEADLOCK FALSE
