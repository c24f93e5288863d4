SPECIFICATION FairSpec
CONSTANTS
    n1 = n1
    n2 = n2
    Node = {n1, n2}
    Pub = {1, 2}
    OwnPubs <- AllFromA
    WithCb = {1}
    Mortal = {}
    Doubtful = {}
    CAddCap = 1
    IgnoreMax = 0
    PktValid = {TRUE}
    Network = "lossy"
PROPERTY Converges
PROPERTY Confirms
