SPECIFICATION Spec
CONSTANTS
    n1 = n1
    n2 = n2
    Node = {n1, n2}
    Pub = {1, 2}
    OwnPubs <- MCOwnPubs
    WithCb = {1}
    Mortal = {}
    Doubtful = {}
    CAddCap = 1
    IgnoreMax = 1
    PktValid = {TRUE, FALSE}
    Network = "keep"
INVARIANTS
    RefreshAlive
    ConfirmTruthful
PROPERTIES
    CallbackSafe
