SPECIFICATION Spec
CONSTANTS
    n1 = n1
    n2 = n2
    Node = {n1, n2}
    Pub = {1}
    OwnPubs <- AllFromA
    WithCb = {1}
    Mortal = {1}
    Doubtful = {1}
    CAddCap = 1
    IgnoreMax = 1
    PktValid = {TRUE}
    Network = "keep"
INVARIANTS
    TypeOK
    CollectionConsistent
PROPERTIES
    ImplementsPubSub
