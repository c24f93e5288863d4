SPECIFICATION FairSpec
CONSTANTS
    Cert <- MCCert
    SignedBy <- MCSignedBy
    CertName <- MCNames
    Schema = {"schema"}
    CertT <- MCCertT
    ChainT <- MCChainT
    Discrim <- MCDiscrim
    Deft = {"a", "b"}
    SchemaOf <- MCSchemaOf
    Network <- MCNetwork
    Bootstrap <- MCBootstrap
    FirstPair <- MCFirstPair
    NewPairs <- MCNewPairs
    From <- MCFrom
    Until <- MCUntil
    KeyDists <- MCKeyDists
    MaxTime = 2
CHECK_DEADLOCK FALSE
INVARIANT ChainsComplete
INVARIANT ValidatorsExact
INVARIANT AllAdmitted
INVARIANT ConnectedOnce
PROPERTY Connects
