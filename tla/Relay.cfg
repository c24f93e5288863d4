SPECIFICATION RelaySpec
CONSTANTS
    Cert <- MCCert
    SignedBy <- MCSignedBy
    CertName <- MCNames
    Schema = {"schemaA", "schemaB"}
    CertT <- MCCertT
    ChainT <- MCChainT
    Discrim <- MCDiscrim
    Deft = {"a", "b", "r1", "r2"}
    SchemaOf <- MCSchemaOf
    Network <- MCNetwork
    Host <- MCHost
    Bootstrap <- MCBootstrap
    FirstPair <- MCFirstPair
    NewPairs <- MCNewPairs
    From <- MCFrom
    Until <- MCUntil
    KeyDists <- MCKeyDists
    Pub = {"status", "log", "command", "key"}
    KeyPub = {"key"}
    Origin <- MCOrigin
    Fits <- MCFits
    MaxTime = 0
CHECK_DEADLOCK FALSE
INVARIANT StoresInStep
INVARIANT WithinSchema
INVARIANT NoneStranded
 
