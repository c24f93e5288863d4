SPECIFICATION Spec
CONSTANTS
    Key = {1, 2, 3, 4}
    Twice = {4}
    StSize = 2
    Hashes <- MCHashes
    Cert <- MCCert
    SignedBy <- MCSignedBy
    CertName <- MCNames
    Schema <- MCSchemas
    CertT <- MCCertT
    ChainT <- MCChainT
    Discrim <- MCDiscrim
    Params = {2, 3, 4}
    Size = 5
    Values <- MCValues
    Publisher = {"p", "q"}
    Kinds = {"AEAD", "PPAEAD"}
    MaxKeys = 3
INVARIANT TableExact
INVARIANT PeelExact
 
 
PROPERTY PeelEnds
