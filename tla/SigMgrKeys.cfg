SPECIFICATION KeysSpec
CONSTANTS
    Publisher = {"p", "q"}
    Kinds = {"PPAEAD"}
    MaxKeys = 3
INVARIANT Decrypts
CHECK_DEADLOCK FALSE
