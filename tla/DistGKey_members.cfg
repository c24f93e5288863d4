SPECIFICATION FairSpec
CONSTANTS
    Node = {1, 2, 3}
    Pri <- OneMaker
    Schemes <- MakerSchemes
    MaxKR = 1
    MaxKeys = 2
CHECK_DEADLOCK FALSE
INVARIANT MembersHaveKey
PROPERTY NoOlderKey
PROPERTY AllKeyed
