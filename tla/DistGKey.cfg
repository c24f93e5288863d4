SPECIFICATION Spec
CONSTANTS
    Node = {1, 2, 3}
    Pri <- TwoMakers
    Schemes <- BothSchemes
    MaxKR = 1
    MaxKeys = 2
CHECK_DEADLOCK FALSE
INVARIANT WinnerIsBest
INVARIANT OneKeyMaker
 
