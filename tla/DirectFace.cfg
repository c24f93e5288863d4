SPECIFICATION FaceSpec
CONSTANTS
    Name <- MCName
    Prefix <- MCPrefix
    Nonce = {1, 2}
    DitMax = 2
    QueueMax = 2
INVARIANTS FaceTypeOK PitTimed NoRepeats FlowBalance
CHECK_DEADLOCK FALSE
