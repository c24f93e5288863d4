SPECIFICATION Spec
CONSTANTS
    Pub = {1, 2}
    Own = {1}
    WithCb = {1}
    Lifetime = 1
    Skew = 2
    GB = 4
    MaxNow = 7
    IgnoreMax = 1
INVARIANTS TypeOK DeliveredOnce IbltBalanced ToldOnce
CHECK_DEADLOCK FALSE
