SPECIFICATION Spec
CONSTANTS
    s = s
    r = r
    long = long
    mid = mid
    short = short
    Node = {s, r}
    Msg = {long, mid, short}
    Confirmed = {long, mid, short}
    From <- MCFrom
    Size <- MCSize
    MaxContent = 2
    MaxSegs = 3
CHECK_DEADLOCK FALSE
INVARIANT TypeOK
INVARIANT ConfirmExact
INVARIANT ConfirmCalledInside
INVARIANT DeliveredExact
