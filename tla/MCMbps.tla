-------------------------------- MODULE MCMbps --------------------------------
EXTENDS Mbps

CONSTANTS s, r, long, mid, short

\* With MaxContent = 2: messages in three, two and one segments
MCSize == [m \in Msg |-> IF m = long THEN 5 ELSE IF m = mid THEN 3 ELSE 2]

MCFrom == [m \in Msg |-> IF m = long THEN s ELSE r]
===============================================================================
