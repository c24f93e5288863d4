------------------------------- MODULE MCSyncPS -------------------------------
EXTENDS SyncPS

CONSTANTS n1, n2

MCOwnPubs == [n \in Node |-> IF n = n1 THEN {1} ELSE {2}]

AllFromA == [n \in Node |-> IF n = n1 THEN Pub ELSE {}]

===============================================================================
