----------------------- MODULE MCInterBatchScheduler -----------------------
EXTENDS InterBatchScheduler

MCCapacity == [n \in Nodes |-> IF n = 1 THEN 2 ELSE 1]

ASSUME ExactShares
=============================================================================
