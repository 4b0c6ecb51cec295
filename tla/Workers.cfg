SPECIFICATION FairSpec
CONSTANTS Workers <- MCWorkers
INVARIANTS CheckpointInv OutputsOnce
PROPERTIES CatchesUp
CHECK_DEADLOCK FALSE
