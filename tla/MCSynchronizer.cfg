CONSTANTS
  MaxBatch = 2
  MaxTxs = 2
  MaxBlocks = 3
  MaxForced = 1
  ForcedData <- MCForced
  Kinds = {"error", "crash", "reorg", "takeover"}
  MaxFaults = 1
SPECIFICATION Spec
INVARIANTS
  BatchesReproduce
  
PROPERTY
  Follows
CHECK_DEADLOCK FALSE
