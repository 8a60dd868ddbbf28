CONSTANTS
  MaxBatch = 2
  MaxTxs = 1
  MaxBlocks = 3
  MaxForced = 1
  ForcedData <- MCForcedEmpty
  Kinds = {"takeover"}
  MaxFaults = 1
SPECIFICATION Spec
PROPERTY
  TrustedSyncKeepsVirtual
CHECK_DEADLOCK FALSE
