CONSTANTS
  NumTxs = 2
  Cost <- MCCost
  MaxResources = 4
  Threshold = 0
  MaxTxsPerBatch = 2
  EarlyGer = 0
  MaxGer = 1
  MaxForced = 2
  MaxChecks = 1
  Modes = {TRUE, FALSE}
  ForcedBound <- MCForcedBound
  Kinds = {"crash", "db", "commit", "executor"}
  MaxFaults = 1
SPECIFICATION Spec
CHECK_DEADLOCK FALSE
INVARIANTS
  TypeOK
  ClosedBatchesReproduce
  ForcedInOrder
  WithinLimits
  
PROPERTY
  SignalsTakeEffect
