CONSTANTS
  NumTxs = 2
  Cost <- MCCost
  MaxResources = 4
  Threshold = 0
  MaxTxsPerBatch = 2
  EarlyGer = 0
  MaxGer = 1
  MaxForced = 1
  MaxChecks = 1
  Modes = {FALSE}
  ForcedBound <- MCForcedBound
  Kinds = {}
  MaxFaults = 0
SPECIFICATION Spec
CHECK_DEADLOCK FALSE
INVARIANT
  NoFalseAlarm
