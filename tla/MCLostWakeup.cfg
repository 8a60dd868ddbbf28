CONSTANTS
  t1 = t1
  t2 = t2
  f1 = f1
  f2 = f2
  Tx = {t1}
  ForcedBatches <- MCNoForcedBatches
  Cap = 1
  MaxFlush = 1
  MaxBatch = 1
  MaxProvers = 1
  Kinds = {}
  MaxFaults = 0
SPECIFICATION Spec
PROPERTY
  ExecutedIsStored
CHECK_DEADLOCK FALSE
