CONSTANTS
  t1 = t1
  t2 = t2
  f1 = f1
  f2 = f2
  Tx = {t1}
  ForcedBatches <- MCForcedBatches
  Cap = 1
  MaxFlush = 2
  MaxBatch = 3
  MaxProvers = 2
  Kinds = {"restart", "store", "cancel", "crash"}
  MaxFaults = 2
SPECIFICATION Spec
INVARIANTS
  TypeOK
  
  ClosedIsStored
  
  StoredIsFlushed
PROPERTY
  StoredOnceFlushed
CHECK_DEADLOCK FALSE
