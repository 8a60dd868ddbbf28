CONSTANTS
  Nil = Nil
  sequencer = sequencer
  Owner = {sequencer}
  Id <- MCId
  OwnerOf <- MCOwnerOf
  MaxPrice = 2
  MaxBlocks = 3
  Kinds = {"error", "drop", "other", "revert", "crash"}
  MaxFaults = 1
  MaxBatch = 2
  Upgrades = {0, 1}
SPECIFICATION SenderSpec
INVARIANTS
  SequencedInOrder
PROPERTIES
  ImplementsBatchStages
  ClosedIsSequenced
CHECK_DEADLOCK FALSE
