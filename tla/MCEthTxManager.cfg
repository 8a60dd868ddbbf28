CONSTANTS
  Nil = Nil
  i1 = i1
  i2 = i2
  w1 = w1
  Owner = {w1}
  Id = {i1}
  OwnerOf <- MCOneOwner
  MaxPrice = 2
  MaxBlocks = 3
  Kinds = {"error", "drop", "other", "revert", "crash", "receipt", "reorg"}
  MaxFaults = 2
SPECIFICATION Spec
INVARIANTS
  SentIsRecorded
  MinedOnce
  ConfirmedIsSynced

  
CHECK_DEADLOCK FALSE
