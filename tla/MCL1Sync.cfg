CONSTANTS
  GenesisBlockNum = 2
  StartLen = 5
  MaxBlock = 6
  SyncChunkSize = 1
  NumWorkers = 2
  ChannelSize = 2
  CmdsSize = 2
  MaxDistance = 2
  Width = 5
  Patterns <- MCPatterns
  Kinds = {"rpc", "process", "crash", "reorg"}
  MaxFaults = 1
SPECIFICATION Spec
INVARIANTS
  NoEventSkipped
  NoOverlap
PROPERTIES
  SyncedMeansStored
  
