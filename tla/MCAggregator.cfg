CONSTANTS
  p1 = p1
  p2 = p2
  Prover = {p1, p2}
  MaxBatch = 2
  Kinds = {"prover", "add", "crash", "lost", "slow", "elsewhere"}
  MaxFaults = 1
SPECIFICATION Spec
INVARIANTS
  TypeOK
  NoOverlap
  
  WholeSequences

  
CHECK_DEADLOCK FALSE
