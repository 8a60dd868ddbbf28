CONSTANTS
  N = 3
  L = 5
SPECIFICATION Spec
INVARIANTS
  FindsFirst
PROPERTY
  Returns
CHECK_DEADLOCK FALSE
