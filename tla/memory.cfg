SPECIFICATION Spec
CONSTANTS
  MEMORY = 5
  Bytes = {0, 1, 2}
CHECK_DEADLOCK FALSE
INVARIANTS
  StandardLibrary
