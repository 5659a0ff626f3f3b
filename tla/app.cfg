SPECIFICATION Spec
CONSTANTS
  Apps = {a1, a2, a3}
  RUNCOUNT = 2
  SyncMethods = {1, 2}
  CELLS = 6
  BLANK = blank
SYMMETRY Symmetry
CHECK_DEADLOCK FALSE
INVARIANTS
  TypeOK
  MutualExclusion
  NothingLost
  CursorInConsole
