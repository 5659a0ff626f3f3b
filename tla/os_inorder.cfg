SPECIFICATION Spec
CONSTANTS
  NPROCS = 5
  MAX_TICKETS = 200
  Algorithms = {1}
  allow_clock_interrupt = FALSE
  RUNCOUNT = 2
  SyncMethods = {1}
  CELLS = 8
  BLANK = 0
  PRIORITY <- ShippedPRIORITY
  SHARE <- ShippedSHARE
CHECK_DEADLOCK FALSE
INVARIANTS
  StaysInTable
