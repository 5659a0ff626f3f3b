SPECIFICATION Spec
CONSTANTS
  NPROCS = 3
  MAX_TICKETS = 200
  Algorithms = {2}
  allow_clock_interrupt = TRUE
  RUNCOUNT = 1
  SyncMethods = {1}
  CELLS = 2
  BLANK = 0
  PRIORITY <- ShippedPRIORITY
  SHARE <- ShippedSHARE
CHECK_DEADLOCK FALSE
PROPERTIES
  EveryAppFinishes
