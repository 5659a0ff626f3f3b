SPECIFICATION Spec
CONSTANTS
  NPROCS = 3
  MAX_TICKETS = 200
  Algorithms = {0, 1, 2, 3, 4}
  allow_clock_interrupt = TRUE
  RUNCOUNT = 2
  SyncMethods = {1, 2}
  CELLS = 4
  BLANK = 0
  PRIORITY <- ShippedPRIORITY
  SHARE <- ShippedSHARE
CHECK_DEADLOCK FALSE
INVARIANTS
  EveryoneInTheDraw
PROPERTIES
  VirtualProcessors
  FinishesUnlessInverted
