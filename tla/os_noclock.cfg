SPECIFICATION LotterySpec
CONSTANTS
  NPROCS = 5
  MAX_TICKETS = 200
  Algorithms = {0, 1, 2, 3, 4}
  allow_clock_interrupt = FALSE
  RUNCOUNT = 320
  SyncMethods = {1}
  CELLS = 1280
  BLANK = 0
  PRIORITY <- ShippedPRIORITY
  SHARE <- ShippedSHARE
CHECK_DEADLOCK FALSE
INVARIANTS
  PrintInTurn
  PrintInOrder
  UrgentFirst
  PrintInProportion
PROPERTIES
  EveryAppFinishes
