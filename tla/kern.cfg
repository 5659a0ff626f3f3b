SPECIFICATION FairSpec
CONSTANTS
  NPROCS = 4
  MAX_TICKETS = 4
  Algorithms = {0, 1, 2, 3, 4}
  allow_clock_interrupt = TRUE
  Regs = {"r"}
  EntryRegs <- MCEntryRegs
  CELLS = 1
  BLANK = "blank"
  Priorities = {1, 2, 3}
  Shares = {0, 1, 2, 3}
  Statuses = {0, 1}
  Chars = {"c"}
CHECK_DEADLOCK FALSE
CONSTRAINT OnlyWhatMatters
INVARIANTS
  TypeOK
  RunsRunnable
  SpinsOnlyWhenStuck
  RunsToCompletion
  RoundRobinBypass
  PriorityBypass
  ShareBypass
PROPERTIES
  ExitIsFinal
  ShareHonoured
