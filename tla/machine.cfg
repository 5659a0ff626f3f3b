SPECIFICATION MachSpec
CONSTANTS
  NPROCS = 3
  MAX_TICKETS = 2
  Algorithms = {0, 1, 2, 3, 4}
  allow_clock_interrupt = TRUE
  Regs <- MCRegs
  EntryRegs <- MCEntryRegs
  CELLS = 1
  BLANK = 0
  Priorities = {1, 2}
  Shares = {0, 1, 2}
  Statuses = {0, 7}
  Chars = {0, 7}
  Garbage <- MCGarbage
  Irqs <- MCIrqs
  Instructions <- MCInstructions
CHECK_DEADLOCK FALSE
INVARIANTS
  MachTypeOK
  RegistersSurvive
  DispatchRight
PROPERTIES
  KernelUninterrupted
  ImplementsKern
  EveryoneRuns
