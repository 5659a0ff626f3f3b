SPECIFICATION MCSpec
CONSTANTS
  COLUMNS = 3
  ROWS = 2
  Literals <- MCLiterals
  Directives <- MCDirectives
  Colors = {1, 2}
  MaxTape = 13
CHECK_DEADLOCK FALSE
INVARIANTS
  ShowsTape
  FieldsFilled
