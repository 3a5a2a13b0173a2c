SPECIFICATION Spec
CONSTANTS
  Cpus = {p, q}
  Blank = Blank
  Texts <- AnyTexts
  Columns = 2
  Rows = 2
  MaxCalls = 5
INVARIANTS
  NoSelfDeadlock
CHECK_DEADLOCK FALSE
