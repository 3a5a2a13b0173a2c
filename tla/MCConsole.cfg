SPECIFICATION AllSpec
CONSTANTS
  Keys <- MCKeys
  MAX_KEYBOARD_EVENTS = 3
  Typists <- MCTypists
  Cpus = {p, q}
  Blank = Blank
  Columns = 2
  Rows = 2
  MaxCalls = 3
  NULL = NULL
INVARIANTS
  KeyTableIsExact
  ScreenShowsPaper
  FormatIsRight
PROPERTIES
  ImplementsKeyEvents
  ConsoleIsServed
CHECK_DEADLOCK FALSE
