SPECIFICATION Spec
CONSTANTS
  None = None
  a = a
  b = b
  Runs <- Both
  MaxEvents = 2
  MaxInputs = 3
  MaxFaults = 1
INVARIANTS TypeOK ShowsChosenRun
PROPERTIES CatchesUp Reconnects
CHECK_DEADLOCK FALSE
