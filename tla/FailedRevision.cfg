\* The Node of an applied revision fails before its execution is replaced.
SPECIFICATION Spec
CONSTANTS
  c1 = c1
  c2 = c2
  wake = wake
  Scheduler = scheduler
  None = none
  Start = start
  Controllers <- OneController
  Wakes <- NoWakes
  MaxEpoch = 1
  MaxIntents = 0
  HasDeadline = FALSE
  Endings <- Failing
  Crashes = FALSE
PROPERTY
  FailureEndsRun
