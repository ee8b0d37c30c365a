\* A Run that is paused, resumed, cancelled or out of time, and a revision.
SPECIFICATION Spec
CONSTANTS
  c1 = c1
  c2 = c2
  wake = wake
  Scheduler = scheduler
  None = none
  Start = start
  Controllers <- OneController
  Wakes <- NoWakes
  MaxEpoch = 1
  MaxIntents = 2
  HasDeadline = TRUE
  Endings <- Normal
  Crashes = FALSE
PROPERTIES
  PauseConverges
  EndingDrains
