\* Two Controllers that reconcile the same Worker, and an acceptance revision.
SPECIFICATION Spec
CONSTANTS
  c1 = c1
  c2 = c2
  wake = wake
  Scheduler = scheduler
  None = none
  Start = start
  Controllers <- TwoControllers
  Wakes <- NoWakes
  MaxEpoch = 1
  MaxIntents = 0
  HasDeadline = FALSE
  Endings <- Normal
  Crashes = FALSE
SYMMETRY Peers
INVARIANTS
  OneExecution
PROPERTIES
  SupersededNeverStarts
  StopIsFinal
