\* One Controller that may crash at any step, and an acceptance revision.
SPECIFICATION Spec
CONSTANTS
  c1 = c1
  c2 = c2
  wake = wake
  Scheduler = scheduler
  None = none
  Start = start
  Controllers <- OneController
  Wakes <- NoWakes
  MaxEpoch = 1
  MaxIntents = 0
  HasDeadline = FALSE
  Endings <- AnyEnding
  Crashes = TRUE
INVARIANTS
  TypeOK
  StartedOnce
PROPERTIES
  RebindCompletes
