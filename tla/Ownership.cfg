SPECIFICATION FairSpec
CONSTANTS
  None = None
  s1 = s1
  s2 = s2
  t1 = t1
  Starts <- Two
  Manual <- Second
  Stops <- OneStop
  Configs <- SomeDiffer
  Timeouts = TRUE
  Mortal <- Everybody
INVARIANTS TypeOK RecordNamesService
PROPERTIES OneOwner StopSeesOneService CommandsAnswer ShutdownEnds
CHECK_DEADLOCK FALSE
