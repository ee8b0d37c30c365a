\* A Task that stalls, two rounds and a revision; any turn may fail, the host may crash.
SPECIFICATION Spec
CONSTANTS
  Undeclared = undeclared
  MaxRounds = 2
  Limit = 1
  MaxContinuations = 0
  MaxAsks = 0
  MaxRevisions = 1
  Busy = FALSE
  Capped <- Both
  Endings <- AnyEnding
  LosesAnswers = FALSE
  Crashes = TRUE
INVARIANTS
  TypeOK
  StallIsCounted
  NoRoundPastStall
  RepliesReachTheirAsker
