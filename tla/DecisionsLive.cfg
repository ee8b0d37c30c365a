\* One question and one revision, which the parent may propose before it is asked.
SPECIFICATION FairSpec
CONSTANTS
  Undeclared = undeclared
  MaxRounds = 1
  Limit = undeclared
  MaxContinuations = 1
  MaxAsks = 1
  MaxRevisions = 1
  Busy = TRUE
  Capped <- Nobody
  Endings <- Normal
  LosesAnswers = FALSE
  Crashes = FALSE
INVARIANTS
  AnswerableWait
PROPERTIES
  KeepsPromise
  WaitEnds
  RevisionsLand
