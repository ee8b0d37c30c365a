\* Two stages, the second after the first; any Node may fail.
SPECIFICATION FairSpec
CONSTANTS
  s1 = s1
  s2 = s2
  k1 = k1
  k2 = k2
  e1 = e1
  Stages <- TwoStages
  Kids <- Nobody
  Expansions <- Nobody
  OwnerOf <- Empty
  GroupOf <- Empty
  Deps <- StageChain
  Checked <- TwoStages
  MaxRounds = 2
  Faulty <- Everybody
  Uncertain <- Nobody
  Capped <- Nobody
  Interrupts = FALSE
CHECK_DEADLOCK FALSE
INVARIANTS
  StartedAfterDependencies
PROPERTIES
  RecordedReviewCloses
  RunSettles
