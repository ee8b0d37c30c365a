\* Two kids of one group, one of which may fail or be held; an owner that may run out.
SPECIFICATION FairSpec
CONSTANTS
  s1 = s1
  s2 = s2
  k1 = k1
  k2 = k2
  e1 = e1
  Stages <- OneStage
  Kids <- TwoKids
  Expansions <- OneExpansion
  OwnerOf <- OwnerIsStage
  GroupOf <- TwoInGroup
  Deps <- NoDeps
  Checked <- OneStage
  MaxRounds = 1
  Faulty <- FirstKid
  Uncertain <- FirstKid
  Capped <- OneStage
  Interrupts = FALSE
CHECK_DEADLOCK FALSE
PROPERTIES
  Irrevocable
  LostGroupIsCleared
