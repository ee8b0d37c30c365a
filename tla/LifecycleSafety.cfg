\* One stage and one kid, two rounds of review; any Node may fail, a review Node
\* may be held, and anything may interrupt the pass.
SPECIFICATION Spec
CONSTANTS
  s1 = s1
  s2 = s2
  k1 = k1
  k2 = k2
  e1 = e1
  Stages <- OneStage
  Kids <- OneKid
  Expansions <- OneExpansion
  OwnerOf <- OwnerIsStage
  GroupOf <- OneInGroup
  Deps <- NoDeps
  Checked <- OneStage
  MaxRounds = 2
  Faulty <- Everybody
  Uncertain <- Reviews
  Capped <- Nobody
  Interrupts = TRUE
CHECK_DEADLOCK FALSE
INVARIANTS
  TypeOK
  AcceptedOnly
  ReworkFollowsFeedback
  AcceptedWithChildren
  OpenReviewIsCurrent
PROPERTIES
  ImplementsPromise
