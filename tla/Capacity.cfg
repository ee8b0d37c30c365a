SPECIFICATION Spec
CONSTANTS
  None = None
  t = t
  m = m
  a = a
  b = b
  Top <- t
  Mid <- m
  Leaves <- Pair
  Settings <- Mixed
INVARIANTS TypeOK ExcessIsExplained
PROPERTIES EverybodyServed
CHECK_DEADLOCK FALSE
