CONSTANTS
  Posts = {a, b}
  Faults = TRUE
SPECIFICATION Spec
INVARIANTS
  TypeOK
  SharedBudget
  AtMostFour
PROPERTIES
  SilentAfterExpiry
  EveryPostEnds
CHECK_DEADLOCK FALSE
