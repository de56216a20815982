CONSTANTS
  Posts = {a, b}
  Faults = FALSE
SPECIFICATION Spec
PROPERTIES
  EveryPostServed
CHECK_DEADLOCK FALSE
