CONSTANTS
  Puts = {p1, p2, p3}
  Gets = {g1, g2}
  ThreadCounts = {1, 2}
SPECIFICATION Spec
INVARIANTS
  TypeOK
  NoMessageLost
  InOrder
  NoStandoff
  LateOnly
  SingleThreadAnswers
PROPERTIES
  HandlersFinish
  ImplementsTopic
CHECK_DEADLOCK FALSE
