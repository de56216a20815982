CONSTANTS
  Jobs = {j1, j2}
  Workers = {w1, w2}
  OnDemand = {w1, w2}
  Mortal = {w1}
  Salts = {s1, s2}
  ThreadCounts = {1, 2}
  NoJob = NoJob
  NoSalt = NoSalt
SPECIFICATION Spec
SYMMETRY Symmetry
INVARIANTS
  TypeOK
  OnePlace
  NoStrandedJob
  CrashWindow
  FewInvokers
  OwnAnswer
  OnItsWay
PROPERTIES
  ImplementsService
  ForwardOnly
CHECK_DEADLOCK FALSE
