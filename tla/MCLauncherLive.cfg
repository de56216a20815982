CONSTANTS
  Jobs = {j1, j2}
  Workers = {w1, w2}
  OnDemand = {w1, w2}
  Mortal = {}
  Salts = {s1, s2}
  ThreadCounts = {2}
  NoJob = NoJob
  NoSalt = NoSalt
SPECIFICATION Spec
PROPERTIES
  EveryJobAnswered
CHECK_DEADLOCK FALSE
