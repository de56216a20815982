CONSTANTS
  Jobs = {j1}
  Workers = {w1, w2}
  OnDemand = {w2}
  Mortal = {w1}
  Salts = {s1}
  ThreadCounts = {2}
  NoJob = NoJob
  NoSalt = NoSalt
SPECIFICATION Spec
PROPERTIES
  Repushed
CHECK_DEADLOCK FALSE
