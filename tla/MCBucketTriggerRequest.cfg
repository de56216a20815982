CONSTANTS
  Puts = {p1, p2}
  Gets = {g1}
  ThreadCounts = {2}
SPECIFICATION Spec
INVARIANTS
  MessageIssuesRequest
CHECK_DEADLOCK FALSE
