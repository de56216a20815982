CONSTANTS
  KeySize = 2
  Packets <- MCPackets
  Requests <- MCRequests
  NoRequest = NoRequest
  MaxSent = 2
SPECIFICATION Spec
INVARIANTS
  RequestsUnderstood
CHECK_DEADLOCK FALSE
