CONSTANTS
  KeySize = 2
  Packets <- MCPackets
  Requests <- MCRequests
  NoRequest = NoRequest
  MaxSent = 3
SPECIFICATION Spec
INVARIANTS
  TypeOK
  Framed
PROPERTIES
  ReadToTheEnd
CHECK_DEADLOCK FALSE
