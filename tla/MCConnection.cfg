CONSTANTS
  MaxPackets = 3
  MaxDrained = 2
  MaxReplies = 3
  Units = 2
  ThreadCounts = {1, 2}
SPECIFICATION Spec
INVARIANTS
  TypeOK
  OneReader
  Overtaking
  WholeReplies
  NothingLost
PROPERTIES
  EveryPacketAnswered
  ReadIsStored
CHECK_DEADLOCK FALSE
