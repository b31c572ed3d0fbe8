SPECIFICATION Spec
CONSTANTS
  Partitions = {1}
  NoPartition = 0
  Frames <- MCFrames
  Lead = 1
  TxCapacity = 2
  RawCapacity = 2
  MaxFrames = 4
  MaxSessions = 2
CHECK_DEADLOCK FALSE
INVARIANTS InterlockHolds SessionsAreKeptApart
