SPECIFICATION Spec
CONSTANTS
  loop = loop
  mqtt = mqtt
  Threads <- MCThreads
  Capacity = 2
  WriteBatch = 2
  MaxRows = 2
  MaxOld = 1
  MaxAge = 1
  PruneBatch = 2
  PageLimit = 1
  MaxRecords = 3
  MaxClock = 3
CHECK_DEADLOCK FALSE
INVARIANTS FlushIsHonest PagesAreStable
PROPERTIES WriterLeavesNothing WriterEnds

