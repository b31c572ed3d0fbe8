SPECIFICATION FairSpec
CONSTANTS
  QueueMax = 2
  MaxJobs = 4
  MaxStarts = 3
CHECK_DEADLOCK FALSE
INVARIANTS NothingLost ResentOnlyIfInterrupted SpoolIsBounded
PROPERTIES InOrder EveryReceiptEnds
