SPECIFICATION FairSpec
CONSTANTS
  zones = zones
  automation = automation
  Topics <- MCTopics
  Cleared <- MCZones
  Periodic <- MCZones
  Values <- MCValues
  Initial = "a"
  QueueMax = 5
  MaxLosses = 2
  MaxChanges = 1
INVARIANTS CacheIsTrue PartialIsRepaired
PROPERTIES StallEnds Recovers
