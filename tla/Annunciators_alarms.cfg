SPECIFICATION Spec
CONSTANTS
  Partitions = {1, 2}
  NoPartition = 0
  Zones = {1, 2}
  Blocks = {{1}}
  Events <- MCEvents
  Displays <- MCDisplays
INVARIANTS LampsShowEvidence SilenceIsOfAFire TroubleIsCurrent AlarmsAreShown
