SPECIFICATION FairSpec
CONSTANTS
  Inbounds = {i1}
  MaxGeneration = 1
  MaxOperations = 1
  MaxFaults = 0
  MaxBeats = 1
  BatchSize = 1
  QueueSize = 1
PROPERTIES UpgradeEnds
