SPECIFICATION FairSpec
CONSTANTS
  Inbounds = {i1}
  MaxGeneration = 2
  MaxOperations = 2
  MaxFaults = 1
  MaxBeats = 1
  BatchSize = 1
  QueueSize = 1
PROPERTIES OperationEnds Converges
