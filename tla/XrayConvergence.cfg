SPECIFICATION Spec
CONSTANTS
  Inbounds = {i1}
  MaxGeneration = 2
  MaxOperations = 2
  MaxFaults = 1
  MaxBeats = 2
  BatchSize = 1
  QueueSize = 1
INVARIANTS RowBehindListener SuccessIsTrue HashIsCurrent
PROPERTIES ResultsKept
