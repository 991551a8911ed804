SPECIFICATION Spec
CONSTANTS
  Hosts = {h1, h2, h3}
  Edited = {h1}
  MaxConcurrent = 1
  MaxChanges = 1
  MaxFaults = 1
INVARIANTS SlotsExact
PROPERTIES Served Delivered
