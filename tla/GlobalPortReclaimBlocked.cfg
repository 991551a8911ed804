SPECIFICATION Spec
CONSTANTS
  Hosts = {h1}
  Networks = {tcp, udp}
  Scanners = {s1}
  Answers = {"FREE", "OFFLINE"}
  LedgerBlocksProbe = TRUE
  MaxVersion = 9
  MaxChurn = 1
  None = None
INVARIANTS OccupiedMeansListening
CHECK_DEADLOCK FALSE
