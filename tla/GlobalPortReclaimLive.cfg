SPECIFICATION Spec
CONSTANTS
  Hosts = {h1}
  Networks = {tcp}
  Scanners = {s1, s2}
  Answers = {"FREE", "OCCUPIED"}
  LedgerBlocksProbe = TRUE
  MaxVersion = 8
  MaxChurn = 2
  None = None
PROPERTIES PendingPortJudged
CHECK_DEADLOCK FALSE
