SPECIFICATION Spec
CONSTANTS
  Hosts = {h1, h2}
  Networks = {tcp}
  Scanners = {s1, s2}
  Answers = {"FREE", "OCCUPIED", "OFFLINE"}
  LedgerBlocksProbe = FALSE
  MaxVersion = 9
  MaxChurn = 2
  None = None
SYMMETRY Symmetry
INVARIANTS OneApplicableVerdict
PROPERTIES FreeVerdictJustified FreedOnCurrentAnswers
CHECK_DEADLOCK FALSE
