SPECIFICATION Spec
CONSTANTS
  k1 = k1
  k2 = k2
  r1 = r1
  r2 = r2
  Keys = {k1, k2}
  Rules = {r1, r2}
  RuleOf <- MCRuleOf
  Datagrams <- MCDatagrams
  MaxSessions = 2
  MaxReads = 4
  MaxTicks = 1
  MaxFailures = 1
  HardSessions = 2
  SoftSessions = 2
  QueueSize = 2
  QueueBytes = 3
  MaxPending = 1
  ReplayBits = 2
  RuleLimit = 3
  ProcessLimit = 3
  None = None
INVARIANTS BudgetExact HandedOnce OpenIsListed WorkerAwake NothingBehindClose
CHECK_DEADLOCK FALSE
