SPECIFICATION Spec
CONSTANTS
  a = a
  b = b
  e = e
  Configs = {a, b, e}
  Empty = {e}
  Desired <- Deployments
  MaxBuild = 2
  MaxFaults = 4
  None = None
INVARIANTS CrashSafe NothingHalfApplied
PROPERTIES AppliedNeverRegresses Converges
