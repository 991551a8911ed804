SPECIFICATION FairSpec
CONSTANTS
  Specs = {s1, s2}
  NoSpec = NoSpec
  MaxRestarts = 2
  MaxLaunches = 5
  MaxCalls = 2
  MaxFaults = 1
  MaxDeaths = 2
  MaxCrashes = 1
INVARIANTS NoProcessForgotten OneWatchdog
PROPERTIES WatchdogObeysStop CallsReturn ExitMadeGood
CHECK_DEADLOCK FALSE
