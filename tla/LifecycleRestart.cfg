SPECIFICATION MCSpec
CONSTANTS
  Servers = {s1, s2, s3}
  Nobody = nobody
  MaxCrashes = 0
  MaxFaults = 0
  MaxOrders = 2
INVARIANTS RestartTakesSettings
CHECK_DEADLOCK FALSE
