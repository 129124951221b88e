SPECIFICATION FairSpec
CONSTANTS
  Servers = {s1, s2, s3}
  Nobody = nobody
  MaxCrashes = 1
  MaxFaults = 0
  MaxOrders = 0
PROPERTIES CrashedServersRestart
CHECK_DEADLOCK FALSE
