SPECIFICATION MCFairSpec
CONSTANTS
  Servers = {s1, s2, s3}
  Nobody = nobody
  MaxCrashes = 2
  MaxFaults = 2
  MaxOrders = 2
INVARIANTS TypeOK StopsOnlyWhenAsked OneServer EndsClean
PROPERTIES Settles
CHECK_DEADLOCK FALSE
