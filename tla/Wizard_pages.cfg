SPECIFICATION FairSpec
CONSTANTS
  t1 = t1
  t2 = t2
  a1 = a1
  a2 = a2
  i1 = i1
  i2 = i2
  Installs <- TwoInstalls
  Scanners <- TwoScanners
  Adds <- TwoAdds
  MaxBacks = 1
  MaxTimers = 3
  MaxModels = 3
INVARIANTS PagesInv FirstScanRequired ErrorsAreTrue
PROPERTIES AlwaysAWayForward
CHECK_DEADLOCK FALSE
