SPECIFICATION Spec
CONSTANTS
  s1 = s1
  s2 = s2
  w1 = w1
  Sleeps = {s1, s2}
  Wakers = {w1}
  ParkTimeout = 2
  MaxTime = 2
  MaxRid = 3
  MaxRuns = 2
INVARIANT HasWakeSource
