SPECIFICATION FairSpec
CONSTANTS
  s1 = s1
  s2 = s2
  w1 = w1
  w2 = w2
  Sleeps = {s1, s2}
  Wakers = {w1, w2}
  ParkTimeout = 2
  MaxTime = 2
  MaxRid = 4
  MaxRuns = 2
INVARIANTS TypeOK WakeSourceKept WheelSound NeverEarly NoOversleep
PROPERTY SleepCompletes
