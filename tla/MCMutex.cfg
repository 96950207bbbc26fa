SPECIFICATION FairMutexSpec
CONSTANTS
  Futures = {a1, a2, a3}
  Wakers = {w1}
  Permits = 1
  MaxPermits = 1
INVARIANT MutualExclusion
PROPERTY LockObtained
