SPECIFICATION Spec
CONSTANTS
  Futures = {a1}
  Wakers = {w1, w2}
  Permits = 0
  MaxPermits = 1
INVARIANT NoLostGrant
