SPECIFICATION Spec
CONSTANTS
  Futures = {a1, a2, a3}
  Wakers = {w1}
  Permits = 1
  MaxPermits = 2
SYMMETRY FutureSymmetry
INVARIANTS TypeOK SemaphoreSound NoLostGrant
PROPERTY ImplementsLine
