SPECIFICATION FairSpec
CONSTANTS
  Futures = {n1, n2}
  Wakers = {w1}
  MaxSent = 3
INVARIANTS TypeOK NotificationsSound NotificationsArrive
PROPERTIES ImplementsLine NotifiedCompletes
