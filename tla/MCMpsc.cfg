SPECIFICATION Spec
CONSTANTS
  Futures = {f1, f2}
  Wakers = {w1, w2}
  Capacities = {1, 2}
  U64Max = 9
  MaxBuffered = 2
  MaxSenders = 2
  MaxHints = 2
SYMMETRY ChannelSymmetry
INVARIANTS TypeOK BooksAgree SendersReachable NoStuckReceiver
CHECK_DEADLOCK FALSE
