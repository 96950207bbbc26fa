SPECIFICATION Spec
CONSTANTS
  Futures = {f1, f2}
  Wakers = {w1, w2}
  MaxVersion = 3
  Capacity = 2
  MaxSenders = 2
  Channels = {1, 2}
  RxWakers = {w1, w2}
  Jobs = {j1, j2}
  Joiners = {w1, w2}
  NumThreads = 3
  PoolSize = 2
  Spawners = {s1, s2}
  TimerIds = {1, 2, 3}
  WheelSize = 3
  NumLevels = 3
  WheelTimes = {1, 2, 3, 4, 5, 8, 9, 10, 26, 27, 36}
INVARIANTS TypeOK UpdatesArrive ReadyIsBuffered OneshotAnswered JoinAnswered PoolServed
PROPERTIES ShutdownEnds ImplementsTimerMap
CHECK_DEADLOCK FALSE
