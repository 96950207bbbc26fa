SPECIFICATION Spec
CONSTANTS
  MaxTasks = 1
  EventInterval = 2
  Helpers = {h1, h2}
  MaxCopies = 2
  MaxRuns = 2
INVARIANTS NotifiedQueued YieldSkipsTimeout NoSleepOnWokenTask
