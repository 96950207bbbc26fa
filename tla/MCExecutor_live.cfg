SPECIFICATION FairSpec
CONSTANTS
  MaxTasks = 2
  EventInterval = 1
  Helpers = {h1}
  MaxCopies = 1
  MaxRuns = 1
INVARIANTS TypeOK OnePlace NoLostWake
PROPERTIES ImplementsScheduler MainIsPolled
