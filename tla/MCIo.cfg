SPECIFICATION Spec
CONSTANTS
  Tasks = {t1, t2}
  MaxRx = 3
  MaxTx = 3
  TryDirs = {"read"}
INVARIANTS TypeOK NoMissedReadiness
PROPERTY OperationsResume
