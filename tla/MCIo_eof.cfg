SPECIFICATION Spec
CONSTANTS
  Tasks = {t1, t2}
  MaxRx = 2
  MaxTx = 2
  TryDirs = {"read"}
INVARIANT NoMissedEnd
