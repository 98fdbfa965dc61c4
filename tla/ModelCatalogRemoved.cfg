SPECIFICATION Spec
CONSTANTS
  Threads = {t1, t2}
  Models = {m1, m2}
  Routes = {auto}
  None = None
  MaxTrouble = 2
INVARIANT RemovedNotSelected
CHECK_DEADLOCK FALSE
