SPECIFICATION Spec
CONSTANTS
  Objects = {o1}
  Threads = {t1}
  Finalizer = finalizer
  None = None
  Files = {f1}
  MaxAddr = 10
  MaxDecodes = 2
  FirstFit = TRUE
INVARIANT NothingOrphaned
CHECK_DEADLOCK FALSE
