SPECIFICATION Spec
CONSTANTS
  Objects = {o1, o2}
  Threads = {t1}
  Finalizer = finalizer
  None = None
  Files = {f1}
  MaxAddr = 10
  MaxDecodes = 1
  FirstFit = TRUE
INVARIANT TypeOK
INVARIANT MemorySafe
INVARIANT NothingOrphaned
CHECK_DEADLOCK FALSE
