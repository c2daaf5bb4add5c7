SPECIFICATION TaskFairSpec
CONSTANTS
  t1 = t1  t2 = t2  dump = dump  multi = multi  pull = pull  nas = nas  t3 = t3
  c1 = c1  c2 = c2
  Task = {t1, t2}
  Kind = {dump, multi, pull, nas}
  Policy <- MCPolicy
  Parallel = multi
  Disks = 2
  MaxParallel = 1
  Caller = {c1, c2}
  MaxCancels = 2
  None = None
INVARIANTS LoneTaskIsCancelled CancelledWasMeant
PROPERTIES ScanningJobsStop
CHECK_DEADLOCK FALSE
