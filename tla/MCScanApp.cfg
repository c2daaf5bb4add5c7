CONSTANTS
  s1 = s1
  s2 = s2
  d1 = d1
  d2 = d2
  User = User
  Exit = Exit
  None = None
  Scans <- MCScans
  Drives <- MCDrives
  OldSessions <- MCOldSessions
  Hasty = FALSE
  MaxTicks = 1
SPECIFICATION Spec
SYMMETRY MCSymmetry
CHECK_DEADLOCK FALSE
INVARIANTS
  CompletedIsTrue
  ShutdownSavesRunning
PROPERTY StopMeansStopped
