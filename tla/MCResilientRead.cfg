SPECIFICATION FairSpec
CONSTANTS
  c1 = c1
  c2 = c2
  Callers <- MCCallers
  Size = 10
  SectorSize = 2
  Damaged <- MCDamaged
  Requests <- MCRequests
  Threshold = 2
  MaxRetry = 2
  MaxChunk = 4
  Marked = TRUE
  MaxCalls = 2
  MaxTimeouts = 1
INVARIANTS
  ReturnedIsTrue
  PoisonedIsReported
PROPERTIES
  ReadReturns
CHECK_DEADLOCK FALSE
