CONSTANTS
  p1 = p1
  p2 = p2
  p3 = p3
  Proc <- MCProc
  Installed = 2
  Latest = 3
  Older = 1
  Tries = 2
  MaxActs = 2
  MaxTroubles = 1
  Nil = Nil
SPECIFICATION UpdateFairSpec
CHECK_DEADLOCK FALSE
INVARIANTS
  ExeIsComplete
  KeptOrNewer
PROPERTIES
  StartOpens
