SPECIFICATION FairSpec
CONSTANTS
  d1 = d1  d2 = d2  j = j  n = n  t = t  x = x  p = p  r = r  a = a  b = b  c = c
  Drive = {d1, d2}
  FileID = {j, n, x, p, r}
  Kind <- MCKind
  Dir <- MCDir
  Name <- MCName
  Content <- MCContent
  Batches <- MCBatches
  Requests <- MCRequests
  Fragmented <- MCFragmented
  NoExtension = {}
  InMemory = {r}
  Doubtful <- MCDoubtful
  Size = 3
  Chunk = 2
  NoDrive = NoDrive
  MaxScans = 2
  MaxRecoveries = 2
  MaxFaults = 1
INVARIANTS RunsAreWhole ClustersAreWhole NothingLeftOver OneCopyOfEach
PROPERTIES RecoveryEnds
CHECK_DEADLOCK FALSE
