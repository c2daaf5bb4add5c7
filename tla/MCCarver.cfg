SPECIFICATION FairSpec
CONSTANTS
  w1 = w1  w2 = w2
  Workers = {w1, w2}
  Headers <- MCHeaders
  FileSize <- MCFileSize
  End = 7
  Chunk = 4
  Overlap = 2
  ChunkCap = 1
  MatchCap = 2
  SoftCap = 2
  KeepLag = 1
  MaxFile = 5
  MaxScans = 2
  MaxFaults = 1
INVARIANTS OffsetOnce NoneMissed OnlyQueuedLost
PROPERTIES ScanReturns
CHECK_DEADLOCK FALSE
