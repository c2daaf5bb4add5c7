CONSTANTS
  s1 = s1
  s2 = s2
  t1 = t1
  Scans <- MCScans
  Stoppers <- MCStoppers
  FsStages = 1
  DiskSize = 1
  ResumeOffsets <- MCResumeOffsets
  None = None
SPECIFICATION FairSpec
INVARIANTS
  SlotConsistent
  WaitedScanIsCancelled
  ResultsOfCurrentReader
  SuccessIsWhole
PROPERTIES
  ImplementsSlot
  StopReturns
  ScanEnds
