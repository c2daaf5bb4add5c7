CONSTANTS
  NbClusters = 3
  MaxInode = 6
  FirstInode = 5
  MaxDepth = 2
  MaxDirClusters = 2
  ZeroLimit = 1
  DirVolumes <- MCDisks
  Volumes <- MCVolumes
  PathDepth = 3
  MaxMap = 5
  StackRoom = 4
  RootId = 10
  FieldBits = 3
  Reducer = 3
  ShortWithin = 5
  Arrays <- MCArrays
  Reads <- MCReads
  Files <- MCFiles
  DigitBase = 4
  Heap = {2, 3, 4, 5, 6, 7, 8, 9}
  MaxExtent = 2
  NDirect = 2
  PerBlock = 2
  MaxShort = 1
  Candidates <- MCCandidates
  CellBase = 16
  Block = 4
  MinFrames = 3
  MaxTracks = 3
  MftVolumes <- MCMftVolumes
  Root <- MftRoot
  FirstUser = 4
  MaxRefs = 2
  MaxList = 4
  MaxPath = 3
  Interval = 5
  MaxJournal = 5
  None <- NoName
  SystemNames = {"$gone", "$UsnJrnl"}
  JournalName = "$UsnJrnl"
  JournalStream = "$J"
  ExtendNames = {"my$Extend"}
  EncVolumes <- MCEncVolumes
  CacheSectors = 2
  HeaderRoom = 16
  MemoryChunk = 2
  SystemHeader = 3
  SectorSizes = {2, 4}
  HashNames <- MCHashes
  CipherNames <- MCCiphers
  Workers = 2
  ReadRequests <- EncRequests
  MaxReads = 3
  Sources <- MCSources
  Buffer = 2
  CbcChunk = 2
  NfsPort = 2049
  SmbPort = 445
  PortmapPort = 111
  DefaultDepth = 3
  DefaultFiles = 9
SPECIFICATION FairSpec
CHECK_DEADLOCK FALSE
INVARIANTS BytesAreTrue
PROPERTIES WalksDeliver SizesAreTrue
