CONSTANTS
  w1 = w1
  w2 = w2
  f1 = f1
  f2 = f2
  f3 = f3
  f4 = f4
  Scanner = Scanner
  Closer = Closer
  Workers <- MCWorkers
  Files <- MCFiles
  BatchSize = 2
  QueueSize = 1
SPECIFICATION FairSpec
CHECK_DEADLOCK FALSE
INVARIANTS
  InOnePlace
 
PROPERTIES
  ImplementsDelivery
  FoundIsLogged
