CONSTANTS
  v1 = v1
  v2 = v2
  v3 = v3
  w1 = w1
  w2 = w2
  Kinds <- MCKinds
  Containers <- MCContainers
  Workers <- MCWorkers
  Fast <- MCFast
  NbFiles = 2
  None = None
SPECIFICATION FairSpec
INVARIANTS
  SourceBeforeReport
  OkStageComplete
PROPERTIES
  StageEnds
