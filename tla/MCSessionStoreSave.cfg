CONSTANTS
  c1 = c1
  c2 = c2
  f1 = f1
  f2 = f2
  f3 = f3
  m1 = m1
  m2 = m2
  Clients <- MCClients
  Files <- MCFiles
  Metas <- MCMetas
  MaxFaults = 0
  Torn = Torn
  None = None
SPECIFICATION Spec
SYMMETRY MCSymmetry
INVARIANT NoAckedFileLost
