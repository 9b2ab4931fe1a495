CONSTANTS
  w1 = w1
  w2 = w2
  w3 = w3
  lsm = lsm
  ntdll = ntdll
  Workers <- MCWorkers
  NoWorker = NoWorker
  Name = {lsm, ntdll}
  Sessions <- MCSessions
  Batch = 2
SPECIFICATION FairSpec
INVARIANTS
  TypeOK
  NothingLost
  FilesExact
PROPERTIES
  ReportsGrow
  Terminates
