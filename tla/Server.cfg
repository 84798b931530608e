SPECIFICATION FairSpec
CONSTANTS
  t1 = t1
  t2 = t2
  a = a
  Threads <- TwoThreads
  Ids <- OneId
  Requests <- AllRequests
  MaxFiles = 1
  Fails = TRUE
  MaxSignals = 1
INVARIANTS
  TypeOK
  OneInLibrary
  CountCovers
  DeletedOnce
  MutexInv
  StoreInv
PROPERTIES
  ServerEnds
  AnsweredUnlessListed
CHECK_DEADLOCK FALSE
