SPECIFICATION FairSpec
CONSTANTS
  t1 = t1
  t2 = t2
  a = a
  Threads <- TwoThreads
  Ids <- OneId
  Requests <- NoList
  MaxFiles = 2
  Fails = FALSE
  MaxSignals = 1
PROPERTIES
  CloseAlone
CHECK_DEADLOCK FALSE
