SPECIFICATION FairSpec
CONSTANTS
  t1 = t1
  t2 = t2
  a = a
  Threads <- TwoThreads
  Ids <- OneId
  Requests <- ListAndRead
  MaxFiles = 2
  Fails = FALSE
  MaxSignals = 0
PROPERTIES
  AllAnswered
CHECK_DEADLOCK FALSE
