SPECIFICATION Spec
CONSTANTS
  i1 = i1
  i2 = i2
  cat = cat
  dog = dog
  bad = bad
  Ids <- TwoIds
  Contents <- TwoContents
  BadContents <- OneBad
  MaxFiles = 2
  UINT32_MAX = 3
  Requested <- ThumbAndOrig
  Calls <- AllCalls
  LongLived = TRUE
  Faults = FALSE
  MaxBlobs = 3
INVARIANT ServedIsStored
