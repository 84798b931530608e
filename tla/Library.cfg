SPECIFICATION Spec
CONSTANTS
  i1 = i1
  i2 = i2
  cat = cat
  dog = dog
  bad = bad
  Ids <- TwoIds
  Contents <- TwoContents
  BadContents <- OneBad
  MaxFiles = 2
  UINT32_MAX = 3
  Requested <- ThumbOrigAndWrong
  Calls <- AllCalls
  LongLived = TRUE
  Faults = FALSE
  MaxBlobs = 3
SYMMETRY Interchangeable
INVARIANTS
  OpenInv
  ExtentsSound
PROPERTIES
  ExtentsStable
  VersionCounts
