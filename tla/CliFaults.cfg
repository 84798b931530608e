SPECIFICATION Spec
CONSTANTS
  i1 = i1
  i2 = i2
  cat = cat
  dog = dog
  bad = bad
  Ids <- TwoIds
  Contents <- TwoContents
  BadContents <- OneBad
  MaxFiles = 2
  UINT32_MAX = 3
  Requested <- ThumbAndOrig
  Calls <- AllCalls
  LongLived = FALSE
  Faults = TRUE
  MaxBlobs = 3
SYMMETRY Interchangeable
INVARIANTS
  TypeOK
  CountCoversValid
  ScanInBounds
  FirstNamedIsValid
  SharedOriginals
  ExtentsSound
  ServedIsStored
  ListShowsAll
  LibraryInv
PROPERTIES
  ExtentsStable
  VersionCounts
  ImplementsCatalog
