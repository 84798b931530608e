SPECIFICATION CmdSpec
CONSTANTS
  i1 = i1
  i2 = i2
  i3 = i3
  cat = cat
  dog = dog
  bad = bad
  Ids <- ThreeIds
  Contents <- TwoContents
  BadContents <- OneBad
  MaxFiles = 2
  UINT32_MAX = 3
  Requested <- Res
  Calls <- AllCalls
  LongLived = FALSE
  Faults = FALSE
  MaxBlobs = 3
  Lines <- AllLines
  FirstLines <- EarlyLines
  Numeral <- Texts
  Images <- ThreeImages
  LongNames <- OneLong
  UINT16_MAX = 4
  UINTMAX = 9
  default_max_files = 2
  default_thumb_res = 1
  default_small_res = 2
  MAX_THUMB_RES = 2
  MAX_SMALL_RES = 3
SYMMETRY Interchangeable
INVARIANTS
  CmdTypeOK
  CreatesAsAsked
  CommandDone
  ExtractsStored
  FailureChangesNothing
  CountExact
PROPERTIES
  UsesLibrary
