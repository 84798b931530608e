SPECIFICATION FairSpec
CONSTANTS
  Streams <- AllStreams
  MAX_HEADER_SIZE = 6
  ContentLength = 1
INVARIANTS
  TypeOK
  HeaderContiguous
PROPERTIES
  HeaderSeen
  GoneEnds
CHECK_DEADLOCK FALSE
