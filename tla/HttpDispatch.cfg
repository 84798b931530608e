SPECIFICATION FairSpec
CONSTANTS
  Streams <- AllStreams
  MAX_HEADER_SIZE = 6
  ContentLength = 1
INVARIANTS
  RequestDispatched
CHECK_DEADLOCK FALSE
