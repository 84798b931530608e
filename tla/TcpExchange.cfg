SPECIFICATION FairSpec
CONSTANTS
  c1 = c1
  c2 = c2
  Clients <- TwoClients
  Sizes <- FewSizes
  MAX_FILE_SIZE = 8
  TOO_BIG = 16
  BASE = 2
  Garbage <- OneGarbage
INVARIANTS
  TypeOK
  SizeDelimited
  NeverStuck
  ServerSurvives
PROPERTIES
  ClientsServed
CHECK_DEADLOCK FALSE
