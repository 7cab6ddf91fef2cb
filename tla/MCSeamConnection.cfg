SPECIFICATION FairSpec
CONSTANTS
  Cap = 2
  MaxBody = 4
  MaxChunk = 2
  Ahead = 1
  HeadersTimeout = 1
  RequestTimeout = 4
  CheckInterval = 2
INVARIANTS
  TransferIsBounded
  StatusBeforeClose
PROPERTIES
  OneAnswerLogged
  EveryRequestEnds
CHECK_DEADLOCK FALSE
