SPECIFICATION FetchSpec
CONSTANTS
  Requests = {r1, r2}
  Kids = {k1}
  Forged = Forged
  MaxAges = {0}
  MinTTL = 2
  MaxTTL = 3
  FetchInterval = 2
  FetchTimeout = 1
  Horizon = 3
  Cap = 2
  Chunks = {2}
  Undeclared = Undeclared
PROPERTIES
  ExchangeSettlesOnce
  ImplementsKeySet
  RequestsAreAnswered
