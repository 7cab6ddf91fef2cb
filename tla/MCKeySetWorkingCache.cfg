SPECIFICATION Spec
CONSTANTS
  Requests = {r1}
  Kids = {k1}
  Forged = Forged
  MaxAges = {9}
  MinTTL = 2
  MaxTTL = 3
  FetchInterval = 2
  FetchTimeout = 1
  Horizon = 5
PROPERTY WorkingCacheSurvives
