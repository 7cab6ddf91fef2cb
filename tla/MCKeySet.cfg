SPECIFICATION Spec
CONSTANTS
  Requests = {r1, r2}
  Kids = {k1, k2}
  Forged = Forged
  MaxAges = {0, 9}
  MinTTL = 2
  MaxTTL = 3
  FetchInterval = 2
  FetchTimeout = 1
  Horizon = 6
SYMMETRY Symmetry
INVARIANTS
  TypeOK
  NoBlackoutAfterSuccess
  HeldForOneFetch
PROPERTIES
  RotationNoticed
  RetiredKeyBound
