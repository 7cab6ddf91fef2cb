SPECIFICATION Spec
CONSTANTS
  Principals = {p1, p2}
  Quota = 2
  Window = 3
  Second = 2
  Horizon = 7
SYMMETRY Symmetry
INVARIANTS
  TwiceTheQuota
  RetryAfterIsHonest
