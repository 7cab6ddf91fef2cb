SPECIFICATION Spec
CONSTANTS
  t1 = t1
  t2 = t2
  Submissions = {s1, s2}
  Reads = {g1}
  Processes = {p1, p2}
  Workspaces = {w1, w2}
  Changes = {c1}
  Texts = {t1, t2}
  Policies <- TwoPolicies
  Down = Down
  NoWorkspace = NoWorkspace
  NoKey = NoKey
  NoBody = NoBody
SYMMETRY Symmetry
INVARIANTS
  RefusedLeavesNothing
  AcceptedIsHeld
  RetryIsSafe
  IndicatorsAreCurrent
CHECK_DEADLOCK FALSE
