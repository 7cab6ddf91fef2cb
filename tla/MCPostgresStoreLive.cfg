SPECIFICATION FairSpec
CONSTANTS
  Calls = {c1, c2}
  Keys = {k1}
  NoKey = NoKey
  Bodies = {b1, b2}
  NoBody = NoBody
  RequireWorkspace = TRUE
PROPERTY EveryCallReturns
CHECK_DEADLOCK FALSE
