SPECIFICATION Spec
CONSTANTS
  Calls = {c1, c2, c3}
  Keys = {k1}
  NoKey = NoKey
  Bodies = {b1, b2}
  NoBody = NoBody
  RequireWorkspace = FALSE
SYMMETRY Symmetry
INVARIANTS
  TypeOK
  ReplayLookupFindsTheRow
  IdsFollowAnswers
  OneRedactionEvent
PROPERTY ImplementsLog
CHECK_DEADLOCK FALSE
