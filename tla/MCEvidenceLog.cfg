SPECIFICATION Spec
CONSTANTS
  Calls = {c1, c2, c3}
  Keys = {k1}
  NoKey = NoKey
  Bodies = {b1, b2}
  NoBody = NoBody
SYMMETRY Symmetry
INVARIANTS
  TypeOK
  OneEnvelopePerKey
  WrittenByItsCall
  AnswersStayTrue
PROPERTY FirstStands
CHECK_DEADLOCK FALSE
