SPECIFICATION LiveSpec
CHECK_DEADLOCK FALSE
CONSTANTS
  Cards = {q1, q2}
  Convs = {c1, c2}
  Clocks = {k1}
  None = None
  Gate = Gate
  MaxUpsets = 1
INVARIANTS
  TypeOK
  AnswerKept
  NoContradiction
  ResumesInPlace
  PlaceKept
  ToldOnce
PROPERTIES
  NeverReplaced
  KeepsJobLifecycle
  Woken
