SPECIFICATION Spec
CONSTANTS
  Workers = {w1, w2}
  Calls = {c1, c2}
  MaxRetries = 1
INVARIANTS
  AnswersOwn
  NoOrphan
PROPERTIES
  Served
CHECK_DEADLOCK FALSE
