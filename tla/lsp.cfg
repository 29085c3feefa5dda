SPECIFICATION LspSpec
CONSTANTS
  Callers = {c1, c2}
  MaxCalls = 2
  MaxStarts = 2
  MaxFailures = 1
INVARIANTS
  AnswerIsOwn
  DiagnosticsAreOwn
CHECK_DEADLOCK FALSE
