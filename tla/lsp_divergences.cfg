\* What docstrings and a comment say of diagnostics, looks and closing: TLC refutes
\* each property; it stops at the first, so keep one at a time.
SPECIFICATION LspSpec
CONSTANTS
  Callers = {c1, c2}
  MaxCalls = 2
  MaxStarts = 2
  MaxFailures = 1
INVARIANTS
  DiagnosticsAlwaysOwn
  LookIsOwn
  NoServerLeft
CHECK_DEADLOCK FALSE
