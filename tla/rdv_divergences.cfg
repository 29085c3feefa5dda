\* What docstrings say of shared and living servers: TLC refutes each
\* property; it stops at the first, so keep one at a time.
SPECIFICATION RdvSpec
CONSTANTS
  p1 = p1
  p2 = p2
  p3 = p3
  Clients <- TwoClients
  Kinds = {"base", "lsp", "repl"}
  MaxReconnects = 0
  MaxMishaps = 1
INVARIANTS
  OneServerShared
PROPERTIES
  AliveForClients
  StartedIfNotRunning
CHECK_DEADLOCK FALSE
