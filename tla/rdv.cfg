SPECIFICATION RdvSpec
CONSTANTS
  p1 = p1
  p2 = p2
  p3 = p3
  Clients <- TwoClients
  Kinds = {"base", "lsp", "repl"}
  MaxReconnects = 1
  MaxMishaps = 2
INVARIANTS
  OneServer
  NoServerLeft
PROPERTIES
  StartEnds
CHECK_DEADLOCK FALSE
