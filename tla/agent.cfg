SPECIFICATION AgentSpec
CONSTANTS
  Pools = {TRUE, FALSE}
  MaxTurns = 2
  MaxCutOffs = 1
  MaxOverflows = 1
  MaxCalls = 2
  MaxSent = 1
  MaxStarts = 2
INVARIANTS
  RequestsPaired
PROPERTIES
  ArchiveGrows
  MessageHeard
  CallReturns
CHECK_DEADLOCK FALSE
