\* What comments, a docstring and a prompt say of the archive, of requests, of
\* queued messages and of a restart: TLC refutes each property; it stops at
\* the first, so keep one at a time.
SPECIFICATION AgentSpec
CONSTANTS
  Pools = {TRUE, FALSE}
  MaxTurns = 3
  MaxCutOffs = 1
  MaxOverflows = 1
  MaxCalls = 2
  MaxSent = 2
  MaxStarts = 2
INVARIANTS
  ArchiveComplete
  AllRequestsPaired
PROPERTIES
  LeftForTheTurn
  ConversationSurvives
CHECK_DEADLOCK FALSE
