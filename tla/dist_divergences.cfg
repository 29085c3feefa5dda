\* What comments and docs say of lost dispatches, waiting tasks, check-ins, shutdown,
\* failed starts and worktrees: TLC refutes each property; it stops at the first, so
\* keep one at a time.
CONSTANTS
  Workers = {w1}
  Tasks = {t1, t2, t3}
  Agents = 1
  MinAgents = 1
  MaxAgents = 1
  MaxAttempts = 2
  MaxRestarts = 2
  MaxDeaths = 0
  Ranks = {w1, w2}
  Local = w1
  AgentsPerNode = 2
  MaxReturns = 1
  MaxTasks = 1
  MaxFailures = 1
SPECIFICATION ClusterSpec
INVARIANTS
  EveryDispatchWatched
  AddsAlwaysAlone
PROPERTIES
  WaitingIsDispatched
  AllHeard
  AllShutDown
  FailedStartEnds
CHECK_DEADLOCK FALSE
