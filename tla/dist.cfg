CONSTANTS
  Workers = {w1, w2}
  Tasks = {t1, t2, t3}
  Agents = 1
  MinAgents = 1
  MaxAgents = 1
  MaxAttempts = 1
  MaxRestarts = 1
  MaxDeaths = 1
  Ranks = {w1, w2}
  Local = w1
  AgentsPerNode = 2
  MaxReturns = 1
  MaxTasks = 1
  MaxFailures = 1
SPECIFICATION ClusterSpec
INVARIANTS
  LostDispatchWatched
  OnOwnTrees
PROPERTIES
  DispatchReturns
  RunEnds
CHECK_DEADLOCK FALSE
