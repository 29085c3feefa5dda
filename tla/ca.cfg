CONSTANTS
  a1 = a1
  a2 = a2
  a3 = a3
  Agents <- RaceAgents
  Teams <- RaceTeams
  Runs = {r1, r2}
  MaxTries = 2
  MaxRestarts = 1
SPECIFICATION RaceFairSpec
INVARIANTS
  OneSubmitter
PROPERTIES
  RunReturns
CHECK_DEADLOCK FALSE
