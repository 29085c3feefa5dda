\* What the docs say of duplicate requests, isolated worktrees and answers: TLC
\* refutes each property; it stops at the first, so keep one at a time.
CONSTANTS
  a1 = a1
  a2 = a2
  a3 = a3
  Agents <- RaceAgents
  Teams <- RaceTeams
  Runs = {r1, r2}
  MaxTries = 1
  MaxRestarts = 1
SPECIFICATION RaceSpec
INVARIANTS
  NoDuplicateRequest
  IsolatedWorktrees
  AnswerIsOwn
CHECK_DEADLOCK FALSE
