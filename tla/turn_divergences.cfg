\* What docs and comments say of memory, results and restarts, and what holds only
\* with ids and answers as they should be: TLC refutes each, one at a time.
SPECIFICATION LeavingSpec
CONSTANTS
  Servers = {"repl", "files"}
  Restartable = {"repl"}
  Lengthy = {"files"}
  PersistDir = TRUE
  MaxDeaths = 1
  Agents <- SomeAgents
  Idless <- SomeIdless
  Prompted = TRUE
  Answers <- OddAnswers
  MaxCutOffs = 1
  MaxOverflows = 1
  MaxRetries = 1
  MaxCalls = 2
  MaxRestores = 1
INVARIANTS
  AllRemembered
  ResultsRemembered
  CallsPaired
  FileAlwaysOwn
PROPERTIES
  RestartTried
CHECK_DEADLOCK FALSE
