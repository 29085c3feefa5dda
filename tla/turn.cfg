SPECIFICATION Spec
CONSTANTS
  Servers = {"repl", "files"}
  Restartable = {"repl"}
  Lengthy = {"files"}
  PersistDir = TRUE
  MaxDeaths = 1
  Agents <- SomeAgents
  Idless <- SomeIdless
  Prompted = TRUE
  Answers <- SomeAnswers
  MaxCutOffs = 1
  MaxOverflows = 1
  MaxRetries = 1
  MaxCalls = 2
  MaxRestores = 1
INVARIANTS
  CallsPaired
  Remembered
  FileIsOwn
  NoClientLeft
CHECK_DEADLOCK FALSE
