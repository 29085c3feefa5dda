\* What docs, docstrings and comments say of chunk boundaries and accepted
\* statements, of transitive axioms, and of the statistics of a run: TLC refutes
\* each property; it stops at the first, so keep one at a time.
SPECIFICATION JobsSpec
CONSTANTS
  Lines = 5
  ChunkSize = 3
  Overlap = 2
  K = 2
  Concurrency = 2
  Names = {def, thm}
  Books <- SmallBooks
  MaxLapses = 2
  a = a
  b = b
  c = c
  Declarations <- ThreeDeclarations
  Environments <- AllEnvironments
  Limits = {2, 3, 4}
  MaxTasks = 1
  MaxAttempts = 1
  MaxStarts = 3
  MaxCalls = 3
SYMMETRY Symmetry
INVARIANTS
  WholeWritten
  AcceptedIfAllFound
  ReachableAxiomsKept
  CategoriesInSync
  PrunedLeaveNoTrace
  UsageAlwaysCounted
  OpenIsRunning
  EvaluationOnce
PROPERTIES
  ArchiveKeepsUsage
CHECK_DEADLOCK FALSE
