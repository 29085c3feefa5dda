SPECIFICATION JobsSpec
CONSTANTS
  Lines = 5
  ChunkSize = 3
  Overlap = 2
  K = 2
  Concurrency = 2
  Names = {def, thm}
  Books <- SmallBooks
  MaxLapses = 2
  a = a
  b = b
  c = c
  Declarations <- ThreeDeclarations
  Environments <- AllEnvironments
  Limits = {2, 3, 4}
  MaxTasks = 2
  MaxAttempts = 1
  MaxStarts = 2
  MaxCalls = 2
SYMMETRY Symmetry
INVARIANTS
  FoundByAllWritten
  ClosureCorrect
  UsageCounted
  SessionsAreOwn
  TimelineOnce
CHECK_DEADLOCK FALSE
