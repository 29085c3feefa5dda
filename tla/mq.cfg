SPECIFICATION FairSpec
CONSTANTS
  Agents = {a1, a2, a3}
  MaxSubmits <- Submits
  BatchSize = 3
  Worlds <- OneCause
  Mishaps = {"git", "raise", "crash", "abandon"}
  MaxMishaps = 1
INVARIANTS
  MainBuilds
  MergedIsInMain
PROPERTIES
  EveryRequestResolved
  RejectionJustified
