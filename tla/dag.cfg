SPECIFICATION FairSpec
CONSTANTS
  Slugs = {s1}
  MaxId = 1
  MaxAttempts = 1
  Slots = 1
INVARIANTS
  SingleFlight
  EdgesConsistent
PROPERTIES
  ReadyDispatched
  LifecycleImplemented
