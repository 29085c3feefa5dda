\* What a docstring and the statuses suggest of a dispatch: TLC refutes each
\* property; it stops at the first, so keep one at a time.
SPECIFICATION Spec
CONSTANTS
  Slugs = {s1}
  MaxId = 1
  MaxAttempts = 1
  Slots = 1
PROPERTIES
  OnlyPendingDispatched
  CompletedIsFinal
