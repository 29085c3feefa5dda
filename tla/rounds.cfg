SPECIFICATION Spec
CONSTANTS
  Tasks = {t1}
  MaxOutcomes = 2
  MaxStarts = 2
  Goals = {g1}
  MaxCommits = 2
  MaxEvals = 1
INVARIANTS
  NotReadAgain
PROPERTIES
  OutcomeTold
CHECK_DEADLOCK FALSE
