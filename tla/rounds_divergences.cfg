\* What a comment and a prompt say of reports and guides: TLC refutes each
\* property; it stops at the first, so keep one at a time.
SPECIFICATION Spec
CONSTANTS
  Tasks = {t1}
  MaxOutcomes = 1
  MaxStarts = 1
  Goals = {g1}
  MaxCommits = 1
  MaxEvals = 1
PROPERTIES
  ReportsRead
  GuidesArchived
CHECK_DEADLOCK FALSE
