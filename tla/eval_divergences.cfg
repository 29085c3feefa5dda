\* What comments and docs say of an evaluation's order, rubrics, results and checks: TLC
\* refutes each property; it stops at the first, so keep one at a time.
SPECIFICATION Spec
CONSTANTS
  Goals = {0, 1}
  Decls = {"definition", "lemma"}
  Axioms = {"sorryAx"}
  Rubrics = {"faithfulness", "proof_integrity"}
  ProofIntegrity = "proof_integrity"
  Graphs <- OneUse
  Evaluations <- Asked
  Slots = {1, 2}
  MaxRetries = 2
  ProgressBatch = 1
INVARIANTS
  OwnVerdict
  RubricsReached
  AlwaysReported
  PassedIsChecked
CHECK_DEADLOCK FALSE
