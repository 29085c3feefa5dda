SPECIFICATION Spec
CONSTANTS
  Goals = {0, 1}
  Decls = {"definition", "lemma"}
  Axioms = {"sorryAx"}
  Rubrics = {"faithfulness", "proof_integrity"}
  ProofIntegrity = "proof_integrity"
  Graphs <- OneUse
  Evaluations <- Asked
  Slots = {1, 2}
  MaxRetries = 2
  ProgressBatch = 1
INVARIANTS
  EveryTargetReported
  PassedIsEarned
  OwnVerdictInOrder
CHECK_DEADLOCK FALSE
