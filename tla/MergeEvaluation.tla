-------------------------- MODULE MergeEvaluation --------------------------
(***************************************************************************)
(* The evaluation of what the merge queue lands (autoform/bot/main.py,     *)
(* _on_batch_merged, and autoform/bot/merge_eval.py): one coroutine per    *)
(* landed batch finds the goals the merge affects, assesses them in a      *)
(* worktree of that commit, records the verdicts in goals.json, lets       *)
(* triage agents create fix tasks, and sends the orchestrator a message.   *)
(* The fix tasks themselves are tasks of the DAG (Coordinator).           *)
(*                                                                         *)
(* Commits of main are numbered in the order they land.  What a language   *)
(* model answers is any answer.                                            *)
(***************************************************************************)
EXTENDS Naturals, FiniteSets

CONSTANTS
  Goals,
  MaxCommits,    \* main moves at most this often (bound of the model)
  MaxEvals       \* number of evaluations (bound of the model)

ASSUME EvaluationAssumption == MaxCommits \in Nat /\ MaxEvals \in Nat

VARIABLES
  head,          \* number of the commit main is at
  started,       \* commits of main that ended a batch
  evals,         \* evaluations under way
  goals,         \* goals.json; history: the commit at which a goal's status was assessed
  recorded       \* history: commits whose verdicts have been recorded

evalVars == <<head, started, evals, goals, recorded>>

Commits == 1..MaxCommits

EvalInit ==
  /\ head = 0
  /\ started = {}
  /\ evals = {}
  /\ goals = [g \in Goals |-> 0]
  /\ recorded = {}

Goto(e, next) == evals' = (evals \ {e}) \cup {next}

\* The coroutine ends without a message: nothing to evaluate, or an exception.
Abort(e) ==
  /\ e \in evals
  /\ evals' = evals \ {e}
  /\ UNCHANGED <<head, started, goals, recorded>>

\* The merge queue moves main, more than once in a batch that is bisected.
Land ==
  /\ head < MaxCommits
  /\ head' = head + 1
  /\ UNCHANGED <<started, evals, goals, recorded>>

\* _on_batch_merged(): a batch has ended and its last commit is evaluated.
OnBatchMerged ==
  /\ head > 0 /\ head \notin started /\ Cardinality(started) < MaxEvals
  /\ started' = started \cup {head}
  /\ evals' = evals \cup {[commit |-> head, at |-> "assessing", failing |-> {}]}
  /\ UNCHANGED <<head, goals, recorded>>

Assessed(e, affected, failing, commit) ==
  /\ Goto(e, [e EXCEPT !.at = "triage", !.failing = failing])
  /\ goals' = [g \in Goals |-> IF g \in affected THEN commit ELSE goals[g]]
  /\ recorded' = recorded \cup {e.commit}
  /\ UNCHANGED <<head, started>>

\* identify_affected_targets() finds goals, assess_targets() judges them in a
\* worktree at the batch's commit, and _update_tracker() records the verdicts.
\* The agents' calls in between change nothing others see, and from the last of
\* them on there is no await; some failed goals have a rubric below its threshold.
Assess(e) ==
  /\ e \in evals /\ e.at = "assessing"
  /\ \E affected \in SUBSET Goals \ {{}} : \E failing \in SUBSET affected :
       Assessed(e, affected, failing, e.commit)

\* The agents have answered: the report is written and the batch is done.
WriteEvalReport(e) ==
  /\ e \in evals /\ e.at = "triage"
  /\ evals' = evals \ {e}
  /\ UNCHANGED <<head, started, goals, recorded>>
=============================================================================
