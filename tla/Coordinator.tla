---------------------------- MODULE Coordinator ----------------------------
(***************************************************************************)
(* The coordinator process: the orchestrator's rounds and the evaluations  *)
(* of merged batches, which meet in report_queue.                          *)
(***************************************************************************)
EXTENDS OrchestratorRounds, MergeEvaluation

vars == <<roundsVars, evalVars>>

\* A triage agent of a failed goal creates a fix task.
CreateFix(e, t) ==
  /\ e \in evals /\ e.at = "triage" /\ e.failing # {}
  /\ status[t] = "absent"
  /\ status' = [status EXCEPT ![t] = "pending"]
  /\ UNCHANGED <<outcomes, files, starts, loop, queue, conversation, analysis, evalVars>>

\* The report is written and the message __merge_eval__:batch:report[:fix tasks]
\* put into the queue.
Notify(e) ==
  /\ Up
  /\ WriteEvalReport(e)
  /\ Enqueue(Notice(e.commit))
  /\ UNCHANGED <<dag, files, starts, loop, conversation, analysis>>

\* What ends the process ends the evaluations; a shutdown waits 30 s for them.
Stop ==
  /\ Crash \/ Shutdown
  /\ evals' = {}
  /\ UNCHANGED <<head, started, goals, recorded>>

CoordinatorInit == Init /\ EvalInit

EvalStep == \/ Land \/ OnBatchMerged
            \/ \E e \in evals : Assess(e) \/ Abort(e)

Next ==
  \/ Stop
  \/ (Start \/ CallFails \/ Loop) /\ UNCHANGED evalVars
  \/ (\E t \in Tasks : TaskSteps(t)) /\ UNCHANGED evalVars
  \/ (\E a \in analyses : Analyze(a) \/ EndOrCrash(a)) /\ UNCHANGED evalVars
  \/ Up /\ EvalStep /\ UNCHANGED roundsVars
  \/ \E e \in evals : Notify(e) \/ \E t \in Tasks : CreateFix(e, t)

\* The loop is woken by the queue and a call ends, because the agent has a budget
\* of turns; the coroutines of analyses run, and their calls end.
Fairness ==
  /\ WF_vars((Loop \/ CallFails) /\ UNCHANGED evalVars)
  /\ WF_vars((\E a \in analyses : StartAnalysis(a) \/ StoreAnalyzer(a) \/ EndOrCrash(a)) /\ UNCHANGED evalVars)

Spec == CoordinatorInit /\ [][Next]_vars /\ Fairness

---------------------------------------------------------------------------
(* Properties *)

Entries == {Startup} \cup {Report(t, n) : t \in Tasks, n \in 1..MaxOutcomes}
           \cup {Notice(c) : c \in Commits}

\* The variables keep their types, files and queue included.
TypeOK ==
  /\ status \in [Tasks -> {"absent"} \cup Live \cup Over]
  /\ outcomes \in [Tasks -> 0..MaxOutcomes]
  /\ reports \in [Tasks -> Nat] /\ writes \in [Tasks -> Nat]
  /\ \A t \in Tasks : reports[t] <= writes[t]
  /\ archive \subseteq [task : Tasks, round : Nat, write : Nat]
  /\ skills \in [Tasks -> {"none", "empty", "guide"}]
  /\ keptGuides \subseteq Tasks
  /\ starts \in 0..MaxStarts
  /\ loop \in {"down", "get", "sync", "call", "draining"}
  /\ queue \subseteq Entries /\ prompt \subseteq Entries
  /\ unsynced \subseteq [task : Tasks, seen : Live \cup Over]
  /\ asked \in BOOLEAN /\ round \in Nat
  /\ analyses \subseteq [task : Tasks, of : 1..MaxOutcomes,
                         at : {"created", "entering", "working", "reported"}]
  /\ analyzers \subseteq Tasks
  /\ loaded \subseteq Tasks \X Nat /\ cleared \subseteq Tasks \X Nat
  /\ head \in 0..MaxCommits /\ started \subseteq Commits
  /\ evals \subseteq [commit : Commits, at : {"assessing", "triage"}, failing : SUBSET Goals]
  /\ goals \in [Goals -> 0..MaxCommits]
  /\ recorded \subseteq Commits

\* "Clear consumed reports so they aren't re-read next cycle": what a round has
\* cleared is loaded in no later round, whoever writes reports meanwhile.
NotReadAgain == loaded \cap cleared = {} /\ OnDisk \cap cleared = {}

\* Reports a process has cleared are in the archive as long as it runs, whatever
\* later rounds archive under the names of the same tasks.
FiledKept == \A r \in cleared : \E f \in archive : f.task = r[1] /\ f.write = r[2]

\* The analysis of a failed attempt ends, one way or the other, in a round of the
\* orchestrator that is told of it, and so does every other outcome, unless the
\* pipeline stops before.
OutcomeTold ==
  \A t \in Tasks, n \in 1..MaxOutcomes :
    (\/ \E a \in analyses : a.task = t /\ a.of = n
     \/ Report(t, n) \in queue)
      ~> \/ loop = "call" /\ Report(t, n) \in prompt
         \/ loop \in {"draining", "down"}

\* The message about a batch comes after its verdicts: list_goals() shows them.
NoticeAfterVerdicts ==
  \A x \in queue \cup prompt : x.kind = "merge_eval" => x.commit \in recorded

\* A goal's status comes from the commit of a batch whose evaluation recorded
\* it, though main moves on while it is assessed.
VerdictOfBatch == \A g \in Goals : goals[g] \in recorded \cup {0}

\* The docs say that the skill folder of a task that is over is archived before
\* it is removed.  Violated: sync() at the start of a round removes it without.
GuidesArchived ==
  [][\A t \in Tasks : skills[t] = "guide" /\ skills'[t] = "none" => t \in keptGuides']_vars

\* Reports are "consumed each round".  Violated: what arrives during the call, or
\* before a round that is not told to load reports, is cleared unread.
ReportsRead == [][cleared' \ cleared \subseteq loaded]_vars
=============================================================================
