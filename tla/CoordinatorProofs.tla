------------------------- MODULE CoordinatorProofs -------------------------
(***************************************************************************)
(* Theorems about Coordinator, for any tasks, goals and bounds.            *)
(***************************************************************************)
EXTENDS Coordinator, TLAPS

\* What the steps that are not about reports leave alone.
reportVars == <<reports, writes, archive, round, loaded, cleared>>

ReportTypes ==
  /\ reports \in [Tasks -> Nat]
  /\ writes \in [Tasks -> Nat]
  /\ round \in Nat
  /\ loaded \subseteq Tasks \X Nat
  /\ cleared \subseteq Tasks \X Nat
  /\ archive \subseteq [task : Tasks, round : Nat, write : Nat]

\* A file holds the last write of its task, and what was cleared is older; the
\* archive has it under a round that is over.
ReportInv ==
  /\ ReportTypes
  /\ \A t \in Tasks : reports[t] <= writes[t]
  /\ \A r \in cleared : r[2] # 0 /\ r[2] <= writes[r[1]] /\ r[2] # reports[r[1]]
  /\ \A r \in loaded : r[2] <= writes[r[1]] /\ r \notin cleared
  /\ \A r \in cleared : \E f \in archive : f.task = r[1] /\ f.write = r[2] /\ f.round <= round

LEMMA ReportInvInit == Init => ReportInv
BY DEF Init, ReportInv, ReportTypes

LEMMA ReportInvUnchanged == ASSUME ReportInv, UNCHANGED reportVars PROVE ReportInv'
BY DEF ReportInv, ReportTypes, reportVars

\* A new write is newer than everything that was cleared or loaded.
LEMMA ReportInvWrite ==
  ASSUME ReportInv, NEW t \in Tasks, WriteReport(t), UNCHANGED <<archive, round, loaded, cleared>>
  PROVE  ReportInv'
<1>1. /\ writes' \in [Tasks -> Nat] /\ reports' \in [Tasks -> Nat]
      /\ writes'[t] = writes[t] + 1 /\ reports'[t] = writes[t] + 1
      /\ \A u \in Tasks : u # t => writes'[u] = writes[u] /\ reports'[u] = reports[u]
  BY DEF ReportInv, ReportTypes, WriteReport
<1>2. \A r \in cleared : r[2] <= writes'[r[1]] /\ r[2] # reports'[r[1]]
  <2> SUFFICES ASSUME NEW u \in Tasks, NEW w \in Nat, <<u, w>> \in cleared
               PROVE  w <= writes'[u] /\ w # reports'[u]
    BY DEF ReportInv, ReportTypes
  <2>1. w <= writes[u] /\ w # reports[u] /\ writes[u] \in Nat
    BY DEF ReportInv, ReportTypes
  <2> QED BY <1>1, <2>1
<1>3. \A r \in loaded : r[2] <= writes'[r[1]]
  <2> SUFFICES ASSUME NEW u \in Tasks, NEW w \in Nat, <<u, w>> \in loaded
               PROVE  w <= writes'[u]
    BY DEF ReportInv, ReportTypes
  <2>1. w <= writes[u] /\ writes[u] \in Nat
    BY DEF ReportInv, ReportTypes
  <2> QED BY <1>1, <2>1
<1>4. \A u \in Tasks : reports'[u] <= writes'[u]
  BY <1>1 DEF ReportInv, ReportTypes
<1> QED BY <1>1, <1>2, <1>3, <1>4 DEF ReportInv, ReportTypes

LEMMA OnDiskIs ==
  ASSUME ReportInv, NEW r \in OnDisk
  PROVE  r \in Tasks \X Nat /\ r[2] = reports[r[1]] /\ r[2] # 0 /\ r \notin cleared
BY DEF OnDisk, ReportInv, ReportTypes

LEMMA ReportInvLoad ==
  ASSUME ReportInv, loaded' = loaded \cup OnDisk, UNCHANGED <<reports, writes, archive, round, cleared>>
  PROVE  ReportInv'
BY OnDiskIs DEF ReportInv, ReportTypes

\* The copies go under a new round, so every earlier copy stays.
LEMMA ReportInvEndCall == ASSUME ReportInv, EndCall PROVE ReportInv'
<1>1. /\ reports' = [t \in Tasks |-> 0] /\ loaded' = {} /\ writes' = writes
      /\ round' = round + 1 /\ cleared' = cleared \cup OnDisk
  BY DEF EndCall
<1> DEFINE copies == {[task |-> r[1], round |-> round + 1, write |-> r[2]] : r \in OnDisk}
<1>2. archive' = {f \in archive : f.round # round + 1 \/ reports[f.task] = 0} \cup copies
  BY DEF EndCall, ArchiveReports
<1>3. ReportTypes'
  <2>1. copies \subseteq [task : Tasks, round : Nat, write : Nat]
    BY OnDiskIs DEF ReportInv, ReportTypes
  <2> QED BY <1>1, <1>2, <2>1, OnDiskIs DEF ReportInv, ReportTypes
<1>4. \A r \in cleared' : r[2] # 0 /\ r[2] <= writes'[r[1]] /\ r[2] # reports'[r[1]]
  <2> SUFFICES ASSUME NEW r \in cleared' PROVE r[2] # 0 /\ r[2] <= writes[r[1]] /\ r[1] \in Tasks
    BY <1>1
  <2> QED BY <1>1, OnDiskIs DEF ReportInv, ReportTypes
<1>5. \A r \in cleared' : \E f \in archive' : f.task = r[1] /\ f.write = r[2] /\ f.round <= round'
  <2> SUFFICES ASSUME NEW r \in cleared'
               PROVE  \E f \in archive' : f.task = r[1] /\ f.write = r[2] /\ f.round <= round'
    OBVIOUS
  <2>1. CASE r \in cleared
    <3>1. PICK f \in archive : f.task = r[1] /\ f.write = r[2] /\ f.round <= round
      BY <2>1 DEF ReportInv
    <3>2. f.round \in Nat /\ round \in Nat
      BY DEF ReportInv, ReportTypes
    <3>3. f \in archive' /\ f.round <= round'
      BY <1>1, <1>2, <3>1, <3>2
    <3> QED BY <3>1, <3>3
  <2>2. CASE r \in OnDisk
    <3>1. [task |-> r[1], round |-> round + 1, write |-> r[2]] \in archive'
      BY <1>2, <2>2
    <3> QED BY <1>1, <3>1 DEF ReportInv, ReportTypes
  <2> QED BY <1>1, <2>1, <2>2
<1>6. \A t \in Tasks : reports'[t] <= writes'[t]
  BY <1>1 DEF ReportInv, ReportTypes
<1> QED BY <1>1, <1>3, <1>4, <1>5, <1>6 DEF ReportInv

\* A new process knows of no cleared report.
LEMMA ReportInvStart == ASSUME ReportInv, Start PROVE ReportInv'
BY DEF Start, files, ReportInv, ReportTypes

LEMMA ReportInvForget == ASSUME ReportInv, Forget PROVE ReportInv'
BY DEF Forget, files, ReportInv, ReportTypes

LEMMA ReportInvStep == TypeOK /\ ReportInv /\ [Next]_vars => ReportInv'
<1> SUFFICES ASSUME TypeOK, ReportInv, [Next]_vars PROVE ReportInv'
  OBVIOUS
<1>1. CASE Stop
  BY <1>1, ReportInvForget DEF Stop, Crash, Shutdown
<1>2. CASE (Start \/ CallFails \/ Loop) /\ UNCHANGED evalVars
  <2>1. CASE Start
    BY <2>1, ReportInvStart
  <2>2. CASE CallFails
    BY <2>2, ReportInvUnchanged DEF CallFails, files, conversation, reportVars
  <2>3. CASE GetBatch
    BY <2>3, ReportInvUnchanged DEF GetBatch, files, reportVars
  <2>4. ASSUME NEW u \in unsynced, SyncTask(u) PROVE ReportInv'
    BY <2>4, ReportInvUnchanged DEF SyncTask, reportVars
  <2>5. CASE CallOrchestrator
    BY <2>5 DEF CallOrchestrator, files, ReportInv, ReportTypes
  <2>6. CASE LoadReports
    BY <2>6, ReportInvLoad DEF LoadReports, files
  <2>7. CASE EndCall
    BY <2>7, ReportInvEndCall
  <2> QED BY <1>2, <2>1, <2>2, <2>3, <2>4, <2>5, <2>6, <2>7 DEF Loop
<1>3. ASSUME NEW t \in Tasks, TaskSteps(t) PROVE ReportInv'
  <2>1. CASE Begin(t) \/ Create(t) \/ Reopen(t) \/ Remove(t)
    BY <2>1, ReportInvUnchanged DEF Begin, Create, Reopen, Remove, files, conversation, reportVars
  <2>2. CASE ScheduleAnalysis(t)
    BY <2>2, ReportInvUnchanged DEF ScheduleAnalysis, Conclude, files, conversation, reportVars
  <2>3. ASSUME NEW outcome, ReportAtOnce(t, outcome) PROVE ReportInv'
    BY <2>3, ReportInvWrite DEF ReportAtOnce, Conclude, conversation
  <2> QED BY <1>3, <2>1, <2>2, <2>3 DEF TaskSteps
<1>4. ASSUME NEW a \in analyses, Analyze(a) \/ EndOrCrash(a) PROVE ReportInv'
  <2> a.task \in Tasks
    BY DEF TypeOK
  <2>1. CASE StartAnalysis(a) \/ StoreAnalyzer(a) \/ WriteGuide(a) \/ EndAnalysis(a)
    BY <2>1, ReportInvUnchanged
    DEF StartAnalysis, StoreAnalyzer, WriteGuide, EndAnalysis, files, conversation, reportVars
  <2>2. CASE UpdateReport(a) \/ CrashAnalysis(a)
    BY <1>4, <2>2, ReportInvWrite DEF UpdateReport, CrashAnalysis, conversation
  <2> QED BY <1>4, <2>1, <2>2 DEF Analyze, EndOrCrash
<1>5. ASSUME NEW e \in evals, Notify(e) \/ \E t \in Tasks : CreateFix(e, t) PROVE ReportInv'
  BY <1>5, ReportInvUnchanged DEF Notify, CreateFix, files, conversation, reportVars
<1>6. CASE UNCHANGED roundsVars
  BY <1>6, ReportInvUnchanged DEF roundsVars, files, conversation, reportVars
<1>7. CASE UNCHANGED vars
  BY <1>6, <1>7 DEF vars
<1> QED BY <1>1, <1>2, <1>3, <1>4, <1>5, <1>6, <1>7 DEF Next

---------------------------------------------------------------------------
(* Types.  An attempt ends only for a task whose budget allowed it to begin. *)

BudgetInv == \A t \in Tasks : status[t] = "in_progress" => outcomes[t] < MaxOutcomes

TypeInv == TypeOK /\ BudgetInv

Statuses == {"absent"} \cup Live \cup Over
AnalysisRecords == [task : Tasks, of : 1..MaxOutcomes, at : {"created", "entering", "working", "reported"}]

LEMMA TypeInvInit == Init /\ EvalInit => TypeInv
<1> SUFFICES ASSUME Init, EvalInit PROVE TypeInv
  OBVIOUS
<1>1. status \in [Tasks -> {"absent"} \cup Live \cup Over] /\ \A t \in Tasks : status[t] # "in_progress"
  BY DEF Init, Live, Over
<1>2. outcomes \in [Tasks -> 0..MaxOutcomes] /\ starts \in 0..MaxStarts
  BY RoundsAssumption DEF Init
<1>3. goals \in [Goals -> 0..MaxCommits] /\ head \in 0..MaxCommits
  BY EvaluationAssumption DEF EvalInit
<1>4. /\ reports \in [Tasks -> Nat] /\ writes \in [Tasks -> Nat]
      /\ \A t \in Tasks : reports[t] <= writes[t]
      /\ skills \in [Tasks -> {"none", "empty", "guide"}]
  BY DEF Init
<1>5. /\ archive = {} /\ keptGuides = {} /\ loop = "down" /\ queue = {} /\ prompt = {} /\ unsynced = {}
      /\ asked = FALSE /\ round = 0 /\ analyses = {} /\ analyzers = {} /\ loaded = {} /\ cleared = {}
      /\ started = {} /\ evals = {} /\ recorded = {}
  BY DEF Init, EvalInit
<1>6. TypeOK
  BY <1>1, <1>2, <1>3, <1>4, <1>5 DEF TypeOK
<1> QED BY <1>1, <1>6 DEF TypeInv, BudgetInv

LEMMA TypeInvProcess ==
  ASSUME TypeInv, Stop \/ ((Start \/ CallFails) /\ UNCHANGED evalVars)
  PROVE  TypeInv'
<1>1. CASE Stop
  BY <1>1 DEF Stop, Crash, Shutdown, Forget, dag, files, TypeInv, TypeOK, BudgetInv
<1>2. CASE Start /\ UNCHANGED evalVars
  <2>1. status' \in [Tasks -> Statuses] /\ \A t \in Tasks : status'[t] # "in_progress"
    BY <1>2 DEF Start, TypeInv, TypeOK, Statuses, Live, Over
  <2>2. unsynced' \subseteq [task : Tasks, seen : Live \cup Over]
    BY <1>2, <2>1 DEF Start, Listed, Statuses
  <2>3. prompt' \subseteq Entries
    BY <1>2 DEF Start, Entries
  <2>4. starts' \in 0..MaxStarts
    BY <1>2, RoundsAssumption DEF Start, TypeInv, TypeOK
  <2> QED BY <1>2, <2>1, <2>2, <2>3, <2>4
          DEF Start, files, analysis, evalVars, TypeInv, TypeOK, BudgetInv, Statuses
<1>3. CASE CallFails /\ UNCHANGED evalVars
  BY <1>3 DEF CallFails, dag, files, conversation, analysis, evalVars, TypeInv, TypeOK, BudgetInv
<1> QED BY <1>1, <1>2, <1>3

LEMMA TypeInvTasks ==
  ASSUME TypeInv, NEW t \in Tasks, TaskSteps(t), UNCHANGED evalVars
  PROVE  TypeInv'
<1> USE DEF TypeInv, TypeOK, BudgetInv, files, conversation, analysis, evalVars, Live, Over
<1>1. CASE Begin(t) \/ Create(t) \/ Reopen(t) \/ Remove(t)
  BY <1>1 DEF Begin, Create, Reopen, Remove
<1>2. ASSUME NEW outcome \in {"completed", "failed"}, Conclude(t, outcome)
      PROVE  /\ status' \in [Tasks -> Statuses] /\ outcomes' \in [Tasks -> 0..MaxOutcomes] /\ BudgetInv'
             /\ outcomes[t] + 1 \in 1..MaxOutcomes
  BY <1>2, RoundsAssumption DEF Conclude, Statuses
<1>3. ASSUME NEW outcome \in {"completed", "failed"}, ReportAtOnce(t, outcome) PROVE TypeInv'
  <2>1. Report(t, outcomes[t] + 1) \in Entries
    BY <1>2, <1>3 DEF ReportAtOnce, Entries
  <2>2. reports' \in [Tasks -> Nat] /\ writes' \in [Tasks -> Nat] /\ \A u \in Tasks : reports'[u] <= writes'[u]
    BY <1>3 DEF ReportAtOnce, WriteReport
  <2> QED BY <1>2, <1>3, <2>1, <2>2 DEF ReportAtOnce, Conclude, Enqueue, Statuses
<1>4. CASE ScheduleAnalysis(t)
  BY <1>2, <1>4 DEF ScheduleAnalysis, Conclude, Statuses
<1> QED BY <1>1, <1>3, <1>4 DEF TaskSteps

LEMMA TypeInvAnalysis ==
  ASSUME TypeInv, NEW a \in analyses, Analyze(a) \/ EndOrCrash(a), UNCHANGED evalVars
  PROVE  TypeInv'
<1>1. /\ a \in AnalysisRecords
      /\ [a EXCEPT !.at = "entering"] \in AnalysisRecords
      /\ [a EXCEPT !.at = "working"] \in AnalysisRecords
      /\ [a EXCEPT !.at = "reported"] \in AnalysisRecords
      /\ Report(a.task, a.of) \in Entries
  BY DEF TypeInv, TypeOK, AnalysisRecords, Entries
<1> USE DEF TypeInv, TypeOK, BudgetInv, dag, files, conversation, analysis, evalVars
<1>2. CASE StartAnalysis(a)
  BY <1>1, <1>2 DEF StartAnalysis, MakeFolder, Move, AnalysisRecords
<1>3. CASE StoreAnalyzer(a)
  BY <1>1, <1>3 DEF StoreAnalyzer, Move, AnalysisRecords
<1>4. CASE WriteGuide(a)
  BY <1>4 DEF WriteGuide
<1>5. CASE UpdateReport(a) \/ CrashAnalysis(a)
  <2>1. reports' \in [Tasks -> Nat] /\ writes' \in [Tasks -> Nat] /\ \A u \in Tasks : reports'[u] <= writes'[u]
    BY <1>1, <1>5 DEF UpdateReport, CrashAnalysis, WriteReport
  <2> QED BY <1>1, <1>5, <2>1 DEF UpdateReport, CrashAnalysis, Move, Enqueue, AnalysisRecords
<1>6. CASE EndAnalysis(a)
  BY <1>1, <1>6 DEF EndAnalysis, Enqueue
<1> QED BY <1>2, <1>3, <1>4, <1>5, <1>6 DEF Analyze, EndOrCrash

LEMMA TypeInvLoop ==
  ASSUME TypeInv, Loop, UNCHANGED evalVars
  PROVE  TypeInv'
<1> USE DEF TypeInv, TypeOK, BudgetInv, dag, files, conversation, analysis, evalVars
<1>1. CASE GetBatch
  <2>1. unsynced' \subseteq [task : Tasks, seen : Live \cup Over]
    BY <1>1 DEF GetBatch, Listed
  <2> QED BY <1>1, <2>1 DEF GetBatch
<1>2. ASSUME NEW u \in unsynced, SyncTask(u) PROVE TypeInv'
  BY <1>2 DEF SyncTask, DeleteFolder, MakeFolder
<1>3. CASE CallOrchestrator
  BY <1>3 DEF CallOrchestrator
<1>4. OnDisk \subseteq Tasks \X Nat
  BY DEF OnDisk
<1>5. CASE LoadReports
  BY <1>4, <1>5 DEF LoadReports
<1>6. CASE EndCall
  <2>1. archive' \subseteq [task : Tasks, round : Nat, write : Nat]
    BY <1>4, <1>6 DEF EndCall, ArchiveReports
  <2>2. skills' \in [Tasks -> {"none", "empty", "guide"}] /\ keptGuides' \subseteq Tasks
    BY <1>6 DEF EndCall, SyncSkillFolders
  <2> QED BY <1>4, <1>6, <2>1, <2>2 DEF EndCall
<1> QED BY <1>1, <1>2, <1>3, <1>5, <1>6 DEF Loop

LEMMA TypeInvEval ==
  ASSUME TypeInv, UNCHANGED roundsVars, EvalStep
  PROVE  TypeInv'
<1> USE EvaluationAssumption
    DEF TypeInv, TypeOK, BudgetInv, roundsVars, dag, files, conversation, analysis, evalVars
<1>1. CASE Land
  BY <1>1 DEF Land, Commits
<1>2. CASE OnBatchMerged
  <2>1. head \in Commits
    BY <1>2 DEF OnBatchMerged, Commits
  <2> QED BY <1>2, <2>1 DEF OnBatchMerged
<1>3. ASSUME NEW e \in evals, Assess(e) PROVE TypeInv'
  <2>1. PICK affected \in SUBSET Goals \ {{}} :
            \E failing \in SUBSET affected : Assessed(e, affected, failing, e.commit)
    BY <1>3 DEF Assess
  <2> PICK failing \in SUBSET affected : Assessed(e, affected, failing, e.commit)
    BY <2>1
  <2>2. e.commit \in Commits /\ e.commit \in 0..MaxCommits
    BY DEF Commits
  <2>3. [e EXCEPT !.at = "triage", !.failing = failing]
          \in [commit : Commits, at : {"assessing", "triage"}, failing : SUBSET Goals]
    OBVIOUS
  <2> QED BY <2>2, <2>3 DEF Assessed, Goto
<1>4. ASSUME NEW e \in evals, Abort(e) PROVE TypeInv'
  BY <1>4 DEF Abort
<1> QED BY <1>1, <1>2, <1>3, <1>4 DEF EvalStep

LEMMA TypeInvStep == TypeInv /\ [Next]_vars => TypeInv'
<1> SUFFICES ASSUME TypeInv, [Next]_vars PROVE TypeInv'
  OBVIOUS
<1>1. ASSUME NEW e \in evals, Notify(e) PROVE TypeInv'
  <2>1. Notice(e.commit) \in Entries
    BY DEF TypeInv, TypeOK, Entries
  <2> QED BY <1>1, <2>1 DEF Notify, WriteEvalReport, Enqueue, TypeInv, TypeOK, BudgetInv,
                            dag, files, conversation, analysis
<1>2. ASSUME NEW e \in evals, NEW t \in Tasks, CreateFix(e, t) PROVE TypeInv'
  BY <1>2 DEF CreateFix, TypeInv, TypeOK, BudgetInv, files, conversation, analysis, evalVars, Live
<1>3. CASE UNCHANGED vars
  BY <1>3 DEF vars, roundsVars, dag, files, conversation, analysis, evalVars, TypeInv, TypeOK, BudgetInv
<1> QED BY <1>1, <1>2, <1>3, TypeInvProcess, TypeInvTasks, TypeInvAnalysis, TypeInvLoop, TypeInvEval DEF Next

---------------------------------------------------------------------------
(* Verdicts: an evaluation in triage has recorded them, and a message comes *)
(* from one in triage.                                                      *)

VerdictInv ==
  /\ \A e \in evals : e.at = "triage" => e.commit \in recorded
  /\ NoticeAfterVerdicts
  /\ VerdictOfBatch

LEMMA VerdictInvInit == Init /\ EvalInit => VerdictInv
BY DEF Init, EvalInit, VerdictInv, NoticeAfterVerdicts, VerdictOfBatch

LEMMA VerdictInvStep == TypeOK /\ VerdictInv /\ [Next]_vars => VerdictInv'
<1> SUFFICES ASSUME TypeOK, VerdictInv, [Next]_vars PROVE VerdictInv'
  OBVIOUS
<1> USE DEF VerdictInv, NoticeAfterVerdicts, VerdictOfBatch
<1>1. CASE Stop
  BY <1>1 DEF Stop, Crash, Shutdown, Forget
<1>2. CASE (Start \/ CallFails \/ Loop) /\ UNCHANGED evalVars
  <2>1. CASE Start
    BY <1>2, <2>1 DEF Start, Startup, evalVars
  <2>2. CASE CallFails \/ LoadReports \/ CallOrchestrator
    BY <1>2, <2>2 DEF CallFails, LoadReports, CallOrchestrator, conversation, evalVars
  <2>3. CASE GetBatch
    BY <1>2, <2>3 DEF GetBatch, evalVars
  <2>4. ASSUME NEW u \in unsynced, SyncTask(u) PROVE VerdictInv'
    BY <1>2, <2>4 DEF SyncTask, evalVars
  <2>5. CASE EndCall
    BY <1>2, <2>5 DEF EndCall, evalVars
  <2> QED BY <1>2, <2>1, <2>2, <2>3, <2>4, <2>5 DEF Loop
<1>3. ASSUME NEW t \in Tasks, TaskSteps(t), UNCHANGED evalVars PROVE VerdictInv'
  BY <1>3 DEF TaskSteps, Begin, Create, Reopen, Remove, ScheduleAnalysis, ReportAtOnce, Conclude,
              Enqueue, Report, conversation, evalVars
<1>4. ASSUME NEW a \in analyses, Analyze(a) \/ EndOrCrash(a), UNCHANGED evalVars PROVE VerdictInv'
  BY <1>4 DEF Analyze, EndOrCrash, StartAnalysis, StoreAnalyzer, WriteGuide, UpdateReport, EndAnalysis,
              CrashAnalysis, Enqueue, Report, conversation, evalVars
<1>5. CASE EvalStep /\ UNCHANGED roundsVars
  <2>1. CASE Land
    BY <1>5, <2>1 DEF Land, roundsVars, conversation
  <2>2. CASE OnBatchMerged
    BY <1>5, <2>2 DEF OnBatchMerged, roundsVars, conversation
  <2>3. ASSUME NEW e \in evals, Assess(e) PROVE VerdictInv'
    BY <1>5, <2>3 DEF Assess, Assessed, Goto, TypeOK, roundsVars, conversation
  <2>4. ASSUME NEW e \in evals, Abort(e) PROVE VerdictInv'
    BY <1>5, <2>4 DEF Abort, roundsVars, conversation
  <2> QED BY <1>5, <2>1, <2>2, <2>3, <2>4 DEF EvalStep
<1>6. ASSUME NEW e \in evals, Notify(e) PROVE VerdictInv'
  BY <1>6 DEF Notify, WriteEvalReport, Enqueue, Notice, conversation
<1>7. ASSUME NEW e \in evals, NEW t \in Tasks, CreateFix(e, t) PROVE VerdictInv'
  BY <1>7 DEF CreateFix, conversation, evalVars
<1>8. CASE UNCHANGED vars
  BY <1>8 DEF vars, roundsVars, conversation, evalVars
<1> QED BY <1>1, <1>2, <1>3, <1>4, <1>5, <1>6, <1>7, <1>8 DEF Next

---------------------------------------------------------------------------
(* Theorems *)

IInv == TypeInv /\ ReportInv /\ VerdictInv

THEOREM RoundsInvariant == Spec => []IInv
<1>1. CoordinatorInit => IInv
  BY ReportInvInit, TypeInvInit, VerdictInvInit DEF IInv, CoordinatorInit
<1>2. IInv /\ [Next]_vars => IInv'
  BY ReportInvStep, TypeInvStep, VerdictInvStep DEF IInv, TypeInv
<1> QED BY <1>1, <1>2, PTL DEF Spec

\* The variables of the coordinator keep their types.
THEOREM CoordinatorTypeCorrect == Spec => []TypeOK
BY RoundsInvariant, PTL DEF IInv, TypeInv

\* coordinator.py clears reports so that they are not read again: none is.
THEOREM NeverReadAgain == Spec => []NotReadAgain
<1>1. IInv => NotReadAgain
  BY OnDiskIs DEF IInv, ReportInv, NotReadAgain
<1> QED BY <1>1, RoundsInvariant, PTL

\* What a round has cleared is in the archive as long as the process runs.
THEOREM ClearedIsFiled == Spec => []FiledKept
<1>1. IInv => FiledKept
  BY DEF IInv, ReportInv, FiledKept
<1> QED BY <1>1, RoundsInvariant, PTL

\* The orchestrator hears of a batch after its verdicts are recorded.
THEOREM NoticesComeAfterVerdicts == Spec => []NoticeAfterVerdicts
BY RoundsInvariant, PTL DEF IInv, VerdictInv

\* A recorded verdict is one on the commit of a batch that was evaluated.
THEOREM VerdictsAreOfBatches == Spec => []VerdictOfBatch
BY RoundsInvariant, PTL DEF IInv, VerdictInv
=============================================================================
