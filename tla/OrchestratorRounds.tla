------------------------- MODULE OrchestratorRounds -------------------------
(***************************************************************************)
(* The rounds of the orchestrator (autoform/bot/coordinator.py), the trace *)
(* analysis that reports finished attempts (autoform/bot/analysis.py), the *)
(* archives (autoform/bot/archive.py) and the folders of task skills.      *)
(*                                                                         *)
(* The DAG is seen through the statuses of its tasks, as TaskLifecycle     *)
(* promises them.  A report is known by the number of times its file was   *)
(* written before, and an attempt by the number of attempts before it;     *)
(* both numbers are history: the file's name and the queue's entries carry *)
(* the task only.  dag.json, reports/, skills/ and archive/ survive the    *)
(* process, everything else does not.                                      *)
(***************************************************************************)
EXTENDS Naturals, FiniteSets

CONSTANTS
  Tasks,
  MaxOutcomes,   \* a task is attempted at most this often (bound of the model)
  MaxStarts      \* number of processes, one after the other (bound of the model)

ASSUME RoundsAssumption == MaxOutcomes \in Nat /\ MaxStarts \in Nat

VARIABLES
  \* the tasks in dag.json
  status,
  outcomes,      \* history: attempts that have ended
  \* files
  reports,       \* reports/task_reports: number of the write, 0 for no file
  writes,        \* history: writes of the task's report
  archive,       \* archive/reports: files {task}_round{round}.json, with the write they keep
  skills,        \* skills/tasks/{task}: "none", "empty" or with a "guide"
  keptGuides,    \* tasks with a guide in archive/skills
  \* the coordinator
  starts,
  loop,          \* place of _orchestrator_loop
  queue,         \* report_queue, as a set: a round takes all that is in it
  prompt,        \* entries of the current round
  unsynced,      \* tasks sync() has listed, with their status then, and not handled
  asked,         \* the prompt asks for load_reports() and it has not been called
  round,         \* _round_count
  analyses,      \* _pending: coroutines of on_task_complete()
  analyzers,     \* _analyzers: tasks with an agent of their own
  \* history
  loaded,        \* reports the orchestrator loaded in the current round
  cleared        \* reports this process has archived and deleted

files == <<reports, writes, archive, skills, keptGuides>>
dag == <<status, outcomes>>
conversation == <<prompt, unsynced, asked, round, loaded, cleared>>
analysis == <<analyses, analyzers>>
roundsVars == <<dag, files, starts, loop, queue, conversation, analysis>>

Live == {"pending", "in_progress", "failed"}
Over == {"completed", "deleted"}
Up == loop # "down"

Report(t, n) == [kind |-> "report", task |-> t, of |-> n]
Startup == [kind |-> "startup"]
Notice(commit) == [kind |-> "merge_eval", commit |-> commit]

Init ==
  /\ status \in [Tasks -> {"absent", "pending"}]
  /\ outcomes = [t \in Tasks |-> 0]
  /\ reports = [t \in Tasks |-> 0]
  /\ writes = [t \in Tasks |-> 0]
  /\ archive = {}
  /\ skills = [t \in Tasks |-> "none"]
  /\ keptGuides = {}
  /\ starts = 0
  /\ loop = "down"
  /\ queue = {}
  /\ prompt = {} /\ unsynced = {} /\ asked = FALSE /\ round = 0
  /\ analyses = {} /\ analyzers = {}
  /\ loaded = {} /\ cleared = {}

---------------------------------------------------------------------------
(* The process. *)

\* What sync() lists.
Listed(statuses) == {[task |-> t, seen |-> statuses[t]] : t \in {u \in Tasks : statuses[u] # "absent"}}

\* initialize(), and _orchestrator_loop() up to its first sync(): nothing is
\* awaited between the put of the startup entry and its get.
Start ==
  /\ loop = "down" /\ starts < MaxStarts
  /\ starts' = starts + 1
  /\ loop' = "sync"
  /\ status' = [t \in Tasks |-> IF status[t] = "in_progress" THEN "pending" ELSE status[t]]
  /\ prompt' = {Startup}
  /\ unsynced' = Listed(status')
  /\ round' = 0 /\ cleared' = {}
  /\ UNCHANGED <<outcomes, files, queue, asked, loaded, analysis>>

\* What dies with the process.
Forget ==
  /\ loop' = "down"
  /\ queue' = {}
  /\ prompt' = {} /\ unsynced' = {} /\ asked' = FALSE /\ loaded' = {}
  /\ analyses' = {} /\ analyzers' = {}
  /\ UNCHANGED <<dag, files, starts, round, cleared>>

Crash == Up /\ Forget

\* An exception out of the orchestrator's call ends gather(); shutdown() waits
\* for the analyses, whose entries nobody reads any more.
CallFails ==
  /\ loop = "call"
  /\ loop' = "draining"
  /\ UNCHANGED <<dag, files, starts, queue, conversation, analysis>>

Shutdown == loop = "draining" /\ analyses = {} /\ Forget

---------------------------------------------------------------------------
(* Tasks: the runner, and the tools of agents. *)

Begin(t) ==
  /\ Up /\ loop # "draining"
  /\ status[t] = "pending" /\ outcomes[t] < MaxOutcomes
  /\ status' = [status EXCEPT ![t] = "in_progress"]
  /\ UNCHANGED <<outcomes, files, starts, loop, queue, conversation, analysis>>

\* _write_report(): a temporary file and os.replace.
WriteReport(t) ==
  /\ writes' = [writes EXCEPT ![t] = @ + 1]
  /\ reports' = [reports EXCEPT ![t] = writes[t] + 1]

Enqueue(entry) == queue' = queue \cup {entry}

\* record_result(), and the callback that follows in the same step.
Conclude(t, outcome) ==
  /\ Up /\ status[t] = "in_progress"
  /\ status' = [status EXCEPT ![t] = outcome]
  /\ outcomes' = [outcomes EXCEPT ![t] = @ + 1]
  /\ UNCHANGED <<starts, loop, conversation, analyzers>>

\* on_task_complete() of a success or of an infrastructure failure.
ReportAtOnce(t, outcome) ==
  /\ Conclude(t, outcome)
  /\ WriteReport(t)
  /\ Enqueue(Report(t, outcomes[t] + 1))
  /\ UNCHANGED <<archive, skills, keptGuides, analyses>>

\* on_task_complete() of any other failure.
ScheduleAnalysis(t) ==
  /\ Conclude(t, "failed")
  /\ analyses' = analyses \cup {[task |-> t, of |-> outcomes[t] + 1, at |-> "created"]}
  /\ UNCHANGED <<files, queue>>

\* A tool call of an agent: the orchestrator in its call, or an analyzer.
ToolsInUse == loop = "call" \/ \E a \in analyses : a.at = "working"

Create(t) ==
  /\ ToolsInUse /\ status[t] = "absent"
  /\ status' = [status EXCEPT ![t] = "pending"]
  /\ UNCHANGED <<outcomes, files, starts, loop, queue, conversation, analysis>>

Reopen(t) ==
  /\ ToolsInUse /\ status[t] = "failed"
  /\ status' = [status EXCEPT ![t] = "pending"]
  /\ UNCHANGED <<outcomes, files, starts, loop, queue, conversation, analysis>>

\* A task that was never attempted leaves the DAG for good.
Remove(t) ==
  /\ ToolsInUse /\ status[t] \in {"pending", "failed"}
  /\ status' = [status EXCEPT ![t] = IF outcomes[t] = 0 THEN "absent" ELSE "deleted"]
  /\ UNCHANGED <<outcomes, files, starts, loop, queue, conversation, analysis>>

---------------------------------------------------------------------------
(* Trace analysis. *)

Move(a, place) == analyses' = (analyses \ {a}) \cup {[a EXCEPT !.at = place]}

MakeFolder(t) == skills' = [skills EXCEPT ![t] = IF @ = "none" THEN "empty" ELSE @]

\* run(), up to the await in get_or_create() when the task has no agent.
StartAnalysis(a) ==
  /\ a \in analyses /\ a.at = "created"
  /\ MakeFolder(a.task)
  /\ Move(a, IF a.task \in analyzers THEN "working" ELSE "entering")
  /\ UNCHANGED <<dag, reports, writes, archive, keptGuides, starts, loop, queue, conversation, analyzers>>

\* The agent is entered, and stored whoever stored one meanwhile.
StoreAnalyzer(a) ==
  /\ a \in analyses /\ a.at = "entering"
  /\ analyzers' = analyzers \cup {a.task}
  /\ Move(a, "working")
  /\ UNCHANGED <<dag, files, starts, loop, queue, conversation>>

\* The agent's file tools, which create folders as needed.
WriteGuide(a) ==
  /\ a \in analyses /\ a.at = "working"
  /\ skills[a.task] # "guide"
  /\ skills' = [skills EXCEPT ![a.task] = "guide"]
  /\ UNCHANGED <<dag, reports, writes, archive, keptGuides, starts, loop, queue, conversation, analysis>>

UpdateReport(a) ==
  /\ a \in analyses /\ a.at = "working"
  /\ Move(a, "reported")
  /\ WriteReport(a.task)
  /\ UNCHANGED <<dag, archive, skills, keptGuides, starts, loop, queue, conversation, analyzers>>

\* The call returns, with a report written or without.
EndAnalysis(a) ==
  /\ a \in analyses /\ a.at \in {"working", "reported"}
  /\ analyses' = analyses \ {a}
  /\ Enqueue(Report(a.task, a.of))
  /\ UNCHANGED <<dag, files, starts, loop, conversation, analyzers>>

\* Variant with a bug: an exception ends the coroutine.
CrashAnalysisSilently(a) ==
  /\ a \in analyses
  /\ analyses' = analyses \ {a}
  /\ UNCHANGED <<dag, files, starts, loop, queue, conversation, analyzers>>

\* run() raises, wherever it is: the agent cannot start, or its call fails.
CrashAnalysis(a) ==
  /\ a \in analyses
  /\ analyses' = analyses \ {a}
  /\ WriteReport(a.task)
  /\ Enqueue(Report(a.task, a.of))
  /\ UNCHANGED <<dag, archive, skills, keptGuides, starts, loop, conversation, analyzers>>

---------------------------------------------------------------------------
(* The loop. *)

\* get() and the drain of the queue, then the list sync() goes through.
GetBatch ==
  /\ loop = "get" /\ queue # {}
  /\ loop' = "sync"
  /\ prompt' = queue
  /\ queue' = {}
  /\ unsynced' = Listed(status)
  /\ UNCHANGED <<dag, files, starts, asked, round, loaded, cleared, analysis>>

DeleteFolder(t) == skills' = [skills EXCEPT ![t] = "none"]

\* sync() of one task; close_task() awaits, so others come in between.
SyncTask(u) ==
  /\ loop = "sync" /\ u \in unsynced
  /\ unsynced' = unsynced \ {u}
  /\ IF u.seen \in Over
       THEN /\ DeleteFolder(u.task)
            /\ analyzers' = analyzers \ {u.task}
       ELSE MakeFolder(u.task) /\ UNCHANGED analyzers
  /\ UNCHANGED <<dag, reports, writes, archive, keptGuides, starts, loop, queue, prompt, asked, round,
                 loaded, cleared, analyses>>

\* The prompt is put together and the call begins.
CallOrchestrator ==
  /\ loop = "sync" /\ unsynced = {}
  /\ loop' = "call"
  /\ asked' = (\E e \in prompt : e.kind \in {"startup", "report"})
  /\ loaded' = {}
  /\ UNCHANGED <<dag, files, starts, queue, prompt, unsynced, round, cleared, analysis>>

OnDisk == {<<t, reports[t]>> : t \in {u \in Tasks : reports[u] # 0}}

\* The tool load_reports(), which the orchestrator calls when it is asked to and
\* may call again.
LoadReports ==
  /\ loop = "call"
  /\ asked \/ ~(OnDisk \subseteq loaded)
  /\ asked' = FALSE
  /\ loaded' = loaded \cup OnDisk
  /\ UNCHANGED <<dag, files, starts, loop, queue, prompt, unsynced, round, cleared, analysis>>

\* archive_reports(): a copy under the name of the task and the round.
ArchiveReports(n) ==
  LET copies == {[task |-> r[1], round |-> n, write |-> r[2]] : r \in OnDisk}
  IN  archive' = {f \in archive : f.round # n \/ reports[f.task] = 0} \cup copies

\* sync_skill_folders() with archive_skills().
SyncSkillFolders ==
  LET gone == {t \in Tasks : status[t] \in Over} IN
  /\ skills' = [t \in Tasks |->
       IF t \in gone THEN "none"
       ELSE IF status[t] \in Live /\ skills[t] = "none" THEN "empty" ELSE skills[t]]
  /\ keptGuides' = (keptGuides \ {t \in gone : skills[t] = "empty"}) \cup {t \in gone : skills[t] = "guide"}

\* Variant with a bug: only the reports the prompt named are cleared.
EndCallClearNamed ==
  /\ loop = "call" /\ ~asked
  /\ loop' = "get"
  /\ round' = round + 1
  /\ ArchiveReports(round + 1)
  /\ reports' = [t \in Tasks |-> IF \E e \in prompt : e.kind = "report" /\ e.task = t THEN 0 ELSE reports[t]]
  /\ cleared' = cleared \cup OnDisk
  /\ prompt' = {} /\ loaded' = {}
  /\ SyncSkillFolders
  /\ UNCHANGED <<dag, writes, starts, queue, unsynced, asked, analysis>>

\* The call returns; what follows has no await.
EndCall ==
  /\ loop = "call" /\ ~asked
  /\ loop' = "get"
  /\ round' = round + 1
  /\ ArchiveReports(round + 1)
  /\ reports' = [t \in Tasks |-> 0]
  /\ cleared' = cleared \cup OnDisk
  /\ prompt' = {} /\ loaded' = {}
  /\ SyncSkillFolders
  /\ UNCHANGED <<dag, writes, starts, queue, unsynced, asked, analysis>>

---------------------------------------------------------------------------

Loop == GetBatch \/ (\E u \in unsynced : SyncTask(u)) \/ CallOrchestrator \/ LoadReports \/ EndCall

Analyze(a) == StartAnalysis(a) \/ StoreAnalyzer(a) \/ WriteGuide(a) \/ UpdateReport(a)

EndOrCrash(a) == EndAnalysis(a) \/ CrashAnalysis(a)

TaskSteps(t) ==
  \/ Begin(t) \/ Create(t) \/ Reopen(t) \/ Remove(t) \/ ScheduleAnalysis(t)
  \/ \E outcome \in {"completed", "failed"} : ReportAtOnce(t, outcome)
=============================================================================
