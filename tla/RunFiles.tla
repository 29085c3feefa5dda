------------------------------ MODULE RunFiles ------------------------------
(***************************************************************************)
(* The files of a run and what is read from them: the traces agents save   *)
(* (core/trace/store.py, autoform/bot/archive.py), what a restart of the   *)
(* pipeline resumes and what --fresh prunes (autoform/bot/main.py,         *)
(* archive.py), and the statistics the visualizer computes of them         *)
(* (autoform/visualizer/app.py).  The pipeline starts, stops and is killed *)
(* any number of times; an evaluation is a process of its own.             *)
(*                                                                         *)
(* Every call of a model costs one.  A file is its key, the path relative  *)
(* to traces/ or archive/traces/, and the calls its summary counts.        *)
(***************************************************************************)
EXTENDS Naturals, Sequences, FiniteSets, FiniteSetsExt

CONSTANTS
  MaxTasks,     \* tasks that are added (bound of the model, as the next three)
  MaxAttempts,  \* of a task
  MaxStarts,    \* of the pipeline
  MaxCalls      \* of models that are on record

ASSUME RunAssumption == {MaxTasks, MaxAttempts, MaxStarts, MaxCalls} \subseteq Nat

VARIABLES
  starts,     \* of the pipeline so far
  stage,      \* "down"; "prune", "snapshot" and "delete" of prepare_fresh_run; "ready"; "up"
  dag,        \* dag.json: the tasks by id
  max_id,     \* also in dag.json
  doomed,     \* what prepare_fresh_run has found and is to delete
  agents,     \* the traces agents hold: the calls of each
  evaluator,  \* the trace of the evaluation, while there is one
  traces,     \* traces/
  archive,    \* archive/traces/
  snapshots,  \* the usage_snapshot_*.json, added up by category
  sessions,   \* sessions.jsonl
  events,     \* progress_data.json: how many usage events a key has
  seen,       \* progress_data.json: the traces scanned
  recorded,   \* calls saved in a trace and not replaced, by category (history)
  pruned,     \* ids that were pruned (history)
  disturbed   \* whether a preparation was killed or met an evaluation (history)

pipeline == <<starts, stage, dag, max_id, doomed, agents>>
disk == <<traces, archive, snapshots, sessions>>
progress == <<events, seen>>
history == <<recorded, pruned, disturbed>>
runVars == <<pipeline, evaluator, disk, progress, history>>

Ids == 1..MaxTasks
Orchestrator == <<"orchestrator">>
Attempt(t, n) == <<"attempt", t, n>>
Analyzer(t) == <<"analyzer", t>>
Batch(n) == <<"merge_batches", n>>    \* the evaluation of what start n merged
Eval == <<"eval">>
MovedEval(n) == <<"eval", n>>         \* archive/traces/eval_{ts}
Of(t) == {Analyzer(t)} \cup {Attempt(t, n) : n \in 1..MaxAttempts}
Keys == {Orchestrator, Eval} \cup (UNION {Of(t) : t \in Ids})
          \cup {Batch(n) : n \in 1..MaxStarts} \cup {MovedEval(n) : n \in 1..MaxStarts}

Terminal == {"completed", "deleted"}
Put(f, k, v) == [x \in DOMAIN f \cup {k} |-> IF x = k THEN v ELSE f[x]]
Without(f, S) == [x \in DOMAIN f \ S |-> f[x]]

\* The categories of the page (_load_run_data) and of a snapshot (_categorize_trace).
Categories == {"orchestrator", "workers", "analyzers", "eval", "merge_eval", "other"}
Category(k) ==
  CASE k = Orchestrator -> "orchestrator"
    [] k[1] = "attempt" -> "workers"
    [] k[1] = "analyzer" -> "analyzers"
    [] k[1] = "eval" -> "eval"
    [] k[1] = "merge_batches" -> "merge_eval"
SnapshotCategory(k) == IF k[1] = "merge_batches" THEN "other" ELSE Category(k)

Usage(files) == MapThenSumSet(LAMBDA k : traces[k], files)

RunInit ==
  /\ starts = 0 /\ stage = "down"
  /\ dag = <<>> /\ max_id = 0 /\ doomed = {} /\ agents = <<>>
  /\ evaluator = <<>>
  /\ traces = <<>> /\ archive = <<>> /\ sessions = <<>>
  /\ snapshots = [c \in Categories |-> 0]
  /\ events = <<>> /\ seen = {}
  /\ recorded = [c \in Categories |-> 0] /\ pruned = {} /\ disturbed = FALSE

---------------------------------------------------------------------------
(* Starts of the pipeline, and prepare_fresh_run() *)

\* The orchestrator's and the pruned tasks' traces, and the directories that are emptied.
Found(ids) ==
  {k \in DOMAIN traces : k = Orchestrator \/ k[1] \in {"eval", "merge_batches"} \/ \E t \in ids : k \in Of(t)}

Start(fresh) ==
  /\ stage = "down" /\ starts < MaxStarts
  /\ starts' = starts + 1
  /\ stage' = IF fresh /\ sessions # <<>> THEN "prune" ELSE "ready"
  /\ UNCHANGED <<dag, max_id, doomed, agents, evaluator, disk, progress, history>>

\* Terminal tasks leave the file of the DAG first.
Prune ==
  /\ stage = "prune"
  /\ LET ids == {t \in DOMAIN dag : dag[t].status \in Terminal}
     IN  /\ dag' = Without(dag, ids)
         /\ doomed' = ids /\ pruned' = pruned \cup ids
  /\ stage' = "snapshot"
  /\ UNCHANGED <<starts, max_id, agents, evaluator, disk, progress, recorded, disturbed>>

\* Variant with a bug: the evaluations of merges are deleted unsnapshotted.
SnapshotLess ==
  /\ stage = "snapshot"
  /\ LET files == {k \in Found(doomed) : k[1] # "merge_batches"}
     IN  snapshots' = [c \in Categories |-> snapshots[c] + Usage({k \in files : SnapshotCategory(k) = c})]
  /\ doomed' = Found(doomed)
  /\ stage' = "delete"
  /\ UNCHANGED <<starts, dag, max_id, agents, evaluator, traces, archive, sessions, progress, history>>

\* The usage of everything that is about to be deleted is written down.
Snapshot ==
  /\ stage = "snapshot"
  /\ snapshots' = [c \in Categories |-> snapshots[c] + Usage({k \in Found(doomed) : SnapshotCategory(k) = c})]
  /\ doomed' = Found(doomed)
  /\ stage' = "delete"
  /\ UNCHANGED <<starts, dag, max_id, agents, evaluator, traces, archive, sessions, progress, history>>

\* Then it goes: the orchestrator's trace, the tasks' one by one, the directories;
\* evaluations, which nothing else archives, are moved.
Order(k) == IF k = Orchestrator THEN 1 ELSE IF k[1] \in {"eval", "merge_batches"} THEN 3 ELSE 2

Delete(k) ==
  /\ stage = "delete" /\ k \in doomed /\ \A d \in doomed : Order(k) <= Order(d)
  /\ doomed' = doomed \ {k}
  /\ traces' = Without(traces, {k})
  /\ archive' = IF k = Eval THEN Put(archive, MovedEval(starts), traces[k]) ELSE archive
  /\ UNCHANGED <<starts, stage, dag, max_id, agents, evaluator, snapshots, sessions, progress, history>>

Prepared ==
  /\ stage = "delete" /\ doomed = {}
  /\ stage' = "ready"
  /\ UNCHANGED <<starts, dag, max_id, doomed, agents, evaluator, disk, progress, history>>

Event(type) == [type |-> type, start |-> starts]

\* What was left in progress is pending again.
Reset == [t \in DOMAIN dag |-> IF dag[t].status = "in_progress" THEN [dag[t] EXCEPT !.status = "pending"] ELSE dag[t]]

\* The session is logged, the coordinator initialized, the orchestrator's trace resumed.
Open ==
  /\ stage = "ready" /\ stage' = "up"
  /\ sessions' = Append(sessions, Event("start"))
  /\ dag' = Reset
  /\ agents' = Put(<<>>, Orchestrator, IF Orchestrator \in DOMAIN traces THEN traces[Orchestrator] ELSE 0)
  /\ UNCHANGED <<starts, max_id, doomed, evaluator, traces, archive, snapshots, progress, history>>

\* The end of run(), also after an exception.
Stop ==
  /\ stage = "up" /\ stage' = "down"
  /\ sessions' = Append(sessions, Event("stop"))
  /\ dag' = Reset
  /\ agents' = <<>>
  /\ UNCHANGED <<starts, max_id, doomed, evaluator, traces, archive, snapshots, progress, history>>

\* The process is killed.
Killed ==
  /\ stage # "down" /\ stage' = "down"
  /\ agents' = <<>> /\ doomed' = {}
  /\ disturbed' = (disturbed \/ stage \in {"snapshot", "delete"})
  /\ UNCHANGED <<starts, dag, max_id, evaluator, disk, progress, recorded, pruned>>

---------------------------------------------------------------------------
(* The pipeline at work *)

AddTask ==
  /\ stage = "up" /\ max_id < MaxTasks
  /\ dag' = Put(dag, max_id + 1, [status |-> "pending", attempts |-> 0])
  /\ max_id' = max_id + 1
  /\ UNCHANGED <<starts, stage, doomed, agents, evaluator, disk, progress, history>>

\* An attempt is numbered by those that had a result; its worker has a new trace.
Dispatch(t) ==
  /\ stage = "up" /\ t \in DOMAIN dag /\ dag[t].status = "pending" /\ dag[t].attempts < MaxAttempts
  /\ dag' = [dag EXCEPT ![t].status = "in_progress"]
  /\ agents' = Put(agents, Attempt(t, dag[t].attempts + 1), 0)
  /\ UNCHANGED <<starts, stage, max_id, doomed, evaluator, disk, progress, history>>

\* The result of an attempt; a failed one gets the task's analyzer to work, which the
\* first of them creates.
Result(t, status) ==
  /\ stage = "up" /\ t \in DOMAIN dag /\ dag[t].status = "in_progress"
  /\ dag' = [dag EXCEPT ![t] = [status |-> status, attempts |-> dag[t].attempts + 1]]
  /\ LET rest == Without(agents, {Attempt(t, dag[t].attempts + 1)})
     IN  agents' = IF status = "failed" /\ Analyzer(t) \notin DOMAIN agents
                   THEN Put(rest, Analyzer(t), 0) ELSE rest
  /\ UNCHANGED <<starts, stage, max_id, doomed, evaluator, disk, progress, history>>

\* The orchestrator has a failed task tried again, or gives it up.
Replan(t, status) ==
  /\ stage = "up" /\ t \in DOMAIN dag /\ dag[t].status = "failed"
  /\ dag' = [dag EXCEPT ![t].status = status]
  /\ UNCHANGED <<starts, stage, max_id, doomed, agents, evaluator, disk, progress, history>>

\* A merge is evaluated.
EvaluateMerge ==
  /\ stage = "up" /\ Batch(starts) \notin DOMAIN agents
  /\ agents' = Put(agents, Batch(starts), 0)
  /\ UNCHANGED <<starts, stage, dag, max_id, doomed, evaluator, disk, progress, history>>

\* What a save adds to the calls in a file, less what it replaces.
Count(k) == IF k \in DOMAIN traces THEN traces[k] ELSE 0
Spent == MapThenSumSet(LAMBDA c : recorded[c], Categories)
Saved(k, n) ==
  /\ Spent < MaxCalls
  /\ traces' = Put(traces, k, n)
  /\ recorded' = [recorded EXCEPT ![Category(k)] = (@ + n) - Count(k)]

\* An agent makes a call and saves its trace, in the archive too.
Call(k) ==
  /\ k \in DOMAIN agents
  /\ agents' = [agents EXCEPT ![k] = @ + 1]
  /\ Saved(k, agents[k] + 1)
  /\ archive' = Put(archive, k, agents[k] + 1)
  /\ UNCHANGED <<starts, stage, dag, max_id, doomed, evaluator, snapshots, sessions, progress, pruned, disturbed>>

---------------------------------------------------------------------------
(* An evaluation of the run, which writes traces/eval and nothing else *)

Evaluate ==
  /\ evaluator = <<>> /\ sessions # <<>>
  /\ evaluator' = <<0>>
  /\ UNCHANGED <<pipeline, disk, progress, history>>

EvalCall ==
  /\ evaluator # <<>>
  /\ evaluator' = <<evaluator[1] + 1>>
  /\ Saved(Eval, evaluator[1] + 1)
  /\ disturbed' = (disturbed \/ stage \in {"snapshot", "delete"} \/ (evaluator[1] > 0 /\ Eval \notin DOMAIN traces))
  /\ UNCHANGED <<pipeline, archive, snapshots, sessions, progress, pruned>>

EvalEnds ==
  /\ evaluator # <<>>
  /\ evaluator' = <<>>
  /\ UNCHANGED <<pipeline, disk, progress, history>>

---------------------------------------------------------------------------
(* The visualizer *)

\* Variant with a bug: a trace that is archived is scanned in traces/ again.
ToScanTwice == ((DOMAIN archive) \X {"archive"}) \cup ((DOMAIN traces) \X {"traces"})

\* The archive first, then what is only in traces/.
ToScan == ((DOMAIN archive) \X {"archive"}) \cup ((DOMAIN traces \ DOMAIN archive) \X {"traces"})

Events(k) == IF k \in DOMAIN events THEN events[k] ELSE 0

\* _compute_progress_data(): files the cache has are not read again, those that are
\* gone are forgotten, what was read of them stays.
Scan ==
  LET new == {f \in ToScan : f[1] \notin seen}
  IN  /\ ToScan # {}
      /\ events' = [k \in DOMAIN events \cup {f[1] : f \in new} |->
                      Events(k) + Cardinality({f \in new : f[1] = k})]
      /\ seen' = {f[1] : f \in ToScan}
  /\ UNCHANGED <<pipeline, evaluator, disk, history>>

\* build_progress_data(fresh=True) begins with an empty cache.
Rescan ==
  /\ events # <<>> /\ events' = <<>>
  /\ seen' = {}
  /\ UNCHANGED <<pipeline, evaluator, disk, history>>

\* _load_run_data(): what traces/ and the snapshots add up to.
Shown(c) == Usage({k \in DOMAIN traces : Category(k) = c}) + snapshots[c]

\* Variant with a bug: a start that follows one without a stop is ignored.
SessionsShownFromFirst ==
  {<<sessions[q[1]], sessions[q[2]]>> : q \in
     {p \in (1..Len(sessions)) \X (1..Len(sessions)) :
        /\ p[1] < p[2] /\ sessions[p[2]].type = "stop"
        /\ \A m \in p[1]..(p[2] - 1) : sessions[m].type = "start"
        /\ p[1] = 1 \/ sessions[p[1] - 1].type = "stop"}}

\* _load_sessions(): a stop belongs to the last start before it, if none is between.
SessionsShown ==
  {<<sessions[i - 1], sessions[i]>> : i \in
     {j \in 2..Len(sessions) : sessions[j].type = "stop" /\ sessions[j - 1].type = "start"}}
SessionOpen == sessions # <<>> /\ sessions[Len(sessions)].type = "start"

---------------------------------------------------------------------------

Preparation == Prune \/ Snapshot \/ (\E k \in doomed : Delete(k)) \/ Prepared
Life == (\E fresh \in BOOLEAN : Start(fresh)) \/ Open \/ Stop \/ Killed
Work ==
  \/ AddTask \/ EvaluateMerge
  \/ \E t \in Ids :
       \/ Dispatch(t)
       \/ \E status \in {"completed", "failed"} : Result(t, status)
       \/ \E status \in {"pending", "deleted"} : Replan(t, status)
  \/ \E k \in DOMAIN agents : Call(k)
Evaluation == Evaluate \/ EvalCall \/ EvalEnds
Visualizer == Scan \/ Rescan

RunNext == Preparation \/ Life \/ Work \/ Evaluation \/ Visualizer

RunSpec == RunInit /\ [][RunNext]_runVars

---------------------------------------------------------------------------
(* Properties *)

RunTypeOK ==
  /\ starts \in 0..MaxStarts /\ stage \in {"down", "prune", "snapshot", "delete", "ready", "up"}
  /\ DOMAIN dag \subseteq 1..max_id /\ max_id \in 0..MaxTasks
  /\ DOMAIN agents \cup DOMAIN traces \cup DOMAIN archive \cup DOMAIN events \subseteq Keys

\* No call is lost from the statistics of a run, nor counted twice, whatever was pruned
\* and deleted since, unless a preparation was cut short or an evaluation went on through
\* it (prepare_fresh_run, _load_run_data).  Merges change their category.
UsageCounted ==
  ~disturbed /\ stage \in {"down", "ready", "up"} =>
    /\ \A c \in Categories \ {"merge_eval", "other"} : Shown(c) = recorded[c]
    /\ Shown("merge_eval") + Shown("other") = recorded["merge_eval"]

\* An id names one task for ever, so that archived traces of one are never taken for
\* another's: "Preserve max_id so new task IDs don't collide" (archive.py).
IdsNotReused == pruned \cap DOMAIN dag = {}

\* A session that is shown begins and ends with the same process, whatever was killed
\* before (_log_session_event, _load_sessions).
SessionsAreOwn == \A s \in SessionsShown : s[1].start = s[2].start

\* The timeline counts every trace at most once, although it is read in two places and
\* over many scans (_compute_progress_data).  Evaluations change their place.
TimelineOnce == \A k \in DOMAIN events \ {Eval} : events[k] <= 1

\* The docs and comments that the code does not keep.

\* Docstring of _categorize_trace: it is in sync with the visualizer.
CategoriesInSync == ~disturbed /\ stage = "up" => \A c \in Categories : Shown(c) = recorded[c]

\* Docstring of prepare_fresh_run: traces of pruned tasks are deleted.
PrunedLeaveNoTrace == stage = "up" => \A t \in pruned : Of(t) \cap DOMAIN traces = {}

\* Docstring of _compute_usage_snapshot: all the visualizer needs after deletion.
UsageAlwaysCounted ==
  stage = "up" => MapThenSumSet(Shown, Categories) = MapThenSumSet(LAMBDA c : recorded[c], Categories)

\* Comment in _compute_progress_data: archive/traces accumulates the full history.
ArchiveKeepsUsage ==
  [][\A k \in DOMAIN archive : archive'[k] >= archive[k]]_runVars

\* Comment in _load_sessions: a start without a stop is of a pipeline that is running.
OpenIsRunning == SessionOpen => stage = "up"

\* An evaluation is counted once in the timeline.
EvaluationOnce ==
  \A n \in 1..MaxStarts : ~({Eval, MovedEval(n)} \subseteq DOMAIN events /\ stage = "up" /\ Eval \notin DOMAIN traces)
=============================================================================
