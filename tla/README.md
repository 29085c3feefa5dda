# TLA+ models and proofs of autoform-bot

This directory specifies the core of the repository: the task DAG and the runner
that executes it, the processes of a run with their start and end, the merge queue
that lands the agents' work on `main`, the orchestrator's rounds, the agents with
their conversations, tools and servers, and the evaluation, dependency graph and
statement extraction around them. The modules are translated from the Python
sources; TLC checks them on small instances and TLAPS proves the main safety
properties for every value of the constants. `PROJECT.json` lists, for every
definition, the source lines it stands for.

## The system

An *orchestrator* agent plans a DAG of tasks. `DAGRunner` dispatches ready tasks
to an executor; a worker lets one or several agents work on a task, each in its
own git worktree; the work of an agent reaches `main` through the merge queue; what
landed is evaluated; outcomes go back to the DAG and, as reports, to the orchestrator.

| Component | State | Operations | Interaction |
|---|---|---|---|
| `ItemTracker` (core/tracker) | items: status, attempts, both directions of the dependency edges; `_next_id`, `_max_id_ever`; dag.json | add, update, ready, mark_in_progress, record_result, bulk_transition | called by the runner on the event loop, and by tools on threads |
| `ConstrainedTracker` and its server (bot/tools/task_tracker) | none of its own; the tracker's lock | guarded add, update, delete (purge when never attempted); dispatch_ready, dispatch_task | tools of agents; the lock is taken by tools only, never by the runner |
| `DAGRunner` (core/coordination/dag_runner.py) | `_running`, its coroutines, pause flag | run loop, dispatch, handle result, pause, resume | executor interface; wakes the orchestrator with reports |
| `main.py`, workspaces (bot/workspace.py, core/workspace.py), garbage collection | repository, frozen packages, who was signalled | prepare, build, signal, initialize, shut down, exit | spawns the local worker; answers workers that check in |
| `DistributedExecutor` (core/coordination/multinode) | `_node_capacity`, `_pending`, `_task_rank`, `_unacked` | start, run, listener round, ACK deadline, declare dead, shutdown | ROUTER/DEALER channels to the worker nodes |
| `WorkerNode`, `LeanWorkerNode`, `create_lean_pool` | agent pool, worktrees, tasks in flight, restart count | wait, make worktrees under a lock file, register, ACK, execute, answer, restart | the same channels; merge client |
| `ConcurrentAgents` | merge lock, agent futures | race several agents, merge the first success, cancel the rest | submits to the merge queue |
| `MergeQueue` (core/coordination/merge_queue.py) | queue of requests, staging worktree, futures | collect, rebase, stage, build, land, bisect, defer | git worktrees; ZMQ server and client in front |
| `LeanCoordinatorNode`, trace analysis, archive | report queue, orchestrator agent, analyses, reports, skill folders | rounds, archive, analyse, restart | runner and reports; notices of evaluated merges |
| Merge evaluation (bot/merge_eval.py) | goals.json, fix tasks | assess a landed commit, record, triage, notify | merge queue's callback; report queue |
| Agent loop (core/agent/loop.py), traces | conversation, message queue, call lock, trace and its archive | call, stream, drain, compact, resume | every agent; web UI; inference client |
| Inference clients (core/inference) | messages, system prompt, names of calls | send, append, sanitize, retry, report truncation | agent loop; tool runtime |
| Tool runtime (core/mcp) | sessions per server, files of long results | discover, call in groups, evict, restart, persist, close | agent loop; servers |
| REPL pool (core/process/pool.py, tools/execution/lean/repl) | queue of calls, sessions, processes | submit, cancel, restart, shut down | threads, pipes |
| Rendezvous servers (core/process/server.py) | address file, counter, lock file | start, join, reconnect, close | processes of all agents |
| Language servers (tools/execution/lsp, lean/lsp, lean/native_lsp) | session cache, requests waiting, reader thread, diagnostics | start, check, ask, dispatch, close | threads, pipe |
| Evaluation (autoform/eval, bot/eval_process.py) | slots, assessments, report | gate, match, correct, judge, vote, inherit, report, transfer | dependency graph; goals.json; visualizer |
| Dependency graph (autoform/eval/dependency_graph) | nodes, memo of closures | parse, close, alert, collect a cone | judges' tools |
| Statement extraction (autoform/statement_extraction) | chunks, reports, lists | cut, read k times, agree, review, merge, write | language models |
| Files of a run (main.py, bot/archive.py, visualizer) | traces, archive, snapshots, session log | fresh start, prune, evaluate, scan, show | several processes through files |

Prompts, formats of providers, configuration, rendering of the web views, file and
shell tools hold no state of this kind; `PROJECT.json` lists them with the reason.

### What is hard

* Three kinds of actors change the DAG: the runner, the orchestrator's dispatch
  tools, and tools on threads of their own whose check and write are two steps for
  everyone who does not take the lock.
* `executor.run()` may wait long for a worker; `on_dispatched` is called when
  it has one. Between dispatch and hand-over a task looks untouched.
* Messages between the executor and the workers name a task and no attempt, so
  late ACKs and late results of one attempt meet the next one. A worker that is only
  slow is declared dead, restarts and registers again.
* Workers are spawned before their workspace exists, make worktrees in a shared
  repository, and may be dead, asleep or waiting for a lock when the run ends.
* The merge queue builds a batch once and bisects when the build fails; while it
  bisects, some halves land and others still have to be tested on the new main.
* Git commands fail or time out in the middle of each of these steps, agents
  are cancelled while their request is in the queue, and the coordinator restarts.
* Agents that race for a task are cancelled at any of their awaits; a cancelled
  waiter that was woken must hand the lock on, a request that is out cannot be recalled.
* Reports are written, archived and deleted while rounds run and analyses end;
  evaluations of landed commits end in any order.
* A conversation must stay well formed through dropped calls, cut answers, broken
  streams, retries, compaction and restarts, in four clients that keep it differently.
* Servers are shared by processes through files, and by threads through one pipe;
  everyone may die anywhere, and answers come late.

### What makes each component correct

* Tracker: both directions of every edge agree; ids are never handed out twice.
* Runner: one coroutine per task, nobody left `in_progress`, ready tasks
  dispatched, one life cycle.
* Start and end: nobody works before the packages are frozen and its worktrees are
  there; worktrees are added one at a time; the end comes to an end.
* Executor: the tables of a call agree, what is lost is noticed, every call returns.
* Concurrent agents: one request out per node, a lock that is never lost, agents
  handed out only when idle, every run returns.
* Merge queue: `main` always builds; nothing is reported as merged that is not
  in it; nobody innocent is rejected; every request gets a verdict.
* Coordinator: no report is read in two rounds, no outcome is untold, verdicts of
  goals are of the batch they name.
* Agents: requests and results are paired, messages heard, facts remembered,
  archives only grow, calls return.
* Servers and pools: answers are one's own, one server, none left, all calls served.
* Evaluation: every target is reported, passes are earned, verdicts are one's own.
* Graph and extraction: what a declaration depends on is found; what all readers
  report is written.
* Files of a run: usage, timeline and sessions count everything once.

## Modules

| Module | Models | How it corresponds to the code |
|---|---|---|
| `ItemTracker` | core/tracker/core.py | `status`, `attempts`, `dependsOn`, `dependents`, `nextId`, `maxIdEver`; one action per operation that changes an item. `born` is history. `Reload` is a new process reading dag.json, with the reset of tasks in progress. |
| `ConstrainedTracker` | bot/tools/task_tracker | `tool` is the call that holds the lock after its check. The check, the look at the status, the reset of a failed task and the mark or purge are separate steps, because the runner takes no lock. |
| `DagRunner` | core/coordination/dag_runner.py and its surroundings | composes the two above. `waiting` and `executing` count the coroutines of a task before and after `on_dispatched`; `settling` is the result of a coroutine that is off `_running` and has not recorded it yet (lines 174 and 175). A dispatching call reads `ready()`, looks each task up in `_running` and starts coroutines one at a time; `listed` and `chosen` are what it has read so far. A dispatch tool does so on a thread, between any two steps of the coroutines; the loop's own dispatch is never interrupted by a coroutine. `busy` and `reported` are the orchestrator's turns: its tool calls are made one after the other, and the loop does not dispatch during a turn. The attempt number a worker is given is left out. |
| `TaskLifecycle` | abstract | the life of one task as docs/pipeline/bot.md tells it: offered, held, completed, failed, retried, deleted. What a dispatcher or an editor has seen of a task may be out of date when it acts, so it is state (`wanted`, `reopening`, `retracting`), and a result that is in and not recorded is too (`ended`). `DagRunner` implements it. |
| `MergeQueue` | core/coordination/merge_queue.py with core/worktree.py | a *world* says which changes conflict and which trees do not build; trees are sets of changes. `phase` is the place in `_process_batch`; bisection is a stack of halves still to be tested. `Throw` is an exception, `Abandon` a cancelled agent whose worktree changes, `Crash` a restart of the coordinator. |
| `DistributedExecutor` | core/coordination/multinode with bot/worker_node.py | the coordinator's four tables, one channel in each direction per worker, the workers' jobs. `Round` is one pass of `_listen`, with the deadline check in its place between ACKs and results. |
| `Startup` | bot/main.py, zmq_queue.py, nodes.py, bot/pool.py, workspaces, gc_worktrees.py | `boss` and `place` say where rank 0 and each worker are; `told` and `posted` are what is in a worker's open socket and on its way to rank 0, `buffer` what rank 0 put back; `trees` and `holder` are the worktrees on disk and the lock file. A task and its result are one message each. |
| `ConcurrentAgents` | core/coordination/concurrent_agents.py with bot/concurrent.py and the ZMQ ends of merge_queue.py | the runs of one node, the stage of each agent, asyncio's lock (`locked`, `waiters`, `woken`), the client's `counter` and `pending`, requests in a sending thread, at the coordinator and answered. The queue itself is one step, `Verdict`. `Leave` and `Reinitialize` are a restart of the node; `orphans` are workflows that outlive it. |
| `OrchestratorRounds` | bot/coordinator.py, analysis.py, archive.py | rounds with their prompt, reports as files with the number of their writing, trace analyses, archives, skill folders; the DAG is seen through statuses. A crash keeps the files only. |
| `MergeEvaluation` | bot/main.py `_on_batch_merged`, bot/merge_eval.py | one coroutine per landed batch; commits are numbered; what a language model answers is any answer. |
| `Coordinator` | the process of both | composes them through the report queue and the DAG; `CreateFix` is a triage agent's fix task. |
| `AgentLoop` | core/agent/loop.py, traces, bot/archive.py | the exchange lock with its holder and waiters, the queue of interactive messages and its consumer, turns, cut answers, compaction, failures, the trace file and the archive with its count in memory, a new process. |
| `ToolRuntime` | core/mcp | sessions of several servers, groups of calls, deaths noticed by the next call, one restart, files of long results, closing. |
| `Conversation` | core/agent/loop.py `call`, `call_streaming` with the four clients | composes `ToolRuntime`: what each client appends of an answer, cleans up, sanitizes, retries and reports; items have the ids of their calls and the facts they tell. `Idless` are the agents whose server gives tool calls no ids, for which the OpenAI client makes up `call_0`, `call_1` and so on in every answer. |
| `ReplPool` | core/process/pool.py, tools/execution/lean/repl | threads, sessions and processes with pipes; environments are numbers per process. |
| `RdvServer` | core/process/server.py and its subclasses | address file, counter, lock file, clients of three kinds (`base`, `lsp`, `repl`); crashes, deaths and lock timeouts are mishaps. |
| `LspSession` | tools/execution/lsp, lean/lsp, lean/native_lsp | manager, session, process, reader thread; requests and texts are numbered in the order they are sent. |
| `Evaluation` | autoform/eval, bot/eval_process.py, visualizer's stop and transfer | assessments in slots, matching with corrections, votes, inheritance along the graph, the report and its way into the goals. A match may have an empty name (`Nameless`), which is judged without the check; names are strings or null. A graph knows some declarations only (`known`): for one it does not know the annotation raises (`FinalizeRaises`), and the evaluation is over without a report. |
| `DependencyGraph` | autoform/eval/dependency_graph, eval/tools/dep_graph | parsing, the memoized search written out as a stack of calls, alerts, and the cone of the other search. `DependsOn`, the least closed set, is the reference definition. |
| `StatementExtraction` | autoform/statement_extraction | chunks of lines, k readers, consensus, review, merging of neighbours, output; statements are intervals of lines with a name. |
| `RunFiles` | bot/main.py, archive.py, tracker purge, visualizer | traces, archive, snapshots of usage, evaluations, session log, timeline, through starts, kills and `--fresh`. |
| `MCCluster`, `MCConcurrentAgents`, `MCConversation`, `MCEvaluation`, `MCJobs`, `MCMergeQueue`, `MCRdvServer` | | instances for TLC: worlds, answers, environments, books. `MCCluster` and `MCJobs` check programs that do not share state in one run: one is chosen at first, the others stay in an initial state. |
| `AgentProofs`, `ClusterProofs`, `ConversationProofs`, `CoordinationProofs`, `CoordinatorProofs`, `EvaluationProofs`, `JobsProofs`, `LeanServerProofs` | | the theorems. `AgentProofs` is about `MergeQueue` and `AgentLoop`; `ClusterProofs` about `DistributedExecutor`, `RdvServer` and `Startup`; `ConversationProofs` about `Conversation` and `ToolRuntime`; `CoordinationProofs` about `DagRunner` and `ConcurrentAgents`; `CoordinatorProofs` about `Coordinator`; `JobsProofs` about `RunFiles`, `DependencyGraph` and `StatementExtraction`; `LeanServerProofs` about `ReplPool` and `LspSession`. |

Definitions under a comment "Variant with a bug" are not part of any
specification. Each is a definition as a plausible bug would have it; with it in
place TLC finds the property that `PROJECT.json` names for it violated, which
shows that the property can fail. Numbers that the code does not have (attempts on
ACKs and results in `DistributedExecutor`, `born` in `ItemTracker`, the writing of a
report, the run of a request, the numbers of facts and texts) exist for properties
only: no guard reads them.

## Runs

| Run | Module | Instance | What it shows |
|---|---|---|---|
| `dag` | `DagRunner` | a chosen and a numeric id, one slot, one attempt, dispatch tools on threads | one coroutine per task, edges that agree, dispatch of ready tasks, the life cycle as a refinement |
| `mq` | `MCMergeQueue` | three agents, one of which submits twice, batches of three, every world with one conflict or one broken tree up to renaming, one mishap | main builds, merged work is in main, every request is answered, only the guilty are rejected |
| `dist` | `MCCluster` | executor: two workers with one agent, three tasks sent once, one restart, one death; start: two workers with two worktrees, one restart, one task each, one failure | lost dispatches are watched, dispatched calls return; agents work only on their own worktrees and frozen packages, the end of a run comes to an end |
| `ca` | `MCConcurrentAgents` | two agents on one task, one on another, two requests each, one restart | one submitter, every run returns |
| `rounds` | `Coordinator` | one task with two outcomes, two processes, one goal, two commits, one evaluation | no report read in two rounds, every outcome told |
| `agent` | `AgentLoop` | an agent of the orchestrator or of a pool, two turns, one cut answer, one overflow, two calls, one message, two processes | requests paired, archive only grows, messages heard, calls return |
| `repl` | `ReplPool` | two threads, two calls, one retry | answers are one's own, no process left, every call settled |
| `rdv` | `MCRdvServer` | two processes, three kinds, one reconnect, two mishaps | one server of the base kind, none left, starts and closes end |
| `turn` | `MCConversation` | four clients in two modes, one of them without ids, two turns (three for two streams), seven answers, one cut, one overflow, one retry, one death, two calls, one restart | calls paired, facts remembered, files of their call or (without ids) a later one, clients closed |
| `lsp` | `LspSession` | two threads, two calls, two starts, one failure | answers and diagnostics are one's own |
| `eval` | `MCEvaluation` | two targets in each order asked for, two judges, one or two slots, declarations the graph does not know and empty names | every target reported, by the progress report at least, passes earned, verdicts in order |
| `jobs` | `MCJobs` | books of two statements in five lines, chunks of three; three declarations in every way; two starts, two tasks, two recorded calls | what all report is written, closures are right, usage, sessions and timeline count once |

Liveness of two components is stated and holds on the same instances, but is not in
a listed run: `EvaluationEnds` (`Evaluation`) and `CallEnds` (`LspSession`).
The type invariants (`TypeOK` and its like) state the domains; those that proofs use
are proved, as part of the inductive invariants.

### Bounds and why they are enough

* `dag`: the dangerous states need a task that is dispatched, purged, added again
  and handed over, or refused and offered again before the refusal is recorded, which one
  chosen id gives, and a second id for allocation and an edge. `MaxAttempts` is 1: a
  refusal counts no attempt, so retries are reached, and a stale dispatch after the
  hand-over gives a second attempt.
* `mq`: a batch of three is the smallest in which bisection has an untested half
  beside a tested one of two; the second request of one agent lets a deferred request
  meet the next batch. Agents that submit once are alike, so worlds are taken up to
  their exchange (`Canonical`), and the worlds of the run have one cause of failure each; that rejections are justified is
  proved for all worlds.
* `dist`: one agent per worker makes every over-dispatch a refusal; three tasks
  give a job lost with the worker, a late result, and one that is refused. Each task
  is sent once (`MaxAttempts` 1), because with two attempts the watch can be lost;
  the theorem covers first attempts under any number. In `Startup`, one worker is the
  local one and one is not; two worktrees make a half-made pool; `MaxReturns` stands
  for `MAX_RESTARTS` 5, and one failure may strike any worker anywhere.
* `ca`: three agents give the merge lock a holder and a queue of two, so a waiter
  can be woken, cancelled or behind a cancelled one; a second request follows a
  rejection.
* `rounds`: two outcomes of one task give a report written while its predecessor is
  read; two processes give a crash in between.
* `agent`, `turn`: a second call follows a broken or compacted first, and a second
  process follows a restart; deaths of servers are folded into the calls that notice
  them.
* `repl`: `MaxRetries` is 1 as in the code; two workers share one queue.
* `rdv`: two processes race for one lock; two mishaps make a crash followed by a
  timeout or a death.
* `lsp`: two threads overlap; the second start follows a failed one.
* `eval`: `MaxRetries` is 2 for the code's 3 corrections: one that helps, one that does not.
* `jobs`: five lines in chunks of three with overlaps of two have three chunks and
  every position of a statement to an edge; `MaxLapses` bounds what readers overlook;
  three declarations make the smallest memo that can be incomplete.

Deadlock is checked for `dag` and `mq`, which have the empty step of a polling loop.
The other systems stop when their calls are over; liveness properties
say that nothing stops before.

### Fairness

* `DagRunner`: the run loop (it polls and is woken by results), the event loop
  for every coroutine, the return of the executor for a task a worker has, and a
  tool that holds the lock. Nothing is assumed of the orchestrator's turns, of
  pauses, or of finding a worker; `ReadyDispatched` therefore speaks of runs in
  which the orchestrator's turns, the pauses and the restarts end. A thread in the middle
  of a dispatch or of an edit goes on.
* `MergeQueue`: every step of the queue's own coroutine. Submissions, mishaps
  and crashes are never forced.
* `DistributedExecutor`: `run()` polls, the listener runs, living workers serve,
  and agents end because they have budgets of turns. A deadline may expire at any
  time: the code's synchronous git calls can hold up an event loop beyond it.
* `Startup`: rank 0 goes on (its waits have deadlines), SIGTERM is delivered, git
  commands end, and workers do what they hear; nothing makes a worker be launched,
  or the pipeline end.
* `ConcurrentAgents`: the event loop runs what is ready, threads end their sends, the
  queue gives verdicts (`EveryRequestResolved`), the listener reads, a restart comes to
  its end, and an agent asks for the lock or gives up. Nothing forces a restart.
* `Coordinator`: the loop is woken by its queue and its calls end, analyses run and
  their calls end (agents have budgets); outcomes, evaluations and crashes are not forced.
* `AgentLoop`: the event loop runs the consumer and a call that has the lock or was
  woken; calls of the owner are not forced.
* `ReplPool`: threads run; a process that is asked answers, dies or times out.
* `RdvServer`: a process that starts or closes polls for the lock and the server until
  it has what it waits for or its time is up.
* `Evaluation`: the event loop goes on with some assessment. `LspSession`: every
  calling thread runs, its waits have timeouts. `Conversation`: the loop goes on.

## What the runs found

Statements of the repository's docs, docstrings, comments and prompts that do not hold
of its code. Each is a property in its module with the statement quoted above it, and
listed in a `*_divergences.cfg`; TLC refutes each (it stops at the first, so one is
kept in the file at a time).

| File | Module | Properties | What the code does |
|---|---|---|---|
| `dag_divergences.cfg` | `DagRunner` | `OnlyPendingDispatched`, `CompletedIsFinal` | a dispatch tool on a thread acts on what it read before a refusal, a deletion or a result was recorded: a failed, deleted or completed task is started again (dag_runner.py:118, 174) |
| `dist_divergences.cfg` | `MCCluster` | `EveryDispatchWatched`, `WaitingIsDispatched` | an ACK names no attempt, so a late one ends the watch on the next attempt; a batch applies registrations before older results, so a call may wait for ever |
| | | `AllHeard`, `AllShutDown` | one early "register" is put back and read again until the deadline while "waiting" messages are not read (zmq_queue.py:176, main.py:563), and are dropped later: those workers wait for ever; shutdown tells only known nodes (executor.py:299) |
| | | `FailedStartEnds` | after a failed initial build the local worker waits for "ready" for ever, and Python joins it at exit (main.py:508, 438) |
| | | `AddsAlwaysAlone` | `fcntl.lockf` locks for a process: rank 0's merge queue and merge evaluation do not exclude each other, and the first to close the file drops the lock of both (merge_eval.py:480) |
| `ca_divergences.cfg` | `MCConcurrentAgents` | `NoDuplicateRequest`, `IsolatedWorktrees`, `AnswerIsOwn` | the lock lets a second request of a task through; workflows of a cancelled run go on in worktrees given to others; request ids repeat after a restart (merge_queue.py:616, 641) |
| `rounds_divergences.cfg` | `Coordinator` | `ReportsRead`, `GuidesArchived` | a report that arrives during the call, or before a round that does not load reports, is cleared unread (coordinator.py:272); `sync()` removes the skill folder of a task that is over without archiving it |
| `agent_divergences.cfg` | `AgentLoop` | `ArchiveComplete`, `AllRequestsPaired`, `LeftForTheTurn`, `ConversationSurvives` | the archive compares lengths only (archive.py:92); a task resets its agent while the consumer's call waits for tools, whose results then have no calls; a message of a turn may be taken by the consumer (loop.py:258, 366); entering the agent resets what was loaded from the trace (bot.md:106, loop.py:162) |
| `turn_divergences.cfg` | `MCConversation` | `AllRemembered`, `ResultsRemembered`, `RestartTried`, `CallsPaired`, `FileAlwaysOwn` | the Gemini client cannot restore messages after a failed compaction; summaries see no results of three clients (loop.py:900); after a failed restart no other is tried (repl/server.py:287); late breaks, nameless calls and a caller that leaves a stream leave calls unanswered; without ids from the server the ids repeat in every answer, and a later call overwrites an earlier one's file (openai_api.py:143, tool_runtime.py:236) |
| `lsp_divergences.cfg` | `LspSession` | `DiagnosticsAlwaysOwn`, `LookIsOwn`, `NoServerLeft` | after a timeout or an overlap the diagnostics are of another text (native_lsp/session.py:159); a check sleeps half a second and reads what is there; a failed start leaves its process |
| `rdv_divergences.cfg` | `MCRdvServer` | `OneServerShared`, `AliveForClients`, `StartedIfNotRunning` | REPL and language servers check outside the lock (server.py:100, repl/server.py:254, lsp/server.py:157); the starter's exit kills the server of others; nobody checks a base server's address |
| `eval_divergences.cfg` | `MCEvaluation` | `OwnVerdict`, `RubricsReached`, `AlwaysReported`, `PassedIsChecked` | results sorted by index are paired with goals by position (pipeline.py:490–492, merge_eval.py:144, 168, 363); a failed rubric can be inherited away (docs/pipeline/eval.md:128); `deps` is still a text for a declaration the graph does not know, and an entry that failed on axioms alone makes `assess_targets` raise (pipeline.py:562); an empty name is judged without `#print axioms` (matching.py:139, pipeline.py:138) |
| `jobs_divergences.cfg` | `MCJobs` | `WholeWritten`, `AcceptedIfAllFound`, `ReachableAxiomsKept`, `CategoriesInSync`, `PrunedLeaveNoTrace`, `UsageAlwaysCounted`, `OpenIsRunning`, `EvaluationOnce`, `ArchiveKeepsUsage` | truncated versions win, the closure misses what cycles share (\_\_init\_\_.py:80–89), and snapshots, prunings and evaluations that run on or are scanned in between are counted wrongly (archive.py:159, app.py:1174, 1523) |

Seen while modelling, and part of the models without a property of their own:

* DAG: "never dispatched" is decided by a counter of hand-overs, so a dispatched task
  that waits for a worker can be purged; two legal updates make two tasks depend on
  each other, and such tasks are never ready.
* Merge queue: an exception rejects all of a batch, also what has landed or was deferred.
* Evaluation: the third corrected answer of the matcher is never checked and ends as
  "file_not_built"; stopping with SIGTERM leaves the marker `.evaluating`; evaluating a
  commit again truncates the report `latest` names; two evaluations can be started at
  once; the transfer writes goals.json from another process. A merge evaluation uses
  results without inherited failures.
* Agents: a full turn counter stays until a reset; `except Exception` around compaction
  misses cancellation; without a system prompt compaction drops the first message; a
  stream of the response API never reports truncation; a timed-out call to a server that
  is restarted is run twice.
* Servers: reconnecting counts a client twice and its exit once; a crash between a
  launch and the writing of the address leaves a server nobody finds. Language servers:
  a dead session is kept for ever, an exception in the reader's callback ends the reader.
* Extraction: an overlap of a chunk or more makes the loop endless, which the
  assumption on the constants excludes; equal names in a chunk overwrite each other.
* Files of a run: a kill between the snapshot and the deletion counts twice; restarted
  attempts overwrite traces; the collection at shutdown can delete the worktrees of a run
  whose directory is older than an hour, and prunes without the lock; a start that dies
  between the copy of the template and its commit is resumed as a workspace, and its
  workers end when they find no commit; when `initialize()` fails, `shutdown()` is skipped.

## Proofs

All theorems are about specifications for any value of the constants that satisfies the
named assumptions of their modules. `PROJECT.json` lists them; these are the arguments.

* `CoordinationProofs`, runner. From the inductive invariant `IInv` follow `EdgesAlwaysConsistent`,
  `NeverTwoFlights`, `NoOrphanInProgress` and `AllocatorNeverReuses`; then the action
  property `CompletionNeedsResult`, and `ImplementsLifecycle`: every step is a step of
  `TaskLifecycle` or stutters. The properties alone are not inductive: `DispatchInv` says
  that what a dispatching call has chosen is outside of `_running` and stays so, because
  turns and the loop's dispatch exclude each other; without it a stale choice could start
  a second coroutine. `ToolInv` says what a tool has checked and may still rely on (the
  item and its edges, not its status), `AllocatorInv` that the counters are in step. The
  refinement maps what dispatchers and editors have read to the abstract `wanted`,
  `reopening` and `retracting`, and `settling` to `ended`: a task that was refused may be
  offered again before its failure is recorded, and be handed over after.
* `AgentProofs`, merge queue. `LandingInvariant` says, phase by phase, which tree the
  queue works on: the base it read is the current main, staging is that base with the
  batch or half on it, and what is about to land is exactly the tree that was built.
  `MainAlwaysBuilds` follows because main only moves to such a tree. `MergedAlwaysInMain`
  needs `WorktreesInv` (a worktree's base is in main, its work is its agent's own, lists
  hold submitted requests) and `PickedInv` (what a phase keeps has been picked onto
  staging, in a retest all but what is still to do).
* `AgentProofs`, rejections. `RejectionAlwaysJustified` needs no assumption on the world.
  As long as there was no mishap, `BlameInv` holds: who waits has no verdict and its one
  commit (`FuturesInv`); a request is in one place, once (`ApartInv`); staging is main
  with what was picked (`StagedInv`); what was picked together can be picked again in any
  part (`FitInv`), so a retest never conflicts; and what is bisected, with the halves set
  aside, does not build (`BrokenInv`), so a half that builds leaves the blame in the
  other. A request that is bisected alone is then to blame itself.
* `AgentProofs`, agent. `AgentCallersInv`: the holder of the exchange lock, its waiters
  and who calls agree. `ConversationInv`: between turns the conversation is paired; while
  tools run it is paired but for its last calls; during a compaction the copy that would
  be put back is paired. `ArchiveInv`: a trace nothing is known of has no archive.
  `RequestsAlwaysPaired` and `ArchiveAlwaysGrows` follow.
* `CoordinationProofs`, racing agents. `LockInv` orders the queue of the merge lock: it holds the
  waiting agents, each once, only its head can be woken and only while the lock is free,
  and then there is no submitter. Without that last conjunct a woken waiter could submit
  beside a holder; without the order a waiter that leaves could take another's wake-up.
  `TeamsAlwaysDisjoint` and `MergedAlwaysHasLanded` follow from the types of runs and
  requests. `RemoveAtElements` and `DequeueElements` say what leaving the queue keeps.
* `CoordinatorProofs`. Names in the archive are unique per round, cleared reports are
  older than any to come, and an evaluation that has recorded its verdicts is of a landed
  commit; hence `NeverReadAgain`, `ClearedIsFiled`, `NoticesComeAfterVerdicts` and
  `VerdictsAreOfBatches`.
* `ClusterProofs`, executor. Every way a call ends goes through the same three removals
  (`ReturnKeepsTables`), so the tables agree. For `LostDispatchAlwaysWatched`: until its
  first dispatch no worker has seen a task; then it waits at its worker with no restart
  behind it and an open ACK, or runs with no restart behind it, or is reported, until its
  call returns or the worker dies. That is an invariant of first attempts only, because
  an ACK names no attempt.
* `ClusterProofs`, rendezvous servers. `LockInv`: the lock file is held by exactly who
  launches. `BaseInv`, for the kind whose address file alone decides: a client launches
  once, a running server of a live client past the writing of the address is the
  advertised one, who counts down and kills is its starter and still advertised, the
  counter exists with the address, and a closed server does not run unless something went
  wrong. `AlwaysOneServer` and `NeverAServerLeft` follow.
* `ClusterProofs`, start and end. `SignalInv`: before rank 0 signals, nobody was told
  anything, and whoever is past "ready" was signalled. `FrozenInv`: from the build on the
  packages are frozen. `AddingInv`: the lock is held by exactly the worker that adds, or
  by rank 0. `TreesInv`: a worker that leaves the lock has all its worktrees, and they
  stay until rank 0 cleans up. `AlwaysOnOwnTrees` needs all but the third, because
  only the signals keep workers from the lock before the collection; `WorkersAddAlone` is
  the third.
* `EvaluationProofs`. Assessments fit their places; results are injective in the
  assessments that are over, and when all are collected this injection is a bijection
  (pigeonhole), so sorting by rank is a permutation: `EveryTargetAlwaysReported`. In a
  list in order, counting the smaller indices pins the position of each result:
  `OwnVerdictsInOrder`. `ReportInv` says that a book's report has all of them as soon as they
  are collected, which is what is left when the annotation raises. `PassedAlwaysEarned`
  follows a declaration from its check, or an empty name without one, to its entry; an
  empty name is in no graph, so it inherits nothing. `RootAlwaysRemains` takes a minimal down-set in a finite acyclic
  transitive graph.
* `JobsProofs`, dependency graph. A call's result is closed but for what it has still to
  visit and what calls below it will find; what is remembered is closed where nothing
  depends on itself. `FoundIsDependedOn` holds with cycles, `DependedOnIsFound` without,
  by the leastness of `DependsOn`; `ClosureIsCorrect` joins them. Calls on the stack are
  of different nodes, so `DepthIsBounded` is a pigeonhole.
* `JobsProofs`, extraction. `ChunkInv`: chunks are one step apart and cover the book.
  `ListInv`: lists come from reports. `CareInv`: what all readers of a chunk reported is
  kept in some chunk up to the one merged last; "in some chunk up to here" makes an
  induction over chunks unnecessary. `FoundByAllIsWritten` and `EachIsWrittenOnce` follow.
* `JobsProofs`, files of a run. `SessionsInv`: while the pipeline is up, the last event
  of the log is its own start. `TimelineInv`: every trace but an evaluation's is in
  the archive too, and what was counted has been seen. `IdsNeverReused` is the tracker's
  high-water mark through prunings.
* `JobsProofs`, statistics. `StatisticsAlwaysCount` compares sums over sets of traces.
  `TotalIsComputed` states the fold's sum without the fold, and the sums of a set, of a set
  without one element and of two disjoint sets are related through a minimal subset that
  is wrong (`HasMinimal`, from the well-foundedness of strict inclusion among finite sets),
  which needs no induction theorem. `UsageInv` then goes through every save, deletion and
  snapshot: until a preparation is killed or meets an evaluation, what is kept and what was
  saved of the deleted add up to what was recorded.
* `ConversationProofs`. `SessionsKept` says where the loop and a group of tool calls are
  and which sessions are open; hence `NoClientEverLeft`. `DataInv` types conversation,
  calls and files: results are those of the first calls of the group, with their ids
  (`BatchInv`), a file's name is the id of the call whose output it holds (`DiskInv`), and
  an item names only files that are there and whose output is its call's or a later one's
  (`TextInv`); hence `FileIsAlwaysOwn`. Where the ids are made up in every answer the third
  needs that the calls under execution have ids of their own among themselves and numbers
  above those of the files they may overwrite (`OfOne`), so files only move on (`Grows`). `MemoryInv` says what
  the conversation, or while a summary is made its copy, still tells; hence
  `AlwaysRemembered`. `PairsInv` says where the conversation is paired, and that while
  tools run only the group's calls hang (`HangingOn`): `Paired` is shown to survive
  appending, truncation at a pair and the cleaning of a trace whose last calls hang.
  Hypotheses are named: `NamedCalls` (calls of the Response API have names), `WholeAnswers`
  (no stream of the Response API breaks after an answer with calls is complete), and a system
  prompt (`Prompted`). They hold in the instance of `turn.cfg`; without the first two
  `turn_divergences.cfg` refutes `CallsPaired`.
* `LeanServerProofs`, pool of REPLs. Only a worker that waits has a command with its process or in the
  pipe, and that is its own, sent in the header's environment; a process has loaded the
  header unless it is being started. `AnswersAreOwn`, `CommandsHaveImports` and
  `NoProcessLeft` follow.
* `LeanServerProofs`, session of a language server. `Keeping`: whoever starts a session
  has the lock and there is none, so nobody waits for an answer when ids begin anew.
  `GivenIds` and `KnownById`: every id under way was given before, waiting requests have
  different ones, and what is asked, on the way back or stored with a waiting request's
  id is of that request; `AnswersOwned` follows. Diagnostics carry no id:
  `DiagnosticsOwned` needs `OneCheck` (an undisturbed check is alone, and once the event
  is set the last diagnostics are of its text) and `OwnText` (all texts at the server and
  messages about texts are its own, "done" is the last of them and comes after the
  diagnostics). A timeout ends both, and `DiagnosticsAlwaysOwn` is refuted.

Proved and not repeated in a run: `InProgressOwned`, `AutoIdFresh`, `BookkeepingAgrees`,
`NoLostWakeup`, `TeamsDisjoint`, `MergedHasLanded`, `FiledKept`, `NoticeAfterVerdicts`,
`VerdictOfBatch`, `OnBase`, `RecursionFits`, `ClosureSound`, `ClosureComplete`,
`AlertsAgree`, `EachOnce`, `IdsNotReused`, `RootRemains`, `AddsAlone`.

Only model-checked:

* everything under fairness (`ReadyDispatched`, `EveryRequestResolved`, `DispatchReturns`,
  `RunEnds`, `RunReturns`, `OutcomeTold`, `MessageHeard`, `CallReturns`, `Served`,
  `StartEnds`): liveness and ENABLED are outside TLAPS;
* what a recursive function computes for every input, because the induction theorems of
  the library cannot be cited: where a proof needs such a fact it takes a minimal
  counterexample instead (the sums of `UsageCounted`, `RootAlwaysRemains`).

Every other property of the passing runs is stated by a theorem. The properties of the
`*_divergences.cfg` are false and have none.

## Plan

The models and the safety proofs of the plan are written. What is left is out of the
provers' reach: the liveness properties above.

## Not modelled

Besides the components listed in `PROJECT.json`: what libzmq does when two threads
use a socket at once, the merge without a queue of the base class, the best_fit strategy
and per-task agent limits, torn or failed saves of dag.json (a save is one step),
agents' behaviour inside a task (a task succeeds or fails), the contents of changes
beyond conflicts and builds, formats of providers and prompts, configuration, the
views of the visualizer, file and shell tools, the control server, and time (deadlines
expire at any moment).
