----------------------------- MODULE DagRunner -----------------------------
(***************************************************************************)
(* DAGRunner (core/coordination/dag_runner.py) over the task DAG, together *)
(* with the other actors that touch the DAG while it runs: the             *)
(* orchestrator's dispatch tools, the tools of every agent, and a restart  *)
(* of the coordinator.  The executor is seen through its interface only    *)
(* (core/coordination/executor.py): run() calls on_dispatched once a       *)
(* worker has the task and returns or raises later, or gives up before.    *)
(*                                                                         *)
(* A dispatched task is a coroutine; there is nothing in the code that     *)
(* makes two coroutines of one task impossible but the _running set, so    *)
(* coroutines are counted per task.  What runs on the event loop is not    *)
(* interrupted by other coroutines, but tools run on threads: the edits of *)
(* ConstrainedTracker between any two accesses of the runner, and the      *)
(* dispatch tools, which take no lock, between any two of its coroutines'. *)
(* The attempt number a worker is given, which names its traces, is left   *)
(* out.                                                                    *)
(***************************************************************************)
EXTENDS ConstrainedTracker, FiniteSets

CONSTANT Slots   \* tasks the executor's workers can hold at once

ASSUME SlotsAssumption == Slots \in Nat

VARIABLES
  running,      \* DAGRunner._running
  waiting,      \* coroutines whose task no worker has yet
  executing,    \* coroutines whose task a worker has
  settling,     \* a coroutine off _running: the result it is about to record
  listed,       \* tasks of ready() that a call of dispatch_ready is going to filter
  chosen,       \* tasks that a dispatching call is going to start
  busy,         \* the orchestrator is in call()
  paused,       \* pause() without resume()
  reported      \* the orchestrator's report queue is not empty

coroutineVars == <<running, waiting, executing, settling>>
runnerVars == <<coroutineVars, listed, chosen>>
vars == <<trackerVars, tool, runnerVars, busy, paused, reported>>

\* A call is dispatching: a tool's while the orchestrator is busy, else the loop's.
Dispatching == listed \cup chosen # {}

\* No coroutine is between two of its accesses.
LoopFree == (Dispatching => busy) /\ \A i \in Ids : settling[i] = "no"

Init ==
  /\ TrackerInit
  /\ tool = NoCall
  /\ running = {}
  /\ waiting = [i \in Ids |-> 0]
  /\ executing = [i \in Ids |-> 0]
  /\ settling = [i \in Ids |-> "no"]
  /\ listed = {} /\ chosen = {}
  /\ busy = FALSE
  /\ paused = FALSE
  /\ reported = TRUE          \* "__startup__"

Verdicts == {"completed", "failed"}

AvailableSlots == Slots - Cardinality({i \in Ids : executing[i] > 0})

---------------------------------------------------------------------------
(* Dispatch *)

\* ready(), read in one step, for items that may be handed out again (MaxAttempts).
Dispatchable == {i \in Ready : attempts[i] < MaxAttempts}

\* One round of run(), up to the list it dispatches from.  The loop's thread alone
\* starts and ends coroutines while the orchestrator is not busy, so _running and
\* the slots do not change meanwhile; rounds that find nothing change nothing.
RunnerDispatch ==
  /\ ~paused /\ ~busy
  /\ LoopFree
  /\ Dispatchable \ running # {}
  /\ AvailableSlots > 0
  /\ chosen' = Dispatchable \ running
  /\ UNCHANGED <<trackerVars, tool, coroutineVars, listed, busy, paused, reported>>

\* The orchestrator's tool dispatch_ready: ready() first.
ToolDispatchReady ==
  /\ busy /\ ~Dispatching
  /\ listed' = Dispatchable
  /\ UNCHANGED <<trackerVars, tool, coroutineVars, chosen, busy, paused, reported>>

\* Variant with a bug: tasks with a coroutine are not left out.
KeepIdleAgain(i) ==
  /\ i \in listed
  /\ listed' = listed \ {i}
  /\ chosen' = chosen \cup {i}
  /\ UNCHANGED <<trackerVars, tool, coroutineVars, busy, paused, reported>>

\* Its list keeps the tasks that are not in _running, looked up one by one.
KeepIdle(i) ==
  /\ i \in listed
  /\ listed' = listed \ {i}
  /\ chosen' = chosen \cup ({i} \ running)
  /\ UNCHANGED <<trackerVars, tool, coroutineVars, busy, paused, reported>>

\* The orchestrator's tool dispatch_task looks at _running first, and then at
\* ready().  Nobody else puts a task into _running meanwhile, so it is one step.
ToolDispatchTask(i) ==
  /\ busy /\ ~Dispatching
  /\ i \in Dispatchable \ running
  /\ chosen' = {i}
  /\ UNCHANGED <<trackerVars, tool, coroutineVars, listed, busy, paused, reported>>

\* _dispatch_one(), as long as there are tasks and slots.  The coroutine is only
\* scheduled.
DispatchOne(i) ==
  /\ listed = {} /\ i \in chosen
  /\ AvailableSlots > 0
  /\ chosen' = chosen \ {i}
  /\ running' = running \cup {i}
  /\ waiting' = [waiting EXCEPT ![i] = @ + 1]
  /\ UNCHANGED <<trackerVars, tool, executing, settling, listed, busy, paused, reported>>

\* No slot is left for the others.
NoSlots ==
  /\ listed = {} /\ chosen # {}
  /\ AvailableSlots = 0
  /\ chosen' = {}
  /\ UNCHANGED <<trackerVars, tool, coroutineVars, listed, busy, paused, reported>>

DispatchStep ==
  \/ NoSlots
  \/ \E i \in Ids : KeepIdle(i) \/ DispatchOne(i)

---------------------------------------------------------------------------
(* The coroutine of a dispatched task *)

\* executor.run() has a worker for the task and calls on_dispatched.
HandOver(i) ==
  /\ LoopFree
  /\ waiting[i] > 0
  /\ AvailableSlots > 0
  /\ waiting' = [waiting EXCEPT ![i] = @ - 1]
  /\ executing' = [executing EXCEPT ![i] = @ + 1]
  /\ MarkInProgress(i)
  /\ UNCHANGED <<tool, running, settling, listed, chosen, busy, paused, reported>>

\* Variant with a bug: the task is not taken out of _running.
DiscardForgets(i, result) ==
  /\ settling' = [settling EXCEPT ![i] = result]
  /\ UNCHANGED <<trackerVars, tool, running, listed, chosen, busy, paused, reported>>

\* _execute_and_handle() after executor.run(): off _running ...
Discard(i, result) ==
  /\ running' = running \ {i}
  /\ settling' = [settling EXCEPT ![i] = result]
  /\ UNCHANGED <<trackerVars, tool, listed, chosen, busy, paused, reported>>

\* ... and then record_result() and the callback, which files a report.
Settle(i) ==
  /\ settling[i] # "no"
  /\ settling' = [settling EXCEPT ![i] = "no"]
  /\ RecordResult(i, settling[i] = "completed")
  /\ reported' = TRUE
  /\ UNCHANGED <<tool, running, waiting, executing, listed, chosen, busy, paused>>

\* executor.run() returns or raises.
Finish(i, result) ==
  /\ LoopFree
  /\ executing[i] > 0
  /\ executing' = [executing EXCEPT ![i] = @ - 1]
  /\ Discard(i, result)
  /\ UNCHANGED waiting

\* executor.run() gives up before a worker had the task: no free agent in the
\* local pool, or no worker node left.
Refuse(i) ==
  /\ LoopFree
  /\ waiting[i] > 0
  /\ waiting' = [waiting EXCEPT ![i] = @ - 1]
  /\ Discard(i, "failed")
  /\ UNCHANGED executing

---------------------------------------------------------------------------
(* The other actors *)

ToolEdit == ToolStep /\ UNCHANGED <<runnerVars, busy, paused, reported>>

\* One round of _orchestrator_loop(): it takes every queued report.
OrchestratorBegin ==
  /\ LoopFree
  /\ ~busy /\ reported
  /\ busy' = TRUE
  /\ reported' = FALSE
  /\ UNCHANGED <<trackerVars, tool, runnerVars, paused>>

\* A turn ends after its tool calls, which are made one after the other.
OrchestratorEnd ==
  /\ LoopFree /\ ~Dispatching
  /\ busy
  /\ busy' = FALSE
  /\ UNCHANGED <<trackerVars, tool, runnerVars, paused, reported>>

Pause ==
  /\ ~paused
  /\ paused' = TRUE
  /\ UNCHANGED <<trackerVars, tool, runnerVars, busy, reported>>

Resume ==
  /\ paused
  /\ paused' = FALSE
  /\ UNCHANGED <<trackerVars, tool, runnerVars, busy, reported>>

\* The coordinator dies or shuts down, and a new one reads dag.json.
Restart ==
  /\ Reload
  /\ tool' = NoCall
  /\ running' = {}
  /\ waiting' = [i \in Ids |-> 0]
  /\ executing' = [i \in Ids |-> 0]
  /\ busy' = FALSE
  /\ paused' = FALSE
  /\ settling' = [i \in Ids |-> "no"]
  /\ listed' = {} /\ chosen' = {}
  /\ reported' = TRUE

---------------------------------------------------------------------------
Next ==
  \/ RunnerDispatch
  \/ ToolDispatchReady
  \/ \E i \in Ids : ToolDispatchTask(i)
  \/ DispatchStep
  \/ \E i \in Ids : HandOver(i)
  \/ \E i \in Ids, result \in Verdicts : Finish(i, result)
  \/ \E i \in Ids : Refuse(i) \/ Settle(i)
  \/ ToolEdit
  \/ OrchestratorBegin
  \/ OrchestratorEnd
  \/ Pause
  \/ Resume
  \/ Restart

Spec == Init /\ [][Next]_vars

\* run() polls at least every five seconds and is woken by every result; the
\* event loop runs every coroutine; the executor returns for every task a worker
\* has; a thread that is in a call goes on.  Nothing is assumed of the
\* orchestrator's turns, of pauses, or of executor.run() finding a worker.
Fairness ==
  /\ WF_vars(RunnerDispatch) /\ WF_vars(DispatchStep)
  /\ \A i \in Ids : /\ WF_vars(HandOver(i)) /\ WF_vars(Settle(i))
                    /\ WF_vars(\E result \in Verdicts : Finish(i, result))
  /\ WF_vars(ToolEdit /\ tool # NoCall)

FairSpec == Spec /\ Fairness
---------------------------------------------------------------------------
TypeOK ==
  /\ TrackerTypeOK
  /\ tool \in ToolCall
  /\ running \subseteq Ids
  /\ waiting \in [Ids -> Nat]
  /\ executing \in [Ids -> Nat]
  /\ settling \in [Ids -> Verdicts \cup {"no"}]
  /\ listed \subseteq Ids /\ chosen \subseteq Ids
  /\ busy \in BOOLEAN /\ paused \in BOOLEAN /\ reported \in BOOLEAN

\* The two directions of every dependency agree, no item depends on an id
\* that is not in the tracker or on itself, and no absent id keeps an edge:
\* interleaved adds, updates and purges leave no half edge behind
\* (core/tracker/core.py add, update; task_tracker/core.py _purge).
EdgesConsistent ==
  \A i, j \in Ids :
    /\ j \in dependsOn[i] <=> i \in dependents[j]
    /\ j \in dependsOn[i] => i # j /\ i \in Items /\ j \in Items

\* A task has a coroutine exactly while it is in _running, and never two:
\* the loop's dispatch and the dispatch tools do not run one task twice, even
\* when the task is deleted and added again meanwhile, or what a dispatch tool
\* has read of the DAG is out of date (dag_runner.py).
SingleFlight ==
  \A i \in Ids : waiting[i] + executing[i] = IF i \in running THEN 1 ELSE 0

\* An item says in_progress only while a worker has the task or its coroutine
\* is about to record the result: no interleaving of tools, failures and
\* restarts leaves a task in_progress that nothing will ever finish.
InProgressOwned ==
  \A i \in Ids : status[i] = "in_progress" => executing[i] > 0 \/ settling[i] # "no"

\* The allocator never hands out an id an earlier item had, whether that item
\* was purged or the process restarted since, so a late report of an old task
\* cannot name a new one (core/tracker/core.py add, _load, _save).
AutoIdFresh == \A n \in born : n < nextId

\* The inductive invariant behind them.  AllocatorInv: the counters are in
\* step, and every item was born below them, so add() without an id never meets
\* an item.  ToolInv: what the holder of the tracker's lock has checked about
\* items and edges still holds; what it has checked about the status may not.
\* DispatchInv: who dispatches has found its tasks outside of _running, and nobody
\* else puts one there meanwhile.
AllocatorInv ==
  /\ nextId = maxIdEver + 1
  /\ Items \cap Numbers \subseteq born

ToolInv ==
  /\ tool # NoCall => tool.id \in Items
  /\ tool.op = "update" => tool.deps \subseteq Items \ {tool.id}

DispatchInv ==
  /\ chosen \cap running = {}
  /\ listed # {} => busy

IInv ==
  /\ EdgesConsistent
  /\ SingleFlight
  /\ InProgressOwned
  /\ AutoIdFresh
  /\ AllocatorInv
  /\ ToolInv
  /\ DispatchInv

\* Only the result of a coroutine that handed its task to a worker makes a
\* task completed.
CompletedByResult ==
  [][\A i \in Ids :
       /\ status[i] # "completed" /\ status'[i] = "completed" => settling[i] = "completed"
       /\ settling[i] # "completed" /\ settling'[i] = "completed"
            => executing[i] > 0 /\ executing'[i] < executing[i]]_vars

\* Once the orchestrator stays idle and nobody pauses the runner, every ready
\* task is dispatched or stops being ready, if no restart comes between: the executor's slots, the tasks that
\* wait for one and the agents' edits do not starve it (dag_runner.py run).  While
\* orchestrator turns follow each other there is no such promise: run() only
\* looks at the DAG when it finds the orchestrator idle.
ReadyDispatched ==
  <>[](~busy /\ ~paused) /\ <>[][~Restart]_vars =>
    \A i \in Ids : (i \in Ready /\ attempts[i] < MaxAttempts)
                      ~> (i \notin Ready \/ waiting[i] + executing[i] > 0)

\* The DAG, its guarded tools and the runner implement the lifecycle of
\* TaskLifecycle: no interleaving of dispatch, tool edits, results and
\* restarts moves a task along any other edge.
Lifecycle == INSTANCE TaskLifecycle WITH
  wanted <- listed \cup chosen,
  offered <- {i \in Ids : waiting[i] > 0},
  held <- {i \in Ids : executing[i] > 0},
  ended <- {<<i, settling[i]>> : i \in {j \in Ids : settling[j] # "no"}},
  reopening <- IF tool.op = "reset" THEN {tool.id} ELSE {},
  retracting <- IF \/ tool.op \in {"mark", "purge"}
                   \/ tool.op \in {"status", "reset"} /\ tool.deletes
                THEN {tool.id} ELSE {}

LifecycleImplemented == Lifecycle!Spec

---------------------------------------------------------------------------
(* What docs and comments suggest and threads break: in no run that passes *)

\* "Dispatch all ready tasks that aren't already running" (dispatch_ready): a tool
\* on a thread may act on what it read before the task was refused or had finished.
OnlyPendingDispatched ==
  [][\A i \in Ids : i \notin running /\ i \in running' => status[i] = "pending"]_vars

\* A completed task is not started again, unless it is added anew.
CompletedIsFinal ==
  [][\A i \in Ids : status[i] = "completed" => status'[i] \notin {"in_progress", "failed"}]_vars

=============================================================================
