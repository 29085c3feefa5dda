------------------------------- MODULE Startup -------------------------------
(***************************************************************************)
(* From the start of a run to its exit (bot/main.py): rank 0 prepares the  *)
(* workspace, signals the workers that check in, waits until one of them   *)
(* has registered and shuts them down in the end; the workers wait, make   *)
(* their worktrees under a lock file, serve, and start anew when they are  *)
(* declared dead.  What a worker does with its tasks is in                 *)
(* DistributedExecutor; here a task is a message and its result another.   *)
(***************************************************************************)
EXTENDS Integers, Sequences

CONSTANTS
  Ranks,          \* the workers; rank 0 itself is not one of them
  Local,          \* the one that rank 0 spawns
  AgentsPerNode,  \* agents_per_node, each with a worktree of its own
  MaxReturns,     \* MAX_RESTARTS of WorkerNode.run
  MaxTasks,       \* tasks a rank is given (bound of the model)
  MaxFailures     \* deaths and failures of workers (bound of the model)

Boss == "rank 0"
Unheld == "unheld"

ASSUME StartupAssumption ==
  /\ Local \in Ranks
  /\ Boss \notin Ranks /\ Unheld \notin Ranks
  /\ AgentsPerNode \in Nat \ {0}
  /\ MaxReturns \in Nat /\ MaxTasks \in Nat /\ MaxFailures \in Nat

VARIABLES
  boss,           \* where rank 0 is
  code,           \* the repository: "none", "copied" without a commit, or "whole"
  packages,       \* .lake/packages: "writable" or "frozen"
  signalled,      \* the workers that were told "ready"
  registered,     \* the keys of _node_capacity
  given,          \* how many tasks each was sent
  terminated,     \* rank 0 has terminated its local worker
  buffer,         \* what the server has put back
  posted,         \* worker to rank 0
  told,           \* rank 0 to the socket a worker has open
  place,          \* where each worker is
  returns,        \* restart_count
  trees,          \* how many of its worktrees are on disk
  holder,         \* the process that holds .worktree_lock
  staging,        \* rank 0's threads in `git worktree`: "queue" and "eval"
  failures        \* how many there were

bossVars == <<boss, code, packages, signalled, registered, given, terminated>>
channels == <<buffer, posted, told>>
rankVars == <<place, returns, trees, failures>>
lockVars == <<holder, staging>>
startupVars == <<bossVars, channels, rankVars, lockVars>>

Steps ==
  {"workspace", "commit", "build", "collect", "signal", "start", "run", "close", "clean", "join", "over", "failed"}
RankPlaces == {"off", "waiting", "locking", "adding", "warming", "serving", "sleeping", "ended"}
Upward == {"waiting", "register", "result"}
Downward == {"ready", "task", "restart", "shutdown"}

\* An earlier start may have left a repository, one without a commit too, if it
\* died in initialize_workspace(), and frozen packages.
StartupInit ==
  /\ boss = "workspace"
  /\ code \in {"none", "copied", "whole"}
  /\ packages \in {"writable", "frozen"}
  /\ signalled = {} /\ registered = {} /\ terminated = FALSE
  /\ given = [w \in Ranks |-> 0]
  /\ buffer = <<>>
  /\ posted = [w \in Ranks |-> <<>>]
  /\ told = [w \in Ranks |-> <<>>]
  /\ place = [w \in Ranks |-> "off"]
  /\ returns = [w \in Ranks |-> 0]
  /\ trees = [w \in Ranks |-> 0]
  /\ holder = Unheld /\ staging = {}
  /\ failures = 0

---------------------------------------------------------------------------
(* Rank 0 prepares the workspace *)

\* ensure_run_workspace(): what exists is taken for a workspace.
Resume ==
  /\ boss = "workspace" /\ code # "none"
  /\ boss' = "build"
  /\ UNCHANGED <<code, packages, signalled, registered, given, terminated, channels, rankVars, lockVars>>

\* copy_template(), after --nuke too
CopyTemplate ==
  /\ boss = "workspace" /\ boss' = "commit"
  /\ code' = "copied" /\ packages' = "writable"
  /\ UNCHANGED <<signalled, registered, given, terminated, channels, rankVars, lockVars>>

\* `git init` and `git commit`
Commit ==
  /\ boss = "commit" /\ boss' = "build"
  /\ code' = "whole"
  /\ UNCHANGED <<packages, signalled, registered, given, terminated, channels, rankVars, lockVars>>

\* Packages are unfrozen for the build and frozen after it.
InitialBuild ==
  /\ boss = "build" /\ boss' = "collect"
  /\ packages' = "frozen"
  /\ UNCHANGED <<code, signalled, registered, given, terminated, channels, rankVars, lockVars>>

\* "FATAL: Initial `lake build` failed": sys.exit(1); or a command that raises.
BuildFails ==
  /\ boss \in {"commit", "build"} /\ boss' = "failed"
  /\ packages' = "writable"
  /\ UNCHANGED <<code, signalled, registered, given, terminated, channels, rankVars, lockVars>>

\* gc_worktrees(max_age_hours=0), and prepare_fresh_run(), which is in RunFiles.
CollectOld ==
  /\ boss = "collect" /\ boss' = "signal"
  /\ trees' = [w \in Ranks |-> 0]
  /\ UNCHANGED <<code, packages, signalled, registered, given, terminated, channels, place, returns, failures, lockVars>>

---------------------------------------------------------------------------
(* Rank 0 and its messages *)

\* Sockets that are open: before "ready", and in _serve().
Listening(w) == place[w] \in {"waiting", "serving"}

Tell(w, m) == told' = [told EXCEPT ![w] = IF Listening(w) THEN Append(@, m) ELSE @]

\* recv(): first what was put back.
Receive(w, m) ==
  \/ /\ buffer # <<>> /\ Head(buffer) = <<w, m>>
     /\ buffer' = Tail(buffer)
     /\ UNCHANGED posted
  \/ /\ buffer = <<>> /\ posted[w] # <<>> /\ Head(posted[w]) = m
     /\ posted' = [posted EXCEPT ![w] = Tail(@)]
     /\ UNCHANGED buffer

NothingToRead == buffer = <<>> /\ \A w \in Ranks : posted[w] = <<>>

\* Variant with a bug: workers are signalled as soon as the workspace is there.
SignalBeforeBuild(w) ==
  /\ boss \in {"build", "collect", "signal"} /\ signalled # Ranks
  /\ Receive(w, "waiting")
  /\ Tell(w, "ready")
  /\ signalled' = signalled \cup {w}
  /\ UNCHANGED <<boss, code, packages, registered, given, terminated, rankVars, lockVars>>

Signal(w) ==
  /\ boss = "signal" /\ signalled # Ranks
  /\ Receive(w, "waiting")
  /\ Tell(w, "ready")
  /\ signalled' = signalled \cup {w}
  /\ UNCHANGED <<boss, code, packages, registered, given, terminated, rankVars, lockVars>>

\* Anything else is put back, and recv() returns it again and again: the loop reads
\* nothing more from its socket.
Requeue(w) ==
  /\ boss = "signal" /\ signalled # Ranks /\ buffer = <<>>
  /\ posted[w] # <<>> /\ Head(posted[w]) # "waiting"
  /\ buffer' = <<<<w, Head(posted[w])>>>>
  /\ posted' = [posted EXCEPT ![w] = Tail(@)]
  /\ UNCHANGED <<bossVars, told, rankVars, lockVars>>

\* All have checked in, or an hour has gone, in which what can be read is read.
Proceed ==
  /\ boss = "signal" /\ boss' = "start"
  /\ signalled = Ranks \/ buffer # <<>> \/ NothingToRead
  /\ UNCHANGED <<code, packages, signalled, registered, given, terminated, channels, rankVars, lockVars>>

\* DistributedExecutor.start(): one registration is enough, all else is dropped.
StartReads(w) ==
  /\ boss = "start"
  /\ \E m \in Upward :
       /\ Receive(w, m)
       /\ boss' = IF m = "register" THEN "run" ELSE boss
       /\ registered' = IF m = "register" THEN {w} ELSE registered
  /\ UNCHANGED <<code, packages, signalled, given, terminated, told, rankVars, lockVars>>

\* LeanCoordinatorNode.initialize() raises: its shutdown() is not called.
InitializeFails ==
  /\ boss = "start" /\ boss' = "join"
  /\ UNCHANGED <<code, packages, signalled, registered, given, terminated, channels, rankVars, lockVars>>

\* TimeoutError after another hour
NobodyRegistered ==
  /\ boss = "start" /\ NothingToRead /\ boss' = "close"
  /\ UNCHANGED <<code, packages, signalled, registered, given, terminated, channels, rankVars, lockVars>>

\* _listen(): registrations and results give a node its capacity.
Listen(w) ==
  /\ boss = "run"
  /\ \E m \in Upward :
       /\ Receive(w, m)
       /\ registered' = IF m = "waiting" THEN registered ELSE registered \cup {w}
  /\ UNCHANGED <<boss, code, packages, signalled, given, terminated, told, rankVars, lockVars>>

SendTask(w) ==
  /\ boss = "run" /\ w \in registered /\ given[w] < MaxTasks
  /\ given' = [given EXCEPT ![w] = @ + 1]
  /\ Tell(w, "task")
  /\ UNCHANGED <<boss, code, packages, signalled, registered, terminated, buffer, posted, rankVars, lockVars>>

\* _handle_dead_worker(): the ACK of a task came too late, or not at all.
DeclareDead(w) ==
  /\ boss = "run" /\ w \in registered /\ given[w] > 0
  /\ registered' = registered \ {w}
  /\ Tell(w, "restart")
  /\ UNCHANGED <<boss, code, packages, signalled, given, terminated, buffer, posted, rankVars, lockVars>>

\* POST /shutdown, a signal, or an exception.
EndPipeline ==
  /\ boss \in {"start", "run"} /\ boss' = "close"
  /\ UNCHANGED <<code, packages, signalled, registered, given, terminated, channels, rankVars, lockVars>>

\* Variant with a bug: the nodes are forgotten before they are told.
CloseSilently ==
  /\ boss = "close" /\ boss' = "clean"
  /\ UNCHANGED <<code, packages, signalled, registered, given, terminated, channels, rankVars, lockVars>>

\* DistributedExecutor.shutdown(): the nodes of _node_capacity are told.
CloseExecutor ==
  /\ boss = "close" /\ boss' = "clean"
  /\ told' = [w \in Ranks |-> IF w \in registered /\ Listening(w) THEN Append(told[w], "shutdown") ELSE told[w]]
  /\ UNCHANGED <<code, packages, signalled, registered, given, terminated, buffer, posted, rankVars, lockVars>>

\* gc_worktrees(max_age_hours=1): nothing of this run, or all of it when its
\* directory is older.
CleanUp ==
  /\ boss = "clean" /\ boss' = "join"
  /\ trees' \in {trees, [w \in Ranks |-> 0]}
  /\ UNCHANGED <<code, packages, signalled, registered, given, terminated, channels, place, returns, failures, lockVars>>

\* join(timeout=30) and terminate()
Terminate ==
  /\ boss = "join" /\ place[Local] # "ended" /\ ~terminated
  /\ terminated' = TRUE
  /\ UNCHANGED <<boss, code, packages, signalled, registered, given, channels, rankVars, lockVars>>

\* Python joins the processes it has spawned before it exits, after sys.exit(1) too.
Leave ==
  /\ boss \in {"join", "failed"} /\ place[Local] = "ended"
  /\ boss' = "over"
  /\ UNCHANGED <<code, packages, signalled, registered, given, terminated, channels, rankVars, lockVars>>

---------------------------------------------------------------------------
(* The lock file.  fcntl.lockf() locks for a process, not for a thread: rank 0's *)
(* merge queue (in a thread) and merge evaluation (on the event loop) do not     *)
(* exclude each other, and the first to close the file drops the lock of both.   *)

BossLocks(t) ==
  /\ boss = "run" /\ t \notin staging
  /\ holder \in {Unheld, Boss} /\ holder' = Boss
  /\ staging' = staging \cup {t}
  /\ UNCHANGED <<bossVars, channels, rankVars>>

BossUnlocks(t) ==
  /\ t \in staging
  /\ staging' = staging \ {t}
  /\ holder' = IF holder = Boss THEN Unheld ELSE holder
  /\ UNCHANGED <<bossVars, channels, rankVars>>

---------------------------------------------------------------------------
(* Workers *)

Moves(w, from, to) == place[w] = from /\ place' = [place EXCEPT ![w] = to]

\* What the worker reads next is m.
Hears(w, m) == told[w] # <<>> /\ Head(told[w]) = m

\* Its socket is closed, with what it has not read.
Closes(w) == told' = [told EXCEPT ![w] = <<>>]

Unlocked(w) == IF holder = w THEN Unheld ELSE holder

\* _run_local_worker(): in a process that rank 0 spawns, or as a rank of its own.
Launch(w) ==
  /\ Moves(w, "off", "waiting")
  /\ posted' = [posted EXCEPT ![w] = Append(@, "waiting")]
  /\ UNCHANGED <<bossVars, buffer, told, returns, trees, failures, lockVars>>

HearReady(w) ==
  /\ Moves(w, "waiting", "locking")
  /\ Hears(w, "ready") /\ Closes(w)
  /\ UNCHANGED <<bossVars, buffer, posted, returns, trees, failures, lockVars>>

\* create_lean_pool()
TakeLock(w) ==
  /\ Moves(w, "locking", "adding")
  /\ holder = Unheld /\ holder' = w
  /\ UNCHANGED <<bossVars, channels, returns, trees, failures, staging>>

\* create_worktree(); one that is there from before a restart is kept.
AddTree(w) ==
  /\ place[w] = "adding" /\ trees[w] < AgentsPerNode
  /\ code = "whole"
  /\ trees' = [trees EXCEPT ![w] = @ + 1]
  /\ UNCHANGED <<bossVars, channels, place, returns, failures, lockVars>>

ReleaseLock(w) ==
  /\ Moves(w, "adding", "warming")
  /\ trees[w] = AgentsPerNode
  /\ holder' = Unheld
  /\ UNCHANGED <<bossVars, channels, returns, trees, failures, staging>>

\* RuntimeError: without a commit there is no worktree.
NoTree(w) ==
  /\ Moves(w, "adding", "ended")
  /\ trees[w] < AgentsPerNode /\ code # "whole"
  /\ holder' = Unheld
  /\ UNCHANGED <<bossVars, channels, returns, trees, failures, staging>>

\* The pool is warm: _serve() registers.
Serve(w) ==
  /\ Moves(w, "warming", "serving")
  /\ posted' = [posted EXCEPT ![w] = Append(@, "register")]
  /\ UNCHANGED <<bossVars, buffer, told, returns, trees, failures, lockVars>>

Work(w) ==
  /\ place[w] = "serving" /\ Hears(w, "task")
  /\ told' = [told EXCEPT ![w] = Tail(@)]
  /\ posted' = [posted EXCEPT ![w] = Append(@, "result")]
  /\ UNCHANGED <<bossVars, buffer, rankVars, lockVars>>

HearRestart(w) ==
  /\ Hears(w, "restart") /\ Closes(w)
  /\ Moves(w, "serving", IF returns[w] < MaxReturns THEN "sleeping" ELSE "ended")
  /\ returns' = [returns EXCEPT ![w] = @ + 1]
  /\ UNCHANGED <<bossVars, buffer, posted, trees, failures, lockVars>>

Wake(w) ==
  /\ Moves(w, "sleeping", "locking")
  /\ UNCHANGED <<bossVars, channels, returns, trees, failures, lockVars>>

HearShutdown(w) ==
  /\ Hears(w, "shutdown") /\ Closes(w)
  /\ Moves(w, "serving", "ended")
  /\ UNCHANGED <<bossVars, buffer, posted, returns, trees, failures, lockVars>>

\* SIGTERM; the event loop hears of it only when create_lean_pool() lets it run.
Terminated ==
  /\ terminated /\ place[Local] \in {"off", "waiting", "warming", "serving", "sleeping"}
  /\ place' = [place EXCEPT ![Local] = "ended"]
  /\ Closes(Local)
  /\ UNCHANGED <<bossVars, buffer, posted, returns, trees, failures, lockVars>>

\* It dies, or its pool does not come up ("Fatal error"); the system frees its lock.
Fails(w) ==
  /\ place[w] \notin {"off", "ended"} /\ failures < MaxFailures
  /\ failures' = failures + 1
  /\ place' = [place EXCEPT ![w] = "ended"]
  /\ Closes(w)
  /\ holder' = Unlocked(w)
  /\ UNCHANGED <<bossVars, buffer, posted, returns, trees, staging>>

---------------------------------------------------------------------------

Prepare == Resume \/ CopyTemplate \/ Commit \/ InitialBuild \/ BuildFails \/ CollectOld

BossStep ==
  \/ Prepare \/ Proceed \/ NobodyRegistered \/ CloseExecutor \/ CleanUp \/ Terminate \/ Leave
  \/ \E w \in Ranks : Signal(w) \/ Requeue(w) \/ StartReads(w)

RankStep(w) ==
  \/ HearReady(w) \/ TakeLock(w) \/ AddTree(w) \/ ReleaseLock(w) \/ NoTree(w)
  \/ Serve(w) \/ Work(w) \/ HearRestart(w) \/ Wake(w) \/ HearShutdown(w)

StartupNext ==
  \/ BossStep \/ EndPipeline \/ InitializeFails \/ Terminated
  \/ \E w \in Ranks : Launch(w) \/ RankStep(w) \/ Fails(w) \/ Listen(w) \/ SendTask(w) \/ DeclareDead(w)
  \/ \E t \in {"queue", "eval"} : BossLocks(t) \/ BossUnlocks(t)

StartupSpec == StartupInit /\ [][StartupNext]_startupVars

\* Rank 0 goes on, signals are delivered, `git worktree` ends and workers do what
\* they hear; nothing makes a worker be launched or the pipeline end.
StartupFairness ==
  /\ WF_startupVars(BossStep) /\ WF_startupVars(Terminated)
  /\ \A w \in Ranks : WF_startupVars(RankStep(w))
  /\ \A t \in {"queue", "eval"} : WF_startupVars(BossUnlocks(t))

---------------------------------------------------------------------------
(* Properties *)

StartupTypeOK ==
  /\ boss \in Steps
  /\ code \in {"none", "copied", "whole"} /\ packages \in {"writable", "frozen"}
  /\ signalled \subseteq Ranks /\ registered \subseteq Ranks
  /\ given \in [Ranks -> 0..MaxTasks] /\ terminated \in BOOLEAN
  /\ buffer \in Seq(Ranks \X Upward)
  /\ posted \in [Ranks -> Seq(Upward)]
  /\ told \in [Ranks -> Seq(Downward)]
  /\ place \in [Ranks -> RankPlaces]
  /\ returns \in [Ranks -> 0..(MaxReturns + 1)]
  /\ trees \in [Ranks -> 0..AgentsPerNode]
  /\ holder \in Ranks \cup {Boss, Unheld}
  /\ staging \subseteq {"queue", "eval"}
  /\ failures \in 0..MaxFailures

\* "GC old worktree runs BEFORE signaling workers, so workers don't race with
\* deletion"; "Freeze packages so concurrent worktree builds can't corrupt oleans":
\* until the pipeline has ended, agents are warmed up and work only in worktrees that
\* are on disk, on packages that are frozen, however workers fail and start anew.
OnOwnTrees ==
  \A w \in Ranks :
    place[w] \in {"warming", "serving"} /\ boss \notin {"join", "over"} =>
      trees[w] = AgentsPerNode /\ packages = "frozen"

\* "concurrent `git worktree add` corrupts .git/worktrees/ internal state": two
\* workers never add at the same time, whoever dies with the lock.
AddsAlone == \A v, w \in Ranks : place[v] = "adding" /\ place[w] = "adding" => v = w

\* When the pipeline has ended, rank 0 comes to its exit, and its local worker with
\* it wherever that is; and a worker that serves, is known and is not to restart
\* hears of it.
Known(w) ==
  /\ w \in registered /\ place[w] = "serving"
  /\ \A k \in DOMAIN told[w] : told[w][k] # "restart"

RunEnds ==
  /\ boss = "close" ~> boss = "over"
  /\ \A w \in Ranks : (boss = "close" /\ Known(w)) ~> place[w] = "ended"

\* "Only k/n workers checked in within 3600s": those it means have not checked in.
\* Violated: what another has sent keeps the loop from reading that they have.
AllHeard == [][boss = "signal" /\ boss' = "start" => \A w \in Ranks \ signalled : posted[w] = <<>>]_startupVars

\* "Send shutdown to all workers".  Violated: one that restarts or is late has no
\* socket or no entry, and waits for ever.
AllShutDown == \A w \in Ranks : (boss = "close" /\ place[w] # "off") ~> place[w] = "ended"

\* sys.exit(1) after a build that failed.  Violated: the local worker waits for ever.
FailedStartEnds == boss = "failed" ~> boss = "over"

\* "under lock to prevent concurrent git worktree add from corrupting" (merge_eval.py).
\* Violated by the two threads of rank 0, and between them and a worker.
AddsAlwaysAlone ==
  /\ staging # {"queue", "eval"}
  /\ staging = {} \/ \A w \in Ranks : place[w] # "adding"

=============================================================================
