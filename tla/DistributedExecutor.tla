------------------------ MODULE DistributedExecutor ------------------------
(***************************************************************************)
(* core/coordination/multinode: the executor of the coordinator, the       *)
(* worker nodes and the ZMQ channels between them.  The model starts when  *)
(* start() returns.  A channel is in order while the worker's socket       *)
(* lives; what is sent to a worker whose socket is closed is dropped.      *)
(*                                                                         *)
(* Messages carry no attempt number in the code.  Here a result, an ACK    *)
(* and a task message do, for the properties only: no guard reads it.      *)
(***************************************************************************)
EXTENDS Integers, Sequences

CONSTANTS
  Workers,
  Tasks,
  Agents,         \* agents of a worker node
  MinAgents,      \* min_agents_per_task
  MaxAgents,      \* max_agents_per_task
  MaxAttempts,    \* calls of run() for one task (bound of the model)
  MaxRestarts,    \* MAX_RESTARTS of WorkerNode.run
  MaxDeaths       \* worker processes that die (bound of the model)

Nobody == "nobody"

ASSUME ExecutorAssumption ==
  /\ Nobody \notin Workers
  /\ Agents \in Nat /\ MinAgents \in Nat \ {0} /\ MaxAgents \in Nat
  /\ MinAgents <= MaxAgents
  /\ MaxAttempts \in Nat /\ MaxRestarts \in Nat /\ MaxDeaths \in Nat

VARIABLES
  nodes,          \* the keys of _node_capacity
  capacity,       \* its values, 0 for others
  call,           \* run() of each task: "idle", "waiting" for a node, "sent"
  attempt,        \* attempt_number of the last call
  rankOf,         \* _task_rank
  pending,        \* the keys of _pending
  unacked,        \* the keys of _unacked
  down,           \* coordinator to worker
  up,             \* worker to coordinator
  node,           \* worker: "starting", "serving", "gone" by itself or "dead"
  restarts,       \* restart_count
  jobs,           \* in_flight, with the agents each has checked out
  busy,           \* how many agents of its pool are checked out
  deaths

coordVars == <<nodes, capacity, call, attempt, rankOf, pending, unacked>>
workerVars == <<node, restarts, jobs, busy, deaths>>
vars == <<coordVars, down, up, workerVars>>

Jobs == [task : Tasks, attempt : 1..MaxAttempts, agents : 0..Agents]
DownMessages ==
  [type : {"task"}, task : Tasks, attempt : 1..MaxAttempts, agents : 1..Agents]
    \cup {[type |-> "restart"]}
UpMessages ==
  [type : {"register"}, capacity : 0..Agents]
    \cup [type : {"ack"}, task : Tasks, attempt : 1..MaxAttempts]
    \cup [type : {"result"}, task : Tasks, attempt : 1..MaxAttempts, capacity : 0..Agents]

\* One worker has registered; the others are on their way.
Init ==
  /\ \E w \in Workers :
        /\ nodes = {w}
        /\ node = [v \in Workers |-> IF v = w THEN "serving" ELSE "starting"]
        /\ capacity = [v \in Workers |-> IF v = w THEN Agents ELSE 0]
  /\ call = [t \in Tasks |-> "idle"]
  /\ attempt = [t \in Tasks |-> 0]
  /\ rankOf = [t \in Tasks |-> Nobody]
  /\ pending = {}
  /\ unacked = {}
  /\ down = [w \in Workers |-> <<>>]
  /\ up = [w \in Workers |-> <<>>]
  /\ restarts = [w \in Workers |-> 0]
  /\ jobs = [w \in Workers |-> {}]
  /\ busy = [w \in Workers |-> 0]
  /\ deaths = 0

---------------------------------------------------------------------------
(* run() *)

\* DAGRunner has one call per task at a time.
Call(t) ==
  /\ call[t] = "idle"
  /\ attempt[t] < MaxAttempts
  /\ call' = [call EXCEPT ![t] = "waiting"]
  /\ attempt' = [attempt EXCEPT ![t] = @ + 1]
  /\ UNCHANGED <<nodes, capacity, rankOf, pending, unacked, down, up, workerVars>>

\* "All workers are dead"
NoNodes(t) ==
  /\ call[t] = "waiting" /\ nodes = {}
  /\ call' = [call EXCEPT ![t] = "idle"]
  /\ UNCHANGED <<nodes, capacity, attempt, rankOf, pending, unacked, down, up, workerVars>>

Candidates == {w \in nodes : capacity[w] >= MinAgents}

Smaller(m, n) == IF m < n THEN m ELSE n

\* A socket that is closed takes no messages: ROUTER drops them.
Send(w, m) == down' = [down EXCEPT ![w] = IF node[w] = "serving" THEN Append(@, m) ELSE @]

\* _pick_node() (the biggest first) and the rest of run() up to its wait.
Dispatch(t) ==
  /\ call[t] = "waiting"
  /\ \E w \in Candidates :
        /\ \A v \in Candidates : capacity[v] <= capacity[w]
        /\ LET n == Smaller(MaxAgents, capacity[w]) IN
             /\ Send(w, [type |-> "task", task |-> t, attempt |-> attempt[t], agents |-> n])
             /\ capacity' = [capacity EXCEPT ![w] = @ - n]
        /\ rankOf' = [rankOf EXCEPT ![t] = w]
  /\ pending' = pending \cup {t}
  /\ unacked' = unacked \cup {t}
  /\ call' = [call EXCEPT ![t] = "sent"]
  /\ UNCHANGED <<nodes, attempt, up, workerVars>>

---------------------------------------------------------------------------
(* _listen() *)

Positions(s, type) == {k \in DOMAIN s : s[k].type = type}

TasksOf(s, type) == {s[k].task : k \in Positions(s, type)}

\* The last message of one type, if there is one.
Latest(s, type) == {k \in Positions(s, type) : \A j \in Positions(s, type) : j <= k}

\* The calls of a set of tasks return; what is not pending has no call.
Return(tasks) ==
  /\ pending' = pending \ tasks
  /\ rankOf' = [t \in Tasks |-> IF t \in tasks THEN Nobody ELSE rankOf[t]]
  /\ call' = [t \in Tasks |-> IF t \in tasks \cap pending THEN "idle" ELSE call[t]]

\* Variant with a bug: the tasks the worker has ACKed are not failed with it.
LostUnacked(w) == {t \in unacked : rankOf[t] = w}

\* What a dead worker takes with it.
LostWith(w) == {t \in Tasks : rankOf[t] = w}

\* One round over what has arrived from one worker, nothing at all included;
\* rounds over several workers at once are rounds over each.  Registrations and
\* ACKs come first, whatever the order of arrival; then _check_unacked_tasks()
\* may find an ACK of w late, and _handle_dead_worker() removes the node and
\* fails its tasks; results come last.
Round(w) ==
  \E n \in 0..Len(up[w]), late \in BOOLEAN :
    LET got == SubSeq(up[w], 1, n)
        watched == unacked \ TasksOf(got, "ack")
        lost == IF late THEN LostWith(w) ELSE {}
        answered == TasksOf(got, "result")
    IN /\ late => \E t \in watched : rankOf[t] = w
       /\ up' = [up EXCEPT ![w] = SubSeq(@, n + 1, Len(@))]
       /\ IF late THEN Send(w, [type |-> "restart"]) ELSE UNCHANGED down
       /\ unacked' = watched \ (lost \cup answered)
       /\ Return(lost \cup answered)
       /\ \/ \E k \in Latest(got, "result") :
             /\ nodes' = nodes \cup {w}
             /\ capacity' = [capacity EXCEPT ![w] = got[k].capacity]
          \/ /\ answered = {} /\ late
             /\ nodes' = nodes \ {w}
             /\ capacity' = [capacity EXCEPT ![w] = 0]
          \/ \E k \in Latest(got, "register") :
             /\ answered = {} /\ ~late
             /\ nodes' = nodes \cup {w}
             /\ capacity' = [capacity EXCEPT ![w] = got[k].capacity]
          \/ /\ answered = {} /\ ~late /\ Positions(got, "register") = {}
             /\ UNCHANGED <<nodes, capacity>>
       /\ UNCHANGED <<attempt, workerVars>>

---------------------------------------------------------------------------
(* Worker nodes *)

\* available()
Free(w) == Agents - busy[w]

Ack(m) == [type |-> "ack", task |-> m.task, attempt |-> m.attempt]
Result(j, free) ==
  [type |-> "result", task |-> j.task, attempt |-> j.attempt, capacity |-> free]

\* The head of the worker's channel is a message of this type.
Arrives(w, type) == node[w] = "serving" /\ down[w] # <<>> /\ Head(down[w]).type = type

\* _serve() ACKs a task and starts _execute(), which checks agents out before
\* the next message is read.
Start(w) ==
  /\ Arrives(w, "task")
  /\ Free(w) > 0
  /\ LET m == Head(down[w]) IN
       /\ up' = [up EXCEPT ![w] = Append(@, Ack(m))]
       /\ LET n == Smaller(m.agents, Free(w)) IN
            /\ jobs' = [jobs EXCEPT ![w] = @ \cup {[task |-> m.task, attempt |-> m.attempt, agents |-> n]}]
            /\ busy' = [busy EXCEPT ![w] = @ + n]
  /\ down' = [down EXCEPT ![w] = Tail(@)]
  /\ UNCHANGED <<coordVars, node, restarts, deaths>>

\* Variant with a bug: the coordinator is not told.
TurnAwaySilently(w) ==
  /\ Arrives(w, "task")
  /\ Free(w) = 0
  /\ up' = [up EXCEPT ![w] = Append(@, Ack(Head(down[w])))]
  /\ down' = [down EXCEPT ![w] = Tail(@)]
  /\ UNCHANGED <<coordVars, workerVars>>

\* "No agents available"
TurnAway(w) ==
  /\ Arrives(w, "task")
  /\ Free(w) = 0
  /\ LET m == Head(down[w]) IN up' = [up EXCEPT ![w] = @ \o <<Ack(m), Result(m, 0)>>]
  /\ down' = [down EXCEPT ![w] = Tail(@)]
  /\ UNCHANGED <<coordVars, workerVars>>

\* run_task() returns or raises; the capacity is read after the checkin.
Complete(w) ==
  /\ node[w] = "serving"
  /\ \E j \in jobs[w] :
       /\ jobs' = [jobs EXCEPT ![w] = @ \ {j}]
       /\ busy' = [busy EXCEPT ![w] = @ - j.agents]
       /\ up' = [up EXCEPT ![w] = Append(@, Result(j, Free(w) + j.agents))]
  /\ UNCHANGED <<coordVars, down, node, restarts, deaths>>

\* _serve() returns: what runs is cancelled without a result, what is queued to
\* be sent is sent, the socket is closed with what it has not read.
Restart(w) ==
  /\ Arrives(w, "restart")
  /\ jobs' = [jobs EXCEPT ![w] = {}]
  /\ busy' = [busy EXCEPT ![w] = 0]
  /\ down' = [down EXCEPT ![w] = <<>>]
  /\ restarts' = [restarts EXCEPT ![w] = @ + 1]
  /\ node' = [node EXCEPT ![w] = IF restarts[w] < MaxRestarts THEN "starting" ELSE "gone"]
  /\ UNCHANGED <<coordVars, up, deaths>>

\* initialize() has made a new pool, and _serve() registers it.
Register(w) ==
  /\ node[w] = "starting"
  /\ node' = [node EXCEPT ![w] = "serving"]
  /\ up' = [up EXCEPT ![w] = Append(@, [type |-> "register", capacity |-> Agents])]
  /\ UNCHANGED <<coordVars, down, restarts, jobs, busy, deaths>>

\* The process dies; the last of what it sent may be lost with it.
Die(w) ==
  /\ node[w] \in {"starting", "serving"}
  /\ deaths < MaxDeaths
  /\ deaths' = deaths + 1
  /\ node' = [node EXCEPT ![w] = "dead"]
  /\ jobs' = [jobs EXCEPT ![w] = {}]
  /\ busy' = [busy EXCEPT ![w] = 0]
  /\ down' = [down EXCEPT ![w] = <<>>]
  /\ \E n \in 0..Len(up[w]) : up' = [up EXCEPT ![w] = SubSeq(@, 1, n)]
  /\ UNCHANGED <<coordVars, restarts>>

WorkerStep(w) == Start(w) \/ TurnAway(w) \/ Complete(w) \/ Restart(w) \/ Register(w)

Next ==
  \/ \E t \in Tasks : Call(t) \/ NoNodes(t) \/ Dispatch(t)
  \/ \E w \in Workers : Round(w) \/ WorkerStep(w) \/ Die(w)

Spec == Init /\ [][Next]_vars

\* run() polls, the listener runs, live workers serve, and agents come to an end
\* (their budgets); nothing makes DAGRunner call or a worker die.
Fairness ==
  /\ \A t \in Tasks : WF_vars(NoNodes(t)) /\ WF_vars(Dispatch(t))
  /\ \A w \in Workers : WF_vars(Round(w)) /\ WF_vars(WorkerStep(w))

FairSpec == Spec /\ Fairness

---------------------------------------------------------------------------
(* Properties *)

TypeOK ==
  /\ nodes \subseteq Workers
  /\ capacity \in [Workers -> 0..Agents]
  /\ call \in [Tasks -> {"idle", "waiting", "sent"}]
  /\ attempt \in [Tasks -> 0..MaxAttempts]
  /\ rankOf \in [Tasks -> Workers \cup {Nobody}]
  /\ pending \subseteq Tasks
  /\ unacked \subseteq Tasks
  /\ down \in [Workers -> Seq(DownMessages)]
  /\ up \in [Workers -> Seq(UpMessages)]
  /\ node \in [Workers -> {"starting", "serving", "gone", "dead"}]
  /\ restarts \in [Workers -> 0..(MaxRestarts + 1)]
  /\ jobs \in [Workers -> SUBSET Jobs]
  /\ busy \in [Workers -> 0..Agents]
  /\ deaths \in 0..MaxDeaths

\* A call that waits for a result can always be given one: its future, its rank
\* and nothing else are kept, and only such a call's ACK is waited for.
BookkeepingAgrees ==
  /\ \A t \in Tasks : call[t] = "sent" <=> t \in pending
  /\ \A t \in Tasks : t \in pending <=> rankOf[t] # Nobody
  /\ unacked \subseteq pending

\* Where the current attempt of a sent task can be.
IsCurrent(t, x) == x.task = t /\ x.attempt = attempt[t]

OnItsWay(t) ==
  \E w \in Workers :
    \/ \E k \in Positions(down[w], "task") : IsCurrent(t, down[w][k])
    \/ \E j \in jobs[w] : IsCurrent(t, j)
    \/ \E k \in Positions(up[w], "result") : IsCurrent(t, up[w][k])

\* "workers must ACK task receipt within ack_timeout seconds.  If no ACK
\* arrives, the worker is declared dead and all its pending tasks are failed":
\* a task that was sent and is lost is one whose ACK is still waited for, or
\* one whose worker died (after its ACK nothing watches a worker).  Only of first
\* attempts, since an ACK does not say which attempt it is of.
Watched(t) == ~OnItsWay(t) => t \in unacked \/ node[rankOf[t]] = "dead"
LostDispatchWatched == \A t \in Tasks : call[t] = "sent" /\ attempt[t] = 1 => Watched(t)

\* What was sent to a worker the first time gets a result or is failed, unless a
\* worker dies: restarts, late ACKs and refusals leave no call of run() without an
\* answer.
DispatchReturns ==
  \A t \in Tasks : (call[t] = "sent" /\ attempt[t] = 1) ~> (call[t] = "idle" \/ deaths > 0)

\* The quoted sentence without the restriction: violated by a late ACK of an earlier
\* attempt.
EveryDispatchWatched == \A t \in Tasks : call[t] = "sent" => Watched(t)

\* "Waits until a node with sufficient capacity is available before
\* dispatching": no call waits for ever while the workers live.
WaitingIsDispatched == \A t \in Tasks : call[t] = "waiting" ~> call[t] # "waiting"

=============================================================================
