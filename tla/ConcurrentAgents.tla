-------------------------- MODULE ConcurrentAgents --------------------------
(***************************************************************************)
(* core/coordination/concurrent_agents.py on one worker node, with the     *)
(* Lean subclass (autoform/bot/concurrent.py) and the two ends of the      *)
(* merge queue's channel (MergeQueueClient, MergeQueueServer).  Agents     *)
(* race for a task; one at a time sends its work to the merge queue; the   *)
(* first whose work lands wins, and the others are cancelled.              *)
(*                                                                         *)
(* The merge queue is seen from outside: it answers every request.  The    *)
(* merge lock is an asyncio.Lock, first come first served: releasing it    *)
(* wakes the first waiter, who has the lock only when it runs.             *)
(*                                                                         *)
(* A restart of the node cancels run_task(), which leaves its agents' tasks *)
(* running: until the pool is made anew they go on as before, and those    *)
(* still at work then are orphans in the worktrees of the new agents.      *)
(***************************************************************************)
EXTENDS Naturals, Sequences, SequencesExt, FiniteSets

CONSTANTS
  Agents,        \* the node's pool
  Teams,         \* sets of agents that are checked out together
  Runs,          \* calls of run_task()
  MaxTries,      \* merge requests an agent's turns allow it in one run
  MaxRestarts    \* restarts of the node (bound of the model)

ASSUME RaceAssumption ==
  /\ Teams \subseteq SUBSET Agents
  /\ MaxTries \in Nat /\ MaxRestarts \in Nat

VARIABLES
  serving,       \* the node takes tasks
  result,        \* of each run, see Results
  team,          \* agents of each run
  stage,         \* of each agent, see Stages
  tries,
  locked,        \* _merge_lock
  waiters,       \* its queue
  woken,         \* waiters that were woken and have not run yet
  cancelled,     \* agents whose task was told to stop and has not run yet
  counter,       \* MergeQueueClient._counter
  pending,       \* MergeQueueClient._pending, as the requests behind the ids
  sending,       \* requests in a thread that sends them
  queue,         \* requests the coordinator has
  answers,       \* merge_response messages on their way
  landed,        \* history: requests whose work is in main
  orphans,       \* agents of an earlier pool that still work in their worktree
  restarts

lockVars == <<locked, waiters, woken>>
clientVars == <<counter, pending, sending>>
queueVars == <<queue, answers, landed>>
nodeVars == <<serving, orphans, restarts>>
raceVars == <<result, team, stage, tries, cancelled, lockVars, clientVars, queueVars, nodeVars>>

\* A run is open while agents work for it; a restart leaves it without an answer.
Open == {"racing", "decided", "left"}
Results == Open \cup {"idle", "won", "lost"}

Stages == {"idle", "working", "waiting", "submitted", "succeeded", "failed", "cancelled"}
Ended == {"succeeded", "failed", "cancelled"}

\* A request on the wire has an id only, the agent's name and a number: the
\* run is for the properties and is read by no guard.
Requests == [agent : Agents, n : Nat, run : Runs]
SameId(r, s) == r.agent = s.agent /\ r.n = s.n

RaceInit ==
  /\ serving = TRUE
  /\ result = [r \in Runs |-> "idle"]
  /\ team = [r \in Runs |-> {}]
  /\ stage = [a \in Agents |-> "idle"]
  /\ tries = [a \in Agents |-> 0]
  /\ locked = FALSE
  /\ waiters = <<>>
  /\ woken = {}
  /\ cancelled = {}
  /\ counter = 0
  /\ pending = {}
  /\ sending = {}
  /\ queue = {}
  /\ answers = {}
  /\ landed = {}
  /\ orphans = {}
  /\ restarts = 0

---------------------------------------------------------------------------
(* run_task() *)

\* The worker node has checked the agents out.
Begin(r, agents) ==
  /\ serving
  /\ result[r] = "idle"
  /\ agents # {} /\ \A a \in agents : stage[a] = "idle"
  /\ result' = [result EXCEPT ![r] = "racing"]
  /\ team' = [team EXCEPT ![r] = agents]
  /\ stage' = [a \in Agents |-> IF a \in agents THEN "working" ELSE stage[a]]
  /\ tries' = [a \in Agents |-> IF a \in agents THEN 0 ELSE tries[a]]
  /\ UNCHANGED <<cancelled, lockVars, clientVars, queueVars, nodeVars>>

\* as_completed() yields a success: the others are cancelled.
Decide(r) ==
  /\ result[r] = "racing"
  /\ \E a \in team[r] : stage[a] = "succeeded"
  /\ result' = [result EXCEPT ![r] = "decided"]
  /\ cancelled' = cancelled \cup {a \in team[r] : stage[a] \notin Ended}
  /\ UNCHANGED <<team, stage, tries, lockVars, clientVars, queueVars, nodeVars>>

\* Every agent has come to an end; the node checks them in.
Return(r) ==
  /\ result[r] \in {"racing", "decided"}
  /\ \A a \in team[r] : stage[a] \in Ended
  /\ result[r] = "racing" => \A a \in team[r] : stage[a] # "succeeded"
  /\ result' = [result EXCEPT ![r] = IF @ = "decided" THEN "won" ELSE "lost"]
  /\ stage' = [a \in Agents |-> IF a \in team[r] THEN "idle" ELSE stage[a]]
  /\ UNCHANGED <<team, tries, cancelled, lockVars, clientVars, queueVars, nodeVars>>

---------------------------------------------------------------------------
(* asyncio.Lock *)

\* _wake_up_first() on what is left of the queue.
WakeFirst(left, others) ==
  woken' = IF left # <<>> /\ Head(left) \notin others \cup cancelled
           THEN others \cup {Head(left)} ELSE others

Release ==
  /\ locked' = FALSE
  /\ WakeFirst(waiters, woken)
  /\ UNCHANGED waiters

Dequeue(a) == \E k \in DOMAIN waiters : waiters[k] = a /\ waiters' = RemoveAt(waiters, k)

\* acquire() is cancelled: woken or not, the waiter hands a free lock on.
LeaveQueue(a) ==
  /\ Dequeue(a)
  /\ IF locked THEN woken' = woken \ {a} ELSE WakeFirst(waiters', woken \ {a})
  /\ UNCHANGED locked

---------------------------------------------------------------------------
(* agent_workflow() *)

RunOf(a) == CHOOSE r \in Runs : result[r] \in Open /\ a \in team[r]

\* With the lock: _do_merge() of the Lean agents, which calls the client's
\* submit().  A thread begins to send.
Submit(a) ==
  LET request == [agent |-> a, n |-> counter + 1, run |-> RunOf(a)] IN
    /\ locked' = TRUE
    /\ stage' = [stage EXCEPT ![a] = "submitted"]
    /\ counter' = counter + 1
    /\ pending' = pending \cup {request}
    /\ sending' = sending \cup {request}

\* Variant with a bug: the lock stays taken when the merge ends.
LeaveLockHeld == UNCHANGED lockVars

\* The end of _attempt_merge()'s "async with", also when it is cancelled.
LeaveLock == Release

\* The agent has commits that rebase, build and pass review, and asks for the
\* lock; it has it at once when nobody holds it and nobody live waits.
AskLock(a) ==
  /\ stage[a] = "working" /\ a \notin cancelled
  /\ tries[a] < MaxTries
  /\ tries' = [tries EXCEPT ![a] = @ + 1]
  /\ \/ /\ ~locked
        /\ \A k \in DOMAIN waiters : waiters[k] \in cancelled \ woken
        /\ Submit(a)
        /\ UNCHANGED <<waiters, woken>>
     \/ /\ locked \/ \E k \in DOMAIN waiters : waiters[k] \notin cancelled \ woken
        /\ stage' = [stage EXCEPT ![a] = "waiting"]
        /\ waiters' = Append(waiters, a)
        /\ UNCHANGED <<locked, woken, clientVars>>
  /\ UNCHANGED <<result, team, cancelled, queueVars, nodeVars>>

\* A woken waiter runs.
RunWoken(a) ==
  /\ a \in woken \ cancelled
  /\ Dequeue(a)
  /\ woken' = woken \ {a}
  /\ Submit(a)
  /\ UNCHANGED <<result, team, tries, cancelled, queueVars, nodeVars>>

\* No response, no commits, or too many review cycles.
GiveUp(a) ==
  /\ stage[a] = "working" /\ a \notin cancelled
  /\ stage' = [stage EXCEPT ![a] = "failed"]
  /\ UNCHANGED <<result, team, tries, cancelled, lockVars, clientVars, queueVars, nodeVars>>

\* The task of a cancelled agent runs: what it awaits raises.  A waiter leaves
\* the queue, and wakes the next when the lock is free; a submitter releases
\* the lock, but a thread that sends its request goes on, and the future it
\* waited for stays in the client's table.
Stop(a) ==
  /\ a \in cancelled
  /\ cancelled' = cancelled \ {a}
  /\ stage' = [stage EXCEPT ![a] = "cancelled"]
  /\ \/ /\ stage[a] = "working"
        /\ UNCHANGED <<lockVars, sending>>
     \/ /\ stage[a] = "waiting"
        /\ LeaveQueue(a)
        /\ UNCHANGED sending
     \/ /\ stage[a] = "submitted"
        /\ LeaveLock
        \* a send that no thread has begun is given up
        /\ sending' \in {sending, {r \in sending : r.agent # a}}
  /\ UNCHANGED <<result, team, tries, counter, pending, queueVars, nodeVars>>

---------------------------------------------------------------------------
(* The channel to the merge queue *)

\* The agent waits for the future behind this id: of its futures it is the
\* last, the others are of runs that were cancelled.
Awaits(a, request) ==
  /\ stage[a] = "submitted" /\ a \notin cancelled
  /\ \E p \in pending : SameId(p, request)
  /\ \A p \in pending : p.agent = a => p.n <= request.n

\* The thread's send.
Send(r) ==
  /\ r \in sending
  /\ sending' = sending \ {r}
  /\ queue' = queue \cup {r}
  /\ UNCHANGED <<result, team, stage, tries, cancelled, lockVars, counter, pending,
                 answers, landed, nodeVars>>

\* The merge queue's verdict on a request, and the server's response.
Verdict(r, merged) ==
  /\ r \in queue
  /\ queue' = queue \ {r}
  /\ landed' = IF merged THEN landed \cup {r} ELSE landed
  /\ answers' = answers \cup {[request |-> r, merged |-> merged]}
  /\ UNCHANGED <<result, team, stage, tries, cancelled, lockVars, clientVars, nodeVars>>

\* What an agent does after the response.
AfterAnswer(merged) == IF merged THEN "succeeded" ELSE "working"

\* The client's listener resolves the future behind the response's id, if there
\* is one and its agent still waits; the agent leaves the lock, and a rejection
\* sends it back to work.
Answer(m) ==
  /\ m \in answers
  /\ answers' = answers \ {m}
  /\ pending' = {p \in pending : ~SameId(p, m.request)}
  /\ LET a == m.request.agent IN
       \/ /\ Awaits(a, m.request)
          /\ stage' = [stage EXCEPT ![a] = AfterAnswer(m.merged)]
          /\ LeaveLock
       \/ /\ ~Awaits(a, m.request)
          /\ UNCHANGED <<stage, lockVars>>
  /\ UNCHANGED <<result, team, tries, cancelled, counter, sending, queue, landed, nodeVars>>

---------------------------------------------------------------------------
(* Restart of the node *)

\* The node leaves _serve(): its runs are cancelled and answer nobody.
Leave ==
  /\ serving /\ restarts < MaxRestarts
  /\ serving' = FALSE
  /\ restarts' = restarts + 1
  /\ result' = [r \in Runs |-> IF result[r] \in Open THEN "left" ELSE result[r]]
  /\ UNCHANGED <<team, stage, tries, cancelled, lockVars, clientVars, queueVars, orphans>>

\* shutdown() and initialize(): the client closes, which ends the agents that
\* wait for it or for the lock; the pool, the lock and the client are made anew.
Reinitialize ==
  /\ ~serving
  /\ serving' = TRUE
  /\ result' = [r \in Runs |-> IF result[r] \in Open THEN "lost" ELSE result[r]]
  /\ orphans' = orphans \cup {a \in Agents \ cancelled : stage[a] = "working"}
  /\ stage' = [a \in Agents |-> "idle"]
  /\ \E sent \in SUBSET sending : queue' = queue \cup sent
  /\ locked' = FALSE /\ waiters' = <<>> /\ woken' = {} /\ cancelled' = {}
  /\ counter' = 0 /\ pending' = {} /\ sending' = {} /\ answers' = {}
  /\ UNCHANGED <<team, tries, landed, restarts>>

\* An orphan's workflow ends: its call does, or its merge fails on the closed
\* client.
OrphanEnds(a) ==
  /\ a \in orphans
  /\ orphans' = orphans \ {a}
  /\ UNCHANGED <<result, team, stage, tries, cancelled, lockVars, clientVars, queueVars,
                 serving, restarts>>

---------------------------------------------------------------------------
RaceNext ==
  \/ \E r \in Runs, agents \in Teams : Begin(r, agents)
  \/ \E r \in Runs : Decide(r) \/ Return(r)
  \/ \E a \in Agents : AskLock(a) \/ RunWoken(a) \/ GiveUp(a) \/ Stop(a) \/ OrphanEnds(a)
  \/ \E r \in sending : Send(r)
  \/ \E r \in queue, merged \in BOOLEAN : Verdict(r, merged)
  \/ \E m \in answers : Answer(m)
  \/ Leave \/ Reinitialize

RaceSpec == RaceInit /\ [][RaceNext]_raceVars

\* The event loop runs what is ready, threads send, the merge queue answers
\* (MergeQueue!EveryRequestResolved), an agent's turns end, and a restart ends.
RaceFairness ==
  /\ \A r \in Runs : WF_raceVars(Decide(r)) /\ WF_raceVars(Return(r))
  /\ \A a \in Agents :
       WF_raceVars(AskLock(a) \/ GiveUp(a)) /\ WF_raceVars(RunWoken(a)) /\ WF_raceVars(Stop(a))
  /\ WF_raceVars(\E r \in sending : Send(r))
  /\ WF_raceVars(\E r \in queue, merged \in BOOLEAN : Verdict(r, merged))
  /\ WF_raceVars(\E m \in answers : Answer(m))
  /\ WF_raceVars(Reinitialize)

RaceFairSpec == RaceSpec /\ RaceFairness

---------------------------------------------------------------------------
(* Properties *)

RaceTypeOK ==
  /\ serving \in BOOLEAN
  /\ result \in [Runs -> Results]
  /\ team \in [Runs -> SUBSET Agents]
  /\ stage \in [Agents -> Stages]
  /\ tries \in [Agents -> 0..MaxTries]
  /\ locked \in BOOLEAN
  /\ waiters \in Seq(Agents)
  /\ woken \subseteq {waiters[k] : k \in DOMAIN waiters}
  /\ cancelled \subseteq Agents
  /\ counter \in Nat
  /\ pending \subseteq Requests
  /\ sending \subseteq Requests
  /\ queue \subseteq Requests
  /\ answers \subseteq [request : Requests, merged : BOOLEAN]
  /\ landed \subseteq Requests
  /\ orphans \subseteq Agents
  /\ restarts \in 0..MaxRestarts

\* The lock is held by exactly one agent, the one whose request is out, however
\* answers, wake-ups and cancellations meet (_attempt_merge).
OneSubmitter ==
  /\ \A a, b \in Agents : stage[a] = "submitted" /\ stage[b] = "submitted" => a = b
  /\ locked <=> \E a \in Agents : stage[a] = "submitted"

\* A free lock with a queue is on its way to somebody: no cancelled waiter takes
\* the wake-up with it.
NoLostWakeup ==
  ~locked /\ waiters # <<>> => Head(waiters) \in woken \cup cancelled

\* The inductive invariant behind the two: the queue of the lock holds the
\* waiting agents, each once, and only the first of them can have been woken,
\* when the lock is free.
LockInv ==
  /\ \A k \in DOMAIN waiters : stage[waiters[k]] = "waiting"
  /\ \A j, k \in DOMAIN waiters : waiters[j] = waiters[k] => j = k
  /\ woken # {} => ~locked /\ waiters # <<>> /\ woken = {Head(waiters)}
  /\ OneSubmitter
  /\ NoLostWakeup

\* Agents of a run that has returned are at work for nobody: the node may check
\* them in and give them to another run (run_task waits for those it cancels).
TeamsDisjoint ==
  \A a \in Agents :
    stage[a] # "idle" =>
      \E r \in Runs : /\ result[r] \in Open /\ a \in team[r]
                      /\ \A s \in Runs \ {r} : result[s] \in Open => a \notin team[s]

\* Nobody is told that its work is merged before some work of it is.
MergedHasLanded ==
  \A a \in Agents : stage[a] = "succeeded" => \E r \in landed : r.agent = a

\* Every run of a task returns.
RunReturns == \A r \in Runs : result[r] = "racing" ~> result[r] \in {"won", "lost"}

\* "This prevents concurrent agents racing on the same task from flooding the
\* merge queue with duplicate requests" (_attempt_merge): no request for a task
\* is in the queue when the task has landed.
NoDuplicateRequest == \A q \in queue, l \in landed : q.run # l.run

\* "responses are routed by request ID" (MergeQueueClient): the agent that is
\* told its work is merged is the agent whose work was merged, in this run.
AnswerIsOwn ==
  \A a \in Agents :
    stage[a] = "succeeded" => \E l \in landed : l.agent = a /\ l.run = RunOf(a)

\* "Each worker operates in an isolated git worktree" (docs/pipeline/bot.md): no
\* workflow of an earlier pool is in the worktree of an agent at work.
IsolatedWorktrees ==
  \A a \in Agents : stage[a] \in {"working", "waiting", "submitted"} => a \notin orphans

=============================================================================
