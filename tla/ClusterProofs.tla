--------------------------- MODULE ClusterProofs ---------------------------
(***************************************************************************)
(* Proofs about the processes of a run: DistributedExecutor, for any       *)
(* workers, tasks, agents and bounds; the servers that processes share     *)
(* through files (RdvServer), for any clients, reconnects and mishaps; and *)
(* the start and the end of a run (Startup), for any workers, numbers of   *)
(* agents, restarts and failures.                                          *)
(***************************************************************************)
EXTENDS DistributedExecutor, RdvServer, Startup, TLAPS

(* The executor of worker nodes *)


\* The tables keyed by task, typed; the workers have no part in the argument.
TablesTyped ==
  /\ nodes \subseteq Workers
  /\ call \in [Tasks -> {"idle", "waiting", "sent"}]
  /\ rankOf \in [Tasks -> Workers \cup {Nobody}]
  /\ pending \subseteq Tasks

TablesInv == TablesTyped /\ BookkeepingAgrees

tableVars == <<nodes, call, rankOf, pending, unacked>>

\* What the worker nodes do never touches the coordinator's tables: run() and
\* _listen() are their only writers.
LEMMA WorkersKeepTables ==
  ASSUME NEW w \in Workers, WorkerStep(w) \/ Die(w)
  PROVE  UNCHANGED tableVars
BY DEF WorkerStep, Start, TurnAway, Complete, Restart, Register, Die, coordVars, tableVars

\* The tables agree on a task that ends (Return), whichever set of tasks ends
\* in one round of the listener.
LEMMA ReturnKeepsTables ==
  ASSUME TablesInv, NEW tasks, Return(tasks), nodes' \subseteq Workers,
         unacked' \subseteq unacked \ tasks
  PROVE  TablesInv'
<1>1. TablesTyped'
  BY DEF TablesInv, TablesTyped, Return
<1>2. \A t \in Tasks : call'[t] = "sent" <=> t \in pending'
  BY DEF TablesInv, TablesTyped, BookkeepingAgrees, Return
<1>3. \A t \in Tasks : t \in pending' <=> rankOf'[t] # Nobody
  BY DEF TablesInv, TablesTyped, BookkeepingAgrees, Return
<1>4. unacked' \subseteq pending'
  BY DEF TablesInv, BookkeepingAgrees, Return
<1>. QED
  BY <1>1, <1>2, <1>3, <1>4 DEF TablesInv, BookkeepingAgrees

LEMMA RoundKeepsTables ==
  ASSUME TablesInv, NEW w \in Workers, Round(w)
  PROVE  TablesInv'
<1>1. PICK n \in 0..Len(up[w]), late \in BOOLEAN :
        LET got == SubSeq(up[w], 1, n)
            watched == unacked \ TasksOf(got, "ack")
            lost == IF late THEN LostWith(w) ELSE {}
            answered == TasksOf(got, "result")
        IN /\ unacked' = watched \ (lost \cup answered)
           /\ Return(lost \cup answered)
           /\ \/ nodes' = nodes \cup {w}
              \/ nodes' = nodes \ {w}
              \/ nodes' = nodes
  BY DEF Round
<1>. DEFINE got == SubSeq(up[w], 1, n)
            ended == (IF late THEN LostWith(w) ELSE {}) \cup TasksOf(got, "result")
<1>2. unacked' \subseteq unacked \ ended
  BY <1>1
<1>3. nodes' \subseteq Workers
  BY <1>1 DEF TablesInv, TablesTyped
<1>4. Return(ended)
  BY <1>1
<1>. HIDE DEF ended
<1>. QED
  BY <1>2, <1>3, <1>4, ReturnKeepsTables

\* The inductive invariant: the three tables of a call agree.
THEOREM TablesInvariant == Spec => []TablesInv
<1>1. Init => TablesInv
  BY DEF Init, TablesInv, TablesTyped, BookkeepingAgrees
<1>2. TablesInv /\ [Next]_vars => TablesInv'
  <2>. SUFFICES ASSUME TablesInv, [Next]_vars
                PROVE  TablesInv'
    OBVIOUS
  <2>. USE ExecutorAssumption DEF TablesInv
  <2>1. ASSUME NEW t \in Tasks, Call(t)
        PROVE  TablesInv'
    <3>1. UNCHANGED <<nodes, rankOf, pending, unacked>>
      BY <2>1 DEF Call
    <3>2. call' = [call EXCEPT ![t] = "waiting"] /\ call[t] = "idle"
      BY <2>1 DEF Call
    <3>. QED
      BY <3>1, <3>2 DEF TablesTyped, BookkeepingAgrees
  <2>2. ASSUME NEW t \in Tasks, NoNodes(t)
        PROVE  TablesInv'
    <3>1. UNCHANGED <<nodes, rankOf, pending, unacked>>
      BY <2>2 DEF NoNodes
    <3>2. call' = [call EXCEPT ![t] = "idle"] /\ call[t] = "waiting"
      BY <2>2 DEF NoNodes
    <3>. QED
      BY <3>1, <3>2 DEF TablesTyped, BookkeepingAgrees
  <2>3. ASSUME NEW t \in Tasks, Dispatch(t)
        PROVE  TablesInv'
    <3>1. PICK w \in Workers : rankOf' = [rankOf EXCEPT ![t] = w]
      BY <2>3 DEF Dispatch, Candidates, TablesTyped
    <3>2. /\ call' = [call EXCEPT ![t] = "sent"]
          /\ pending' = pending \cup {t}
          /\ unacked' = unacked \cup {t}
          /\ nodes' = nodes
      BY <2>3 DEF Dispatch
    <3>. QED
      BY <3>1, <3>2 DEF TablesTyped, BookkeepingAgrees
  <2>4. ASSUME NEW w \in Workers, Round(w)
        PROVE  TablesInv'
    BY <2>4, RoundKeepsTables
  <2>5. ASSUME UNCHANGED tableVars
        PROVE  TablesInv'
    BY <2>5 DEF tableVars, TablesTyped, BookkeepingAgrees
  <2>6. ASSUME NEW w \in Workers, WorkerStep(w) \/ Die(w)
        PROVE  TablesInv'
    BY <2>5, <2>6, WorkersKeepTables
  <2>7. CASE UNCHANGED vars
    BY <2>5, <2>7 DEF vars, coordVars, tableVars
  <2>. QED
    BY <2>1, <2>2, <2>3, <2>4, <2>6, <2>7 DEF Next
<1>. QED
  BY <1>1, <1>2, PTL DEF Spec

\* However restarts, deaths, late ACKs and late results interleave, a call of
\* run() that waits has its future and its rank, and only such a call's ACK is
\* waited for: no result, and no dead worker, ends half a call.
THEOREM BookkeepingAlwaysAgrees == Spec => []BookkeepingAgrees
<1>1. TablesInv => BookkeepingAgrees
  BY DEF TablesInv
<1>. QED
  BY <1>1, TablesInvariant, PTL

---------------------------------------------------------------------------
(* Dispatches: where the first attempt of a task can be.                   *)

\* The channels and the jobs, typed; capacities are any integers here.
Orders == [type : {"task"}, task : Tasks, attempt : Nat, agents : Int] \cup {[type |-> "restart"]}
Reports ==
  [type : {"register"}, capacity : Int]
    \cup [type : {"ack"}, task : Tasks, attempt : Nat]
    \cup [type : {"result"}, task : Tasks, attempt : Nat, capacity : Int]

ChannelsTyped ==
  /\ down \in [Workers -> Seq(Orders)]
  /\ up \in [Workers -> Seq(Reports)]
  /\ jobs \in [Workers -> SUBSET [task : Tasks, attempt : Nat, agents : Int]]
  /\ busy \in [Workers -> Int]
  /\ capacity \in [Workers -> Int]
  /\ attempt \in [Tasks -> Nat]
  /\ node \in [Workers -> {"starting", "serving", "gone", "dead"}]

\* Worker w has not been sent the task t and has not ACKed it.
Unseen(t, w) == t \notin TasksOf(down[w], "task") /\ t \notin TasksOf(up[w], "ack")

\* The three places of a first attempt at a worker that lives: its result is on the
\* way back; it runs, and no restart can reach it, since one would have been sent
\* after it, with the task failed; or it has not been started, and is watched,
\* with no restart behind it.
Reported(t, w) == \E k \in Positions(up[w], "result") : up[w][k].task = t /\ up[w][k].attempt = 1

Running(t, w) ==
  /\ \E j \in jobs[w] : j.task = t /\ j.attempt = 1
  /\ Positions(down[w], "restart") = {}

Unstarted(t, w) ==
  /\ t \in unacked /\ t \notin TasksOf(up[w], "ack")
  /\ \A k \in Positions(down[w], "task") : down[w][k].task = t =>
       /\ down[w][k].attempt = 1
       /\ \A i \in Positions(down[w], "restart") : i < k

Somewhere(t, w) == node[w] = "dead" \/ Reported(t, w) \/ Running(t, w) \/ Unstarted(t, w)

FirstIsSomewhere(t) ==
  /\ attempt[t] = 0 => call[t] = "idle"
  /\ attempt[t] = 0 \/ (attempt[t] = 1 /\ call[t] = "waiting") => \A w \in Workers : Unseen(t, w)
  /\ attempt[t] = 1 /\ call[t] = "sent" =>
       /\ \A w \in Workers \ {rankOf[t]} : Unseen(t, w)
       /\ Somewhere(t, rankOf[t])

DispatchInv == \A t \in Tasks : FirstIsSomewhere(t)

(* Positions and tasks of the messages of a channel, when one is appended, *)
(* the head is taken, or a number of them.                                 *)

LEMMA AppendTask ==
  ASSUME NEW S, NEW s \in Seq(S), NEW m \in S, NEW type, NEW t, t \notin TasksOf(s, type),
         m.type = type => m.task # t
  PROVE  t \notin TasksOf(Append(s, m), type)
<1>. DEFINE u == Append(s, m)
<1>1. /\ \A i \in DOMAIN u : i \in DOMAIN s \/ i = Len(s) + 1
      /\ u[Len(s) + 1] = m
      /\ \A i \in DOMAIN s : u[i] = s[i]
  OBVIOUS
<1>. HIDE DEF u
<1>. SUFFICES ASSUME NEW k \in DOMAIN u, u[k].type = type, u[k].task = t
              PROVE  FALSE
  BY DEF TasksOf, Positions, u
<1>2. CASE k \in DOMAIN s
  BY <1>1, <1>2 DEF TasksOf, Positions
<1>3. CASE k = Len(s) + 1
  BY <1>1, <1>3
<1>. QED
  BY <1>1, <1>2, <1>3

LEMMA TakeMessages ==
  ASSUME NEW S, NEW s \in Seq(S), NEW n \in 0..Len(s), NEW type
  PROVE  /\ \A k \in Positions(SubSeq(s, 1, n), type) : k \in Positions(s, type) /\ SubSeq(s, 1, n)[k] = s[k]
         /\ \A k \in Positions(SubSeq(s, n + 1, Len(s)), type) :
              k + n \in Positions(s, type) /\ SubSeq(s, n + 1, Len(s))[k] = s[k + n]
         /\ \A k \in Positions(s, type) :
              \/ k \in Positions(SubSeq(s, 1, n), type)
              \/ k - n \in Positions(SubSeq(s, n + 1, Len(s)), type)
         /\ SubSeq(s, 1, n) \in Seq(S) /\ SubSeq(s, n + 1, Len(s)) \in Seq(S)
         /\ TasksOf(SubSeq(s, 1, n), type) \subseteq TasksOf(s, type)
         /\ TasksOf(SubSeq(s, n + 1, Len(s)), type) \subseteq TasksOf(s, type)
<1>. DEFINE p == SubSeq(s, 1, n)
            r == SubSeq(s, n + 1, Len(s))
<1>1. /\ Len(s) \in Nat /\ n \in Nat /\ DOMAIN s = 1..Len(s)
      /\ p \in Seq(S) /\ r \in Seq(S)
      /\ DOMAIN p = 1..n /\ DOMAIN r = 1..(Len(s) - n)
      /\ \A k \in 1..n : p[k] = s[k]
      /\ \A k \in 1..(Len(s) - n) : r[k] = s[k + n]
  OBVIOUS
<1>. HIDE DEF p, r
<1>2. \A k \in Positions(p, type) : k \in Positions(s, type) /\ p[k] = s[k]
  BY <1>1 DEF Positions
<1>3. \A k \in Positions(r, type) : k + n \in Positions(s, type) /\ r[k] = s[k + n]
  <2>1. \A k \in 1..(Len(s) - n) : k + n \in 1..Len(s)
    BY <1>1
  <2>. QED
    BY <1>1, <2>1 DEF Positions
<1>4. \A k \in Positions(s, type) : k \in Positions(p, type) \/ k - n \in Positions(r, type)
  <2>. SUFFICES ASSUME NEW k \in 1..Len(s), s[k].type = type
                PROVE  k \in Positions(p, type) \/ k - n \in Positions(r, type)
    BY <1>1 DEF Positions
  <2>1. CASE k <= n
    BY <1>1, <2>1 DEF Positions
  <2>2. CASE k > n
    <3>1. k - n \in 1..(Len(s) - n) /\ (k - n) + n = k
      BY <1>1, <2>2
    <3>. QED
      BY <1>1, <3>1 DEF Positions
  <2>. QED
    BY <1>1, <2>1, <2>2
<1>5. TasksOf(p, type) \subseteq TasksOf(s, type) /\ TasksOf(r, type) \subseteq TasksOf(s, type)
  BY <1>2, <1>3 DEF TasksOf
<1>. QED
  BY <1>1, <1>2, <1>3, <1>4, <1>5 DEF p, r

LEMMA TailMessages ==
  ASSUME NEW S, NEW s \in Seq(S), s # <<>>, NEW type
  PROVE  /\ Tail(s) \in Seq(S) /\ Head(s) \in S
         /\ TasksOf(Tail(s), type) \subseteq TasksOf(s, type)
         /\ Head(s).type = type => 1 \in Positions(s, type) /\ s[1] = Head(s)
<1>1. /\ Len(s) \in Nat \ {0} /\ DOMAIN s = 1..Len(s) /\ Head(s) = s[1]
      /\ Tail(s) \in Seq(S) /\ DOMAIN Tail(s) = 1..(Len(s) - 1)
      /\ \A k \in 1..(Len(s) - 1) : Tail(s)[k] = s[k + 1]
      /\ Head(s) \in S
  OBVIOUS
<1>2. \A k \in Positions(Tail(s), type) : k + 1 \in Positions(s, type) /\ Tail(s)[k] = s[k + 1]
  BY <1>1 DEF Positions
<1>. QED
  BY <1>1, <1>2 DEF TasksOf, Positions

LEMMA TailPositions ==
  ASSUME NEW S, NEW s \in Seq(S), s # <<>>, NEW type
  PROVE  \A k \in Positions(Tail(s), type) :
           k \in Nat \ {0} /\ k + 1 \in Positions(s, type) /\ Tail(s)[k] = s[k + 1]
<1>1. /\ Len(s) \in Nat \ {0} /\ DOMAIN s = 1..Len(s)
      /\ DOMAIN Tail(s) = 1..(Len(s) - 1)
      /\ \A k \in 1..(Len(s) - 1) : Tail(s)[k] = s[k + 1]
  OBVIOUS
<1>. QED
  BY <1>1 DEF Positions

\* The channels keep their types, and capacities and counts of agents are integers.
LEMMA ChannelsStayTyped ==
  ASSUME TablesInv, ChannelsTyped, [Next]_vars
  PROVE  ChannelsTyped'
<1>. USE DEF ChannelsTyped
<1>1. ASSUME NEW t \in Tasks, Call(t) \/ NoNodes(t)
      PROVE  ChannelsTyped'
  <2>1. attempt' \in [Tasks -> Nat]
    <3>1. CASE Call(t)
      BY <3>1 DEF Call
    <3>2. CASE NoNodes(t)
      BY <3>2 DEF NoNodes
    <3>. QED
      BY <1>1, <3>1, <3>2
  <2>2. UNCHANGED <<capacity, down, up, jobs, busy, node>>
    BY <1>1 DEF Call, NoNodes, workerVars
  <2>. QED
    BY <2>1, <2>2
<1>2. ASSUME NEW t \in Tasks, Dispatch(t)
      PROVE  ChannelsTyped'
  <2>1. PICK w \in Candidates :
          LET n == Smaller(MaxAgents, capacity[w])
          IN  /\ Send(w, [type |-> "task", task |-> t, attempt |-> attempt[t], agents |-> n])
              /\ capacity' = [capacity EXCEPT ![w] = @ - n]
    BY <1>2 DEF Dispatch
  <2>. DEFINE n == Smaller(MaxAgents, capacity[w])
              m == [type |-> "task", task |-> t, attempt |-> attempt[t], agents |-> n]
  <2>2. w \in Workers /\ n \in Int
    BY ExecutorAssumption DEF Candidates, TablesInv, TablesTyped, Smaller
  <2>3. m \in Orders
    BY <2>2 DEF Orders
  <2>4. capacity' \in [Workers -> Int]
    BY <2>1, <2>2
  <2>5. down' \in [Workers -> Seq(Orders)]
    <3>1. Append(down[w], m) \in Seq(Orders)
      BY <2>2, <2>3
    <3>. QED
      BY <2>1, <2>2, <3>1 DEF Send
  <2>. QED
    BY <1>2, <2>4, <2>5 DEF Dispatch, workerVars
<1>3. ASSUME NEW w \in Workers, Round(w)
      PROVE  ChannelsTyped'
  <2>1. PICK n \in 0..Len(up[w]), late \in BOOLEAN :
          /\ up' = [up EXCEPT ![w] = SubSeq(@, n + 1, Len(@))]
          /\ IF late THEN Send(w, [type |-> "restart"]) ELSE UNCHANGED down
          /\ \/ \E k \in Positions(SubSeq(up[w], 1, n), "result") \cup Positions(SubSeq(up[w], 1, n), "register") :
                   capacity' = [capacity EXCEPT ![w] = SubSeq(up[w], 1, n)[k].capacity]
             \/ capacity' = [capacity EXCEPT ![w] = 0]
             \/ capacity' = capacity
          /\ UNCHANGED <<attempt, workerVars>>
    BY <1>3 DEF Round, Latest
  <2>2. up' \in [Workers -> Seq(Reports)]
    BY <2>1, TakeMessages
  <2>3. down' \in [Workers -> Seq(Orders)]
    <3>1. Append(down[w], [type |-> "restart"]) \in Seq(Orders)
      BY DEF Orders
    <3>. QED
      BY <2>1, <3>1 DEF Send
  <2>4. \A k \in Positions(SubSeq(up[w], 1, n), "result") \cup Positions(SubSeq(up[w], 1, n), "register") :
          SubSeq(up[w], 1, n)[k].capacity \in Int
    <3>. DEFINE p == SubSeq(up[w], 1, n)
    <3>1. p \in Seq(Reports)
      BY TakeMessages
    <3>. HIDE DEF p
    <3>2. \A k \in DOMAIN p : p[k] \in Reports
      BY <3>1
    <3>3. \A r \in Reports : r.type \in {"result", "register"} => r.capacity \in Int
      BY DEF Reports
    <3>. QED
      BY <3>2, <3>3 DEF Positions, p
  <2>5. capacity' \in [Workers -> Int]
    <3>. DEFINE got == SubSeq(up[w], 1, n)
                K == Positions(got, "result") \cup Positions(got, "register")
    <3>1. \A k \in K : got[k].capacity \in Int
      BY <2>4
    <3>2. \/ \E k \in K : capacity' = [capacity EXCEPT ![w] = got[k].capacity]
          \/ capacity' = [capacity EXCEPT ![w] = 0]
          \/ capacity' = capacity
      BY <2>1
    <3>. HIDE DEF K, got
    <3>3. ASSUME NEW c \in Int, capacity' = [capacity EXCEPT ![w] = c]
          PROVE  capacity' \in [Workers -> Int]
      BY <3>3
    <3>. QED
      BY <3>1, <3>2, <3>3
  <2>. QED
    BY <2>1, <2>2, <2>3, <2>5 DEF workerVars
<1>4. ASSUME NEW w \in Workers, Start(w)
      PROVE  ChannelsTyped'
  <2>. DEFINE m == Head(down[w])
              n == Smaller(m.agents, Free(w))
  <2>1. m \in [type : {"task"}, task : Tasks, attempt : Nat, agents : Int] /\ Tail(down[w]) \in Seq(Orders)
    BY <1>4, TailMessages DEF Start, Arrives, Orders
  <2>2. n \in Int
    BY <2>1, ExecutorAssumption DEF Smaller, Free
  <2>3. Ack(m) \in Reports
    BY <2>1 DEF Ack, Reports
  <2>4. Append(up[w], Ack(m)) \in Seq(Reports)
    BY <2>3
  <2>5. [task |-> m.task, attempt |-> m.attempt, agents |-> n] \in [task : Tasks, attempt : Nat, agents : Int]
    BY <2>1, <2>2
  <2>. HIDE DEF n
  <2>6. /\ up' = [up EXCEPT ![w] = Append(@, Ack(m))]
        /\ jobs' = [jobs EXCEPT ![w] = @ \cup {[task |-> m.task, attempt |-> m.attempt, agents |-> n]}]
        /\ busy' = [busy EXCEPT ![w] = @ + n]
        /\ down' = [down EXCEPT ![w] = Tail(@)]
        /\ UNCHANGED <<capacity, attempt, node>>
    BY <1>4 DEF Start, n, coordVars
  <2>. QED
    BY <2>1, <2>2, <2>4, <2>5, <2>6
<1>5. ASSUME NEW w \in Workers, TurnAway(w)
      PROVE  ChannelsTyped'
  <2>. DEFINE m == Head(down[w])
  <2>1. m \in [type : {"task"}, task : Tasks, attempt : Nat, agents : Int] /\ Tail(down[w]) \in Seq(Orders)
    BY <1>5, TailMessages DEF TurnAway, Arrives, Orders
  <2>2. Ack(m) \in Reports /\ Result(m, 0) \in Reports
    BY <2>1 DEF Ack, Result, Reports
  <2>3. up[w] \o <<Ack(m), Result(m, 0)>> \in Seq(Reports)
    BY <2>2
  <2>. QED
    BY <1>5, <2>1, <2>3 DEF TurnAway, coordVars, workerVars
<1>6. ASSUME NEW w \in Workers, Complete(w)
      PROVE  ChannelsTyped'
  <2>1. PICK j \in jobs[w] :
          /\ jobs' = [jobs EXCEPT ![w] = @ \ {j}]
          /\ busy' = [busy EXCEPT ![w] = @ - j.agents]
          /\ up' = [up EXCEPT ![w] = Append(@, Result(j, Free(w) + j.agents))]
    BY <1>6 DEF Complete
  <2>2. j \in [task : Tasks, attempt : Nat, agents : Int]
    OBVIOUS
  <2>3. Result(j, Free(w) + j.agents) \in Reports
    BY <2>2, ExecutorAssumption DEF Result, Free, Reports
  <2>4. Append(up[w], Result(j, Free(w) + j.agents)) \in Seq(Reports)
    BY <2>3
  <2>. QED
    BY <1>6, <2>1, <2>2, <2>4 DEF Complete, coordVars
<1>7. ASSUME NEW w \in Workers, Restart(w)
      PROVE  ChannelsTyped'
  BY <1>7 DEF Restart, coordVars
<1>8. ASSUME NEW w \in Workers, Register(w)
      PROVE  ChannelsTyped'
  <2>1. [type |-> "register", capacity |-> Agents] \in Reports
    BY ExecutorAssumption DEF Reports
  <2>2. Append(up[w], [type |-> "register", capacity |-> Agents]) \in Seq(Reports)
    BY <2>1
  <2>. QED
    BY <1>8, <2>2 DEF Register, coordVars
<1>9. ASSUME NEW w \in Workers, Die(w)
      PROVE  ChannelsTyped'
  <2>1. PICK n \in 0..Len(up[w]) : up' = [up EXCEPT ![w] = SubSeq(@, 1, n)]
    BY <1>9 DEF Die
  <2>2. up' \in [Workers -> Seq(Reports)]
    BY <2>1, TakeMessages
  <2>. QED
    BY <1>9, <2>2 DEF Die, coordVars
<1>10. CASE UNCHANGED vars
  BY <1>10 DEF vars, coordVars, workerVars
<1>. QED
  BY <1>1, <1>2, <1>3, <1>4, <1>5, <1>6, <1>7, <1>8, <1>9, <1>10 DEF Next, WorkerStep

\* What a worker does shows no task to it that it had not seen before ...
LEMMA WorkerKeepsUnseen ==
  ASSUME ChannelsTyped, NEW w \in Workers, WorkerStep(w) \/ Die(w),
         NEW v \in Workers, NEW t \in Tasks, Unseen(t, v)
  PROVE  Unseen(t, v)'
<1>. USE DEF Unseen, ChannelsTyped
<1>1. CASE v # w
  <2>1. down'[v] = down[v] /\ up'[v] = up[v]
    BY <1>1 DEF WorkerStep, Start, TurnAway, Complete, Restart, Register, Die
  <2>. QED
    BY <2>1
<1>2. CASE v = w /\ Start(w)
  <2>. DEFINE m == Head(down[w])
  <2>1. m \in Orders /\ m.type = "task" /\ down[w] # <<>>
    BY <1>2, TailMessages DEF Start, Arrives
  <2>2. m.task # t /\ Ack(m) \in Reports /\ Ack(m).task = m.task /\ Ack(m).type = "ack"
    BY <1>2, <2>1, TailMessages DEF Orders, Reports, Ack, TasksOf
  <2>3. t \notin TasksOf(Tail(down[w]), "task")
    BY <1>2, <2>1, TailMessages
  <2>. HIDE DEF m
  <2>4. t \notin TasksOf(Append(up[w], Ack(m)), "ack")
    BY <1>2, <2>2, AppendTask
  <2>. QED
    BY <1>2, <2>3, <2>4 DEF Start, m
<1>3. CASE v = w /\ TurnAway(w)
  <2>. DEFINE m == Head(down[w])
              u == Append(up[w], Ack(m))
  <2>1. m \in Orders /\ m.type = "task" /\ down[w] # <<>>
    BY <1>3, TailMessages DEF TurnAway, Arrives
  <2>2. m.task # t /\ Ack(m) \in Reports /\ Ack(m).task = m.task /\ Ack(m).type = "ack"
    BY <1>3, <2>1, TailMessages DEF Orders, Reports, Ack, TasksOf
  <2>3. t \notin TasksOf(Tail(down[w]), "task")
    BY <1>3, <2>1, TailMessages
  <2>4. Result(m, 0) \in Reports /\ Result(m, 0).type = "result"
    BY <2>1 DEF Orders, Reports, Result
  <2>. HIDE DEF m
  <2>5. t \notin TasksOf(u, "ack") /\ u \in Seq(Reports)
    BY <1>3, <2>2, AppendTask
  <2>6. up[w] \o <<Ack(m), Result(m, 0)>> = Append(u, Result(m, 0))
    BY <2>2, <2>4
  <2>. HIDE DEF u
  <2>7. t \notin TasksOf(Append(u, Result(m, 0)), "ack")
    BY <2>4, <2>5, AppendTask
  <2>. QED
    BY <1>3, <2>3, <2>6, <2>7 DEF TurnAway, m
<1>4. CASE v = w /\ Complete(w)
  <2>1. PICK j \in jobs[w] : up' = [up EXCEPT ![w] = Append(@, Result(j, Free(w) + j.agents))]
    BY <1>4 DEF Complete
  <2>. DEFINE r == Result(j, Free(w) + j.agents)
  <2>2. r \in Reports /\ r.type = "result"
    BY ExecutorAssumption DEF Reports, Result, Free
  <2>. HIDE DEF r
  <2>3. t \notin TasksOf(Append(up[w], r), "ack")
    BY <1>4, <2>2, AppendTask
  <2>. QED
    BY <1>4, <2>1, <2>3 DEF Complete, r
<1>5. CASE v = w /\ Restart(w)
  BY <1>5 DEF Restart, TasksOf, Positions
<1>6. CASE v = w /\ Register(w)
  <2>. DEFINE m == [type |-> "register", capacity |-> Agents]
  <2>1. m \in Reports /\ m.type = "register"
    BY ExecutorAssumption DEF Reports
  <2>. HIDE DEF m
  <2>2. t \notin TasksOf(Append(up[w], m), "ack")
    BY <1>6, <2>1, AppendTask
  <2>. QED
    BY <1>6, <2>2 DEF Register, m
<1>7. CASE v = w /\ Die(w)
  <2>1. PICK n \in 0..Len(up[w]) : up' = [up EXCEPT ![w] = SubSeq(@, 1, n)]
    BY <1>7 DEF Die
  <2>2. t \notin TasksOf(SubSeq(up[w], 1, n), "ack")
    BY <1>7, TakeMessages
  <2>3. down'[w] = <<>>
    BY <1>7 DEF Die
  <2>. QED
    BY <1>7, <2>1, <2>2, <2>3 DEF TasksOf, Positions
<1>. QED
  BY <1>1, <1>2, <1>3, <1>4, <1>5, <1>6, <1>7 DEF WorkerStep

\* ... and a first attempt that is at one of its places stays at one.
LEMMA WorkerKeepsPlace ==
  ASSUME ChannelsTyped, NEW w \in Workers, WorkerStep(w) \/ Die(w),
         NEW t \in Tasks, Somewhere(t, w)
  PROVE  Somewhere(t, w)'
<1>. USE DEF ChannelsTyped
<1>0. unacked' = unacked
  BY DEF WorkerStep, Start, TurnAway, Complete, Restart, Register, Die, coordVars
<1>1. CASE node[w] = "dead"
  BY <1>1 DEF Somewhere, WorkerStep, Start, TurnAway, Complete, Restart, Register, Die, Arrives, workerVars
<1>2. ASSUME NEW m \in Reports, up' = [up EXCEPT ![w] = Append(@, m)], Reported(t, w)
      PROVE  Reported(t, w)'
  <2>1. PICK k \in Positions(up[w], "result") : up[w][k].task = t /\ up[w][k].attempt = 1
    BY <1>2 DEF Reported
  <2>2. k \in Positions(up'[w], "result") /\ up'[w][k] = up[w][k]
    <3>1. \A i \in DOMAIN up[w] : i \in DOMAIN up'[w] /\ up'[w][i] = up[w][i]
      BY <1>2
    <3>. QED
      BY <3>1 DEF Positions
  <2>. QED
    BY <1>2, <2>1, <2>2 DEF Reported
<1>3. ASSUME Start(w)
      PROVE  Somewhere(t, w)'
  <2>. DEFINE m == Head(down[w])
              n == Smaller(m.agents, Free(w))
              j == [task |-> m.task, attempt |-> m.attempt, agents |-> n]
  <2>1. m \in Orders /\ m.type = "task" /\ down[w] # <<>>
    BY <1>3, TailMessages DEF Start, Arrives
  <2>2. Ack(m) \in Reports /\ Ack(m).type = "ack" /\ Ack(m).task = m.task
    BY <2>1 DEF Orders, Reports, Ack
  <2>. HIDE DEF m, n
  <2>3. /\ up' = [up EXCEPT ![w] = Append(@, Ack(m))]
        /\ jobs' = [jobs EXCEPT ![w] = @ \cup {j}]
        /\ down' = [down EXCEPT ![w] = Tail(@)]
    BY <1>3 DEF Start, m, n
  <2>4. \A k \in Positions(Tail(down[w]), "restart") : k \in Nat \ {0} /\ k + 1 \in Positions(down[w], "restart")
    BY <2>1, TailPositions
  <2>5. CASE Reported(t, w)
    BY <1>2, <2>2, <2>3, <2>5 DEF Somewhere
  <2>6. CASE Running(t, w)
    BY <2>3, <2>4, <2>6 DEF Running, Somewhere
  <2>7. CASE Unstarted(t, w) /\ m.task = t
    <3>1. 1 \in Positions(down[w], "task") /\ down[w][1] = m
      BY <2>1, TailMessages DEF m
    <3>2. m.attempt = 1 /\ \A i \in Positions(down[w], "restart") : i < 1
      BY <2>7, <3>1 DEF Unstarted
    <3>4. Positions(Tail(down[w]), "restart") = {}
      BY <2>4, <3>2
    <3>5. j.task = t /\ j.attempt = 1 /\ j \in jobs'[w]
      BY <2>3, <2>7, <3>2
    <3>. QED
      BY <2>3, <3>4, <3>5 DEF Running, Somewhere
  <2>8. CASE Unstarted(t, w) /\ m.task # t
    <3>1. t \notin TasksOf(up'[w], "ack")
      BY <2>2, <2>3, <2>8, AppendTask DEF Unstarted
    <3>. DEFINE d == Tail(down[w])
    <3>2. \A k \in Positions(d, "task") : k \in Nat /\ k + 1 \in Positions(down[w], "task") /\ d[k] = down[w][k + 1]
      BY <2>1, TailPositions
    <3>. HIDE DEF d
    <3>4. ASSUME NEW k \in Positions(d, "task"), d[k].task = t
          PROVE  d[k].attempt = 1 /\ \A i \in Positions(d, "restart") : i < k
      <4>1. d[k].attempt = 1 /\ \A i \in Positions(down[w], "restart") : i < k + 1
        BY <2>8, <3>2, <3>4 DEF Unstarted
      <4>2. \A i \in Positions(d, "restart") : i + 1 < k + 1
        BY <2>4, <4>1 DEF d
      <4>3. k \in Nat /\ \A i \in Positions(d, "restart") : i \in Nat
        BY <2>4, <3>2 DEF d
      <4>. QED
        BY <4>1, <4>2, <4>3
    <3>5. down'[w] = d
      BY <2>3 DEF d
    <3>. QED
      BY <1>0, <2>8, <3>1, <3>4, <3>5 DEF Unstarted, Somewhere
  <2>. QED
    BY <1>3, <2>5, <2>6, <2>7, <2>8, <1>1 DEF Somewhere
<1>4. ASSUME TurnAway(w)
      PROVE  Somewhere(t, w)'
  <2>. DEFINE m == Head(down[w])
              u == Append(up[w], Ack(m))
              r == Result(m, 0)
  <2>1. m \in Orders /\ m.type = "task" /\ down[w] # <<>>
    BY <1>4, TailMessages DEF TurnAway, Arrives
  <2>2. Ack(m) \in Reports /\ Ack(m).type = "ack" /\ Ack(m).task = m.task
    BY <2>1 DEF Orders, Reports, Ack
  <2>3. r \in Reports /\ r.type = "result" /\ r.task = m.task /\ r.attempt = m.attempt
    BY <2>1 DEF Orders, Reports, Result
  <2>. HIDE DEF m, r
  <2>4. /\ up' = [up EXCEPT ![w] = @ \o <<Ack(m), r>>]
        /\ down' = [down EXCEPT ![w] = Tail(@)]
        /\ jobs' = jobs
    BY <1>4 DEF TurnAway, m, r, workerVars
  <2>5. u \in Seq(Reports) /\ u = Append(up[w], Ack(m)) /\ up'[w] = Append(u, r)
    BY <2>2, <2>3, <2>4
  <2>. HIDE DEF u
  <2>6. \A k \in Positions(up[w], "result") : k \in Positions(u, "result") /\ u[k] = up[w][k]
    <3>1. \A i \in DOMAIN up[w] : i \in DOMAIN u /\ u[i] = up[w][i]
      BY <2>2, <2>5
    <3>. QED
      BY <3>1 DEF Positions
  <2>7. /\ \A k \in Positions(u, "result") : k \in Positions(up'[w], "result") /\ up'[w][k] = u[k]
        /\ Len(u) + 1 \in Positions(up'[w], "result") /\ up'[w][Len(u) + 1] = r
    <3>1. /\ \A i \in DOMAIN u : i \in DOMAIN up'[w] /\ up'[w][i] = u[i]
          /\ Len(u) + 1 \in DOMAIN up'[w] /\ up'[w][Len(u) + 1] = r
      BY <2>3, <2>5
    <3>. QED
      BY <2>3, <3>1 DEF Positions
  <2>8. CASE Reported(t, w)
    BY <2>6, <2>7, <2>8 DEF Reported, Somewhere
  <2>9. \A k \in Positions(Tail(down[w]), "restart") : k \in Nat \ {0} /\ k + 1 \in Positions(down[w], "restart")
    BY <2>1, TailPositions
  <2>10. CASE Running(t, w)
    BY <2>4, <2>9, <2>10 DEF Running, Somewhere
  <2>11. CASE Unstarted(t, w) /\ m.task = t
    <3>1. 1 \in Positions(down[w], "task") /\ down[w][1] = m
      BY <2>1, TailMessages DEF m
    <3>2. m.attempt = 1
      BY <2>11, <3>1 DEF Unstarted
    <3>. QED
      BY <2>3, <2>7, <2>11, <3>2 DEF Reported, Somewhere
  <2>12. CASE Unstarted(t, w) /\ m.task # t
    <3>1. t \notin TasksOf(u, "ack")
      BY <2>2, <2>12, AppendTask DEF Unstarted, u
    <3>6. t \notin TasksOf(up'[w], "ack")
      BY <2>3, <2>5, <3>1, AppendTask
    <3>. DEFINE d == Tail(down[w])
    <3>2. \A k \in Positions(d, "task") : k \in Nat /\ k + 1 \in Positions(down[w], "task") /\ d[k] = down[w][k + 1]
      BY <2>1, TailPositions
    <3>. HIDE DEF d
    <3>4. ASSUME NEW k \in Positions(d, "task"), d[k].task = t
          PROVE  d[k].attempt = 1 /\ \A i \in Positions(d, "restart") : i < k
      <4>1. d[k].attempt = 1 /\ \A i \in Positions(down[w], "restart") : i < k + 1
        BY <2>12, <3>2, <3>4 DEF Unstarted
      <4>2. \A i \in Positions(d, "restart") : i + 1 < k + 1
        BY <2>9, <4>1 DEF d
      <4>3. k \in Nat /\ \A i \in Positions(d, "restart") : i \in Nat
        BY <2>9, <3>2 DEF d
      <4>. QED
        BY <4>1, <4>2, <4>3
    <3>5. down'[w] = d
      BY <2>4 DEF d
    <3>. QED
      BY <1>0, <2>12, <3>4, <3>5, <3>6 DEF Unstarted, Somewhere
  <2>. QED
    BY <1>1, <1>4, <2>8, <2>10, <2>11, <2>12 DEF Somewhere
<1>5. ASSUME Complete(w)
      PROVE  Somewhere(t, w)'
  <2>1. PICK j \in jobs[w] :
          /\ jobs' = [jobs EXCEPT ![w] = @ \ {j}]
          /\ up' = [up EXCEPT ![w] = Append(@, Result(j, Free(w) + j.agents))]
          /\ down' = down
    BY <1>5 DEF Complete
  <2>. DEFINE r == Result(j, Free(w) + j.agents)
  <2>2. r \in Reports /\ r.type = "result" /\ r.task = j.task /\ r.attempt = j.attempt
    BY ExecutorAssumption DEF Reports, Result, Free
  <2>. HIDE DEF r
  <2>3. up' = [up EXCEPT ![w] = Append(@, r)]
    BY <2>1 DEF r
  <2>4. CASE Reported(t, w)
    BY <1>2, <2>2, <2>3, <2>4 DEF Somewhere
  <2>5. CASE Running(t, w) /\ j.task = t /\ j.attempt = 1
    <3>1. Len(up[w]) + 1 \in DOMAIN up'[w] /\ up'[w][Len(up[w]) + 1] = r
      BY <2>2, <2>3
    <3>2. Len(up[w]) + 1 \in Positions(up'[w], "result")
      BY <2>2, <3>1 DEF Positions
    <3>. QED
      BY <2>2, <2>5, <3>1, <3>2 DEF Reported, Somewhere
  <2>6. CASE Running(t, w) /\ ~(j.task = t /\ j.attempt = 1)
    BY <2>1, <2>6 DEF Running, Somewhere
  <2>7. CASE Unstarted(t, w)
    <3>1. t \notin TasksOf(up'[w], "ack")
      BY <2>2, <2>3, <2>7, AppendTask DEF Unstarted
    <3>. QED
      BY <1>0, <2>1, <2>7, <3>1 DEF Unstarted, Somewhere
  <2>. QED
    BY <1>1, <2>4, <2>5, <2>6, <2>7 DEF Somewhere
<1>6. ASSUME Restart(w)
      PROVE  Somewhere(t, w)'
  <2>1. up' = up /\ down'[w] = <<>>
    BY <1>6 DEF Restart
  <2>2. 1 \in Positions(down[w], "restart")
    BY <1>6, TailMessages DEF Restart, Arrives
  <2>3. CASE Reported(t, w)
    BY <2>1, <2>3 DEF Reported, Somewhere
  <2>4. ~Running(t, w)
    BY <2>2 DEF Running
  <2>5. CASE Unstarted(t, w)
    BY <1>0, <2>1, <2>5 DEF Unstarted, Somewhere, Positions
  <2>. QED
    BY <1>1, <2>3, <2>4, <2>5 DEF Somewhere
<1>7. ASSUME Register(w)
      PROVE  Somewhere(t, w)'
  <2>. DEFINE m == [type |-> "register", capacity |-> Agents]
  <2>1. m \in Reports /\ m.type = "register"
    BY ExecutorAssumption DEF Reports
  <2>. HIDE DEF m
  <2>2. up' = [up EXCEPT ![w] = Append(@, m)] /\ UNCHANGED <<down, jobs>>
    BY <1>7 DEF Register, m
  <2>3. CASE Reported(t, w)
    BY <1>2, <2>1, <2>2, <2>3 DEF Somewhere
  <2>4. CASE Running(t, w)
    BY <2>2, <2>4 DEF Running, Somewhere
  <2>5. CASE Unstarted(t, w)
    <3>1. t \notin TasksOf(up'[w], "ack")
      BY <2>1, <2>2, <2>5, AppendTask DEF Unstarted
    <3>. QED
      BY <1>0, <2>2, <2>5, <3>1 DEF Unstarted, Somewhere
  <2>. QED
    BY <1>1, <2>3, <2>4, <2>5 DEF Somewhere
<1>8. ASSUME Die(w)
      PROVE  Somewhere(t, w)'
  BY <1>8 DEF Die, Somewhere
<1>. QED
  BY <1>3, <1>4, <1>5, <1>6, <1>7, <1>8 DEF WorkerStep

\* A round of the listener over worker w: a first attempt stays where it is, or
\* its call returns.
LEMMA RoundKeepsUnseen ==
  ASSUME ChannelsTyped, NEW w \in Workers, Round(w), NEW v \in Workers, NEW t \in Tasks, Unseen(t, v)
  PROVE  Unseen(t, v)'
<1>. USE DEF ChannelsTyped
<1>1. PICK n \in 0..Len(up[w]) :
        /\ up' = [up EXCEPT ![w] = SubSeq(@, n + 1, Len(@))]
        /\ Send(w, [type |-> "restart"]) \/ UNCHANGED down
  BY DEF Round
<1>2. t \notin TasksOf(up'[v], "ack")
  BY <1>1, TakeMessages DEF Unseen
<1>3. t \notin TasksOf(Append(down[v], [type |-> "restart"]), "task")
  <2>1. [type |-> "restart"] \in Orders /\ [type |-> "restart"].type # "task"
    BY DEF Orders
  <2>. QED
    BY <2>1, AppendTask DEF Unseen
<1>4. t \notin TasksOf(down'[v], "task")
  BY <1>1, <1>3 DEF Send, Unseen
<1>. QED
  BY <1>2, <1>4 DEF Unseen

LEMMA RoundKeepsPlace ==
  ASSUME TablesInv, ChannelsTyped, NEW w \in Workers, Round(w), NEW t \in Tasks,
         call[t] = "sent", rankOf[t] \in Workers,
         Somewhere(t, rankOf[t]),
         rankOf[t] # w => t \notin TasksOf(up[w], "ack")
  PROVE  call'[t] = "idle" \/ (rankOf'[t] = rankOf[t] /\ Somewhere(t, rankOf[t])')
<1>. USE DEF ChannelsTyped
<1>. DEFINE v == rankOf[t]
<1>1. PICK n \in 0..Len(up[w]), late \in BOOLEAN :
        LET got == SubSeq(up[w], 1, n)
            watched == unacked \ TasksOf(got, "ack")
            lost == IF late THEN LostWith(w) ELSE {}
            answered == TasksOf(got, "result")
        IN /\ up' = [up EXCEPT ![w] = SubSeq(@, n + 1, Len(@))]
           /\ IF late THEN Send(w, [type |-> "restart"]) ELSE UNCHANGED down
           /\ unacked' = watched \ (lost \cup answered)
           /\ Return(lost \cup answered)
           /\ UNCHANGED <<node, jobs>>
  BY DEF Round, workerVars
<1>. DEFINE got == SubSeq(up[w], 1, n)
            left == SubSeq(up[w], n + 1, Len(up[w]))
            answered == TasksOf(got, "result")
            ended == (IF late THEN LostWith(w) ELSE {}) \cup answered
<1>2. t \in pending /\ up[w] \in Seq(Reports)
  BY DEF TablesInv, BookkeepingAgrees
<1>3. Return(ended) /\ unacked' = (unacked \ TasksOf(got, "ack")) \ ended
  BY <1>1
<1>4. CASE t \in ended
  <2>1. call'[t] = "idle"
    BY <1>2, <1>3, <1>4 DEF Return
  <2>. QED
    BY <2>1
<1>5. CASE t \notin ended
  <2>1. rankOf'[t] = v
    BY <1>3, <1>5 DEF Return
  <2>2. ~late \/ v # w
    BY <1>5 DEF LostWith
  <2>3. down'[v] = down[v] /\ jobs'[v] = jobs[v] /\ node'[v] = node[v]
    BY <1>1, <2>2 DEF Send
  <2>4. CASE node[v] = "dead"
    BY <2>1, <2>3, <2>4 DEF Somewhere
  <2>5. CASE Reported(t, v)
    <3>1. PICK k \in Positions(up[v], "result") : up[v][k].task = t /\ up[v][k].attempt = 1
      BY <2>5 DEF Reported
    <3>2. CASE v # w
      <4>1. up'[v] = up[v]
        BY <1>1, <3>2
      <4>. QED
        BY <2>1, <2>5, <4>1 DEF Reported, Somewhere
    <3>3. CASE v = w
      <4>1. k \in 1..Len(up[w]) /\ up[w][k].type = "result" /\ n \in Nat
        BY <1>2, <3>1, <3>3 DEF Positions
      <4>2. CASE k <= n
        <5>1. k \in DOMAIN got /\ got[k] = up[w][k]
          BY <1>2, <4>1, <4>2
        <5>. HIDE DEF got
        <5>2. t \in answered
          BY <3>1, <3>3, <4>1, <5>1 DEF TasksOf, Positions
        <5>. QED
          BY <1>5, <5>2
      <4>3. CASE k > n
        <5>1. k - n \in 1..(Len(up[w]) - n) /\ (k - n) + n = k
          BY <1>2, <4>1, <4>3
        <5>2. k - n \in DOMAIN left /\ left[k - n] = up[w][k]
          BY <1>2, <4>1, <5>1
        <5>3. up'[w] = left
          BY <1>1
        <5>. HIDE DEF left
        <5>4. k - n \in Positions(up'[w], "result")
          BY <4>1, <5>2, <5>3 DEF Positions
        <5>5. up'[w][k - n].task = t /\ up'[w][k - n].attempt = 1
          BY <3>1, <3>3, <5>2, <5>3
        <5>. QED
          BY <2>1, <3>3, <5>4, <5>5 DEF Reported, Somewhere
      <4>. QED
        BY <4>1, <4>2, <4>3
    <3>. QED
      BY <3>2, <3>3
  <2>6. CASE Running(t, v)
    BY <2>1, <2>3, <2>6 DEF Running, Somewhere
  <2>7. CASE Unstarted(t, v)
    <3>1. t \notin TasksOf(up[w], "ack")
      BY <2>7 DEF Unstarted
    <3>2. t \notin TasksOf(got, "ack") /\ t \notin TasksOf(left, "ack")
      BY <3>1, TakeMessages
    <3>3. t \in unacked'
      BY <1>3, <1>5, <2>7, <3>2 DEF Unstarted
    <3>4. t \notin TasksOf(up'[v], "ack")
      BY <1>1, <2>7, <3>2 DEF Unstarted
    <3>. QED
      BY <2>1, <2>3, <2>7, <3>3, <3>4 DEF Unstarted, Somewhere
  <2>. QED
    BY <2>4, <2>5, <2>6, <2>7 DEF Somewhere
<1>. QED
  BY <1>4, <1>5

\* A dispatch puts a task the workers have not seen on its way to one of them,
\* watched.
LEMMA DispatchIsSomewhere ==
  ASSUME TablesInv, ChannelsTyped, NEW t \in Tasks, Dispatch(t), NEW o \in Tasks, FirstIsSomewhere(o)
  PROVE  FirstIsSomewhere(o)'
<1>. USE DEF ChannelsTyped
<1>1. PICK w \in Candidates :
        /\ Send(w, [type |-> "task", task |-> t, attempt |-> attempt[t],
                    agents |-> Smaller(MaxAgents, capacity[w])])
        /\ rankOf' = [rankOf EXCEPT ![t] = w]
  BY DEF Dispatch
<1>. DEFINE m == [type |-> "task", task |-> t, attempt |-> attempt[t],
                  agents |-> Smaller(MaxAgents, capacity[w])]
<1>2. w \in Workers
  BY DEF Candidates, TablesInv, TablesTyped
<1>3. m \in Orders /\ m.type = "task" /\ m.task = t /\ m.attempt = attempt[t]
  BY <1>2, ExecutorAssumption DEF Orders, Smaller
<1>4. Send(w, m)
  BY <1>1
<1>5. /\ call[t] = "waiting"
      /\ call' = [call EXCEPT ![t] = "sent"]
      /\ unacked' = unacked \cup {t}
      /\ UNCHANGED <<attempt, up, node, jobs>>
  BY DEF Dispatch, workerVars
<1>6. call \in [Tasks -> {"idle", "waiting", "sent"}] /\ rankOf \in [Tasks -> Workers \cup {Nobody}]
  BY DEF TablesInv, TablesTyped
<1>. HIDE DEF m
<1>7. \A v \in Workers : down'[v] = down[v] \/ (v = w /\ down'[v] = Append(down[v], m))
  BY <1>2, <1>4 DEF Send
<1>8. ASSUME NEW v \in Workers, Unseen(o, v), o # t \/ v # w
      PROVE  Unseen(o, v)'
  <2>1. CASE down'[v] = down[v]
    BY <1>5, <1>8, <2>1 DEF Unseen
  <2>2. CASE v = w /\ down'[v] = Append(down[v], m)
    <3>1. o \notin TasksOf(Append(down[v], m), "task")
      BY <1>3, <1>8, <2>2, AppendTask DEF Unseen
    <3>. QED
      BY <1>5, <1>8, <2>2, <3>1 DEF Unseen
  <2>. QED
    BY <1>7, <2>1, <2>2
<1>9. ASSUME NEW v \in Workers, o # t, Somewhere(o, v)
      PROVE  Somewhere(o, v)'
  <2>1. CASE down'[v] = down[v]
    BY <1>5, <1>9, <2>1 DEF Somewhere, Reported, Running, Unstarted
  <2>2. CASE v = w /\ down'[v] = Append(down[v], m)
    <3>1. /\ \A i \in DOMAIN down'[v] : i \in DOMAIN down[v] \/ down'[v][i] = m
          /\ \A i \in DOMAIN down[v] : down'[v][i] = down[v][i]
      BY <1>3, <2>2
    <3>2. Positions(down'[v], "restart") \subseteq Positions(down[v], "restart")
      BY <1>3, <3>1 DEF Positions
    <3>3. \A k \in Positions(down'[v], "task") : down'[v][k].task = o =>
            k \in Positions(down[v], "task") /\ down'[v][k] = down[v][k]
      BY <1>3, <1>9, <3>1 DEF Positions
    <3>4. Reported(o, v) => Reported(o, v)'
      BY <1>5 DEF Reported
    <3>5. Running(o, v) => Running(o, v)'
      BY <1>5, <3>2 DEF Running
    <3>6. Unstarted(o, v) => Unstarted(o, v)'
      BY <1>5, <3>2, <3>3 DEF Unstarted
    <3>. QED
      BY <1>5, <1>9, <3>4, <3>5, <3>6 DEF Somewhere
  <2>. QED
    BY <1>7, <2>1, <2>2
<1>10. CASE o # t
  <2>1. call'[o] = call[o] /\ rankOf'[o] = rankOf[o] /\ attempt'[o] = attempt[o]
    BY <1>1, <1>5, <1>6, <1>10
  <2>2. call[o] = "sent" => rankOf[o] \in Workers
    BY <1>6 DEF TablesInv, BookkeepingAgrees
  <2>. QED
    BY <1>8, <1>9, <1>10, <2>1, <2>2 DEF FirstIsSomewhere
<1>11. CASE o = t /\ attempt[t] = 1
  <2>1. \A v \in Workers : Unseen(t, v)
    BY <1>5, <1>11 DEF FirstIsSomewhere
  <2>2. call'[t] = "sent" /\ rankOf'[t] = w /\ attempt'[t] = 1 /\ t \in unacked'
    BY <1>1, <1>5, <1>6, <1>11
  <2>3. \A v \in Workers \ {w} : Unseen(t, v)'
    BY <1>8, <1>11, <2>1
  <2>4. ASSUME down'[w] = down[w]
        PROVE  Unstarted(t, w)'
    BY <1>2, <1>5, <2>1, <2>2, <2>4 DEF Unstarted, Unseen, TasksOf
  <2>5. ASSUME down'[w] = Append(down[w], m)
        PROVE  Unstarted(t, w)'
    <3>1. \A k \in Positions(down'[w], "task") : down'[w][k].task = t =>
            /\ down'[w][k].attempt = 1
            /\ k = Len(down[w]) + 1
      <4>1. /\ \A i \in DOMAIN down'[w] : i \in DOMAIN down[w] \/ (i = Len(down[w]) + 1 /\ down'[w][i] = m)
            /\ \A i \in DOMAIN down[w] : down'[w][i] = down[w][i]
        BY <1>2, <1>3, <2>5
      <4>. QED
        BY <1>2, <1>3, <1>11, <2>1, <4>1 DEF Positions, Unseen, TasksOf
    <3>2. \A i \in Positions(down'[w], "restart") : i < Len(down[w]) + 1
      <4>1. /\ \A i \in DOMAIN down'[w] : i < Len(down[w]) + 1 \/ i = Len(down[w]) + 1
            /\ down'[w][Len(down[w]) + 1] = m
        BY <1>2, <1>3, <2>5
      <4>. QED
        BY <1>3, <4>1 DEF Positions
    <3>3. t \notin TasksOf(up'[w], "ack")
      BY <1>2, <1>5, <2>1 DEF Unseen
    <3>. QED
      BY <2>2, <3>1, <3>2, <3>3 DEF Unstarted
  <2>6. Somewhere(t, w)'
    BY <1>2, <1>7, <2>4, <2>5 DEF Somewhere
  <2>. QED
    BY <1>11, <2>2, <2>3, <2>6 DEF FirstIsSomewhere
<1>12. CASE o = t /\ attempt[t] # 1
  <2>1. attempt'[t] # 1 /\ attempt'[t] # 0
    BY <1>5, <1>12 DEF FirstIsSomewhere
  <2>. QED
    BY <1>12, <2>1 DEF FirstIsSomewhere
<1>. QED
  BY <1>10, <1>11, <1>12

\* The inductive invariant: until a first attempt is dispatched no worker has
\* seen its task, and then it is at one of its places until its call returns.
THEOREM DispatchInvariant == Spec => [](TablesInv /\ ChannelsTyped /\ DispatchInv)
<1>1. Init => ChannelsTyped /\ DispatchInv
  <2>. SUFFICES ASSUME Init
                PROVE  ChannelsTyped /\ DispatchInv
    OBVIOUS
  <2>1. ChannelsTyped
    BY ExecutorAssumption DEF Init, ChannelsTyped
  <2>2. DispatchInv
    BY DEF Init, DispatchInv, FirstIsSomewhere, Unseen, TasksOf, Positions
  <2>. QED
    BY <2>1, <2>2
<1>2. TablesInv /\ ChannelsTyped /\ DispatchInv /\ [Next]_vars => DispatchInv'
  <2>. SUFFICES ASSUME TablesInv, ChannelsTyped, DispatchInv, [Next]_vars, NEW o \in Tasks
                PROVE  FirstIsSomewhere(o)'
    BY DEF DispatchInv
  <2>1. FirstIsSomewhere(o) /\ call[o] \in {"idle", "waiting", "sent"}
    BY DEF DispatchInv, TablesInv, TablesTyped
  <2>2. call[o] = "sent" => rankOf[o] \in Workers
    BY DEF TablesInv, TablesTyped, BookkeepingAgrees
  <2>3. ASSUME NEW t \in Tasks, Call(t)
        PROVE  FirstIsSomewhere(o)'
    <3>1. /\ UNCHANGED <<down, up, node, jobs, unacked, rankOf>>
          /\ call[t] = "idle" /\ call' = [call EXCEPT ![t] = "waiting"]
          /\ attempt' = [attempt EXCEPT ![t] = @ + 1]
      BY <2>3 DEF Call, workerVars
    <3>2. CASE o = t
      <4>1. call'[o] = "waiting" /\ attempt'[o] = attempt[o] + 1 /\ attempt[o] \in Nat
        BY <3>1, <3>2 DEF ChannelsTyped, TablesInv, TablesTyped
      <4>2. attempt'[o] = 1 => \A w \in Workers : Unseen(o, w)'
        <5>1. attempt'[o] = 1 => attempt[o] = 0
          BY <4>1
        <5>. QED
          BY <2>1, <3>1, <5>1 DEF FirstIsSomewhere, Unseen
      <4>3. attempt'[o] # 0
        BY <4>1
      <4>. QED
        BY <4>1, <4>2, <4>3 DEF FirstIsSomewhere
    <3>3. CASE o # t
      <4>1. call'[o] = call[o] /\ attempt'[o] = attempt[o]
        BY <3>1, <3>3 DEF ChannelsTyped, TablesInv, TablesTyped
      <4>. QED
        BY <2>1, <3>1, <4>1 DEF FirstIsSomewhere, Unseen, Somewhere, Reported, Running, Unstarted
    <3>. QED
      BY <3>2, <3>3
  <2>4. ASSUME NEW t \in Tasks, NoNodes(t)
        PROVE  FirstIsSomewhere(o)'
    <3>1. /\ UNCHANGED <<attempt, down, up, node, jobs, unacked, rankOf>>
          /\ call' = [call EXCEPT ![t] = "idle"]
      BY <2>4 DEF NoNodes, workerVars
    <3>2. call'[o] = call[o] \/ call'[o] = "idle"
      BY <3>1 DEF TablesInv, TablesTyped
    <3>. QED
      BY <2>1, <3>1, <3>2 DEF FirstIsSomewhere, Unseen, Somewhere, Reported, Running, Unstarted
  <2>5. ASSUME NEW t \in Tasks, Dispatch(t)
        PROVE  FirstIsSomewhere(o)'
    BY <2>1, <2>5, DispatchIsSomewhere
  <2>6. ASSUME NEW w \in Workers, Round(w)
        PROVE  FirstIsSomewhere(o)'
    <3>1. attempt' = attempt /\ (call'[o] = call[o] \/ call'[o] = "idle")
      BY <2>6 DEF Round, Return
    <3>2. \A v \in Workers : Unseen(o, v) => Unseen(o, v)'
      BY <2>6, RoundKeepsUnseen
    <3>3. CASE call[o] # "sent" \/ call'[o] = "idle"
      BY <2>1, <3>1, <3>2, <3>3 DEF FirstIsSomewhere
    <3>4. CASE attempt[o] = 1 /\ call[o] = "sent" /\ call'[o] # "idle"
      <4>1. Somewhere(o, rankOf[o]) /\ \A v \in Workers \ {rankOf[o]} : Unseen(o, v)
        BY <2>1, <3>4 DEF FirstIsSomewhere
      <4>2. rankOf[o] # w => o \notin TasksOf(up[w], "ack")
        BY <4>1 DEF Unseen
      <4>3. rankOf'[o] = rankOf[o] /\ Somewhere(o, rankOf[o])'
        BY <2>2, <2>6, <3>4, <4>1, <4>2, RoundKeepsPlace
      <4>4. \A v \in Workers \ {rankOf'[o]} : Unseen(o, v)'
        BY <3>2, <4>1, <4>3
      <4>. QED
        BY <3>1, <3>4, <4>3, <4>4 DEF FirstIsSomewhere
    <3>5. CASE attempt[o] # 1 /\ call[o] = "sent" /\ call'[o] # "idle"
      BY <2>1, <3>1, <3>5 DEF FirstIsSomewhere
    <3>. QED
      BY <3>3, <3>4, <3>5
  <2>7. ASSUME NEW w \in Workers, WorkerStep(w) \/ Die(w)
        PROVE  FirstIsSomewhere(o)'
    <3>1. UNCHANGED <<call, attempt, rankOf, unacked>>
      BY <2>7 DEF WorkerStep, Start, TurnAway, Complete, Restart, Register, Die, coordVars
    <3>2. \A v \in Workers : Unseen(o, v) => Unseen(o, v)'
      BY <2>7, WorkerKeepsUnseen
    <3>3. ASSUME NEW v \in Workers, Somewhere(o, v)
          PROVE  Somewhere(o, v)'
      <4>1. CASE v = w
        BY <2>7, <3>3, <4>1, WorkerKeepsPlace
      <4>2. CASE v # w
        <5>1. down'[v] = down[v] /\ up'[v] = up[v] /\ jobs'[v] = jobs[v] /\ node'[v] = node[v]
          BY <2>7, <4>2 DEF ChannelsTyped, WorkerStep, Start, TurnAway, Complete, Restart, Register, Die, workerVars
        <5>. QED
          BY <3>1, <3>3, <5>1 DEF Somewhere, Reported, Running, Unstarted
      <4>. QED
        BY <4>1, <4>2
    <3>4. call[o] = "sent" /\ Somewhere(o, rankOf[o]) => Somewhere(o, rankOf[o])'
      BY <2>2, <3>1, <3>3
    <3>. QED
      BY <2>1, <3>1, <3>2, <3>4 DEF FirstIsSomewhere
  <2>8. CASE UNCHANGED vars
    BY <2>1, <2>8 DEF vars, coordVars, workerVars, FirstIsSomewhere, Unseen, Somewhere, Reported, Running, Unstarted
  <2>. QED
    BY <2>3, <2>4, <2>5, <2>6, <2>7, <2>8 DEF Next
<1>3. TablesInv /\ ChannelsTyped /\ [Next]_vars => ChannelsTyped'
  BY ChannelsStayTyped
<1>. QED
  BY <1>1, <1>2, <1>3, TablesInvariant, PTL DEF Spec

\* However rounds, restarts, deaths and late ACKs interleave, a task sent for the
\* first time is never lost unwatched: its ACK is still waited for, its worker died,
\* or it is on its way, running or reported.
THEOREM LostDispatchAlwaysWatched == Spec => []LostDispatchWatched
<1>1. TablesInv /\ ChannelsTyped /\ DispatchInv => LostDispatchWatched
  <2>. SUFFICES ASSUME TablesInv, ChannelsTyped, DispatchInv,
                       NEW t \in Tasks, call[t] = "sent", attempt[t] = 1
                PROVE  Watched(t)
    BY DEF LostDispatchWatched
  <2>1. rankOf[t] \in Workers
    BY DEF TablesInv, TablesTyped, BookkeepingAgrees
  <2>2. Somewhere(t, rankOf[t])
    BY DEF DispatchInv, FirstIsSomewhere
  <2>3. Reported(t, rankOf[t]) => OnItsWay(t)
    BY <2>1 DEF Reported, OnItsWay, IsCurrent
  <2>4. Running(t, rankOf[t]) => OnItsWay(t)
    BY <2>1 DEF Running, OnItsWay, IsCurrent
  <2>. QED
    BY <2>2, <2>3, <2>4 DEF Somewhere, Unstarted, Watched
<1>. QED
  BY <1>1, DispatchInvariant, PTL

---------------------------------------------------------------------------
(* Shared servers *)

Runs(s) == server[s] \in {"starting", "accepting"}

(* The lock is with the client that launches a server. *)
LockInv == \A c \in Clients : at[c] \in {"address", "wait"} <=> lock = c

(* What holds of a server the address file alone decides about: a client starts one   *)
(* server at most, under the lock; while it lives, and has begun to write the         *)
(* address, the address is its server's; who is about to kill a server is its starter *)
(* and the address is still that server's; and the counter is there as long as the    *)
(* address.  Where nothing went wrong, who has closed its server leaves none.         *)
ClientInv(c) ==
  /\ tries[c] = 0 /\ first[c] \in {NoFile, 0}
  /\ at[c] \notin {"connect", "clean", "clean_counter", "register"}
  /\ at[c] \in {"idle", "enter"} => server[<<c, 0>>] = "unused"
  /\ at[c] = "address" => addr = NoServer
  /\ Runs(<<c, 0>>) /\ at[c] \notin Ended \cup {"address"} => addr = <<c, 0>>
  /\ at[c] \in {"close", "count", "kill"} => first[c] = 0
  /\ at[c] \in {"count", "kill"} => addr = <<c, 0>>
  /\ mishaps = 0 /\ at[c] = "gone" /\ first[c] # NoFile => ~Runs(<<c, 0>>)

BaseInv ==
  /\ \A c \in Clients : ClientInv(c)
  /\ \A s \in Servers : s[2] # 0 => server[s] = "unused"
  /\ addr # NoServer \/ lock # "none" => counter = 0

RdvInv == RdvTypeOK /\ LockInv /\ (kind = "base" => BaseInv)

ServerStates == {"unused", "starting", "accepting", "dead"}

LEMMA OwnType ==
  ASSUME RdvTypeOK, RdvAssumption, NEW c \in Clients
  PROVE  /\ Own(c) \in Servers /\ <<c, 0>> \in Servers /\ Own(c)[1] = c /\ Own(c)[2] = tries[c]
         /\ tries[c] \in 0..MaxReconnects /\ MaxReconnects \in Nat
BY DEF RdvTypeOK, RdvAssumption, Own, Servers

(* What Stop() leaves of the servers, and what becomes of a client that moves. *)
LEMMA StopType ==
  ASSUME RdvTypeOK, NEW S, Stop(S)
  PROVE  /\ server' \in [Servers -> ServerStates] /\ calm' \in [Clients -> BOOLEAN] /\ mishaps' = mishaps
         /\ \A s \in Servers : server'[s] = IF s \in S THEN "dead" ELSE server[s]
BY DEF Stop, RdvTypeOK, ServerStates

LEMMA GotoType ==
  ASSUME RdvTypeOK, NEW c \in Clients, NEW p \in Places, Goto(c, p)
  PROVE  /\ at' \in [Clients -> Places] /\ at'[c] = p
         /\ \A d \in Clients : d # c => at'[d] = at[d]
BY DEF RdvTypeOK, Goto

LEMMA RdvTypesStep ==
  ASSUME RdvTypeOK, RdvAssumption, [RdvNext]_rdvVars
  PROVE  RdvTypeOK'
<1> USE DEF ServerStates
<1>1. CASE UNCHANGED rdvVars
  BY <1>1 DEF RdvTypeOK, rdvVars, files, client
<1>2. ASSUME NEW c \in Clients, Begin(c)
      PROVE  RdvTypeOK'
  BY <1>2 DEF Begin, Goto, RdvTypeOK, files, Places
<1>3. ASSUME NEW c \in Clients, Connect(c)
      PROVE  RdvTypeOK'
  BY <1>3 DEF Connect, Goto, RdvTypeOK, files, Places
<1>4. ASSUME NEW c \in Clients, Clean(c)
      PROVE  RdvTypeOK'
  BY <1>4 DEF Clean, Goto, RdvTypeOK, Quiet, Places
<1>5. ASSUME NEW c \in Clients, CleanCounter(c)
      PROVE  RdvTypeOK'
  BY <1>5 DEF CleanCounter, Goto, RdvTypeOK, Quiet, Places
<1>6. ASSUME NEW c \in Clients, Enter(c)
      PROVE  RdvTypeOK'
  <2>1. Joined \in Places /\ Own(c) \in Servers
    BY OwnType DEF Joined, Places
  <2> QED BY <1>6, <2>1 DEF Enter, Goto, RdvTypeOK, files, Places
<1>7. ASSUME NEW c \in Clients, WriteAddress(c)
      PROVE  RdvTypeOK'
  <2>1. Own(c) \in Servers
    BY OwnType
  <2> QED BY <1>7, <2>1 DEF WriteAddress, Goto, RdvTypeOK, Quiet, Places
<1>8. ASSUME NEW c \in Clients, Ready(c)
      PROVE  RdvTypeOK'
  <2>1. Joined \in Places
    BY DEF Joined, Places
  <2> QED BY <1>8, <2>1 DEF Ready, Goto, RdvTypeOK, Quiet
<1>9. ASSUME NEW c \in Clients, StartFails(c)
      PROVE  RdvTypeOK'
  BY <1>9 DEF StartFails, Goto, RdvTypeOK, Places
<1>10. ASSUME NEW c \in Clients, LockTimesOut(c)
      PROVE  RdvTypeOK'
  BY <1>10 DEF LockTimesOut, Goto, RdvTypeOK, files, Places
<1>11. ASSUME NEW c \in Clients, RegisterClient(c)
      PROVE  RdvTypeOK'
  <2>1. tries[c] \in 0..MaxReconnects
    BY OwnType
  <2>2. counter # NoFile => counter + 1 \in Nat
    BY DEF RdvTypeOK
  <2> QED BY <1>11, <2>1, <2>2 DEF RegisterClient, Goto, RdvTypeOK, Quiet, Places
<1>12. ASSUME NEW c \in Clients, Found(c)
      PROVE  RdvTypeOK'
  <2>1. tries[c] \in 0..MaxReconnects
    BY OwnType
  <2> QED BY <1>12, <2>1 DEF Found, Goto, RdvTypeOK, files, Quiet, Places
<1>13. ASSUME NEW c \in Clients, Reconnect(c)
      PROVE  RdvTypeOK'
  <2>0. tries[c] < MaxReconnects
    BY <1>13 DEF Reconnect
  <2>1. tries[c] \in 0..MaxReconnects /\ MaxReconnects \in Nat
    BY OwnType
  <2>2. tries[c] + 1 \in 0..MaxReconnects
    BY <2>0, <2>1
  <2> QED BY <1>13, <2>2 DEF Reconnect, Goto, RdvTypeOK, files, Quiet, Places
<1>14. ASSUME NEW c \in Clients, Exit(c)
      PROVE  RdvTypeOK'
  <2>1. at' \in [Clients -> Places]
    BY <1>14, GotoType DEF Exit, Places, Ended
  <2>2. server' \in [Servers -> ServerStates] /\ calm' \in [Clients -> BOOLEAN] /\ mishaps' = mishaps
    BY <1>14, StopType DEF Exit, Quiet, RdvTypeOK
  <2> QED BY <1>14, <2>1, <2>2 DEF Exit, RdvTypeOK, files
<1>15. ASSUME NEW c \in Clients, Close(c)
      PROVE  RdvTypeOK'
  <2>1. at' \in [Clients -> Places]
    BY <1>15, GotoType DEF Close, Places, Ended
  <2> QED BY <1>15, <2>1 DEF Close, RdvTypeOK, files, Quiet
<1>16. ASSUME NEW c \in Clients, Count(c)
      PROVE  RdvTypeOK'
  <2>1. at' \in [Clients -> Places]
    BY <1>16, GotoType DEF Count, Places, Ended
  <2> QED BY <1>16, <2>1 DEF Count, RdvTypeOK, files, Quiet
<1>17. ASSUME NEW c \in Clients, Kill(c)
      PROVE  RdvTypeOK'
  <2>1. at' \in [Clients -> Places]
    BY <1>17, GotoType DEF Kill, Places, Ended
  <2>2. server' \in [Servers -> ServerStates] /\ calm' \in [Clients -> BOOLEAN] /\ mishaps' = mishaps
    BY <1>17, StopType DEF Kill
  <2> QED BY <1>17, <2>1, <2>2 DEF Kill, RdvTypeOK
<1>18. ASSUME NEW c \in Clients, Disconnect(c)
      PROVE  RdvTypeOK'
  <2>1. at' \in [Clients -> Places]
    BY <1>18, GotoType DEF Disconnect, Places, Ended
  <2>2. server' \in [Servers -> ServerStates] /\ calm' \in [Clients -> BOOLEAN] /\ mishaps' = mishaps
    BY <1>18, StopType DEF Disconnect
  <2>3. counter' \in Nat \cup {NoFile} /\ addr' \in Servers \cup {NoServer}
    BY <1>18 DEF Disconnect, RdvTypeOK
  <2> QED BY <1>18, <2>1, <2>2, <2>3 DEF Disconnect, RdvTypeOK
<1>19. ASSUME NEW c \in Clients, CloseTimesOut(c)
      PROVE  RdvTypeOK'
  <2>1. at' \in [Clients -> Places]
    BY <1>19, GotoType DEF CloseTimesOut, Places, Ended
  <2>2. server' \in [Servers -> ServerStates] /\ calm' \in [Clients -> BOOLEAN] /\ mishaps' = mishaps
    BY <1>19, StopType DEF CloseTimesOut
  <2> QED BY <1>19, <2>1, <2>2 DEF CloseTimesOut, RdvTypeOK, files
<1>20. ASSUME NEW c \in Clients, Crash(c)
      PROVE  RdvTypeOK'
  <2>1. at' \in [Clients -> Places]
    BY <1>20, GotoType DEF Crash, Places, Ended
  <2>2. server' \in [Servers -> ServerStates]
    BY <1>20 DEF Crash, RdvTypeOK
  <2> QED BY <1>20, <2>1, <2>2, RdvAssumption DEF Crash, Mishap, RdvTypeOK, RdvAssumption
<1>21. ASSUME NEW s \in Servers, Accept(s)
      PROVE  RdvTypeOK'
  BY <1>21 DEF Accept, RdvTypeOK, files, client
<1>22. ASSUME NEW s \in Servers, ServerDies(s)
      PROVE  RdvTypeOK'
  BY <1>22, RdvAssumption DEF ServerDies, Mishap, RdvTypeOK, files, client, RdvAssumption
<1> QED
  BY <1>1, <1>2, <1>3, <1>4, <1>5, <1>6, <1>7, <1>8, <1>9, <1>10, <1>11, <1>12, <1>13, <1>14, <1>15, <1>16,
     <1>17, <1>18, <1>19, <1>20, <1>21, <1>22 DEF RdvNext, Starting, Closing

LEMMA LockStep ==
  ASSUME RdvTypeOK, LockInv, RdvAssumption, [RdvNext]_rdvVars
  PROVE  LockInv'
<1>0. "none" \notin Clients /\ lock \in Clients \cup {"none"}
  BY DEF RdvAssumption, RdvTypeOK
<1>1. ASSUME NEW c \in Clients, NEW p \in Places, Goto(c, p), lock' = lock,
             at[c] \notin {"address", "wait"}, p \notin {"address", "wait"}
      PROVE  LockInv'
  <2>1. at'[c] = p /\ \A d \in Clients : d # c => at'[d] = at[d]
    BY <1>1, GotoType
  <2> QED BY <1>1, <2>1 DEF LockInv
<1>2. ASSUME UNCHANGED <<at, lock>>
      PROVE  LockInv'
  BY <1>2 DEF LockInv
<1>3. ASSUME NEW c \in Clients, Begin(c) \/ Connect(c) \/ Clean(c) \/ CleanCounter(c) \/ LockTimesOut(c)
                                \/ RegisterClient(c) \/ Found(c) \/ Reconnect(c)
      PROVE  LockInv'
  <2>1. PICK p \in {"enter", "connect", "clean", "clean_counter", "failed", "found", "using", "idle"} : Goto(c, p)
    BY <1>3 DEF Begin, Connect, Clean, CleanCounter, LockTimesOut, RegisterClient, Found, Reconnect
  <2>2. lock' = lock /\ at[c] \notin {"address", "wait"}
    BY <1>3 DEF Begin, Connect, Clean, CleanCounter, LockTimesOut, RegisterClient, Found, Reconnect, files
  <2> QED BY <1>1, <2>1, <2>2 DEF Places
<1>4. ASSUME NEW c \in Clients, Exit(c) \/ Close(c) \/ Count(c) \/ Kill(c) \/ Disconnect(c) \/ CloseTimesOut(c)
      PROVE  LockInv'
  <2>1. PICK p \in {"gone", "close", "count", "kill", "gave_up"} : Goto(c, p)
    BY <1>4 DEF Exit, Close, Count, Kill, Disconnect, CloseTimesOut
  <2>2. lock' = lock /\ at[c] \notin {"address", "wait"}
    BY <1>4 DEF Exit, Close, Count, Kill, Disconnect, CloseTimesOut, files
  <2> QED BY <1>1, <2>1, <2>2 DEF Places, Ended
<1>5. ASSUME NEW c \in Clients, Enter(c)
      PROVE  LockInv'
  <2>1. CASE addr # NoServer
    <3>1. PICK p \in {"register", "found"} : Goto(c, p)
      BY <1>5, <2>1 DEF Enter, Joined
    <3> QED BY <1>1, <1>5, <2>1, <3>1 DEF Enter, files, Places
  <2>2. CASE addr = NoServer
    <3>1. lock = "none" /\ lock' = c /\ Goto(c, "address")
      BY <1>5, <2>2 DEF Enter
    <3>2. at'[c] = "address" /\ \A d \in Clients : d # c => at'[d] = at[d]
      BY <3>1, GotoType DEF Places
    <3>3. \A d \in Clients : at[d] \notin {"address", "wait"}
      BY <1>0, <3>1 DEF LockInv
    <3> QED BY <3>1, <3>2, <3>3 DEF LockInv
  <2> QED BY <2>1, <2>2
<1>6. ASSUME NEW c \in Clients, WriteAddress(c)
      PROVE  LockInv'
  <2>1. Goto(c, "wait") /\ lock' = lock /\ at[c] = "address"
    BY <1>6 DEF WriteAddress
  <2>2. at'[c] = "wait" /\ \A d \in Clients : d # c => at'[d] = at[d]
    BY <2>1, GotoType DEF Places
  <2> QED BY <2>1, <2>2 DEF LockInv
<1>7. ASSUME NEW c \in Clients, Ready(c) \/ StartFails(c)
      PROVE  LockInv'
  <2>1. at[c] = "wait" /\ lock' = "none"
    BY <1>7 DEF Ready, StartFails
  <2>2. PICK p \in {"register", "found", "failed"} : Goto(c, p)
    BY <1>7 DEF Ready, StartFails, Joined
  <2>3. at'[c] = p /\ \A d \in Clients : d # c => at'[d] = at[d]
    BY <2>2, GotoType DEF Places
  <2>4. lock = c
    BY <2>1 DEF LockInv
  <2> QED BY <1>0, <2>1, <2>2, <2>3, <2>4 DEF LockInv
<1>8. ASSUME NEW c \in Clients, Crash(c)
      PROVE  LockInv'
  <2>1. Goto(c, "gone") /\ lock' = IF lock = c THEN "none" ELSE lock
    BY <1>8 DEF Crash
  <2>2. at'[c] = "gone" /\ \A d \in Clients : d # c => at'[d] = at[d]
    BY <2>1, GotoType DEF Places, Ended
  <2> QED BY <1>0, <2>1, <2>2 DEF LockInv
<1>9. ASSUME NEW s \in Servers, Accept(s) \/ ServerDies(s)
      PROVE  LockInv'
  BY <1>2, <1>9 DEF Accept, ServerDies, files, client
<1>10. CASE UNCHANGED rdvVars
  BY <1>2, <1>10 DEF rdvVars, files, client
<1> QED BY <1>3, <1>4, <1>5, <1>6, <1>7, <1>8, <1>9, <1>10 DEF RdvNext, Starting, Closing

(* The steps of BaseInv: what a step leaves of one client's part of it. *)
LEMMA BaseStep ==
  ASSUME RdvTypeOK, LockInv, BaseInv, RdvAssumption, kind = "base", [RdvNext]_rdvVars
  PROVE  BaseInv'
<1>0. /\ "none" \notin Clients /\ lock \in Clients \cup {"none"}
      /\ \A d \in Clients : <<d, 0>> \in Servers /\ <<d, 0>>[2] = 0 /\ <<d, 0>> # NoServer
      /\ \A c, d \in Clients : <<c, 0>> = <<d, 0>> <=> c = d
      /\ \A d \in Clients : Own(d) = <<d, 0>> /\ Handle(d) = <<d, first[d]>>
      /\ mishaps \in Nat /\ server \in [Servers -> ServerStates] /\ first \in [Clients -> (0..MaxReconnects) \cup {NoFile}]
  <2>1. "none" \notin Clients /\ lock \in Clients \cup {"none"} /\ MaxReconnects \in Nat
    BY DEF RdvAssumption, RdvTypeOK
  <2>2. \A d \in Clients : <<d, 0>> \in Servers /\ <<d, 0>>[2] = 0 /\ <<d, 0>> # NoServer
    BY <2>1 DEF Servers, NoServer
  <2>3. \A d \in Clients : Own(d) = <<d, 0>> /\ Handle(d) = <<d, first[d]>>
    BY DEF BaseInv, ClientInv, Own, Handle
  <2>4. mishaps \in Nat /\ server \in [Servers -> ServerStates] /\ first \in [Clients -> (0..MaxReconnects) \cup {NoFile}]
    BY DEF RdvTypeOK, RdvAssumption, ServerStates
  <2> QED BY <2>1, <2>2, <2>3, <2>4
<1>1. \A d \in Clients : ClientInv(d)
  BY DEF BaseInv
(* A client moves, and nothing else that matters changes. *)
<1>2. ASSUME NEW c \in Clients, NEW p \in Places, Goto(c, p), UNCHANGED <<tries, addr, counter, server, mishaps>>,
             lock' = lock \/ lock' = "none",
             \A d \in Clients : d # c => first'[d] = first[d],
             first'[c] = first[c] \/ first'[c] = 0,
             p \notin {"connect", "clean", "clean_counter", "register", "address"},
             p \in {"idle", "enter"} => server[<<c, 0>>] = "unused",
             Runs(<<c, 0>>) /\ p \notin Ended => addr = <<c, 0>>,
             p \in {"close", "count", "kill"} => first'[c] = 0,
             p \in {"count", "kill"} => addr = <<c, 0>>,
             mishaps = 0 /\ p = "gone" /\ first'[c] # NoFile => ~Runs(<<c, 0>>)
      PROVE  BaseInv'
  <2>1. at'[c] = p /\ \A d \in Clients : d # c => at'[d] = at[d]
    BY <1>2, GotoType
  <2>2. \A d \in Clients : d # c => ClientInv(d)'
    BY <1>1, <1>2, <2>1 DEF ClientInv, Runs
  <2>3. ClientInv(c)'
    BY <1>1, <1>2, <2>1 DEF ClientInv, Runs
  <2>4. (\A s \in Servers : s[2] # 0 => server'[s] = "unused") /\ (addr' # NoServer \/ lock' # "none" => counter' = 0)
    BY <1>2 DEF BaseInv
  <2> QED BY <2>2, <2>3, <2>4 DEF BaseInv
<1>3. ASSUME NEW c \in Clients, Begin(c)
      PROVE  BaseInv'
  <2>1. /\ at[c] = "idle" /\ Goto(c, "enter") /\ UNCHANGED <<tries, addr, counter, server, mishaps, first>> /\ lock' = lock
    BY <1>3 DEF Begin, files
  <2>2. server[<<c, 0>>] = "unused"
    BY <1>1, <2>1 DEF ClientInv
  <2> QED BY <1>2, <2>1, <2>2 DEF Places, Ended, Runs
<1>4. ASSUME NEW c \in Clients, Connect(c) \/ Clean(c) \/ CleanCounter(c) \/ RegisterClient(c)
                                \/ Reconnect(c) \/ Disconnect(c)
      PROVE  FALSE
  BY <1>1, <1>4 DEF ClientInv, Connect, Clean, CleanCounter, RegisterClient, Reconnect, Disconnect
<1>5. ASSUME NEW c \in Clients, Enter(c)
      PROVE  BaseInv'
  <2>0. at[c] = "enter" /\ lock = "none" /\ server[<<c, 0>>] = "unused" /\ UNCHANGED <<tries, first, mishaps>>
    BY <1>1, <1>5 DEF Enter, ClientInv
  <2>1. CASE addr # NoServer
    <3>1. Goto(c, "found") /\ UNCHANGED <<tries, addr, counter, server, mishaps, first>> /\ lock' = lock
      BY <1>5, <2>1 DEF Enter, Joined, files
    <3> QED BY <1>2, <2>0, <3>1 DEF Places, Ended, Runs
  <2>2. CASE addr = NoServer
    <3>1. /\ lock' = c /\ server' = [server EXCEPT ![<<c, 0>>] = "starting"] /\ counter' = 0
          /\ Goto(c, "address") /\ addr' = addr
      BY <1>0, <1>5, <2>2 DEF Enter
    <3>2. at'[c] = "address" /\ \A d \in Clients : d # c => at'[d] = at[d]
      BY <3>1, GotoType DEF Places
    <3>3. ClientInv(c)'
      BY <1>1, <2>0, <2>2, <3>1, <3>2 DEF ClientInv, Ended
    <3>4. ASSUME NEW d \in Clients, d # c
          PROVE  ClientInv(d)'
      <4>1. server'[<<d, 0>>] = server[<<d, 0>>] /\ at'[d] = at[d]
        BY <1>0, <3>1, <3>2, <3>4
      <4> QED BY <1>1, <2>0, <3>1, <4>1 DEF ClientInv, Runs
    <3>5. \A s \in Servers : s[2] # 0 => server'[s] = "unused"
      BY <1>0, <3>1 DEF BaseInv
    <3> QED BY <3>1, <3>3, <3>4, <3>5 DEF BaseInv
  <2> QED BY <2>1, <2>2
<1>6. ASSUME NEW c \in Clients, WriteAddress(c)
      PROVE  BaseInv'
  <2>1. /\ at[c] = "address" /\ addr' = <<c, 0>> /\ Goto(c, "wait")
        /\ UNCHANGED <<lock, counter, tries, first, server, mishaps>>
    BY <1>0, <1>6 DEF WriteAddress, Quiet
  <2>2. at'[c] = "wait" /\ \A d \in Clients : d # c => at'[d] = at[d]
    BY <2>1, GotoType DEF Places
  <2>3. addr = NoServer /\ lock = c
    BY <1>1, <2>1 DEF ClientInv, LockInv
  <2>4. ClientInv(c)'
    BY <1>1, <2>1, <2>2 DEF ClientInv
  <2>5. ASSUME NEW d \in Clients, d # c
        PROVE  ClientInv(d)'
    <3>1. at[d] \notin {"address", "wait"}
      BY <2>3, <2>5 DEF LockInv
    <3>2. addr # <<d, 0>>
      BY <1>0, <2>3
    <3> QED BY <1>1, <2>1, <2>2, <2>5, <3>1, <3>2 DEF ClientInv, Runs
  <2>6. counter' = 0
    BY <1>0, <2>1, <2>3 DEF BaseInv
  <2> QED BY <2>1, <2>4, <2>5, <2>6 DEF BaseInv
<1>7. ASSUME NEW c \in Clients, Ready(c) \/ StartFails(c)
      PROVE  BaseInv'
  <2>1. at[c] = "wait" /\ lock' = "none" /\ UNCHANGED <<tries, addr, counter, server, mishaps, first>>
    BY <1>7 DEF Ready, StartFails, Quiet
  <2>2. PICK p \in {"found", "failed"} : Goto(c, p)
    BY <1>7 DEF Ready, StartFails, Joined
  <2>3. Runs(<<c, 0>>) => addr = <<c, 0>>
    BY <1>1, <2>1 DEF ClientInv, Ended
  <2> QED BY <1>2, <2>1, <2>2, <2>3 DEF Places
<1>8. ASSUME NEW c \in Clients, LockTimesOut(c)
      PROVE  BaseInv'
  <2>1. at[c] = "enter" /\ Goto(c, "failed") /\ UNCHANGED <<tries, addr, counter, server, mishaps, first>> /\ lock' = lock
    BY <1>1, <1>8 DEF LockTimesOut, ClientInv, files
  <2>2. ~Runs(<<c, 0>>)
    BY <1>1, <2>1 DEF ClientInv, Runs
  <2> QED BY <1>2, <2>1, <2>2 DEF Places
<1>9. ASSUME NEW c \in Clients, Found(c)
      PROVE  BaseInv'
  <2>1. /\ at[c] = "found" /\ UNCHANGED <<tries, addr, counter, server, mishaps>> /\ lock' = lock
        /\ first' = [first EXCEPT ![c] = IF @ = NoFile THEN tries[c] ELSE @]
    BY <1>9 DEF Found, files, Quiet
  <2>2. PICK p \in {"failed", "using"} : Goto(c, p)
    BY <1>9 DEF Found
  <2>3. /\ \A d \in Clients : d # c => first'[d] = first[d]
        /\ first'[c] = first[c] \/ first'[c] = 0
    BY <1>0, <1>1, <2>1 DEF ClientInv
  <2>4. Runs(<<c, 0>>) => addr = <<c, 0>>
    BY <1>1, <2>1 DEF ClientInv, Ended
  <2> QED BY <1>2, <2>1, <2>2, <2>3, <2>4 DEF Places
<1>10. ASSUME NEW c \in Clients, Exit(c)
      PROVE  BaseInv'
  <2>0. at[c] \in {"using", "failed"} /\ UNCHANGED <<tries, addr, counter, first>> /\ lock' = lock
    BY <1>10 DEF Exit, files
  <2>1. Runs(<<c, 0>>) => addr = <<c, 0>>
    BY <1>1, <2>0 DEF ClientInv, Ended
  <2>2. CASE first[c] = NoFile
    <3>1. Goto(c, "gone") /\ Stop({})
      BY <1>10, <2>2 DEF Exit, Threads
    <3>2. server' = server /\ mishaps' = mishaps
      BY <1>0, <3>1 DEF Stop
    <3> QED BY <1>2, <2>0, <2>2, <3>1, <3>2 DEF Places, Ended
  <2>3. CASE first[c] # NoFile
    <3>1. Goto(c, "close") /\ UNCHANGED <<server, mishaps>> /\ first[c] = 0
      BY <1>1, <1>10, <2>3 DEF Exit, Quiet, ClientInv
    <3> QED BY <1>2, <2>0, <2>1, <3>1 DEF Places
  <2> QED BY <2>2, <2>3
<1>11. ASSUME NEW c \in Clients, Close(c)
      PROVE  BaseInv'
  <2>1. /\ at[c] = "close" /\ UNCHANGED <<tries, addr, counter, first, server, mishaps>> /\ lock' = lock
        /\ Goto(c, IF server[Handle(c)] \in {"unused", "dead"} THEN "gone" ELSE "count")
    BY <1>11 DEF Close, files, Quiet
  <2>2. first[c] = 0 /\ Handle(c) = <<c, 0>> /\ (Runs(<<c, 0>>) => addr = <<c, 0>>)
    BY <1>0, <1>1, <2>1 DEF ClientInv, Ended
  <2>3. server[<<c, 0>>] \in {"unused", "dead"} <=> ~Runs(<<c, 0>>)
    BY <1>0 DEF Runs, ServerStates
  <2>4. CASE Runs(<<c, 0>>)
    BY <1>2, <2>1, <2>2, <2>3, <2>4 DEF Places
  <2>5. CASE ~Runs(<<c, 0>>)
    BY <1>2, <2>1, <2>2, <2>3, <2>5 DEF Places, Ended
  <2> QED BY <2>4, <2>5
<1>12. ASSUME NEW c \in Clients, Count(c)
      PROVE  BaseInv'
  <2>1. /\ at[c] = "count" /\ UNCHANGED <<tries, addr, counter, first, server, mishaps>> /\ lock' = lock
        /\ addr = <<c, 0>> /\ first[c] = 0
    BY <1>1, <1>12 DEF Count, files, Quiet, ClientInv
  <2>2. counter = 0
    BY <1>0, <2>1 DEF BaseInv
  <2>3. Goto(c, "kill")
    BY <1>12, <2>2 DEF Count, NoFile
  <2> QED BY <1>2, <2>1, <2>3 DEF Places
<1>13. ASSUME NEW c \in Clients, Kill(c)
      PROVE  BaseInv'
  <2>1. /\ at[c] = "kill" /\ lock = "none" /\ lock' = lock /\ addr' = NoServer /\ Goto(c, "gone")
        /\ UNCHANGED <<tries, first>> /\ Stop({Handle(c)}) /\ addr = <<c, 0>> /\ Handle(c) = <<c, 0>>
    BY <1>0, <1>1, <1>13 DEF Kill, ClientInv
  <2>2. mishaps' = mishaps /\ \A s \in Servers : server'[s] = IF s = <<c, 0>> THEN "dead" ELSE server[s]
    BY <2>1, StopType
  <2>3. at'[c] = "gone" /\ \A d \in Clients : d # c => at'[d] = at[d]
    BY <2>1, GotoType DEF Places, Ended
  <2>4. ClientInv(c)'
    <3>1. server'[<<c, 0>>] = "dead"
      BY <1>0, <2>2
    <3> QED BY <1>1, <2>1, <2>3, <3>1 DEF ClientInv, Runs
  <2>5. ASSUME NEW d \in Clients, d # c
        PROVE  ClientInv(d)'
    <3>1. server'[<<d, 0>>] = server[<<d, 0>>] /\ at'[d] = at[d] /\ addr # <<d, 0>>
      BY <1>0, <2>1, <2>2, <2>3, <2>5
    <3> QED BY <1>1, <2>1, <2>2, <3>1 DEF ClientInv, Runs
  <2>6. \A s \in Servers : s[2] # 0 => server'[s] = "unused"
    BY <1>0, <2>2 DEF BaseInv
  <2> QED BY <2>1, <2>4, <2>5, <2>6 DEF BaseInv
<1>14. ASSUME NEW c \in Clients, CloseTimesOut(c)
      PROVE  BaseInv'
  <2>1. /\ UNCHANGED <<tries, addr, counter, first>> /\ lock' = lock /\ Goto(c, "gave_up") /\ Stop({})
    BY <1>14 DEF CloseTimesOut, files, Threads
  <2>2. server' = server /\ mishaps' = mishaps
    BY <1>0, <2>1 DEF Stop
  <2> QED BY <1>2, <2>1, <2>2 DEF Places, Ended
<1>15. ASSUME NEW c \in Clients, Crash(c)
      PROVE  BaseInv'
  <2>1. /\ UNCHANGED <<tries, addr, counter, first>> /\ Goto(c, "gone") /\ mishaps' = mishaps + 1
        /\ lock' = (IF lock = c THEN "none" ELSE lock)
        /\ server' = [s \in Servers |-> server[s]]
    BY <1>15 DEF Crash, Mishap, Threads
  <2>2. server' = server /\ mishaps' # 0
    BY <1>0, <2>1
  <2>3. at'[c] = "gone" /\ \A d \in Clients : d # c => at'[d] = at[d]
    BY <2>1, GotoType DEF Places, Ended
  <2>4. \A d \in Clients : ClientInv(d)'
    BY <1>1, <2>1, <2>2, <2>3 DEF ClientInv, Runs, Ended
  <2> QED BY <2>1, <2>2, <2>4 DEF BaseInv
<1>16. ASSUME NEW s \in Servers, Accept(s) \/ ServerDies(s)
      PROVE  BaseInv'
  <2>1. /\ UNCHANGED <<lock, addr, counter, at, tries, first>> /\ server[s] \in {"starting", "accepting"}
        /\ mishaps' = mishaps \/ mishaps' = mishaps + 1
        /\ \A t \in Servers : t # s => server'[t] = server[t]
        /\ server'[s] \in {"accepting", "dead"}
    BY <1>0, <1>16 DEF Accept, ServerDies, Mishap, files, client
  <2>2. mishaps' = 0 => mishaps = 0
    BY <1>0, <2>1
  <2>3. \A t \in Servers : /\ server[t] = "unused" => server'[t] = "unused"
                           /\ server'[t] \in {"starting", "accepting"} => server[t] \in {"starting", "accepting"}
    BY <2>1
  <2>4. \A d \in Clients : ClientInv(d)'
    BY <1>0, <1>1, <2>1, <2>2, <2>3 DEF ClientInv, Runs
  <2> QED BY <2>1, <2>3, <2>4 DEF BaseInv
<1>17. CASE UNCHANGED rdvVars
  BY <1>17 DEF BaseInv, ClientInv, Runs, rdvVars, files, client
<1> QED BY <1>3, <1>4, <1>5, <1>6, <1>7, <1>8, <1>9, <1>10, <1>11, <1>12, <1>13, <1>14, <1>15, <1>16, <1>17
        DEF RdvNext, Starting, Closing

\* The inductive invariant: the lock file is held by the client that launches, and
\* where the address file decides, each client's server, the address and the counter
\* agree (ClientInv).
THEOREM RdvInvariant == RdvSpec => []RdvInv
<1>1. RdvInit => RdvInv
  <2> SUFFICES ASSUME RdvInit PROVE RdvInv
    OBVIOUS
  <2>1. "none" \notin Clients /\ MaxReconnects \in Nat /\ MaxMishaps \in Nat
    BY RdvAssumption DEF RdvAssumption
  <2>2. RdvTypeOK
    BY <2>1 DEF RdvInit, RdvTypeOK, Places
  <2>3. LockInv
    BY <2>1 DEF RdvInit, LockInv
  <2>4. \A c \in Clients : <<c, 0>> \in Servers
    BY <2>1 DEF Servers
  <2>5. BaseInv
    BY <2>4 DEF RdvInit, BaseInv, ClientInv, Runs
  <2> QED BY <2>2, <2>3, <2>5 DEF RdvInv
<1>2. RdvInv /\ [RdvNext]_rdvVars => RdvInv'
  <2> SUFFICES ASSUME RdvInv, [RdvNext]_rdvVars PROVE RdvInv'
    OBVIOUS
  <2>1. kind' = kind
    BY DEF RdvNext, Starting, Closing, rdvVars, Begin, Connect, Clean, CleanCounter, Enter, WriteAddress, Ready,
           StartFails, LockTimesOut, RegisterClient, Found, Reconnect, Exit, Close, Count, Kill, Disconnect,
           CloseTimesOut, Crash, Accept, ServerDies
  <2> QED BY <2>1, RdvAssumption, RdvTypesStep, LockStep, BaseStep DEF RdvInv
<1> QED BY <1>1, <1>2, PTL DEF RdvSpec

\* Files, servers and clients keep their types, whatever kind of server it is.
THEOREM RdvTypeCorrect == RdvSpec => []RdvTypeOK
<1>1. RdvInv => RdvTypeOK
  BY DEF RdvInv
<1> QED BY <1>1, RdvInvariant, PTL

\* vLLM and Ollama: PerRdvServer.start() and close() never leave two servers that are
\* advertised or whose starter lives, whatever dies, crashes or times out.
THEOREM AlwaysOneServer == RdvSpec => []OneServer
<1>1. RdvInv => OneServer
  <2> SUFFICES ASSUME RdvInv, kind = "base", NEW s \in Advertised, NEW t \in Advertised
               PROVE  s = t
    BY DEF OneServer
  <2>1. BaseInv /\ LockInv
    BY DEF RdvInv
  <2>2. ASSUME NEW u \in Advertised
        PROVE  \E c \in Clients : /\ u = <<c, 0>>
                                  /\ addr = u \/ (addr = NoServer /\ lock = c)
    <3>1. u \in Servers /\ Runs(u) /\ (addr = u \/ at[u[1]] \notin Ended)
      BY DEF Advertised, RunningServers, Runs
    <3>2. u[2] = 0
      BY <2>1, <3>1 DEF BaseInv, Runs
    <3>3. u[1] \in Clients /\ u = <<u[1], 0>>
      BY <3>1, <3>2 DEF Servers
    <3>4. ClientInv(u[1])
      BY <2>1, <3>3 DEF BaseInv
    <3>5. CASE at[u[1]] = "address"
      BY <2>1, <3>3, <3>4, <3>5 DEF ClientInv, LockInv
    <3>6. CASE at[u[1]] # "address"
      BY <3>1, <3>3, <3>4, <3>6 DEF ClientInv
    <3> QED BY <3>5, <3>6
  <2>3. \A c \in Clients : <<c, 0>> # NoServer
    BY RdvAssumption DEF RdvAssumption, NoServer
  <2>4. PICK c \in Clients : s = <<c, 0>> /\ (addr = s \/ (addr = NoServer /\ lock = c))
    BY <2>2
  <2>5. PICK d \in Clients : t = <<d, 0>> /\ (addr = t \/ (addr = NoServer /\ lock = d))
    BY <2>2
  <2> QED BY <2>3, <2>4, <2>5
<1> QED BY <1>1, RdvInvariant, PTL

\* vLLM and Ollama: when all processes have closed what they use and nothing went
\* wrong, no server is left (PerRdvServer.close()).
THEOREM NeverAServerLeft == RdvSpec => []NoServerLeft
<1>1. RdvInv => NoServerLeft
  <2> SUFFICES ASSUME RdvInv, kind = "base", mishaps = 0,
                      \A c \in Clients : at[c] = "gone" /\ first[c] # NoFile,
                      NEW s \in RunningServers
               PROVE  FALSE
    BY DEF NoServerLeft
  <2>1. BaseInv
    BY DEF RdvInv
  <2>2. s \in Servers /\ Runs(s)
    BY DEF RunningServers, Runs
  <2>3. s[2] = 0
    BY <2>1, <2>2 DEF BaseInv, Runs
  <2>4. s[1] \in Clients /\ s = <<s[1], 0>>
    BY <2>2, <2>3 DEF Servers
  <2>5. ClientInv(s[1])
    BY <2>1, <2>4 DEF BaseInv
  <2> QED BY <2>2, <2>4, <2>5 DEF ClientInv
<1> QED BY <1>1, RdvInvariant, PTL
---------------------------------------------------------------------------
(* The start and the end of a run *)

\* Rank 0 has come to its signals.
Signalling == {"signal", "start", "run", "close", "clean", "join", "over"}

\* A worker has been told "ready".
Woken == {"locking", "adding", "warming", "serving", "sleeping"}

\* Nobody is told anything before the signals, so nobody has a worktree before.
SignalInv == \A w \in Ranks : told[w] # <<>> \/ place[w] \in Woken => boss \in Signalling

\* The build ends with frozen packages, and nothing thaws them.
FrozenInv == boss \in {"collect"} \cup (Signalling \ {"join", "over"}) => packages = "frozen"

\* The lock file is held by the worker that adds.
AddingInv == \A w \in Ranks : place[w] = "adding" <=> holder = w

\* A worker leaves the lock with all its worktrees, and they stay.
TreesInv ==
  \A w \in Ranks : place[w] \in {"warming", "serving"} /\ boss \notin {"join", "over"} => trees[w] = AgentsPerNode

\* Who has started anew too often has ended.
ReturnsInv == \A w \in Ranks : place[w] # "ended" => returns[w] <= MaxReturns

StartupInv == StartupTypeOK /\ ReturnsInv /\ SignalInv /\ FrozenInv /\ AddingInv /\ TreesInv

LEMMA StartupInvInit == StartupInit => StartupInv
<1> SUFFICES ASSUME StartupInit PROVE StartupInv
  OBVIOUS
<1>1. <<>> \in Seq(Upward) /\ <<>> \in Seq(Downward) /\ <<>> \in Seq(Ranks \X Upward)
  OBVIOUS
<1>2. 0 \in 0..MaxTasks /\ 0 \in 0..(MaxReturns + 1) /\ 0 \in 0..AgentsPerNode /\ 0 \in 0..MaxFailures
  BY StartupAssumption
<1>3. StartupTypeOK
  BY <1>1, <1>2 DEF StartupInit, StartupTypeOK, Steps, RankPlaces
<1>4. AddingInv
  BY StartupAssumption DEF StartupInit, AddingInv
<1>5. ReturnsInv /\ SignalInv /\ FrozenInv /\ TreesInv
  BY StartupAssumption DEF ReturnsInv, StartupInit, SignalInv, FrozenInv, TreesInv, Signalling, Woken
<1> QED BY <1>3, <1>4, <1>5 DEF StartupInv

\* What rank 0 tells a worker.
LEMMA TellType ==
  ASSUME NEW w \in Ranks, NEW m \in Downward, told \in [Ranks -> Seq(Downward)], Tell(w, m)
  PROVE  told' \in [Ranks -> Seq(Downward)]
BY DEF Tell

LEMMA HeardType ==
  ASSUME NEW w \in Ranks, told \in [Ranks -> Seq(Downward)], told[w] # <<>>
  PROVE  [told EXCEPT ![w] = Tail(@)] \in [Ranks -> Seq(Downward)]
OBVIOUS

LEMMA PostType ==
  ASSUME NEW w \in Ranks, NEW m \in Upward, posted \in [Ranks -> Seq(Upward)]
  PROVE  [posted EXCEPT ![w] = Append(@, m)] \in [Ranks -> Seq(Upward)]
OBVIOUS

LEMMA ClosesType ==
  ASSUME NEW w \in Ranks, told \in [Ranks -> Seq(Downward)], Closes(w)
  PROVE  /\ told' \in [Ranks -> Seq(Downward)] /\ told'[w] = <<>>
         /\ \A v \in Ranks \ {w} : told'[v] = told[v]
BY DEF Closes

LEMMA ReceiveType ==
  ASSUME NEW w \in Ranks, NEW m \in Upward, posted \in [Ranks -> Seq(Upward)], buffer \in Seq(Ranks \X Upward), Receive(w, m)
  PROVE  /\ posted' \in [Ranks -> Seq(Upward)] /\ buffer' \in Seq(Ranks \X Upward)
<1>1. CASE buffer # <<>> /\ buffer' = Tail(buffer) /\ UNCHANGED posted
  BY <1>1
<1>2. CASE posted[w] # <<>> /\ posted' = [posted EXCEPT ![w] = Tail(@)] /\ UNCHANGED buffer
  <2>1. Tail(posted[w]) \in Seq(Upward)
    BY <1>2
  <2> QED BY <1>2, <2>1
<1> QED BY <1>1, <1>2 DEF Receive

LEMMA BossKeepsTypes ==
  ASSUME StartupTypeOK,
         BossStep \/ EndPipeline \/ InitializeFails \/ Terminated
           \/ \E w \in Ranks : Listen(w) \/ SendTask(w) \/ DeclareDead(w)
  PROVE  StartupTypeOK'
<1> USE DEF StartupTypeOK, bossVars, channels, rankVars, lockVars
<1> Downward = {"ready", "task", "restart", "shutdown"} /\ Upward = {"waiting", "register", "result"}
  BY DEF Downward, Upward
<1>1. ASSUME Prepare PROVE StartupTypeOK'
  <2>1. 0 \in 0..AgentsPerNode
    BY StartupAssumption
  <2>2. CASE Resume \/ CopyTemplate \/ Commit \/ InitialBuild \/ BuildFails
    BY <2>2 DEF Resume, CopyTemplate, Commit, InitialBuild, BuildFails, Steps
  <2>3. CASE CollectOld
    BY <2>1, <2>3 DEF CollectOld, Steps
  <2> QED BY <1>1, <2>2, <2>3 DEF Prepare
<1>2. ASSUME Proceed \/ NobodyRegistered \/ InitializeFails \/ EndPipeline \/ Terminate \/ Leave PROVE StartupTypeOK'
  BY <1>2 DEF Proceed, NobodyRegistered, InitializeFails, EndPipeline, Terminate, Leave, Steps
<1>3. ASSUME CloseExecutor PROVE StartupTypeOK'
  <2>1. ASSUME NEW w \in Ranks PROVE Append(told[w], "shutdown") \in Seq(Downward)
    <3>1. told[w] \in Seq(Downward) /\ "shutdown" \in Downward
      OBVIOUS
    <3> QED BY <3>1
  <2>2. told' \in [Ranks -> Seq(Downward)]
    BY <1>3, <2>1 DEF CloseExecutor
  <2> QED BY <1>3, <2>2 DEF CloseExecutor, Steps
<1>4. ASSUME CleanUp PROVE StartupTypeOK'
  <2>1. 0 \in 0..AgentsPerNode
    BY StartupAssumption
  <2> QED BY <1>4, <2>1 DEF CleanUp, Steps
<1>5. ASSUME NEW w \in Ranks, Signal(w) PROVE StartupTypeOK'
  <2>1. posted' \in [Ranks -> Seq(Upward)] /\ buffer' \in Seq(Ranks \X Upward)
    BY <1>5, ReceiveType DEF Signal
  <2>2. told' \in [Ranks -> Seq(Downward)]
    BY <1>5, TellType DEF Signal
  <2> QED BY <1>5, <2>1, <2>2 DEF Signal
<1>6. ASSUME NEW w \in Ranks, Requeue(w) PROVE StartupTypeOK'
  <2>1. Head(posted[w]) \in Upward /\ Tail(posted[w]) \in Seq(Upward)
    BY <1>6 DEF Requeue
  <2>2. <<w, Head(posted[w])>> \in Ranks \X Upward
    BY <2>1
  <2>3. buffer' \in Seq(Ranks \X Upward)
    BY <1>6, <2>2 DEF Requeue
  <2> QED BY <1>6, <2>1, <2>3 DEF Requeue
<1>7. ASSUME NEW w \in Ranks, StartReads(w) \/ Listen(w) PROVE StartupTypeOK'
  <2>1. PICK m \in Upward : Receive(w, m)
    BY <1>7 DEF StartReads, Listen
  <2>2. posted' \in [Ranks -> Seq(Upward)] /\ buffer' \in Seq(Ranks \X Upward)
    BY <2>1, ReceiveType
  <2>3. boss' \in Steps /\ registered' \subseteq Ranks
    BY <1>7 DEF StartReads, Listen, Steps
  <2> QED BY <1>7, <2>2, <2>3 DEF StartReads, Listen
<1>8. ASSUME NEW w \in Ranks, SendTask(w) \/ DeclareDead(w) PROVE StartupTypeOK'
  <2>1. told' \in [Ranks -> Seq(Downward)]
    BY <1>8, TellType DEF SendTask, DeclareDead
  <2>2. \A n \in 0..MaxTasks : n < MaxTasks => n + 1 \in 0..MaxTasks
    BY StartupAssumption
  <2>3. given \in [Ranks -> 0..MaxTasks]
    OBVIOUS
  <2>4. given' \in [Ranks -> 0..MaxTasks]
    <3>1. CASE SendTask(w)
      BY ONLY <3>1, <2>2, <2>3, w \in Ranks DEF SendTask
    <3>2. CASE DeclareDead(w)
      BY <3>2, <2>3 DEF DeclareDead
    <3> QED BY <1>8, <3>1, <3>2
  <2> QED BY <1>8, <2>1, <2>4 DEF SendTask, DeclareDead
<1>9. ASSUME Terminated PROVE StartupTypeOK'
  <2>1. told' \in [Ranks -> Seq(Downward)]
    BY <1>9, ClosesType, StartupAssumption DEF Terminated
  <2> QED BY <1>9, <2>1, StartupAssumption DEF Terminated, RankPlaces
<1> QED BY <1>1, <1>2, <1>3, <1>4, <1>5, <1>6, <1>7, <1>8, <1>9 DEF BossStep

LEMMA RankKeepsTypes ==
  ASSUME StartupTypeOK, ReturnsInv, NEW w \in Ranks, Launch(w) \/ RankStep(w) \/ Fails(w)
  PROVE  StartupTypeOK'
<1> USE DEF StartupTypeOK, bossVars, channels, rankVars, lockVars
<1> Downward = {"ready", "task", "restart", "shutdown"} /\ Upward = {"waiting", "register", "result"}
  BY DEF Downward, Upward
<1>1. ASSUME Launch(w) \/ Serve(w) PROVE StartupTypeOK'
  <2>1. PICK m \in Upward : posted' = [posted EXCEPT ![w] = Append(@, m)]
    BY <1>1 DEF Launch, Serve
  <2>2. posted' \in [Ranks -> Seq(Upward)]
    BY <2>1, PostType
  <2> QED BY <1>1, <2>2 DEF Launch, Serve, Moves, RankPlaces
<1>2. ASSUME HearReady(w) \/ HearShutdown(w) PROVE StartupTypeOK'
  <2>1. told' \in [Ranks -> Seq(Downward)]
    BY <1>2, ClosesType DEF HearReady, HearShutdown
  <2> QED BY <1>2, <2>1 DEF HearReady, HearShutdown, Moves, RankPlaces
<1>3. ASSUME TakeLock(w) \/ ReleaseLock(w) \/ NoTree(w) \/ Wake(w) PROVE StartupTypeOK'
  BY <1>3 DEF TakeLock, ReleaseLock, NoTree, Wake, Moves, RankPlaces
<1>4. ASSUME AddTree(w) PROVE StartupTypeOK'
  <2>1. trees[w] \in 0..AgentsPerNode /\ trees[w] < AgentsPerNode
    BY <1>4 DEF AddTree
  <2>2. \A n \in 0..AgentsPerNode : n < AgentsPerNode => n + 1 \in 0..AgentsPerNode
    BY StartupAssumption
  <2> QED BY <1>4, <2>1, <2>2 DEF AddTree
<1>5. ASSUME Work(w) PROVE StartupTypeOK'
  <2>1. posted' \in [Ranks -> Seq(Upward)]
    BY <1>5, PostType DEF Work
  <2>2. told' \in [Ranks -> Seq(Downward)]
    BY <1>5, HeardType DEF Work, Hears
  <2> QED BY <1>5, <2>1, <2>2 DEF Work
<1>6. ASSUME HearRestart(w) PROVE StartupTypeOK'
  <2>1. told' \in [Ranks -> Seq(Downward)]
    BY <1>6, ClosesType DEF HearRestart
  <2>2. place' \in [Ranks -> RankPlaces]
    BY <1>6 DEF HearRestart, Moves, RankPlaces
  <2>3. returns[w] <= MaxReturns
    BY <1>6 DEF HearRestart, Moves, ReturnsInv
  <2>4. \A n \in 0..(MaxReturns + 1) : n <= MaxReturns => n + 1 \in 0..(MaxReturns + 1)
    BY StartupAssumption
  <2>5. returns' \in [Ranks -> 0..(MaxReturns + 1)]
    BY <1>6, <2>3, <2>4 DEF HearRestart
  <2> QED BY <1>6, <2>1, <2>2, <2>5 DEF HearRestart
<1>7. ASSUME Fails(w) PROVE StartupTypeOK'
  <2>1. told' \in [Ranks -> Seq(Downward)]
    BY <1>7, ClosesType DEF Fails
  <2>2. failures' \in 0..MaxFailures
    BY <1>7, StartupAssumption DEF Fails
  <2> QED BY <1>7, <2>1, <2>2 DEF Fails, Unlocked, RankPlaces
<1> QED BY <1>1, <1>2, <1>3, <1>4, <1>5, <1>6, <1>7 DEF RankStep

\* What a worker does to its place, rank 0 aside.
LEMMA PlacesStep ==
  ASSUME StartupTypeOK, NEW w \in Ranks, Launch(w) \/ RankStep(w) \/ Fails(w)
  PROVE  /\ UNCHANGED <<boss, packages>>
         /\ \A v \in Ranks \ {w} : UNCHANGED <<place[v], trees[v], returns[v]>>
         /\ \A v \in Ranks \ {w} : told'[v] = told[v]
         /\ place'[w] \in Woken => place[w] \in Woken \/ told[w] # <<>>
         /\ told'[w] # <<>> => told[w] # <<>>
<1> USE DEF StartupTypeOK, bossVars, channels, rankVars, lockVars
<1>1. CASE Launch(w) \/ HearReady(w) \/ TakeLock(w) \/ AddTree(w) \/ ReleaseLock(w) \/ NoTree(w)
  BY <1>1 DEF Launch, HearReady, TakeLock, AddTree, ReleaseLock, NoTree, Moves, Hears, Closes, Woken
<1>2. CASE Serve(w) \/ Work(w) \/ HearRestart(w) \/ Wake(w) \/ HearShutdown(w) \/ Fails(w)
  BY <1>2 DEF Serve, Work, HearRestart, Wake, HearShutdown, Fails, Moves, Hears, Closes, Woken
<1> QED BY <1>1, <1>2 DEF RankStep

LEMMA RankKeepsInv ==
  ASSUME StartupInv, NEW w \in Ranks, Launch(w) \/ RankStep(w) \/ Fails(w)
  PROVE  StartupInv'
<1> USE DEF StartupInv
<1>1. StartupTypeOK'
  BY RankKeepsTypes
<1>2. SignalInv' /\ FrozenInv'
  BY PlacesStep DEF SignalInv, FrozenInv, Woken
<1>3. ReturnsInv'
  <2>1. place'[w] # "ended" => returns'[w] <= MaxReturns
    <3>1. CASE HearRestart(w)
      BY <3>1, StartupAssumption DEF HearRestart, Moves, ReturnsInv, StartupTypeOK
    <3>2. CASE ~HearRestart(w)
      BY <3>2 DEF Launch, RankStep, HearReady, TakeLock, AddTree, ReleaseLock, NoTree, Serve, Work, Wake, HearShutdown,
                  Fails, Moves, ReturnsInv, StartupTypeOK, rankVars
    <3> QED BY <3>1, <3>2
  <2> QED BY <2>1, PlacesStep DEF ReturnsInv
<1>4. TreesInv'
  <2>1. place'[w] \in {"warming", "serving"} /\ boss \notin {"join", "over"} => trees'[w] = AgentsPerNode
    BY DEF Launch, RankStep, HearReady, TakeLock, AddTree, ReleaseLock, NoTree, Serve, Work, HearRestart, Wake,
           HearShutdown, Fails, Moves, TreesInv, StartupTypeOK, rankVars
  <2> QED BY <2>1, PlacesStep DEF TreesInv
<1>5. AddingInv'
  <2>1. CASE TakeLock(w) \/ ReleaseLock(w) \/ NoTree(w)
    BY <2>1, StartupAssumption DEF TakeLock, ReleaseLock, NoTree, Moves, AddingInv, StartupTypeOK
  <2>2. CASE Fails(w)
    BY <2>2, StartupAssumption DEF Fails, Unlocked, AddingInv, StartupTypeOK
  <2>3. CASE Launch(w) \/ HearReady(w) \/ AddTree(w) \/ Serve(w) \/ Work(w) \/ HearRestart(w) \/ Wake(w) \/ HearShutdown(w)
    BY <2>3 DEF Launch, HearReady, AddTree, Serve, Work, HearRestart, Wake, HearShutdown, Moves, AddingInv, StartupTypeOK,
                lockVars, rankVars
  <2> QED BY <2>1, <2>2, <2>3 DEF RankStep
<1> QED BY <1>1, <1>2, <1>3, <1>4, <1>5

LEMMA BossKeepsInv ==
  ASSUME StartupInv,
         BossStep \/ EndPipeline \/ InitializeFails \/ Terminated
           \/ \E w \in Ranks : Listen(w) \/ SendTask(w) \/ DeclareDead(w)
  PROVE  StartupInv'
<1> USE DEF StartupInv, bossVars, channels, rankVars, lockVars, Signalling
<1>1. StartupTypeOK'
  BY BossKeepsTypes
<1> SUFFICES ReturnsInv' /\ SignalInv' /\ FrozenInv' /\ AddingInv' /\ TreesInv'
  BY <1>1
<1> HIDE DEF StartupInv
<1> StartupTypeOK /\ ReturnsInv /\ SignalInv /\ FrozenInv /\ AddingInv /\ TreesInv
  BY DEF StartupInv
<1> USE DEF ReturnsInv, SignalInv, FrozenInv, AddingInv, TreesInv
<1>2. CASE Prepare
  <2>1. CASE CollectOld
    BY <2>1 DEF CollectOld, Woken
  <2>2. CASE Resume \/ CopyTemplate \/ Commit \/ InitialBuild \/ BuildFails
    BY <2>2 DEF Resume, CopyTemplate, Commit, InitialBuild, BuildFails
  <2> QED BY <1>2, <2>1, <2>2 DEF Prepare
<1>3. CASE Proceed \/ NobodyRegistered \/ InitializeFails \/ EndPipeline \/ Terminate \/ Leave
  BY <1>3 DEF Proceed, NobodyRegistered, InitializeFails, EndPipeline, Terminate, Leave
<1>4. CASE CloseExecutor
  BY <1>4 DEF CloseExecutor
<1>5. CASE CleanUp
  BY <1>5 DEF CleanUp
<1>6. CASE \E w \in Ranks : Signal(w) \/ Requeue(w) \/ StartReads(w)
  BY <1>6 DEF Signal, Requeue, StartReads
<1>7. CASE \E w \in Ranks : Listen(w) \/ SendTask(w) \/ DeclareDead(w)
  BY <1>7 DEF Listen, SendTask, DeclareDead
<1>8. CASE Terminated
  <2>1. /\ place' = [place EXCEPT ![Local] = "ended"] /\ place[Local] # "adding"
        /\ told' = [told EXCEPT ![Local] = <<>>]
        /\ UNCHANGED <<boss, packages, returns, trees, holder>>
    BY <1>8 DEF Terminated, Closes
  <2> QED BY <2>1, StartupAssumption DEF StartupTypeOK, Woken
<1> QED BY <1>2, <1>3, <1>4, <1>5, <1>6, <1>7, <1>8 DEF BossStep

LEMMA StagingKeepsInv ==
  ASSUME StartupInv, NEW t \in {"queue", "eval"}, BossLocks(t) \/ BossUnlocks(t)
  PROVE  StartupInv'
<1> USE DEF StartupInv, bossVars, channels, rankVars
<1>1. StartupTypeOK'
  BY DEF StartupTypeOK, BossLocks, BossUnlocks
<1>2. AddingInv'
  BY StartupAssumption DEF AddingInv, BossLocks, BossUnlocks, StartupTypeOK
<1>3. ReturnsInv' /\ SignalInv' /\ FrozenInv' /\ TreesInv'
  BY DEF ReturnsInv, SignalInv, FrozenInv, TreesInv, BossLocks, BossUnlocks
<1> QED BY <1>1, <1>2, <1>3

\* The invariant of a run's start and end.
THEOREM StartupInvariant == StartupSpec => []StartupInv
<1>1. StartupInv /\ [StartupNext]_startupVars => StartupInv'
  <2> SUFFICES ASSUME StartupInv, [StartupNext]_startupVars PROVE StartupInv'
    OBVIOUS
  <2>1. CASE UNCHANGED startupVars
    BY <2>1 DEF startupVars, bossVars, channels, rankVars, lockVars, StartupInv, StartupTypeOK, ReturnsInv, SignalInv,
                FrozenInv, AddingInv, TreesInv
  <2>2. CASE \E w \in Ranks : Launch(w) \/ RankStep(w) \/ Fails(w)
    BY <2>2, RankKeepsInv
  <2>3. CASE \E t \in {"queue", "eval"} : BossLocks(t) \/ BossUnlocks(t)
    BY <2>3, StagingKeepsInv
  <2>4. CASE BossStep \/ EndPipeline \/ InitializeFails \/ Terminated
               \/ \E w \in Ranks : Listen(w) \/ SendTask(w) \/ DeclareDead(w)
    BY <2>4, BossKeepsInv
  <2> QED BY <2>1, <2>2, <2>3, <2>4 DEF StartupNext
<1> QED BY <1>1, StartupInvInit, PTL DEF StartupSpec

\* Worktrees are collected before workers are signalled and packages frozen before
\* that (main.py): agents are warmed up and work on worktrees that are there, until
\* the pipeline has ended.
THEOREM AlwaysOnOwnTrees == StartupSpec => []OnOwnTrees
<1>1. StartupInv => OnOwnTrees
  BY DEF StartupInv, SignalInv, FrozenInv, TreesInv, OnOwnTrees, Woken, Signalling
<1> QED BY <1>1, StartupInvariant, PTL

\* The lock file keeps the workers' `git worktree add` apart (pool.py), whoever dies.
THEOREM WorkersAddAlone == StartupSpec => []AddsAlone
<1>1. StartupInv => AddsAlone
  BY DEF StartupInv, AddingInv, AddsAlone
<1> QED BY <1>1, StartupInvariant, PTL
=============================================================================
