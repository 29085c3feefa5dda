--------------------------- MODULE LeanServerProofs ---------------------------
(***************************************************************************)
(* Proofs about the servers that check Lean code, for any number of threads, *)
(* calls, retries and failures: the pool of REPLs, and the session of a    *)
(* language server.                                                        *)
(***************************************************************************)
EXTENDS ReplPool, LspSession, TLAPS

---------------------------------------------------------------------------
(* The pool of REPLs *)


\* What is between a worker and its process: only a worker that waits has a command
\* with the process or in its pipe, and that is its own, sent with the header's
\* environment; a process has loaded the header unless it is being started.
Worker(w) ==
  /\ at[w] # "wait" => busy[w] = None /\ pipe[w] = <<>>
  /\ at[w] = "wait" =>
       /\ loaded[w] /\ doing[w] \in Calls
       /\ \/ busy[w] = None /\ pipe[w] \in {<<>>, <<doing[w]>>}
          \/ busy[w] = doing[w] /\ pipe[w] = <<>>
  /\ at[w] \in {"check", "send", "wait"} => env[w] /\ doing[w] \in Calls
  /\ at[w] = "start" => doing[w] \in Calls /\ then[w] # None
  /\ at[w] = "start" /\ then[w] # "run" => env[w] /\ session[w]
  /\ at[w] \in {"check", "wait", "return"} \/ (at[w] \in {"get", "empty"} /\ session[w]) => base[w]
  /\ process[w] = "alive" /\ at[w] # "start" => loaded[w] /\ base[w]
  /\ at[w] \in {"check", "send", "wait", "return"} => session[w]
  /\ process[w] = "alive" => session[w] \/ at[w] = "start"

IInv == TypeOK /\ AnswersOwn /\ \A w \in Workers : Worker(w)

\* A step of one worker's that keeps its own part keeps the others'.
LEMMA Others ==
  ASSUME NEW w \in Workers, TypeOK, TypeOK', \A v \in Workers : Worker(v), Worker(w)',
         \A v \in Workers \ {w} :
           /\ at'[v] = at[v] /\ doing'[v] = doing[v] /\ then'[v] = then[v] /\ session'[v] = session[v]
           /\ process'[v] = process[v] /\ base'[v] = base[v] /\ loaded'[v] = loaded[v]
           /\ env'[v] = env[v] /\ busy'[v] = busy[v] /\ pipe'[v] = pipe[v]
  PROVE  \A v \in Workers : Worker(v)'
<1> SUFFICES ASSUME NEW v \in Workers \ {w} PROVE Worker(v)'
  OBVIOUS
<1>1. Worker(v)
  OBVIOUS
<1> QED BY <1>1 DEF Worker

\* The invariant holds at the start.
LEMMA InitInv == Init => IInv
<1> SUFFICES ASSUME Init PROVE IInv
  OBVIOUS
<1>1. CallTypes
  <2>1. shutdown \in BOOLEAN /\ queue \in Seq(Calls)
    <3>1. shutdown = FALSE /\ queue = <<>>
      BY DEF Init
    <3>2. <<>> \in Seq(Calls)
      OBVIOUS
    <3> QED BY <3>1, <3>2
  <2>2. future \in [Calls -> {"new", "admitted", "pending"} \cup Settled]
    BY DEF Init
  <2>3. answer \in [Calls -> Calls \cup {None, Failure}]
    BY DEF Init
  <2> QED BY <2>1, <2>2, <2>3 DEF CallTypes
<1>2. ThreadTypes
  BY PoolAssumption DEF Init, ThreadTypes, Places
<1>3. ReplTypes
  BY DEF Init, ReplTypes
<1>4. AnswersOwn
  BY DEF Init, AnswersOwn
<1>5. ASSUME NEW w \in Workers PROVE Worker(w)
  BY DEF Init, Worker, None
<1> QED BY <1>1, <1>2, <1>3, <1>4, <1>5 DEF IInv, TypeOK

\* A launched or closed process keeps the types.
LEMMA LaunchType ==
  ASSUME NEW w \in Workers, ReplTypes, Launch(w), UNCHANGED env
  PROVE  ReplTypes'
BY DEF ReplTypes, Launch

LEMMA CloseType ==
  ASSUME NEW w \in Workers, ReplTypes, Close(w), UNCHANGED env
  PROVE  ReplTypes'
BY DEF ReplTypes, Close

\* Callers do not touch the workers.
LEMMA CallerInv ==
  ASSUME IInv, Shutdown \/ (\E c \in Calls : Submit(c) \/ Put(c) \/ Cancel(c))
  PROVE  IInv'
<1>1. UNCHANGED <<at, doing, then, tries, session, process, base, loaded, env, busy, pipe, answer>>
  BY DEF Shutdown, Submit, Put, Cancel, thread, repl
<1>2. TypeOK'
  <2>1. ThreadTypes' /\ ReplTypes'
    BY <1>1 DEF IInv, TypeOK, ThreadTypes, ReplTypes
  <2>2. CASE Shutdown
    BY <2>1, <2>2 DEF IInv, TypeOK, CallTypes, Shutdown
  <2>3. ASSUME NEW c \in Calls, Submit(c) PROVE TypeOK'
    BY <2>1, <2>3 DEF IInv, TypeOK, CallTypes, Submit, Settled
  <2>4. ASSUME NEW c \in Calls, Put(c) PROVE TypeOK'
    BY <2>1, <2>4 DEF IInv, TypeOK, CallTypes, Put
  <2>5. ASSUME NEW c \in Calls, Cancel(c) PROVE TypeOK'
    BY <2>1, <2>5 DEF IInv, TypeOK, CallTypes, Cancel, Settled
  <2> QED BY <2>2, <2>3, <2>4, <2>5
<1>3. AnswersOwn'
  BY <1>1 DEF IInv, AnswersOwn
<1>4. \A w \in Workers : Worker(w)'
  BY <1>1 DEF IInv, Worker
<1> QED BY <1>2, <1>3, <1>4 DEF IInv

\* Neither do the processes, but for what is in the pipe.
LEMMA ProcessInv ==
  ASSUME IInv, NEW w \in Workers, Die(w) \/ Respond(w)
  PROVE  IInv'
<1>1. TypeOK'
  <2>1. CASE Die(w)
    BY <2>1 DEF Die, IInv, TypeOK, CallTypes, ThreadTypes, ReplTypes, pool, thread
  <2>2. CASE Respond(w)
    BY <2>2 DEF Respond, IInv, TypeOK, CallTypes, ThreadTypes, ReplTypes, pool, thread
  <2> QED BY <2>1, <2>2
<1>2. AnswersOwn'
  BY DEF IInv, AnswersOwn, Die, Respond, pool
<1>3. Worker(w)'
  <2>1. CASE Die(w)
    BY <2>1 DEF Die, IInv, TypeOK, CallTypes, ThreadTypes, ReplTypes, Worker, pool, thread
  <2>2. CASE Respond(w)
    <3>1. at[w] = "wait" /\ busy[w] = doing[w] /\ pipe[w] = <<>> /\ doing[w] \in Calls
      BY <2>2, NoCallAssumption DEF Respond, IInv, Worker, None
    <3>2. pipe'[w] = <<doing[w]>> /\ busy'[w] = None
      BY <2>2, <3>1 DEF Respond, IInv, TypeOK, CallTypes, ThreadTypes, ReplTypes
    <3> QED BY <2>2, <3>1, <3>2 DEF Respond, IInv, TypeOK, CallTypes, ThreadTypes, ReplTypes, Worker, pool, thread
  <2> QED BY <2>1, <2>2
<1> QED BY <1>1, <1>2, <1>3, Others DEF IInv, Die, Respond, pool, thread, TypeOK, CallTypes, ThreadTypes, ReplTypes

\* A step of a worker keeps the types, one action after the other.
LEMMA WorkerType ==
  ASSUME IInv, NEW w \in Workers, WorkerStep(w)
  PROVE  TypeOK'
<1>a. CallTypes /\ ThreadTypes /\ ReplTypes
  BY DEF IInv, TypeOK
<1>b. doing[w] \in Calls \cup {None}
  BY <1>a DEF ThreadTypes
<1>c. 0 \in 0..MaxRetries
  BY PoolAssumption
<1>1. CASE Take(w)
  <2>1. Head(queue) \in Calls /\ Tail(queue) \in Seq(Calls)
    BY <1>1, <1>a DEF Take, CallTypes
  <2>2. CallTypes'
    BY <1>1, <1>a, <2>1 DEF Take, CallTypes
  <2>3. CASE future[Head(queue)] = "cancelled"
    BY <1>1, <1>a, <2>2, <2>3 DEF Take, TypeOK, ThreadTypes, ReplTypes, repl
  <2>4. CASE future[Head(queue)] # "cancelled" /\ session[w]
    <3>1. ThreadTypes'
      BY <1>1, <1>a, <1>c, <2>1, <2>4 DEF Take, BeginRun, Goto, ThreadTypes, Places
    <3> QED BY <1>1, <1>a, <2>2, <2>4, <3>1 DEF Take, BeginRun, TypeOK, ReplTypes, repl
  <2>5. CASE future[Head(queue)] # "cancelled" /\ ~session[w]
    <3>1. ThreadTypes'
      BY <1>1, <1>a, <2>1, <2>5 DEF Take, StartFor, Goto, ThreadTypes, Places
    <3>2. ReplTypes'
      BY <1>1, <1>a, <2>1, <2>5, LaunchType DEF Take, StartFor, ReplTypes
    <3> QED BY <2>2, <3>1, <3>2 DEF TypeOK
  <2> QED BY <2>3, <2>4, <2>5
<1>2. CASE FindEmpty(w)
  BY <1>2, <1>a DEF FindEmpty, TypeOK, CallTypes, ThreadTypes, ReplTypes, pool, repl, Goto, Places
<1>3. CASE End(w)
  <2>1. CallTypes' /\ ThreadTypes'
    BY <1>3, <1>a DEF End, CallTypes, ThreadTypes, pool, Goto, Places
  <2>2. ReplTypes'
    BY <1>3, <1>a, CloseType DEF End, ReplTypes, repl
  <2> QED BY <2>1, <2>2 DEF TypeOK
<1>4. CASE Started(w)
  <2>1. ReplTypes'
    BY <1>4, <1>a DEF Started, ReplTypes
  <2>2. CASE then[w] = "run"
    BY <1>4, <1>a, <1>c, <2>1, <2>2 DEF Started, TypeOK, CallTypes, ThreadTypes, Goto, Places
  <2>3. CASE then[w] = "send"
    BY <1>4, <1>a, <2>1, <2>3 DEF Started, TypeOK, CallTypes, ThreadTypes, Goto, Places
  <2>4. CASE then[w] = "retry" /\ MoreTries(w)
    <3>1. tries[w] + 1 \in 0..MaxRetries
      BY <1>a, <2>4, PoolAssumption DEF MoreTries, ThreadTypes
    <3> QED BY <1>4, <1>a, <2>1, <2>4, <3>1 DEF Started, TypeOK, CallTypes, ThreadTypes, Goto, Places
  <2>5. CASE then[w] \notin {"run", "send"} /\ ~(then[w] = "retry" /\ MoreTries(w))
    BY <1>4, <1>a, <2>1, <2>5 DEF Started, TypeOK, CallTypes, ThreadTypes, Goto, Places
  <2> QED BY <2>2, <2>3, <2>4, <2>5
<1>5. CASE StartFails(w)
  <2>1. CallTypes' /\ ThreadTypes'
    BY <1>5, <1>a DEF StartFails, CallTypes, ThreadTypes, pool, Goto, Places
  <2>2. ReplTypes'
    BY <1>5, <1>a, CloseType DEF StartFails, ReplTypes
  <2> QED BY <2>1, <2>2 DEF TypeOK
<1>6. CASE RefuseImports(w)
  BY <1>6, <1>a DEF RefuseImports, TypeOK, CallTypes, ThreadTypes, ReplTypes, repl, Goto, Places
<1>7. CASE CheckMemory(w)
  <2>1. CallTypes' /\ ThreadTypes'
    BY <1>7, <1>a DEF CheckMemory, CallTypes, ThreadTypes, pool, StartFor, Goto, Places
  <2>2. ReplTypes'
    BY <1>7, <1>a, LaunchType DEF CheckMemory, StartFor, ReplTypes, repl
  <2> QED BY <2>1, <2>2 DEF TypeOK
<1>8. CASE Send(w)
  <2>1. CallTypes' /\ ThreadTypes'
    BY <1>8, <1>a DEF Send, CallTypes, ThreadTypes, pool, StartFor, Goto, Places
  <2>2. ReplTypes'
    BY <1>8, <1>a, <1>b, LaunchType DEF Send, StartFor, ReplTypes
  <2> QED BY <2>1, <2>2 DEF TypeOK
<1>9. CASE BreakPipe(w)
  BY <1>9, <1>a DEF BreakPipe, TypeOK, CallTypes, ThreadTypes, ReplTypes, pool, Goto, Places
<1>10. CASE Read(w)
  <2>1. Head(pipe[w]) \in Calls /\ Tail(pipe[w]) \in Seq(Calls)
    BY <1>10, <1>a DEF Read, ReplTypes
  <2> QED BY <1>10, <1>a, <2>1 DEF Read, TypeOK, CallTypes, ThreadTypes, ReplTypes, Goto, Places
<1>11. CASE RunFails(w)
  <2>1. CallTypes' /\ ThreadTypes'
    BY <1>11, <1>a DEF RunFails, CallTypes, ThreadTypes, pool, StartFor, Goto, Places
  <2>2. ReplTypes'
    BY <1>11, <1>a, LaunchType DEF RunFails, StartFor, ReplTypes
  <2> QED BY <2>1, <2>2 DEF TypeOK
<1>12. CASE Return(w)
  BY <1>12, <1>a DEF Return, Settle, TypeOK, CallTypes, ThreadTypes, ReplTypes, repl, Goto, Places, Settled
<1>13. CASE Raise(w)
  <2>1. CallTypes' /\ ThreadTypes'
    BY <1>13, <1>a DEF Raise, Settle, CallTypes, ThreadTypes, Goto, Places, Settled
  <2>2. ReplTypes'
    BY <1>13, <1>a, CloseType DEF Raise, ReplTypes, repl
  <2> QED BY <2>1, <2>2 DEF TypeOK
<1> QED BY <1>1, <1>2, <1>3, <1>4, <1>5, <1>6, <1>7, <1>8, <1>9, <1>10, <1>11, <1>12, <1>13 DEF WorkerStep

\* Only what a worker reads from its own pipe becomes an answer.
LEMMA WorkerAnswers ==
  ASSUME IInv, NEW w \in Workers, WorkerStep(w)
  PROVE  AnswersOwn'
<1>1. CASE Read(w)
  <2>1. Head(pipe[w]) = doing[w]
    BY <1>1 DEF Read, IInv, Worker
  <2> QED BY <1>1, <2>1 DEF Read, IInv, AnswersOwn, TypeOK, CallTypes, ThreadTypes, ReplTypes
<1>2. CASE Started(w)
  BY <1>2 DEF Started, IInv, AnswersOwn, TypeOK, CallTypes, ThreadTypes, ReplTypes
<1>3. CASE RefuseImports(w)
  BY <1>3 DEF RefuseImports, IInv, AnswersOwn, TypeOK, CallTypes, ThreadTypes, ReplTypes
<1>4. CASE UNCHANGED answer
  BY <1>4 DEF IInv, AnswersOwn
<1> QED BY <1>1, <1>2, <1>3, <1>4
        DEF WorkerStep, Take, FindEmpty, End, StartFails, CheckMemory, Send, BreakPipe, RunFails,
            Return, Raise, pool

\* A worker's step keeps what is between it and its process.
LEMMA WorkerOwn ==
  ASSUME IInv, NEW w \in Workers, WorkerStep(w)
  PROVE  Worker(w)'
<1> USE NoCallAssumption DEF IInv, TypeOK, CallTypes, ThreadTypes, ReplTypes, Worker, pool, thread, repl,
   Goto, Close, Launch, StartFor, None
<1>1. CASE Take(w)
  <2>1. Head(queue) \in Calls
    BY <1>1 DEF Take
  <2> QED BY <1>1, <2>1 DEF Take, BeginRun
<1>2. CASE FindEmpty(w)
  BY <1>2 DEF FindEmpty
<1>3. CASE End(w)
  <2>1. CASE shutdown
    BY <1>3, <2>1 DEF End
  <2>2. CASE ~shutdown
    BY <1>3, <2>2 DEF End
  <2> QED BY <2>1, <2>2
<1>4. CASE Started(w)
  <2>1. CASE then[w] = "run"
    BY <1>4, <2>1 DEF Started
  <2>2. CASE then[w] = "send"
    BY <1>4, <2>2 DEF Started
  <2>3. CASE then[w] = "retry" /\ MoreTries(w)
    BY <1>4, <2>3 DEF Started
  <2>4. CASE then[w] \notin {"run", "send"} /\ ~(then[w] = "retry" /\ MoreTries(w))
    BY <1>4, <2>4 DEF Started
  <2> QED BY <2>1, <2>2, <2>3, <2>4
<1>5. CASE StartFails(w)
  BY <1>5 DEF StartFails
<1>6. CASE RefuseImports(w)
  BY <1>6 DEF RefuseImports
<1>7. CASE CheckMemory(w)
  BY <1>7 DEF CheckMemory
<1>8. CASE Send(w)
  BY <1>8 DEF Send
<1>9. CASE BreakPipe(w)
  BY <1>9 DEF BreakPipe
<1>10. CASE Read(w)
  <2>1. pipe[w] = <<doing[w]>> /\ busy[w] = None
    BY <1>10 DEF Read
  <2>2. pipe'[w] = <<>>
    BY <1>10, <2>1 DEF Read
  <2> QED BY <1>10, <2>1, <2>2 DEF Read
<1>11. CASE RunFails(w)
  BY <1>11 DEF RunFails
<1>12. CASE Return(w)
  BY <1>12 DEF Return, Settle
<1>13. CASE Raise(w)
  BY <1>13 DEF Raise, Settle
<1> QED BY <1>1, <1>2, <1>3, <1>4, <1>5, <1>6, <1>7, <1>8, <1>9, <1>10, <1>11, <1>12, <1>13 DEF WorkerStep

\* And leaves the other workers alone.
LEMMA WorkerFrame ==
  ASSUME IInv, NEW w \in Workers, WorkerStep(w), NEW v \in Workers \ {w}
  PROVE  /\ at'[v] = at[v] /\ doing'[v] = doing[v] /\ then'[v] = then[v] /\ session'[v] = session[v]
         /\ process'[v] = process[v] /\ base'[v] = base[v] /\ loaded'[v] = loaded[v]
         /\ env'[v] = env[v] /\ busy'[v] = busy[v] /\ pipe'[v] = pipe[v]
<1> USE DEF IInv, TypeOK, CallTypes, ThreadTypes, ReplTypes, pool, thread, repl, Goto, Close, Launch, StartFor
<1>1. CASE Take(w)
  BY <1>1 DEF Take, BeginRun
<1>2. CASE Started(w)
  BY <1>2 DEF Started
<1>3. CASE FindEmpty(w) \/ End(w) \/ StartFails(w) \/ RefuseImports(w)
  BY <1>3 DEF FindEmpty, End, StartFails, RefuseImports
<1>4. CASE CheckMemory(w) \/ Send(w) \/ BreakPipe(w)
  BY <1>4 DEF CheckMemory, Send, BreakPipe
<1>5. CASE Read(w) \/ RunFails(w)
  BY <1>5 DEF Read, RunFails
<1>6. CASE Return(w) \/ Raise(w)
  BY <1>6 DEF Return, Raise, Settle
<1> QED BY <1>1, <1>2, <1>3, <1>4, <1>5, <1>6 DEF WorkerStep

\* The invariant is inductive.
LEMMA NextInv == IInv /\ [Next]_vars => IInv'
<1> SUFFICES ASSUME IInv, [Next]_vars PROVE IInv'
  OBVIOUS
<1>1. CASE UNCHANGED vars
  BY <1>1 DEF vars, pool, thread, repl, IInv, TypeOK, CallTypes, ThreadTypes, ReplTypes, AnswersOwn, Worker
<1>2. CASE Shutdown \/ (\E c \in Calls : Submit(c) \/ Put(c) \/ Cancel(c))
  BY <1>2, CallerInv
<1>3. ASSUME NEW w \in Workers, Die(w) \/ Respond(w) PROVE IInv'
  BY <1>3, ProcessInv
<1>4. ASSUME NEW w \in Workers, WorkerStep(w) PROVE IInv'
  <2>1. TypeOK' /\ AnswersOwn' /\ Worker(w)'
    BY <1>4, WorkerType, WorkerAnswers, WorkerOwn
  <2>2. \A v \in Workers : Worker(v)'
    BY <1>4, <2>1, WorkerFrame, Others DEF IInv
  <2> QED BY <2>1, <2>2 DEF IInv
<1> QED BY <1>1, <1>2, <1>3, <1>4 DEF Next

\* The invariant holds in every reachable state.
THEOREM PoolInvariant == Spec => []IInv
<1> QED BY InitInv, NextInv, PTL DEF Spec

\* The variables keep their types, whatever processes and callers do.
THEOREM PoolTypeCorrect == Spec => []TypeOK
<1>1. IInv => TypeOK
  BY DEF IInv
<1> QED BY <1>1, PoolInvariant, PTL

\* No call ever gets the response to another one's command.
THEOREM AnswersAreOwn == Spec => []AnswersOwn
<1>1. IInv => AnswersOwn
  BY DEF IInv
<1> QED BY <1>1, PoolInvariant, PTL

\* Every command runs in the environment of the header, through any restarts.
THEOREM CommandsHaveImports == Spec => []OnBase
<1>1. IInv => OnBase
  BY DEF IInv, OnBase, Worker
<1> QED BY <1>1, PoolInvariant, PTL

\* No process is left behind.
THEOREM NoProcessLeft == Spec => []NoOrphan
<1>1. IInv => NoOrphan
  BY DEF IInv, NoOrphan, Worker
<1> QED BY <1>1, PoolInvariant, PTL

---------------------------------------------------------------------------
(* The session of a language server *)

\* Whoever starts a session has the lock and there is none yet, and whoever uses one
\* finds it kept until the end, when everybody is idle.
Keeping ==
  /\ \A c \in Callers : pc[c] = "init" <=> lock = c
  /\ lock # "free" => kept = 0 /\ spawned > 0
  /\ \A c \in Callers : pc[c] \notin {"idle", "lock", "init"} => kept # 0
  /\ closing # "no" => lock = "free" /\ \A c \in Callers : pc[c] = "idle"

\* A request that waits is known by its id: every id was given before, no other
\* request that waits has it, and what was asked and answered with it is of that request.
Awaiting == {c \in Callers : pc[c] \in {"init", "asking"}}

GivenIds ==
  /\ \A c \in Awaiting : mine[c].id < nextId
  /\ \A r \in asked : r.id < nextId
  /\ \A k \in 1..Len(inbox) : inbox[k].about = "answer" => inbox[k].id \in Nat /\ inbox[k].id < nextId
  /\ \A i \in DOMAIN answers : i < nextId
  /\ \A i \in notified : i < nextId
  /\ handling < nextId

KnownById ==
  /\ \A c, d \in Awaiting : mine[c].id = mine[d].id => c = d
  /\ \A c \in Awaiting :
       /\ \A r \in asked : r.id = mine[c].id => r.number = mine[c].number
       /\ \A k \in 1..Len(inbox) : inbox[k].about = "answer" /\ inbox[k].id = mine[c].id => inbox[k].number = mine[c].number
       /\ mine[c].id \in DOMAIN answers => answers[mine[c].id].number = mine[c].number
       /\ mine[c].id \in notified \/ handling = mine[c].id => mine[c].id \in DOMAIN answers

\* A Lean check that nothing disturbs is alone, and everything about texts, at the server and
\* on the way back, is about its own: first the diagnostics, and then that it was processed.
WaitsFor(number) == \E c \in Callers : pc[c] = "waiting" /\ mine[c].number = number
Diagnosed(k) == last = sent \/ \E j \in 1..k : inbox[j].about = "diagnostics"

OneCheck ==
  /\ \A c, d \in Checking : c = d
  /\ \A c \in Callers : pc[c] \in {"waiting", "read"} => mine[c].number = sent
  /\ \A c \in Callers : pc[c] = "cleared" => ~processed
  /\ \A c \in Callers : pc[c] = "read" \/ (pc[c] = "waiting" /\ processed) => last = sent
  /\ \A c \in Callers : got[c].of = got[c].number

OwnText ==
  /\ \A w \in work : w.number = sent /\ ~processed /\ WaitsFor(sent) /\ (w.told => Diagnosed(Len(inbox)))
  /\ \A v, w \in work : v = w
  /\ \A k \in 1..Len(inbox) : inbox[k].about # "answer" => inbox[k].number = sent /\ ~processed /\ WaitsFor(sent)
  /\ \A k \in 1..Len(inbox) : inbox[k].about = "done" =>
       work = {} /\ Diagnosed(k) /\ \A j \in (k + 1)..Len(inbox) : inbox[j].about = "answer"

Undisturbed == kind = "lean" /\ ~disturbed
Looking == kind = "lean" => \A c \in Callers : op[c] # "look" /\ pc[c] # "asleep"

LspInv ==
  /\ LspTypeOK /\ Keeping /\ GivenIds /\ KnownById /\ Looking /\ AnswerIsOwn
  /\ Undisturbed => OneCheck /\ OwnText

\* A step of one caller's leaves the other callers where they are.
CallerOf(c) ==
  /\ pc' = [pc EXCEPT ![c] = pc'[c]] /\ op' = [op EXCEPT ![c] = op'[c]]
  /\ stage' = [stage EXCEPT ![c] = stage'[c]]
  /\ mine' = [mine EXCEPT ![c] = mine'[c]] /\ got' = [got EXCEPT ![c] = got'[c]]
  /\ UNCHANGED <<kind, closing>>

CallerTypes(c) ==
  /\ pc[c] \in {"idle", "lock", "init", "ready", "cleared", "waiting", "read", "asleep", "asking"}
  /\ op[c] \in {"check", "file", "look", "ask"} /\ stage[c] \in {"warm", "check", "file"}
  /\ mine[c] \in Slots /\ got[c] \in Slots

SessionTypes ==
  /\ lock \in Callers \cup {"free"}
  /\ {kept, spawned, nextId, sent, requests, last} \subseteq Nat
  /\ {processed, warmed, disturbed} \subseteq BOOLEAN
  /\ asked \subseteq [id: Nat, number: Nat] /\ work \subseteq [number: Nat, told: BOOLEAN]
  /\ inbox \in Seq(Messages) /\ handling \in Nat \cup {NoId}
  /\ waiting \subseteq Nat /\ notified \subseteq Nat
  /\ \A i \in DOMAIN answers : i \in Nat /\ answers[i] \in [number: Nat, ok: BOOLEAN]

\* What a caller's step gives it has its type.
LEMMA CallerTyped ==
  ASSUME LspTypeOK, KnownById, NEW c \in Callers, BeginCall(c) \/ CallerStep(c)
  PROVE  CallerOf(c) /\ CallerTypes(c)'
<1>1. CASE BeginCall(c)
  BY <1>1 DEF BeginCall, At, Ops, LspTypeOK, CallerOf, CallerTypes, Nothing, Slots
<1>2. CASE GetSession(c) \/ Clear(c) \/ Processed(c)
  BY <1>2 DEF GetSession, Clear, Processed, At, LspTypeOK, CallerOf, CallerTypes
<1>3. CASE NoProcess(c) \/ SessionFails(c) \/ SendFails(c) \/ CheckTimesOut(c) \/ AskTimesOut(c)
  <2>1. EndCall(c, Nothing) /\ UNCHANGED <<kind, closing>>
    BY <1>3 DEF NoProcess, SessionFails, SendFails, CheckTimesOut, AskTimesOut
  <2> QED BY <2>1 DEF EndCall, At, LspTypeOK, CallerOf, CallerTypes, Nothing, Slots
<1>4. CASE SessionStarted(c)
  BY <1>4 DEF SessionStarted, At, LspTypeOK, CallerOf, CallerTypes, Nothing, Slots
<1>5. CASE Spawn(c) \/ Ask(c)
  <2>1. mine' = [mine EXCEPT ![c] = [number |-> requests + 1, id |-> nextId, of |-> 0]]
    BY <1>5 DEF Spawn, Ask, Request
  <2>2. pc' = [pc EXCEPT ![c] = IF pc[c] = "lock" THEN "init" ELSE "asking"] /\ UNCHANGED <<kind, closing, op, stage, got>>
    BY <1>5 DEF Spawn, Ask, At
  <2>3. requests + 1 \in Nat /\ nextId \in Nat
    BY DEF LspTypeOK
  <2>4. [number |-> requests + 1, id |-> nextId, of |-> 0] \in Slots
    BY <2>3 DEF Slots
  <2> QED BY <2>1, <2>2, <2>4 DEF LspTypeOK, CallerOf, CallerTypes, Slots
<1>6. CASE SendText(c)
  <2>1. mine' = [mine EXCEPT ![c] = [number |-> sent + 1, id |-> 0, of |-> 0]]
    <3>1. [Nothing EXCEPT !.number = sent + 1] = [number |-> sent + 1, id |-> 0, of |-> 0]
      BY DEF Nothing
    <3> QED BY <1>6, <3>1 DEF SendText
  <2>2. pc' = [pc EXCEPT ![c] = IF op[c] = "look" THEN "asleep" ELSE "waiting"] /\ UNCHANGED <<kind, closing, op, stage, got>>
    BY <1>6 DEF SendText, At
  <2>3. sent + 1 \in Nat
    BY DEF LspTypeOK
  <2>4. [number |-> sent + 1, id |-> 0, of |-> 0] \in Slots
    BY <2>3 DEF Slots
  <2> QED BY <2>1, <2>2, <2>4 DEF LspTypeOK, CallerOf, CallerTypes, Slots
<1>7. CASE ReadDiagnostics(c) \/ Answered(c)
  <2>1. PICK result : EndCall(c, result) /\ result \in Slots
    <3>1. CASE ReadDiagnostics(c)
      <4>1. [number |-> mine[c].number, id |-> 0, of |-> last] \in Slots
        BY DEF LspTypeOK, Slots
      <4> QED BY <3>1, <4>1 DEF ReadDiagnostics
    <3>2. CASE Answered(c)
      <4>1. Nothing \in Slots
        BY DEF Nothing, Slots
      <4>2. ASSUME mine[c].id \in DOMAIN answers
            PROVE  [mine[c] EXCEPT !.of = answers[mine[c].id].number] \in Slots
        <5>1. mine[c] \in Slots /\ answers[mine[c].id].number \in Nat
          BY <4>2 DEF LspTypeOK
        <5> QED BY <5>1 DEF Slots
      <4>3. pc[c] = "asking" /\ mine[c].id \in notified
        BY <3>2 DEF Answered, Taken
      <4>4. mine[c].id \in DOMAIN answers
        BY <4>3 DEF KnownById, Awaiting
      <4> QED BY <3>2, <4>1, <4>2, <4>4 DEF Answered
    <3> QED BY <1>7, <3>1, <3>2
  <2>2. UNCHANGED <<kind, closing>>
    BY <1>7 DEF ReadDiagnostics, Answered
  <2> QED BY <2>1, <2>2 DEF EndCall, At, LspTypeOK, CallerOf, CallerTypes, Nothing, Slots
<1> QED BY <1>1, <1>2, <1>3, <1>4, <1>5, <1>6, <1>7 DEF CallerStep

\* A caller's step keeps the types of the session.
LEMMA SessionTyped ==
  ASSUME LspTypeOK, NEW c \in Callers, BeginCall(c) \/ CallerStep(c)
  PROVE  SessionTypes'
<1> USE DEF LspTypeOK, SessionTypes
<1>1. CASE BeginCall(c) \/ GetSession(c) \/ NoProcess(c)
  BY <1>1 DEF BeginCall, GetSession, NoProcess, managerVars, endpointVars, leanVars, serverVars, readerVars, historyVars
<1>2. CASE Spawn(c)
  BY <1>2 DEF Spawn, Request, leanVars
<1>3. CASE SessionStarted(c)
  BY <1>3 DEF SessionStarted, Taken, leanVars, serverVars, readerVars, historyVars
<1>4. CASE SessionFails(c)
  <2>1. inbox' = <<>> /\ <<>> \in Seq(Messages)
    BY <1>4 DEF SessionFails
  <2>2. DOMAIN answers' = {}
    BY <1>4 DEF SessionFails
  <2> QED BY <1>4, <2>1, <2>2 DEF SessionFails, leanVars, historyVars
<1>5. CASE Clear(c) \/ Processed(c) \/ CheckTimesOut(c) \/ ReadDiagnostics(c) \/ AskTimesOut(c)
  BY <1>5 DEF Clear, Processed, CheckTimesOut, ReadDiagnostics, AskTimesOut,
     managerVars, endpointVars, leanVars, serverVars, readerVars, historyVars
<1>6. CASE SendText(c)
  <2>1. work' \subseteq [number: Nat, told: BOOLEAN] /\ sent' \in Nat
    <3>1. sent + 1 \in Nat
      OBVIOUS
    <3>2. [number |-> sent + 1, told |-> FALSE] \in [number: Nat, told: BOOLEAN]
      BY <3>1
    <3> QED BY <1>6, <3>1, <3>2 DEF SendText
  <2> QED BY <1>6, <2>1 DEF SendText, managerVars, endpointVars, leanVars, readerVars
<1>7. CASE SendFails(c)
  <2>1. \/ waiting' = waiting \cup {nextId} /\ nextId' = nextId + 1
        \/ waiting' = waiting /\ nextId' = nextId
    BY ONLY <1>7 DEF SendFails
  <2>2. nextId' \in Nat /\ waiting' \subseteq Nat
    <3>1. nextId \in Nat /\ waiting \subseteq Nat
      OBVIOUS
    <3>2. CASE waiting' = waiting \cup {nextId} /\ nextId' = nextId + 1
      BY ONLY <3>1, <3>2
    <3>3. CASE waiting' = waiting /\ nextId' = nextId
      BY ONLY <3>1, <3>3
    <3> QED BY ONLY <2>1, <3>2, <3>3
  <2> QED BY <1>7, <2>2 DEF SendFails, managerVars, leanVars, serverVars, readerVars, historyVars
<1>8. CASE Ask(c)
  <2>1. asked' \subseteq [id: Nat, number: Nat] /\ nextId' \in Nat /\ requests' \in Nat /\ waiting' \subseteq Nat
    <3>1. requests + 1 \in Nat /\ nextId + 1 \in Nat /\ nextId \in Nat
      OBVIOUS
    <3>2. [id |-> nextId, number |-> requests + 1] \in [id: Nat, number: Nat]
      BY <3>1
    <3> QED BY <1>8, <3>1, <3>2 DEF Ask, Request
  <2> QED BY <1>8, <2>1 DEF Ask, managerVars, leanVars, readerVars
<1>9. CASE Answered(c)
  BY <1>9 DEF Answered, Taken, managerVars, leanVars, serverVars, readerVars, historyVars
<1> QED BY <1>1, <1>2, <1>3, <1>4, <1>5, <1>6, <1>7, <1>8, <1>9 DEF CallerStep

\* The reader, the server and the end.
Elsewhere == Dispatch \/ Notify \/ ReaderEnds \/ ReaderFails \/ Server \/ CloseAll \/ Terminate

LEMMA ElsewhereTyped ==
  ASSUME LspTypeOK, GivenIds, Elsewhere
  PROVE  SessionTypes' /\ UNCHANGED <<kind, callerVars>> /\ closing' \in {"no", "stopping", "done"}
<1> USE DEF LspTypeOK, SessionTypes
<1>1. CASE Dispatch
  <2>1. inbox # <<>> /\ inbox \in Seq(Messages)
    BY <1>1 DEF Dispatch
  <2>2. Head(inbox) \in Messages /\ Tail(inbox) \in Seq(Messages)
    BY <2>1
  <2>3. CASE Head(inbox).about = "answer"
    <3>1. Head(inbox) = inbox[1] /\ 1 \in 1..Len(inbox)
      BY <2>1
    <3>2. Head(inbox).id \in Nat
      BY <2>3, <3>1 DEF GivenIds
    <3> QED BY <1>1, <2>2, <3>2, <2>3 DEF Dispatch, Messages, callerVars, managerVars, serverVars, historyVars
  <2>4. CASE Head(inbox).about # "answer"
    BY <1>1, <2>2, <2>4 DEF Dispatch, Messages, callerVars, managerVars, serverVars, historyVars
  <2> QED BY <2>3, <2>4
<1>2. CASE Notify
  BY <1>2 DEF Notify, NoId, callerVars, managerVars, leanVars, serverVars, historyVars
<1>3. CASE ReaderEnds \/ ReaderFails
  <2>1. <<>> \in Seq(Messages)
    OBVIOUS
  <2> QED BY <1>3, <2>1 DEF ReaderEnds, ReaderFails, callerVars, managerVars, endpointVars, leanVars, historyVars
<1>4. CASE ServerAnswers
  <2>1. PICK r \in asked, ok \in BOOLEAN :
          /\ asked' = asked \ {r}
          /\ inbox' = Append(inbox, [about |-> "answer", id |-> r.id, number |-> r.number, ok |-> ok])
    BY <1>4 DEF ServerAnswers
  <2>2. [about |-> "answer", id |-> r.id, number |-> r.number, ok |-> ok] \in Messages
    BY DEF Messages
  <2>3. inbox' \in Seq(Messages)
    BY <2>1, <2>2
  <2> QED BY <1>4, <2>1, <2>3 DEF ServerAnswers, ServerUnchanged, callerVars, managerVars, endpointVars,
     leanVars, readerVars, historyVars
<1>5. CASE ServerDiagnoses
  <2>1. PICK w \in work :
          /\ work' = IF w.told \/ kind = "generic" THEN work \ {w} ELSE (work \ {w}) \cup {[w EXCEPT !.told = TRUE]}
          /\ inbox' = Append(inbox, [about |-> IF w.told THEN "done" ELSE "diagnostics", number |-> w.number, id |-> NoId, ok |-> TRUE])
    BY <1>5 DEF ServerDiagnoses
  <2>2. [about |-> IF w.told THEN "done" ELSE "diagnostics", number |-> w.number, id |-> NoId, ok |-> TRUE] \in Messages
    BY DEF Messages, NoId
  <2>3. inbox' \in Seq(Messages)
    BY <2>1, <2>2
  <2>4. work' \subseteq [number: Nat, told: BOOLEAN]
    BY <2>1
  <2> QED BY <1>5, <2>3, <2>4 DEF ServerDiagnoses, ServerUnchanged, callerVars, managerVars, endpointVars,
     leanVars, readerVars, historyVars
<1>6. CASE ServerGivesUp \/ ServerDies
  BY <1>6 DEF ServerGivesUp, ServerDies, ServerUnchanged, callerVars, managerVars, endpointVars, leanVars,
     readerVars, historyVars
<1>7. CASE CloseAll
  BY <1>7 DEF CloseAll, callerVars, managerVars, endpointVars, leanVars, serverVars, readerVars, historyVars
<1>8. CASE Terminate
  BY <1>8 DEF Terminate, callerVars, endpointVars, leanVars, readerVars, historyVars
<1> QED BY <1>1, <1>2, <1>3, <1>4, <1>5, <1>6, <1>7, <1>8 DEF Elsewhere, Server

\* The other callers stay where they are.
LEMMA OthersStay ==
  ASSUME LspTypeOK, NEW c \in Callers, CallerOf(c), NEW d \in Callers, d # c
  PROVE  pc'[d] = pc[d] /\ op'[d] = op[d] /\ mine'[d] = mine[d] /\ got'[d] = got[d]
BY DEF CallerOf, LspTypeOK

\* Where a step takes a caller.
LEMMA Goes ==
  ASSUME LspTypeOK, NEW c \in Callers, BeginCall(c) \/ CallerStep(c)
  PROVE  /\ BeginCall(c) => pc[c] = "idle" /\ pc'[c] = "lock" /\ closing = "no"
         /\ GetSession(c) => pc[c] = "lock" /\ pc'[c] = "ready" /\ kept # 0
         /\ Spawn(c) => pc[c] = "lock" /\ pc'[c] = "init"
         /\ NoProcess(c) => pc[c] = "lock" /\ pc'[c] = "idle"
         /\ SessionStarted(c) => pc[c] = "init" /\ pc'[c] = "ready"
         /\ SessionFails(c) => pc[c] = "init" /\ pc'[c] = "idle"
         /\ Clear(c) => pc[c] = "ready" /\ pc'[c] = "cleared"
         /\ SendText(c) => pc[c] \in {"ready", "cleared"} /\ pc'[c] \in {"waiting", "asleep"}
         /\ SendFails(c) => pc[c] \in {"ready", "cleared"} /\ pc'[c] = "idle"
         /\ Processed(c) => pc[c] = "waiting" /\ pc'[c] \in {"ready", "read"}
         /\ CheckTimesOut(c) => pc[c] = "waiting" /\ pc'[c] = "idle"
         /\ ReadDiagnostics(c) => pc[c] \in {"read", "asleep"} /\ pc'[c] = "idle"
         /\ Ask(c) => pc[c] = "ready" /\ pc'[c] = "asking"
         /\ Answered(c) \/ AskTimesOut(c) => pc[c] = "asking" /\ pc'[c] = "idle"
BY DEF BeginCall, GetSession, Spawn, NoProcess, SessionStarted, SessionFails, Clear, SendText, SendFails,
   Processed, CheckTimesOut, ReadDiagnostics, Ask, Answered, AskTimesOut, EndCall, At, LspTypeOK

\* A caller's step: the lock and the session.
LEMMA CallerKeeps ==
  ASSUME LspTypeOK, Keeping, NEW c \in Callers, BeginCall(c) \/ CallerStep(c), CallerOf(c)
  PROVE  Keeping'
<1>1. \A d \in Callers \ {c} : pc'[d] = pc[d]
  BY OthersStay
<1>2. closing' = closing /\ closing = "no"
  BY Goes DEF CallerOf, Keeping, CallerStep
<1>3. "free" \notin Callers
  BY LspAssumption
<1>4. CASE Spawn(c)
  BY <1>1, <1>2, <1>3, <1>4, Goes DEF Spawn, Keeping, LspTypeOK
<1>5. CASE SessionStarted(c)
  <2>1. pc[c] = "init" /\ pc'[c] = "ready" /\ lock' = "free" /\ kept' = spawned
    BY <1>5, Goes DEF SessionStarted
  <2>2. lock = c /\ kept = 0 /\ spawned > 0
    BY <1>3, <2>1 DEF Keeping
  <2>3. \A d \in Callers \ {c} : pc'[d] \in {"idle", "lock"}
    BY <1>1, <2>2 DEF Keeping
  <2>4. kept' # 0
    BY <2>1, <2>2
  <2> QED BY <1>2, <1>3, <2>1, <2>3, <2>4 DEF Keeping
<1>6. CASE SessionFails(c)
  BY <1>1, <1>2, <1>3, <1>6, Goes DEF SessionFails, Keeping, LspTypeOK
<1>7. CASE ~ (Spawn(c) \/ SessionStarted(c) \/ SessionFails(c))
  <2>1. UNCHANGED <<lock, kept, spawned>>
    BY <1>7 DEF CallerStep, BeginCall, GetSession, NoProcess, Clear, SendText, SendFails, Processed,
       CheckTimesOut, ReadDiagnostics, Ask, Answered, AskTimesOut, managerVars
  <2>2. pc[c] # "init" /\ pc'[c] # "init" /\ (pc'[c] \notin {"idle", "lock", "init"} => kept # 0)
    BY <1>7, Goes DEF CallerStep, Keeping
  <2> QED BY <1>1, <1>2, <2>1, <2>2 DEF Keeping
<1> QED BY <1>4, <1>5, <1>6, <1>7

\* A request: its id is new.
LEMMA RequestKnown ==
  ASSUME LspTypeOK, LspTypeOK', GivenIds, KnownById, NEW c \in Callers, CallerOf(c), Spawn(c) \/ Ask(c)
  PROVE  GivenIds' /\ KnownById'
<1>1. \A d \in Callers \ {c} : pc'[d] = pc[d] /\ mine'[d] = mine[d]
  BY OthersStay
<1>2. mine'[c].id = nextId /\ mine'[c].number = requests + 1 /\ nextId' = nextId + 1
  BY DEF Spawn, Ask, Request, LspTypeOK
<1>3. \A r \in asked' : r \in asked \/ r = [id |-> nextId, number |-> requests + 1]
  BY DEF Spawn, Ask
<1>4. UNCHANGED <<answers, notified, inbox, handling>>
  BY DEF Spawn, Ask, readerVars
<1>5. \A d \in Awaiting' : d = c \/ (d \in Awaiting /\ d # c)
  BY <1>1 DEF Awaiting
<1>6. nextId \in Nat /\ handling \in Int /\ (\A r \in asked : r.id \in Nat) /\ \A d \in Awaiting : d \in Callers /\ mine[d].id \in Nat
  <2>1. nextId \in Nat /\ handling \in Int
    BY DEF LspTypeOK, NoId
  <2>2. \A d \in Awaiting : d \in Callers /\ mine[d].id \in Nat
    BY DEF LspTypeOK, Slots, Awaiting
  <2>3. \A r \in asked : r.id \in Nat
    BY DEF LspTypeOK
  <2> QED BY <2>1, <2>2, <2>3
<1>7. GivenIds'
  <2>1. \A d \in Awaiting' : mine'[d].id < nextId'
    BY <1>1, <1>2, <1>5, <1>6 DEF GivenIds
  <2>2. \A r \in asked' : r.id < nextId'
    BY <1>2, <1>3, <1>6 DEF GivenIds
  <2>3. handling' < nextId'
    BY <1>2, <1>4, <1>6 DEF GivenIds
  <2>4. \A i \in DOMAIN answers' \cup notified' : i < nextId'
    <3>1. \A i \in DOMAIN answers \cup notified : i \in Nat /\ i < nextId
      BY DEF GivenIds, LspTypeOK
    <3> QED BY <1>2, <1>4, <1>6, <3>1
  <2>5. \A k \in 1..Len(inbox') : inbox'[k].about = "answer" => inbox'[k].id \in Nat /\ inbox'[k].id < nextId'
    BY <1>2, <1>4, <1>6 DEF GivenIds
  <2> QED BY <2>1, <2>2, <2>3, <2>4, <2>5 DEF GivenIds
<1>8. \A d, e \in Awaiting' : mine'[d].id = mine'[e].id => d = e
  BY <1>1, <1>2, <1>5, <1>6 DEF GivenIds, KnownById
<1>9. ASSUME NEW d \in Awaiting'
      PROVE  /\ \A r \in asked' : r.id = mine'[d].id => r.number = mine'[d].number
             /\ \A k \in 1..Len(inbox') : inbox'[k].about = "answer" /\ inbox'[k].id = mine'[d].id => inbox'[k].number = mine'[d].number
             /\ mine'[d].id \in DOMAIN answers' => answers'[mine'[d].id].number = mine'[d].number
             /\ mine'[d].id \in notified' \/ handling' = mine'[d].id => mine'[d].id \in DOMAIN answers'
  <2>1. CASE d = c
    <3>1. \A r \in asked' : r.id = nextId => r.number = requests + 1
      BY <1>3, <1>6 DEF GivenIds
    <3>2. \A k \in 1..Len(inbox) : inbox[k].about = "answer" => inbox[k].id # nextId
      BY <1>6 DEF GivenIds
    <3>3. nextId \notin DOMAIN answers /\ nextId \notin notified /\ handling # nextId
      BY <1>6 DEF GivenIds
    <3> QED BY <1>2, <1>4, <2>1, <3>1, <3>2, <3>3
  <2>2. CASE d # c
    <3>1. d \in Awaiting /\ mine'[d] = mine[d] /\ mine[d].id # nextId
      BY <1>1, <1>5, <1>6, <2>2 DEF GivenIds, Awaiting
    <3> QED BY <1>3, <1>4, <3>1 DEF KnownById
  <2> QED BY <2>1, <2>2
<1> QED BY <1>7, <1>8, <1>9 DEF KnownById

\* A request that is over: what is left of the others is as it was.
LEMMA OverKnown ==
  ASSUME LspTypeOK, LspTypeOK', GivenIds, KnownById, NEW c \in Callers, CallerOf(c),
         pc'[c] \notin {"init", "asking"}, nextId' \in {nextId, nextId + 1},
         UNCHANGED <<asked, inbox, handling>>, notified' \subseteq notified,
         \A i \in DOMAIN answers' : i \in DOMAIN answers /\ answers'[i] = answers[i],
         \A i \in DOMAIN answers \ DOMAIN answers' : i \notin notified' /\ c \in Awaiting /\ i = mine[c].id
  PROVE  GivenIds' /\ KnownById'
<1>1. \A d \in Awaiting' : d \in Awaiting /\ d # c /\ mine'[d] = mine[d]
  BY OthersStay DEF Awaiting
<1>2. nextId \in Nat /\ nextId' >= nextId /\ handling \in Int
  BY DEF LspTypeOK, NoId
<1>3. GivenIds'
  <2>1. \A d \in Awaiting : mine[d].id \in Nat
    BY DEF Awaiting, LspTypeOK, Slots
  <2>2. \A d \in Awaiting' : mine'[d].id < nextId'
    BY <1>1, <1>2, <2>1 DEF GivenIds
  <2>3. \A r \in asked' : r.id < nextId'
    BY <1>2 DEF GivenIds, LspTypeOK
  <2>4. \A k \in 1..Len(inbox') : inbox'[k].about = "answer" => inbox'[k].id \in Nat /\ inbox'[k].id < nextId'
    BY <1>2 DEF GivenIds
  <2>5. \A i \in DOMAIN answers' \cup notified' : i < nextId'
    <3>1. \A i \in DOMAIN answers \cup notified : i \in Nat /\ i < nextId
      BY DEF GivenIds, LspTypeOK
    <3>2. \A i \in Nat : i < nextId => i < nextId'
      BY <1>2 DEF LspTypeOK
    <3> QED BY <3>1, <3>2
  <2>6. handling' < nextId'
    BY <1>2 DEF GivenIds
  <2> QED BY <2>2, <2>3, <2>4, <2>5, <2>6 DEF GivenIds
<1>4. \A d \in Awaiting' : mine[d].id \in DOMAIN answers => mine[d].id \in DOMAIN answers'
  BY <1>1 DEF KnownById
<1> QED BY <1>1, <1>3, <1>4 DEF KnownById

\* A caller's step: what the requests are known by.
LEMMA CallerKnown ==
  ASSUME LspTypeOK, LspTypeOK', Keeping, GivenIds, KnownById, NEW c \in Callers, BeginCall(c) \/ CallerStep(c), CallerOf(c)
  PROVE  GivenIds' /\ KnownById'
<1>1. CASE Spawn(c) \/ Ask(c)
  BY <1>1, RequestKnown
<1>2. CASE SessionFails(c)
  <2>1. Awaiting' = {}
    <3> SUFFICES ASSUME NEW d \in Awaiting' PROVE FALSE
      OBVIOUS
    <3>1. d # c /\ d \in Awaiting
      BY <1>2, Goes, OthersStay DEF Awaiting
    <3>2. lock = c /\ lock # "free"
      BY <1>2, LspAssumption DEF SessionFails, Keeping
    <3> QED BY <3>1, <3>2 DEF Keeping, Awaiting
  <2>2. asked' = {} /\ notified' = {} /\ handling' = -1 /\ nextId' = 0
    BY <1>2 DEF SessionFails, NoId
  <2>3. inbox' = <<>> /\ answers' = <<>>
    BY <1>2 DEF SessionFails
  <2>4. Len(inbox') = 0 /\ DOMAIN answers' = {}
    BY <2>3
  <2> QED BY <2>1, <2>2, <2>4 DEF GivenIds, KnownById
<1>3. CASE SessionStarted(c) \/ Answered(c)
  <2>1. Taken(c) /\ UNCHANGED <<asked, inbox, handling>> /\ c \in Awaiting
    BY <1>3 DEF SessionStarted, Answered, serverVars, readerVars, Awaiting
  <2>2. pc'[c] \notin {"init", "asking"}
    BY <1>3, Goes DEF CallerStep
  <2> QED BY <2>1, <2>2, OverKnown DEF Taken
<1>4. CASE ~ (Spawn(c) \/ Ask(c) \/ SessionFails(c) \/ SessionStarted(c) \/ Answered(c))
  <2>1. UNCHANGED <<asked, inbox, handling, answers, notified>> /\ nextId' \in {nextId, nextId + 1}
    BY <1>4 DEF CallerStep, BeginCall, GetSession, NoProcess, Clear, SendText, SendFails, Processed,
       CheckTimesOut, ReadDiagnostics, AskTimesOut, endpointVars, serverVars, readerVars
  <2>2. pc'[c] \notin {"init", "asking"}
    BY <1>4, Goes DEF CallerStep
  <2> QED BY <2>1, <2>2, OverKnown
<1> QED BY <1>1, <1>2, <1>3, <1>4

\* A caller's step: what it gives a request is the answer of that request.
LEMMA CallerAnswered ==
  ASSUME LspTypeOK, KnownById, AnswerIsOwn, NEW c \in Callers, BeginCall(c) \/ CallerStep(c), CallerOf(c)
  PROVE  AnswerIsOwn' /\ (got'[c] = got[c] \/ got'[c].of = got'[c].number \/ pc[c] \in {"read", "asleep"})
<1>1. CASE BeginCall(c) \/ NoProcess(c) \/ SessionFails(c) \/ SendFails(c) \/ CheckTimesOut(c) \/ AskTimesOut(c)
  <2>1. got'[c] = Nothing
    BY <1>1 DEF BeginCall, NoProcess, SessionFails, SendFails, CheckTimesOut, AskTimesOut, EndCall, LspTypeOK
  <2> QED BY <2>1, OthersStay DEF AnswerIsOwn, Nothing
<1>2. CASE GetSession(c) \/ Spawn(c) \/ SessionStarted(c) \/ Clear(c) \/ SendText(c) \/ Processed(c) \/ Ask(c)
  <2>1. got' = got
    BY <1>2 DEF GetSession, Spawn, SessionStarted, Clear, SendText, Processed, Ask
  <2> QED BY <2>1 DEF AnswerIsOwn
<1>3. CASE ReadDiagnostics(c)
  <2>1. got'[c].id = 0 /\ pc[c] \in {"read", "asleep"}
    BY <1>3 DEF ReadDiagnostics, EndCall, LspTypeOK
  <2> QED BY <2>1, OthersStay DEF AnswerIsOwn
<1>4. CASE Answered(c)
  <2>1. c \in Awaiting /\ mine[c].id \in notified
    BY <1>4 DEF Answered, Taken, Awaiting
  <2>2. answers[mine[c].id].number = mine[c].number
    BY <2>1 DEF KnownById
  <2>3. got'[c] = Nothing \/ got'[c] = [mine[c] EXCEPT !.of = mine[c].number]
    BY <1>4, <2>2 DEF Answered, EndCall, LspTypeOK
  <2>4. mine[c] \in Slots
    BY DEF LspTypeOK
  <2>5. got'[c].of = got'[c].number
    BY <2>3, <2>4 DEF Nothing, Slots
  <2> QED BY <2>5, OthersStay DEF AnswerIsOwn
<1> QED BY <1>1, <1>2, <1>3, <1>4 DEF CallerStep

\* The reader, the server and the end: the lock, the session and what was returned.
LEMMA ElsewhereKeeps ==
  ASSUME LspTypeOK, Keeping, AnswerIsOwn, Elsewhere, UNCHANGED callerVars
  PROVE  Keeping' /\ AnswerIsOwn'
<1>1. pc' = pc /\ got' = got
  BY DEF callerVars
<1>5. AnswerIsOwn'
  BY <1>1 DEF AnswerIsOwn
<1>2. CASE CloseAll
  BY <1>1, <1>2, <1>5 DEF CloseAll, Keeping, managerVars
<1>3. CASE Terminate
  BY <1>1, <1>3, <1>5 DEF Terminate, Keeping
<1>4. CASE ~ CloseAll /\ ~ Terminate
  <2>1. UNCHANGED <<lock, kept, spawned, closing>>
    BY <1>4 DEF Elsewhere, Dispatch, Notify, ReaderEnds, ReaderFails, Server, ServerAnswers, ServerDiagnoses,
       ServerGivesUp, ServerDies, ServerUnchanged, managerVars
  <2> QED BY <1>1, <1>5, <2>1 DEF Keeping
<1> QED BY <1>2, <1>3, <1>4

\* A message on the way back, or none.
LEMMA InboxAppend ==
  ASSUME LspTypeOK, NEW m \in Messages, inbox' = Append(inbox, m)
  PROVE  /\ Len(inbox) \in Nat /\ Len(inbox') = Len(inbox) + 1 /\ inbox'[Len(inbox) + 1] = m
         /\ \A k \in 1..Len(inbox) : inbox'[k] = inbox[k]
         /\ \A k \in 1..Len(inbox') : k \in 1..Len(inbox) \/ k = Len(inbox) + 1
<1>1. inbox \in Seq(Messages)
  BY DEF LspTypeOK
<1> QED BY <1>1

LEMMA InboxTail ==
  ASSUME LspTypeOK, inbox # <<>>, inbox' = Tail(inbox)
  PROVE  /\ Len(inbox) \in Nat \ {0} /\ Len(inbox') = Len(inbox) - 1
         /\ \A k \in 1..Len(inbox') : k + 1 \in 1..Len(inbox) /\ inbox'[k] = inbox[k + 1]
         /\ Head(inbox) = inbox[1] /\ inbox[1] \in Messages
<1>1. inbox \in Seq(Messages)
  BY DEF LspTypeOK
<1> QED BY <1>1

\* The ids of what comes back.
LEMMA ElsewhereKnown ==
  ASSUME LspTypeOK, LspTypeOK', GivenIds, KnownById, Elsewhere, UNCHANGED callerVars
  PROVE  GivenIds' /\ KnownById'
<1>1. Awaiting' = Awaiting /\ mine' = mine
  BY DEF callerVars, Awaiting
<1>2. nextId' = nextId /\ nextId \in Nat
  BY DEF LspTypeOK, Elsewhere, Dispatch, Notify, ReaderEnds, ReaderFails, Server, ServerAnswers, ServerDiagnoses,
     ServerGivesUp, ServerDies, ServerUnchanged, CloseAll, Terminate, endpointVars
<1>3. ASSUME asked' \subseteq asked, UNCHANGED <<answers, notified, handling>>,
             \A k \in 1..Len(inbox') : inbox'[k].about = "answer" =>
               \/ \E j \in 1..Len(inbox) : inbox'[k] = inbox[j]
               \/ \E r \in asked : inbox'[k].id = r.id /\ inbox'[k].number = r.number
      PROVE  GivenIds' /\ KnownById'
  <2>1. \A k \in 1..Len(inbox') : inbox'[k].about = "answer" => inbox'[k].id \in Nat /\ inbox'[k].id < nextId
    <3>1. \A r \in asked : r.id \in Nat /\ r.id < nextId
      BY DEF GivenIds, LspTypeOK
    <3> QED BY <1>3, <3>1 DEF GivenIds
  <2>2. GivenIds'
    BY <1>1, <1>2, <1>3, <2>1 DEF GivenIds
  <2>3. \A c \in Awaiting, k \in 1..Len(inbox') : inbox'[k].about = "answer" /\ inbox'[k].id = mine[c].id => inbox'[k].number = mine[c].number
    BY <1>3 DEF KnownById
  <2>4. KnownById'
    BY <1>1, <1>3, <2>3 DEF KnownById
  <2> QED BY <2>2, <2>4
<1>4. CASE Dispatch
  <2>1. /\ inbox # <<>> /\ inbox' = Tail(inbox) /\ UNCHANGED <<asked, notified>> /\ handling = -1
    BY <1>4 DEF Dispatch, serverVars, NoId
  <2>2. \A k \in 1..Len(inbox') : \E j \in 1..Len(inbox) : inbox'[k] = inbox[j]
    BY <2>1, InboxTail
  <2>3. Head(inbox) = inbox[1] /\ 1 \in 1..Len(inbox) /\ inbox[1] \in Messages
    BY <2>1, InboxTail
  <2>4. CASE inbox[1].about # "answer"
    <3>1. UNCHANGED <<answers, handling>>
      BY <1>4, <2>3, <2>4 DEF Dispatch
    <3> QED BY <1>3, <2>1, <2>2, <3>1
  <2>5. CASE inbox[1].about = "answer"
    <3> DEFINE i0 == inbox[1].id
    <3>1. /\ handling' = i0 /\ DOMAIN answers' = DOMAIN answers \cup {i0}
          /\ answers'[i0].number = inbox[1].number
          /\ \A i \in DOMAIN answers \ {i0} : answers'[i] = answers[i]
      <4>1. /\ handling' = i0
            /\ answers' = [i \in DOMAIN answers \cup {i0} |->
                            IF i = i0 THEN [number |-> inbox[1].number, ok |-> inbox[1].ok] ELSE answers[i]]
        BY <1>4, <2>3, <2>5 DEF Dispatch
      <4> QED BY <4>1
    <3>2. i0 \in Nat /\ i0 < nextId
      BY <2>3, <2>5 DEF GivenIds
    <3>3. \A k \in 1..Len(inbox') : inbox'[k].about = "answer" => inbox'[k].id \in Nat /\ inbox'[k].id < nextId
      BY <2>2 DEF GivenIds
    <3>4. GivenIds'
      BY <1>1, <1>2, <2>1, <3>1, <3>2, <3>3 DEF GivenIds
    <3>5. ASSUME NEW c \in Awaiting
          PROVE  /\ \A k \in 1..Len(inbox') : inbox'[k].about = "answer" /\ inbox'[k].id = mine[c].id => inbox'[k].number = mine[c].number
                 /\ mine[c].id \in DOMAIN answers' => answers'[mine[c].id].number = mine[c].number
                 /\ mine[c].id \in notified \/ i0 = mine[c].id => mine[c].id \in DOMAIN answers'
      <4>1. i0 = mine[c].id => inbox[1].number = mine[c].number
        BY <2>3, <2>5 DEF KnownById
      <4>2. \A k \in 1..Len(inbox') : inbox'[k].about = "answer" /\ inbox'[k].id = mine[c].id => inbox'[k].number = mine[c].number
        BY <2>2 DEF KnownById
      <4> QED BY <3>1, <4>1, <4>2 DEF KnownById
    <3>6. KnownById'
      BY <1>1, <2>1, <3>1, <3>5 DEF KnownById
    <3> QED BY <3>4, <3>6
  <2> QED BY <2>4, <2>5
<1>5. CASE Notify
  <2>1. /\ UNCHANGED <<asked, answers, inbox>> /\ handling' = -1
        /\ notified' \subseteq notified \cup {handling} /\ handling # -1
    BY <1>5 DEF Notify, NoId, serverVars
  <2>2. GivenIds'
    BY <1>1, <1>2, <2>1 DEF GivenIds
  <2>3. \A c \in Awaiting : mine[c].id # -1
    <3>1. \A c \in Awaiting : mine[c].id \in Nat
      BY DEF Awaiting, LspTypeOK, Slots
    <3> QED BY <3>1
  <2>4. KnownById'
    BY <1>1, <2>1, <2>3 DEF KnownById
  <2> QED BY <2>2, <2>4
<1>6. CASE ReaderEnds \/ ReaderFails
  <2>1. asked' = {} /\ inbox' = <<>> /\ UNCHANGED <<answers, notified, handling>>
    BY <1>6 DEF ReaderEnds, ReaderFails, endpointVars
  <2>2. Len(inbox') = 0
    BY <2>1
  <2> QED BY <1>3, <2>1, <2>2
<1>7. CASE ServerAnswers
  <2>1. PICK r \in asked, ok \in BOOLEAN :
          /\ asked' = asked \ {r}
          /\ inbox' = Append(inbox, [about |-> "answer", id |-> r.id, number |-> r.number, ok |-> ok])
    BY <1>7 DEF ServerAnswers
  <2> DEFINE m == [about |-> "answer", id |-> r.id, number |-> r.number, ok |-> ok]
  <2>2. m \in Messages
    BY DEF Messages, LspTypeOK
  <2>3. \A k \in 1..Len(inbox') : inbox'[k] = m \/ \E j \in 1..Len(inbox) : inbox'[k] = inbox[j]
    BY <2>1, <2>2, InboxAppend
  <2>4. UNCHANGED <<answers, notified, handling>>
    BY <1>7 DEF ServerAnswers, ServerUnchanged, endpointVars, readerVars
  <2> QED BY <1>3, <2>1, <2>3, <2>4
<1>8. CASE ServerDiagnoses
  <2>1. PICK w \in work :
          inbox' = Append(inbox, [about |-> IF w.told THEN "done" ELSE "diagnostics", number |-> w.number, id |-> NoId, ok |-> TRUE])
    BY <1>8 DEF ServerDiagnoses
  <2> DEFINE m == [about |-> IF w.told THEN "done" ELSE "diagnostics", number |-> w.number, id |-> NoId, ok |-> TRUE]
  <2>2. m \in Messages /\ m.about # "answer"
    BY DEF Messages, NoId, LspTypeOK
  <2>3. \A k \in 1..Len(inbox') : inbox'[k] = m \/ \E j \in 1..Len(inbox) : inbox'[k] = inbox[j]
    BY <2>1, <2>2, InboxAppend
  <2>4. UNCHANGED <<asked, answers, notified, handling>>
    BY <1>8 DEF ServerDiagnoses, ServerUnchanged, endpointVars, readerVars
  <2> QED BY <1>3, <2>2, <2>3, <2>4
<1>9. CASE ServerGivesUp \/ ServerDies \/ CloseAll \/ Terminate
  <2>1. asked' \subseteq asked /\ UNCHANGED <<inbox, answers, notified, handling>>
    BY <1>9 DEF ServerGivesUp, ServerDies, CloseAll, Terminate, ServerUnchanged, endpointVars, readerVars, serverVars
  <2> QED BY <1>3, <2>1
<1> QED BY <1>4, <1>5, <1>6, <1>7, <1>8, <1>9 DEF Elsewhere, Server

\* Nothing about texts is under way.
NoText == work = {} /\ \A k \in 1..Len(inbox) : inbox[k].about = "answer"

LEMMA Silent == ASSUME OwnText, processed \/ ~ \E c \in Callers : pc[c] = "waiting" PROVE NoText
BY DEF OwnText, NoText, WaitsFor

LEMMA SilentOwn == NoText' => OwnText'
BY DEF NoText, OwnText

\* A caller's step: a generic session's steps are not those of a Lean one.
LEMMA CallerLooks ==
  ASSUME LspTypeOK, Looking, NEW c \in Callers, BeginCall(c) \/ CallerStep(c), CallerOf(c)
  PROVE  Looking'
<1> SUFFICES ASSUME kind = "lean", NEW d \in Callers PROVE op'[d] # "look" /\ pc'[d] # "asleep"
  BY DEF Looking, CallerOf
<1>1. op[c] # "look" /\ pc[c] # "asleep" /\ op[d] # "look" /\ pc[d] # "asleep"
  BY DEF Looking
<1>2. CASE d # c
  BY <1>1, <1>2, OthersStay
<1>3. CASE d = c
  <2>1. op'[c] # "look"
    BY <1>1 DEF CallerStep, BeginCall, Ops, GetSession, Spawn, NoProcess, SessionStarted, SessionFails, Clear, SendText,
       SendFails, Processed, CheckTimesOut, ReadDiagnostics, Ask, Answered, AskTimesOut, EndCall, LspTypeOK
  <2>2. SendText(c) => pc'[c] = "waiting"
    BY <1>1 DEF SendText, At, LspTypeOK
  <2>3. pc'[c] # "asleep"
    BY <2>2, Goes DEF CallerStep
  <2> QED BY <1>3, <2>1, <2>3
<1> QED BY <1>2, <1>3

\* A step of a caller that checks nothing.
LEMMA QuietStep ==
  ASSUME LspTypeOK, OneCheck, OwnText, NEW c \in Callers, CallerOf(c), pc[c] \notin {"cleared", "waiting", "read"},
         pc'[c] \notin {"cleared", "waiting", "read"}, UNCHANGED <<processed, last, sent>>,
         NoText' \/ UNCHANGED <<work, inbox>>, got'[c].of = got'[c].number
  PROVE  OneCheck' /\ OwnText'
<1>1. \A d \in Callers \ {c} : pc'[d] = pc[d] /\ mine'[d] = mine[d] /\ got'[d] = got[d]
  BY OthersStay
<1>2. OneCheck'
  BY <1>1 DEF OneCheck, Checking
<1>3. CASE NoText'
  BY <1>2, <1>3, SilentOwn
<1>4. CASE UNCHANGED <<work, inbox>>
  <2>1. WaitsFor(sent) => WaitsFor(sent)'
    BY <1>1 DEF WaitsFor
  <2>2. \A k \in Nat : Diagnosed(k) => Diagnosed(k)'
    BY <1>4 DEF Diagnosed
  <2>3. Len(inbox) \in Nat
    BY DEF LspTypeOK
  <2> QED BY <1>2, <1>4, <2>1, <2>2, <2>3 DEF OwnText
<1> QED BY <1>3, <1>4

\* A step of the caller that checks, when nothing is under way.
LEMMA SilentStep ==
  ASSUME LspTypeOK, OneCheck, NEW c \in Callers, CallerOf(c), Checking \subseteq {c}, NoText',
         pc'[c] \in {"waiting", "read"} => mine'[c].number = sent',
         pc'[c] = "cleared" => ~processed',
         (pc'[c] = "read" \/ (pc'[c] = "waiting" /\ processed')) => last' = sent',
         got'[c].of = got'[c].number
  PROVE  OneCheck' /\ OwnText'
<1>1. \A d \in Callers \ {c} : pc'[d] = pc[d] /\ got'[d] = got[d] /\ pc[d] \notin {"cleared", "waiting", "read"}
  BY OthersStay DEF Checking
<1>2. OneCheck'
  BY <1>1 DEF OneCheck, Checking
<1> QED BY <1>2, SilentOwn

\* A caller's step keeps what is under way about texts.
LEMMA CallerTexts ==
  ASSUME LspTypeOK, LspTypeOK', KnownById, AnswerIsOwn, Looking, Undisturbed => OneCheck /\ OwnText,
         NEW c \in Callers, BeginCall(c) \/ CallerStep(c), CallerOf(c), Undisturbed'
  PROVE  OneCheck' /\ OwnText'
<1>1. Undisturbed
  <2>1. CASE Clear(c) \/ CheckTimesOut(c)
    BY <2>1 DEF Clear, CheckTimesOut, Undisturbed
  <2>2. CASE ~ (Clear(c) \/ CheckTimesOut(c))
    <3>1. UNCHANGED <<kind, disturbed>>
      BY <2>2 DEF CallerStep, BeginCall, GetSession, Spawn, NoProcess, SessionStarted, SessionFails, SendText,
         SendFails, Processed, ReadDiagnostics, Ask, Answered, AskTimesOut, historyVars
    <3> QED BY <3>1 DEF Undisturbed
  <2> QED BY <2>1, <2>2
<1>2. OneCheck /\ OwnText
  BY <1>1
<1>3. ~ CheckTimesOut(c)
  BY DEF CheckTimesOut, Undisturbed
<1>4. pc[c] # "asleep" /\ op[c] # "look"
  BY <1>1 DEF Looking, Undisturbed
<1>5. ~ ReadDiagnostics(c) => got'[c].of = got'[c].number
  <2>1. pc[c] \in {"read", "asleep"} => ReadDiagnostics(c)
    BY Goes DEF CallerStep
  <2> QED BY <1>2, <2>1, CallerAnswered DEF OneCheck
<1>6. pc[c] \in {"cleared", "waiting", "read"} => Checking = {c}
  BY <1>2 DEF OneCheck, Checking
<1>7. CASE BeginCall(c) \/ GetSession(c) \/ Spawn(c) \/ NoProcess(c) \/ SessionStarted(c) \/ Ask(c) \/ Answered(c) \/ AskTimesOut(c)
  <2>1. pc[c] \notin {"cleared", "waiting", "read"} /\ pc'[c] \notin {"cleared", "waiting", "read"}
    BY <1>7, Goes
  <2>2. UNCHANGED <<processed, last, sent, work>>
    BY <1>7 DEF BeginCall, GetSession, Spawn, NoProcess, SessionStarted, Ask, Answered, AskTimesOut,
       leanVars, serverVars, historyVars
  <2>3. UNCHANGED inbox
    BY <1>7 DEF BeginCall, GetSession, Spawn, NoProcess, SessionStarted, Ask, Answered, AskTimesOut
  <2>4. ~ ReadDiagnostics(c)
    BY <2>1, <1>4, Goes DEF ReadDiagnostics
  <2> QED BY <1>2, <1>5, <2>1, <2>2, <2>3, <2>4, QuietStep
<1>8. CASE SessionFails(c)
  <2>1. pc[c] = "init" /\ pc'[c] = "idle"
    BY <1>8, Goes
  <2>2. UNCHANGED <<processed, last, sent>> /\ work' = {} /\ inbox' = <<>>
    BY <1>8 DEF SessionFails, leanVars, historyVars
  <2>3. NoText'
    BY <2>2 DEF NoText
  <2>4. ~ ReadDiagnostics(c)
    BY <2>1 DEF ReadDiagnostics
  <2> QED BY <1>2, <1>5, <2>1, <2>2, <2>3, <2>4, QuietStep
<1>9. CASE Clear(c)
  <2>1. pc[c] = "ready" /\ pc'[c] = "cleared" /\ Checking = {} /\ processed' = FALSE /\ UNCHANGED <<work, inbox>>
    BY <1>9, Goes DEF Clear, Undisturbed, serverVars
  <2>2. NoText'
    BY <1>2, <2>1, Silent DEF Checking, NoText
  <2> QED BY <1>2, <1>5, <2>1, <2>2, SilentStep DEF ReadDiagnostics
<1>10. CASE SendFails(c)
  <2>1. pc[c] \in {"ready", "cleared"} /\ pc'[c] = "idle" /\ UNCHANGED <<work, inbox, processed, last, sent>>
    BY <1>10, Goes DEF SendFails, serverVars, leanVars, historyVars
  <2>2. ~ ReadDiagnostics(c)
    BY <2>1 DEF ReadDiagnostics
  <2>3. CASE pc[c] = "ready"
    BY <1>2, <1>5, <2>1, <2>2, <2>3, QuietStep
  <2>4. CASE pc[c] = "cleared"
    <3>1. NoText'
      BY <1>2, <1>6, <2>1, <2>4, Silent DEF Checking, NoText
    <3> QED BY <1>2, <1>5, <1>6, <2>1, <2>2, <2>4, <3>1, SilentStep
  <2> QED BY <2>1, <2>3, <2>4
<1>11. CASE Processed(c)
  <2>1. /\ pc[c] = "waiting" /\ pc'[c] \in {"ready", "read"} /\ processed
        /\ UNCHANGED <<work, inbox, processed, last, sent, mine>>
    BY <1>11, Goes DEF Processed, serverVars, historyVars
  <2>2. NoText'
    BY <1>2, <2>1, Silent DEF NoText
  <2>3. mine[c].number = sent /\ last = sent
    BY <1>2, <2>1 DEF OneCheck
  <2> QED BY <1>2, <1>5, <1>6, <2>1, <2>2, <2>3, SilentStep DEF ReadDiagnostics
<1>12. CASE ReadDiagnostics(c)
  <2>1. pc[c] = "read" /\ pc'[c] = "idle" /\ UNCHANGED <<work, inbox, processed, last, sent>>
    BY <1>4, <1>12, Goes DEF ReadDiagnostics, serverVars, leanVars, historyVars
  <2>2. NoText'
    BY <1>2, <1>6, <2>1, Silent DEF Checking, NoText
  <2>3. mine[c].number = sent /\ last = sent
    BY <1>2, <2>1 DEF OneCheck
  <2>4. got'[c] = [number |-> mine[c].number, id |-> 0, of |-> last]
    BY <1>12 DEF ReadDiagnostics, EndCall, LspTypeOK
  <2> QED BY <1>2, <1>6, <2>1, <2>2, <2>3, <2>4, SilentStep
<1>13. CASE SendText(c)
  <2>1. pc[c] = "cleared" /\ pc'[c] = "waiting" /\ UNCHANGED <<inbox, processed, last>> /\ sent' = sent + 1
    BY <1>4, <1>13 DEF SendText, leanVars, At, LspTypeOK
  <2>2. NoText
    BY <1>2, <1>6, <2>1, Silent DEF Checking
  <2>3. work' = {[number |-> sent + 1, told |-> FALSE]}
    BY <1>13, <2>2 DEF SendText, NoText
  <2>4. mine'[c].number = sent + 1 /\ got' = got
    BY <1>13 DEF SendText, Nothing, LspTypeOK
  <2>5. ~ processed
    BY <1>2, <2>1 DEF OneCheck
  <2>6. \A d \in Callers \ {c} : pc'[d] = pc[d] /\ pc[d] \notin {"cleared", "waiting", "read"}
    BY <1>6, <2>1, OthersStay DEF Checking
  <2>7. OneCheck'
    BY <1>2, <2>1, <2>4, <2>5, <2>6 DEF OneCheck, Checking
  <2>8. WaitsFor(sent)'
    BY <2>1, <2>4 DEF WaitsFor
  <2>9. OwnText'
    BY <2>1, <2>2, <2>3, <2>5, <2>8 DEF OwnText, NoText
  <2> QED BY <2>7, <2>9
<1> QED BY <1>3, <1>7, <1>8, <1>9, <1>10, <1>11, <1>12, <1>13 DEF CallerStep

\* The reader, the server and the end, by what they do to texts: nothing but to lose them.
LEMMA LoseTexts ==
  ASSUME LspTypeOK, OneCheck, OwnText, UNCHANGED callerVars, UNCHANGED <<processed, last, sent>>,
         NoText' \/ (work' \subseteq work /\ UNCHANGED inbox)
  PROVE  OneCheck' /\ OwnText'
<1>1. UNCHANGED <<pc, mine, got>>
  BY DEF callerVars
<1>2. OneCheck'
  BY <1>1 DEF OneCheck, Checking
<1>3. CASE NoText'
  BY <1>2, <1>3, SilentOwn
<1>4. CASE work' \subseteq work /\ UNCHANGED inbox
  <2>1. WaitsFor(sent) => WaitsFor(sent)'
    BY <1>1 DEF WaitsFor
  <2>2. \A k \in Nat : Diagnosed(k) => Diagnosed(k)'
    BY <1>4 DEF Diagnosed
  <2>3. Len(inbox) \in Nat
    BY DEF LspTypeOK
  <2> QED BY <1>2, <1>4, <2>1, <2>2, <2>3 DEF OwnText
<1> QED BY <1>3, <1>4

\* A message is added: an answer, the diagnostics of the text, or that it is done.
LEMMA MoreMessages ==
  ASSUME LspTypeOK, OneCheck, OwnText, UNCHANGED callerVars, UNCHANGED <<processed, last, sent>>,
         NEW m \in Messages, inbox' = Append(inbox, m),
         \/ m.about = "answer" /\ UNCHANGED work
         \/ \E w \in work : /\ m.number = w.number
                            /\ \/ m.about = "diagnostics" /\ work' = (work \ {w}) \cup {[w EXCEPT !.told = TRUE]}
                               \/ m.about = "done" /\ w.told /\ work' = work \ {w}
  PROVE  OneCheck' /\ OwnText'
<1>1. UNCHANGED <<pc, mine, got>>
  BY DEF callerVars
<1>2. OneCheck'
  BY <1>1 DEF OneCheck, Checking
<1>3. WaitsFor(sent) => WaitsFor(sent)'
  BY <1>1 DEF WaitsFor
<1>0. PICK n \in Nat : n = Len(inbox)
  BY DEF LspTypeOK
<1>4. /\ n \in Nat /\ Len(inbox') = n + 1 /\ inbox'[n + 1] = m /\ \A k \in 1..n : inbox'[k] = inbox[k]
      /\ \A k \in 1..Len(inbox') : k \in 1..n \/ k = n + 1
  BY <1>0, InboxAppend
<1>5. ASSUME NEW k \in 1..n, Diagnosed(k) PROVE Diagnosed(k)' /\ Diagnosed(n + 1)'
  BY <1>4, <1>5 DEF Diagnosed
<1>6. Diagnosed(n) => Diagnosed(n)' /\ Diagnosed(n + 1)'
  BY <1>4 DEF Diagnosed
<1>7. CASE m.about = "answer" /\ UNCHANGED work
  <2>1. \A w \in work' : w.number = sent' /\ ~processed' /\ WaitsFor(sent)' /\ (w.told => Diagnosed(n + 1)')
    BY <1>0, <1>3, <1>6, <1>7 DEF OwnText
  <2>2. \A k \in 1..Len(inbox') : inbox'[k].about # "answer" => inbox'[k].number = sent' /\ ~processed' /\ WaitsFor(sent)'
    BY <1>0, <1>3, <1>4, <1>7 DEF OwnText
  <2>3. \A k \in 1..Len(inbox') : inbox'[k].about = "done" => k \in 1..n /\ inbox[k].about = "done"
    BY <1>4, <1>7
  <2>4. \A k \in 1..n : inbox[k].about = "done" => work' = {} /\ Diagnosed(k)'
    BY <1>0, <1>5, <1>7 DEF OwnText
  <2>5. \A k \in 1..n : inbox[k].about = "done" => \A j \in (k + 1)..(n + 1) : inbox'[j].about = "answer"
    <3> SUFFICES ASSUME NEW k \in 1..n, inbox[k].about = "done", NEW j \in (k + 1)..(n + 1) PROVE inbox'[j].about = "answer"
      OBVIOUS
    <3>1. j = n + 1 \/ (j \in (k + 1)..n /\ j \in 1..n)
      BY <1>4
    <3> QED BY <1>0, <1>4, <1>7, <3>1 DEF OwnText
  <2>6. \A v, w \in work' : v = w
    BY <1>7 DEF OwnText
  <2> QED BY <1>2, <1>4, <2>1, <2>2, <2>3, <2>4, <2>5, <2>6 DEF OwnText
<1>8. ASSUME NEW w \in work, m.number = w.number, m.about \in {"diagnostics", "done"}
      PROVE  /\ work = {w} /\ m.number = sent /\ ~processed /\ WaitsFor(sent)'
             /\ \A k \in 1..n : inbox[k].about # "done"
             /\ \A k \in 1..Len(inbox') : inbox'[k].about # "answer" => inbox'[k].number = sent
  <2>1. work = {w} /\ m.number = sent /\ ~processed /\ WaitsFor(sent)'
    BY <1>3, <1>8 DEF OwnText
  <2>2. \A k \in 1..n : inbox[k].about # "done"
    BY <1>0, <2>1 DEF OwnText
  <2> QED BY <1>0, <1>4, <2>1, <2>2 DEF OwnText
<1>9. ASSUME NEW w \in work, m.number = w.number, m.about = "diagnostics", work' = (work \ {w}) \cup {[w EXCEPT !.told = TRUE]}
      PROVE  OwnText'
  <2>1. work' = {[w EXCEPT !.told = TRUE]} /\ w.number = sent /\ w \in [number: Nat, told: BOOLEAN]
    BY <1>8, <1>9 DEF LspTypeOK
  <2>2. \A v \in work' : v.number = sent
    BY <2>1
  <2>3. Diagnosed(n + 1)'
    <3>1. n + 1 \in 1..(n + 1) /\ inbox'[n + 1].about = "diagnostics"
      BY <1>4, <1>9
    <3> QED BY <3>1 DEF Diagnosed
  <2>4. \A k \in 1..Len(inbox') : inbox'[k].about # "done"
    BY <1>4, <1>8, <1>9
  <2>5. \A u, v \in work' : u = v
    BY <2>1
  <2> QED BY <1>4, <1>8, <1>9, <2>2, <2>3, <2>4, <2>5 DEF OwnText
<1>10. ASSUME NEW w \in work, m.number = w.number, m.about = "done", w.told, work' = work \ {w}
       PROVE  OwnText'
  <2>1. work' = {}
    BY <1>8, <1>10
  <2>2. Diagnosed(n + 1)'
    BY <1>0, <1>6, <1>10 DEF OwnText
  <2>3. \A k \in 1..Len(inbox') : inbox'[k].about = "done" => k = n + 1
    BY <1>4, <1>8, <1>10
  <2>4. \A j \in (n + 2)..(n + 1) : FALSE
    BY <1>4
  <2>5. \A j \in (n + 1 + 1)..(n + 1) : inbox'[j].about = "answer"
    BY <1>4
  <2> QED BY <1>4, <1>8, <1>10, <2>1, <2>2, <2>3, <2>5 DEF OwnText
<1> QED BY <1>2, <1>7, <1>9, <1>10

\* The reader takes a message.
LEMMA LessMessages ==
  ASSUME LspTypeOK, OneCheck, OwnText, Dispatch
  PROVE  OneCheck' /\ OwnText'
<1>1. UNCHANGED <<pc, mine, got, work, sent>> /\ inbox # <<>> /\ inbox' = Tail(inbox)
  BY DEF Dispatch, callerVars, serverVars, historyVars
<1>0. PICK n \in Nat : n = Len(inbox)
  BY DEF LspTypeOK
<1> DEFINE m == inbox[1]
<1>2. /\ n \in Nat \ {0} /\ Len(inbox') = n - 1 /\ m \in Messages /\ Head(inbox) = m
      /\ \A k \in 1..(n - 1) : k + 1 \in 1..n /\ inbox'[k] = inbox[k + 1]
  BY <1>0, <1>1, InboxTail
<1>3. last' = (IF m.about = "diagnostics" THEN m.number ELSE last) /\ processed' = (processed \/ m.about = "done")
  BY <1>2 DEF Dispatch
<1>4. WaitsFor(sent)' = WaitsFor(sent)
  BY <1>1 DEF WaitsFor
<1>5. m.about = "diagnostics" => m.number = sent
  BY <1>0, <1>2 DEF OwnText
<1>6. CASE m.about = "done"
  <2>1. /\ work = {} /\ Diagnosed(1) /\ ~processed /\ WaitsFor(sent)
        /\ \A j \in (1 + 1)..n : inbox[j].about = "answer"
    BY <1>0, <1>2, <1>6 DEF OwnText
  <2>2. last = sent
    BY <1>6, <2>1 DEF Diagnosed
  <2>3. \A k \in 1..(n - 1) : k + 1 \in (1 + 1)..n
    BY <1>2
  <2>4. NoText'
    BY <1>1, <1>2, <2>1, <2>3 DEF NoText
  <2>5. \A c \in Callers : pc[c] # "cleared"
    <3>1. PICK d \in Callers : pc[d] = "waiting"
      BY <2>1 DEF WaitsFor
    <3>2. d \in Checking
      BY <3>1 DEF Checking
    <3> SUFFICES ASSUME NEW c \in Callers, pc[c] = "cleared" PROVE FALSE
      OBVIOUS
    <3>3. c \in Checking
      BY DEF Checking
    <3> QED BY <3>1, <3>2, <3>3 DEF OneCheck
  <2>6. OneCheck'
    BY <1>1, <1>3, <1>6, <2>2, <2>5 DEF OneCheck, Checking
  <2> QED BY <2>4, <2>6, SilentOwn
<1>7. CASE m.about # "done"
  <2>1. processed' = processed
    BY <1>3, <1>7 DEF LspTypeOK
  <2>2. OneCheck'
    BY <1>1, <1>3, <1>5, <2>1 DEF OneCheck, Checking
  <2>3. ASSUME NEW k \in 0..(n - 1), Diagnosed(k + 1) PROVE Diagnosed(k)'
    <3>1. CASE last = sent
      BY <1>1, <1>3, <1>5, <3>1 DEF Diagnosed
    <3>2. CASE last # sent
      <4>1. PICK j \in 1..(k + 1) : inbox[j].about = "diagnostics"
        BY <2>3, <3>2 DEF Diagnosed
      <4>2. CASE j = 1
        BY <1>1, <1>3, <1>5, <4>1, <4>2 DEF Diagnosed
      <4>3. CASE j # 1
        <5>1. j - 1 \in 1..k /\ j - 1 \in 1..(n - 1) /\ (j - 1) + 1 = j
          BY <1>2, <4>3
        <5>2. inbox'[j - 1].about = "diagnostics"
          BY <1>2, <4>1, <5>1
        <5> QED BY <5>1, <5>2 DEF Diagnosed
      <4> QED BY <4>2, <4>3
    <3> QED BY <3>1, <3>2
  <2>4. \A w \in work' : w.number = sent' /\ ~processed' /\ WaitsFor(sent)' /\ (w.told => Diagnosed(n - 1)')
    <3>1. n - 1 \in 0..(n - 1) /\ (n - 1) + 1 = n
      BY <1>2
    <3>2. Diagnosed(n) => Diagnosed(n - 1)'
      <4>1. Diagnosed((n - 1) + 1) => Diagnosed(n - 1)'
        BY <2>3, <3>1
      <4> QED BY <3>1, <4>1
    <3> QED BY <1>0, <1>1, <1>4, <2>1, <3>2 DEF OwnText
  <2>5. \A k \in 1..(n - 1) : inbox'[k].about # "answer" => inbox'[k].number = sent' /\ ~processed' /\ WaitsFor(sent)'
    BY <1>0, <1>1, <1>2, <1>4, <2>1 DEF OwnText
  <2>6. ASSUME NEW k \in 1..(n - 1), inbox'[k].about = "done"
        PROVE  work' = {} /\ Diagnosed(k)' /\ \A j \in (k + 1)..(n - 1) : inbox'[j].about = "answer"
    <3>1. k + 1 \in 1..n /\ inbox[k + 1].about = "done" /\ k \in 0..(n - 1)
      BY <1>2, <2>6
    <3>2. work = {} /\ Diagnosed(k + 1) /\ \A j \in (k + 1 + 1)..n : inbox[j].about = "answer"
      BY <1>0, <3>1 DEF OwnText
    <3>3. \A j \in (k + 1)..(n - 1) : j \in 1..(n - 1) /\ j + 1 \in (k + 1 + 1)..n
      BY <1>2
    <3> QED BY <1>1, <1>2, <2>3, <3>1, <3>2, <3>3
  <2>7. \A v, w \in work' : v = w
    BY <1>1 DEF OwnText
  <2> QED BY <1>2, <2>2, <2>4, <2>5, <2>6, <2>7 DEF OwnText
<1> QED BY <1>6, <1>7

\* The reader, the server and the end keep what is under way about texts.
LEMMA ElsewhereTexts ==
  ASSUME LspTypeOK, Undisturbed => OneCheck /\ OwnText, Elsewhere, UNCHANGED <<kind, callerVars>>, Undisturbed'
  PROVE  OneCheck' /\ OwnText'
<1>1. UNCHANGED <<disturbed, sent>>
  BY DEF Elsewhere, Dispatch, Notify, ReaderEnds, ReaderFails, Server, ServerAnswers, ServerDiagnoses,
     ServerGivesUp, ServerDies, ServerUnchanged, CloseAll, Terminate, historyVars
<1>2. OneCheck /\ OwnText /\ kind = "lean"
  BY <1>1 DEF Undisturbed
<1>3. CASE Dispatch
  BY <1>2, <1>3, LessMessages
<1>4. CASE ~ Dispatch
  <2>1. UNCHANGED <<processed, last>>
    BY <1>4 DEF Elsewhere, Notify, ReaderEnds, ReaderFails, Server, ServerAnswers, ServerDiagnoses,
       ServerGivesUp, ServerDies, ServerUnchanged, CloseAll, Terminate, leanVars
  <2>2. CASE Notify \/ CloseAll \/ Terminate \/ ServerGivesUp \/ ServerDies
    <3>1. work' \subseteq work /\ UNCHANGED inbox
      BY <2>2 DEF Notify, CloseAll, Terminate, ServerGivesUp, ServerDies, ServerUnchanged, serverVars
    <3> QED BY <1>1, <1>2, <2>1, <3>1, LoseTexts
  <2>3. CASE ReaderEnds \/ ReaderFails
    <3>1. work' = {} /\ inbox' = <<>>
      BY <2>3 DEF ReaderEnds, ReaderFails
    <3>2. NoText'
      BY <3>1 DEF NoText
    <3> QED BY <1>1, <1>2, <2>1, <3>2, LoseTexts
  <2>4. CASE ServerAnswers
    <3>1. PICK r \in asked, ok \in BOOLEAN :
            inbox' = Append(inbox, [about |-> "answer", id |-> r.id, number |-> r.number, ok |-> ok])
      BY <2>4 DEF ServerAnswers
    <3> DEFINE m == [about |-> "answer", id |-> r.id, number |-> r.number, ok |-> ok]
    <3>2. m \in Messages /\ m.about = "answer"
      BY DEF Messages, LspTypeOK
    <3>3. work' = work
      BY <2>4 DEF ServerAnswers
    <3> HIDE DEF m
    <3>4. inbox' = Append(inbox, m)
      BY <3>1 DEF m
    <3> QED BY <1>1, <1>2, <2>1, <3>2, <3>3, <3>4, MoreMessages
  <2>5. CASE ServerDiagnoses
    <3>1. PICK w \in work :
            /\ work' = IF w.told \/ kind = "generic" THEN work \ {w} ELSE (work \ {w}) \cup {[w EXCEPT !.told = TRUE]}
            /\ inbox' = Append(inbox, [about |-> IF w.told THEN "done" ELSE "diagnostics", number |-> w.number, id |-> NoId, ok |-> TRUE])
      BY <2>5 DEF ServerDiagnoses
    <3> DEFINE m == [about |-> IF w.told THEN "done" ELSE "diagnostics", number |-> w.number, id |-> NoId, ok |-> TRUE]
    <3>2. /\ m \in Messages /\ m.number = w.number /\ inbox' = Append(inbox, m)
          /\ m.about = IF w.told THEN "done" ELSE "diagnostics"
      BY <3>1 DEF Messages, LspTypeOK, NoId
    <3> HIDE DEF m
    <3>3. CASE w.told
      BY <1>1, <1>2, <2>1, <3>1, <3>2, <3>3, MoreMessages
    <3>4. CASE ~ w.told
      BY <1>1, <1>2, <2>1, <3>1, <3>2, <3>4, MoreMessages
    <3> QED BY <3>3, <3>4
  <2> QED BY <1>4, <2>2, <2>3, <2>4, <2>5 DEF Elsewhere, Server
<1> QED BY <1>3, <1>4

\* A session begins with nobody using it.
LEMMA LspInitInv == LspInit => LspInv
<1> SUFFICES ASSUME LspInit PROVE LspInv
  OBVIOUS
<1>1. inbox = <<>> /\ answers = <<>> /\ asked = {} /\ work = {} /\ notified = {} /\ handling = -1 /\ nextId = 0
  BY DEF LspInit, NoId
<1>2. Len(inbox) = 0 /\ DOMAIN answers = {} /\ <<>> \in Seq(Messages)
  BY <1>1
<1>3. \A c \in Callers : pc[c] = "idle" /\ op[c] = "ask" /\ got[c] = Nothing
  BY DEF LspInit
<1>4. LspTypeOK
  <2>1. Nothing \in Slots
    BY DEF Nothing, Slots
  <2>2. \A i \in DOMAIN answers : i \in Nat /\ answers[i] \in [number: Nat, ok: BOOLEAN]
    BY <1>2
  <2>3. inbox \in Seq(Messages)
    BY <1>1, <1>2
  <2>4. /\ pc \in [Callers -> {"idle", "lock", "init", "ready", "cleared", "waiting", "read", "asleep", "asking"}]
        /\ op \in [Callers -> {"check", "file", "look", "ask"}] /\ stage \in [Callers -> {"warm", "check", "file"}]
    BY DEF LspInit
  <2>5. mine \in [Callers -> Slots] /\ got \in [Callers -> Slots]
    BY <2>1 DEF LspInit
  <2>6. kind \in {"lean", "generic"} /\ closing = "no" /\ lock = "free" /\ waiting = {}
    BY DEF LspInit
  <2>7. {kept, spawned, nextId, sent, requests, last} \subseteq Nat
    BY DEF LspInit
  <2>8. {processed, warmed, disturbed} \subseteq BOOLEAN
    BY DEF LspInit
  <2>9. handling = NoId /\ lock \in Callers \cup {"free"} /\ closing \in {"no", "stopping", "done"}
    BY <2>6 DEF LspInit
  <2>10. asked \subseteq [id: Nat, number: Nat] /\ work \subseteq [number: Nat, told: BOOLEAN] /\ waiting \subseteq Nat /\ notified \subseteq Nat
    BY <1>1, <2>6
  <2> QED BY <2>2, <2>3, <2>4, <2>5, <2>6, <2>7, <2>8, <2>9, <2>10 DEF LspTypeOK
<1>5. Keeping
  BY <1>3, LspAssumption DEF LspInit, Keeping
<1>6. GivenIds /\ KnownById
  BY <1>1, <1>2, <1>3 DEF GivenIds, KnownById, Awaiting
<1>7. Looking /\ AnswerIsOwn
  BY <1>3 DEF Looking, AnswerIsOwn, Nothing
<1>8. OneCheck /\ OwnText
  BY <1>1, <1>2, <1>3 DEF OneCheck, OwnText, Checking, Nothing
<1> QED BY <1>4, <1>5, <1>6, <1>7, <1>8 DEF LspInv

\* Every step keeps the invariant.
LEMMA LspStep == LspInv /\ [LspNext]_lspVars => LspInv'
<1> SUFFICES ASSUME LspInv, [LspNext]_lspVars PROVE LspInv'
  OBVIOUS
<1>1. LspTypeOK /\ Keeping /\ GivenIds /\ KnownById /\ Looking /\ AnswerIsOwn /\ (Undisturbed => OneCheck /\ OwnText)
  BY DEF LspInv
<1>2. ASSUME NEW c \in Callers, BeginCall(c) \/ CallerStep(c) PROVE LspInv'
  <2>1. CallerOf(c) /\ CallerTypes(c)' /\ SessionTypes'
    BY <1>1, <1>2, CallerTyped, SessionTyped
  <2>2. LspTypeOK'
    BY <1>1, <2>1 DEF LspTypeOK, SessionTypes, CallerOf, CallerTypes
  <2>3. Keeping' /\ GivenIds' /\ KnownById' /\ AnswerIsOwn' /\ Looking'
    BY <1>1, <1>2, <2>1, <2>2, CallerKeeps, CallerKnown, CallerAnswered, CallerLooks
  <2>4. Undisturbed' => OneCheck' /\ OwnText'
    BY <1>1, <1>2, <2>1, <2>2, CallerTexts
  <2> QED BY <2>2, <2>3, <2>4 DEF LspInv
<1>3. ASSUME Elsewhere PROVE LspInv'
  <2>1. SessionTypes' /\ UNCHANGED <<kind, callerVars>> /\ closing' \in {"no", "stopping", "done"}
    BY <1>1, <1>3, ElsewhereTyped
  <2>2. LspTypeOK'
    BY <1>1, <2>1 DEF LspTypeOK, SessionTypes, callerVars
  <2>3. Looking'
    BY <1>1, <2>1 DEF Looking, callerVars
  <2>4. Keeping' /\ GivenIds' /\ KnownById' /\ AnswerIsOwn'
    BY <1>1, <1>3, <2>1, <2>2, ElsewhereKeeps, ElsewhereKnown
  <2>5. Undisturbed' => OneCheck' /\ OwnText'
    BY <1>1, <1>3, <2>1, ElsewhereTexts
  <2> QED BY <2>2, <2>3, <2>4, <2>5 DEF LspInv
<1>4. CASE UNCHANGED lspVars
  <2>1. UNCHANGED <<kind, pc, op, stage, mine, got, lock, kept, spawned, closing, nextId, waiting, answers, notified>>
    BY <1>4 DEF lspVars, callerVars, managerVars, endpointVars
  <2>2. UNCHANGED <<processed, last, warmed, asked, work, inbox, handling, sent, requests, disturbed>>
    BY <1>4 DEF lspVars, leanVars, serverVars, readerVars, historyVars
  <2>3. LspTypeOK'
    BY <1>1, <2>1, <2>2 DEF LspTypeOK
  <2>4. Keeping' /\ Looking' /\ AnswerIsOwn'
    BY <1>1, <2>1, <2>2 DEF Keeping, Looking, AnswerIsOwn
  <2>5. GivenIds' /\ KnownById'
    BY <1>1, <2>1, <2>2 DEF GivenIds, KnownById, Awaiting
  <2>6. Undisturbed' => OneCheck' /\ OwnText'
    BY <1>1, <2>1, <2>2 DEF Undisturbed, OneCheck, OwnText, Checking, WaitsFor, Diagnosed
  <2> QED BY <2>3, <2>4, <2>5, <2>6 DEF LspInv
<1> QED BY <1>2, <1>3, <1>4 DEF LspNext, Elsewhere

LEMMA LspInvariant == LspSpec => []LspInv
BY LspInitInv, LspStep, PTL DEF LspSpec

\* Whoever asks the language server gets the answer of its own request, for any number
\* of threads, requests and restarts, and with answers in any order, late or lost.
THEOREM AnswersOwned == LspSpec => []AnswerIsOwn
<1>1. LspInv => AnswerIsOwn
  BY DEF LspInv
<1> QED BY <1>1, LspInvariant, PTL

\* A Lean check that nothing disturbs returns the diagnostics of its own text.
THEOREM DiagnosticsOwned == LspSpec => []DiagnosticsAreOwn
<1>1. LspInv => DiagnosticsAreOwn
  BY DEF LspInv, DiagnosticsAreOwn, Undisturbed, OneCheck
<1> QED BY <1>1, LspInvariant, PTL
==============================================================================
