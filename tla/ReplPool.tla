----------------------------- MODULE ReplPool -----------------------------
(***************************************************************************)
(* The pool of Lean REPLs (core/process/pool.py, tools/execution/lean/repl *)
(* pool.py and core.py): threads that take calls from one queue, each with *)
(* a session of its own, and each session with a process it restarts when  *)
(* the process dies, hangs or answers nonsense.                            *)
(*                                                                         *)
(* A process is started with a header of imports, whose environment every  *)
(* command runs in.  Environments are numbered from 0 in each process, so  *)
(* that the header's has number 0.  What a process writes stays in its     *)
(* pipe until the session reads it or closes the process.                  *)
(***************************************************************************)
EXTENDS Naturals, Sequences

CONSTANTS
  Workers,      \* threads of the pool
  Calls,        \* calls of run(), each with a command
  MaxRetries    \* max_retries of the session

ASSUME PoolAssumption == MaxRetries \in Nat

None == "none"      \* no call, no process, no environment
Failure == "error"  \* {"repl_error": ...}
Settled == {"refused", "cancelled", "result", "exception"}

ASSUME NoCallAssumption == None \notin Calls /\ Failure \notin Calls

VARIABLES
  shutdown,   \* _shutdown
  queue,      \* _tasks
  future,     \* of each call: its state
  answer,     \* of each call: the command whose response it got, or Failure
  at,         \* where each worker is
  doing,      \* the call it works on
  then,       \* where it goes when the process it starts has loaded the header
  tries,      \* i of the retries
  session,    \* the worker has a session
  process,    \* None, "alive" or "dead"
  base,       \* _base_env_id is set
  loaded,     \* environment 0 of the process is the header's
  env,        \* the environment of the command is set: run()'s env_id
  busy,       \* the command the process works on
  pipe        \* what it wrote: responses to commands

pool == <<shutdown, queue, future, answer>>
thread == <<at, doing, then, tries, session>>
repl == <<process, base, loaded, busy, pipe>>
vars == <<pool, thread, repl, env>>

Places == {"get", "empty", "start", "check", "send", "wait", "raise", "return", "ended"}

Init ==
  /\ shutdown = FALSE /\ queue = <<>>
  /\ future = [c \in Calls |-> "new"] /\ answer = [c \in Calls |-> None]
  /\ at = [w \in Workers |-> "get"] /\ doing = [w \in Workers |-> None]
  /\ then = [w \in Workers |-> None] /\ tries = [w \in Workers |-> 0]
  /\ session = [w \in Workers |-> FALSE]
  /\ process = [w \in Workers |-> None] /\ base = [w \in Workers |-> FALSE]
  /\ loaded = [w \in Workers |-> FALSE] /\ env = [w \in Workers |-> FALSE]
  /\ busy = [w \in Workers |-> None] /\ pipe = [w \in Workers |-> <<>>]

---------------------------------------------------------------------------
(* Callers *)

\* submit() finds the pool open, and puts the call into the queue in a second step.
Submit(c) ==
  /\ future[c] = "new"
  /\ future' = [future EXCEPT ![c] = IF shutdown THEN "refused" ELSE "admitted"]
  /\ UNCHANGED <<shutdown, queue, answer, thread, repl, env>>

Put(c) ==
  /\ future[c] = "admitted"
  /\ future' = [future EXCEPT ![c] = "pending"]
  /\ queue' = Append(queue, c)
  /\ UNCHANGED <<shutdown, answer, thread, repl, env>>

\* The future of submit_async() is cancelled, at any time.
Cancel(c) ==
  /\ future[c] = "pending"
  /\ future' = [future EXCEPT ![c] = "cancelled"]
  /\ UNCHANGED <<shutdown, queue, answer, thread, repl, env>>

Shutdown ==
  /\ ~shutdown
  /\ shutdown' = TRUE
  /\ UNCHANGED <<queue, future, answer, thread, repl, env>>

---------------------------------------------------------------------------
(* The session's process *)

\* close(): the process is killed, and its pipe is closed.
Close(w) ==
  /\ process' = [process EXCEPT ![w] = None]
  /\ base' = [base EXCEPT ![w] = FALSE]
  /\ loaded' = [loaded EXCEPT ![w] = FALSE]
  /\ busy' = [busy EXCEPT ![w] = None]
  /\ pipe' = [pipe EXCEPT ![w] = <<>>]

\* start() of a new process, and restart(), which closes the one before.
Launch(w) ==
  /\ process' = [process EXCEPT ![w] = "alive"]
  /\ base' = [base EXCEPT ![w] = FALSE]
  /\ loaded' = [loaded EXCEPT ![w] = FALSE]
  /\ busy' = [busy EXCEPT ![w] = None]
  /\ pipe' = [pipe EXCEPT ![w] = <<>>]

Goto(w, place) == at' = [at EXCEPT ![w] = place]

\* The process starts, and the worker goes to a place when it has.
StartFor(w, place) ==
  /\ Launch(w)
  /\ Goto(w, "start")
  /\ then' = [then EXCEPT ![w] = place]

\* The process dies, by itself or by the memory monitor's hand.
Die(w) ==
  /\ process[w] = "alive"
  /\ process' = [process EXCEPT ![w] = "dead"]
  /\ busy' = [busy EXCEPT ![w] = None]
  /\ UNCHANGED <<pool, thread, base, loaded, env, pipe>>

\* The process answers its command.
Respond(w) ==
  /\ process[w] = "alive" /\ busy[w] # None
  /\ pipe' = [pipe EXCEPT ![w] = Append(@, busy[w])]
  /\ busy' = [busy EXCEPT ![w] = None]
  /\ UNCHANGED <<pool, thread, process, base, loaded, env>>

---------------------------------------------------------------------------
(* _worker_loop() *)

\* run() begins: the environment of the command is the header's.
BeginRun(w, c) ==
  /\ Goto(w, "check")
  /\ doing' = [doing EXCEPT ![w] = c]
  /\ tries' = [tries EXCEPT ![w] = 0]
  /\ env' = [env EXCEPT ![w] = base[w]]
  /\ UNCHANGED <<then, repl>>

\* A call is taken from the queue; a cancelled one is skipped, and the first one
\* makes a session.
Take(w) ==
  /\ at[w] = "get" /\ queue # <<>>
  /\ queue' = Tail(queue)
  /\ LET c == Head(queue) IN
       IF future[c] = "cancelled" THEN UNCHANGED <<at, doing, then, tries, repl, env>>
       ELSE IF session[w] THEN BeginRun(w, c)
       ELSE /\ StartFor(w, "run")
            /\ doing' = [doing EXCEPT ![w] = c]
            /\ UNCHANGED <<tries, env>>
  /\ UNCHANGED <<shutdown, future, answer, session>>

\* The queue has been empty for a while, and only then the flag is read.
FindEmpty(w) ==
  /\ at[w] = "get" /\ queue = <<>>
  /\ Goto(w, "empty")
  /\ UNCHANGED <<pool, doing, then, tries, session, repl, env>>

End(w) ==
  /\ at[w] = "empty"
  /\ IF shutdown THEN Goto(w, "ended") /\ Close(w)
                 ELSE Goto(w, "get") /\ UNCHANGED repl
  /\ UNCHANGED <<pool, doing, then, tries, session, env>>

MoreTries(w) == tries[w] < MaxRetries

\* The header and the smoke test have succeeded.
Started(w) ==
  /\ at[w] = "start" /\ process[w] = "alive"
  /\ base' = [base EXCEPT ![w] = TRUE]
  /\ loaded' = [loaded EXCEPT ![w] = TRUE]
  /\ UNCHANGED <<process, busy, pipe>>
  /\ CASE then[w] = "run" ->
            /\ session' = [session EXCEPT ![w] = TRUE]
            /\ tries' = [tries EXCEPT ![w] = 0]
            /\ env' = [env EXCEPT ![w] = TRUE]
            /\ Goto(w, "check")
            /\ UNCHANGED <<future, answer, doing>>
       [] then[w] = "send" ->
            /\ Goto(w, "send")
            /\ UNCHANGED <<future, answer, doing, tries, session, env>>
       [] then[w] = "retry" /\ MoreTries(w) ->
            /\ tries' = [tries EXCEPT ![w] = @ + 1]
            /\ Goto(w, "send")
            /\ UNCHANGED <<future, answer, doing, session, env>>
       [] OTHER ->
            /\ answer' = [answer EXCEPT ![doing[w]] = Failure]
            /\ Goto(w, "return")
            /\ UNCHANGED <<future, doing, tries, session, env>>
  /\ then' = [then EXCEPT ![w] = None]
  /\ UNCHANGED <<shutdown, queue>>

\* Variant with a bug: a process that fails to start is left behind.
StartFailsUnclosed(w) ==
  /\ at[w] = "start"
  /\ Goto(w, IF then[w] = "send" THEN "send" ELSE "raise")
  /\ then' = [then EXCEPT ![w] = None]
  /\ UNCHANGED <<pool, doing, tries, session, env, repl>>

\* start() raises: in _check_memory_and_maybe_restart(), which swallows it, or
\* out of run().
StartFails(w) ==
  /\ at[w] = "start"
  /\ Close(w)
  /\ Goto(w, IF then[w] = "send" THEN "send" ELSE "raise")
  /\ then' = [then EXCEPT ![w] = None]
  /\ UNCHANGED <<pool, doing, tries, session, env>>

\* run() refuses the imports of the command.
RefuseImports(w) ==
  /\ at[w] = "check"
  /\ answer' = [answer EXCEPT ![doing[w]] = Failure]
  /\ Goto(w, "return")
  /\ UNCHANGED <<shutdown, queue, future, doing, then, tries, session, repl, env>>

\* The memory of a living process is near the limit, or not.
CheckMemory(w) ==
  /\ at[w] = "check"
  /\ \/ process[w] = "alive" /\ StartFor(w, "send")
     \/ Goto(w, "send") /\ UNCHANGED <<then, repl>>
  /\ UNCHANGED <<pool, doing, tries, session, env>>

\* _run() writes the command, unless the process is not there.
Send(w) ==
  /\ at[w] = "send"
  /\ IF process[w] = "alive"
       THEN /\ busy' = [busy EXCEPT ![w] = doing[w]]
            /\ Goto(w, "wait")
            /\ UNCHANGED <<then, process, base, loaded, pipe>>
       ELSE StartFor(w, "retry")
  /\ UNCHANGED <<pool, doing, tries, session, env>>

\* The process dies under the write, whose exception run() does not catch.
BreakPipe(w) ==
  /\ at[w] = "send" /\ process[w] = "alive"
  /\ process' = [process EXCEPT ![w] = "dead"]
  /\ Goto(w, "raise")
  /\ UNCHANGED <<pool, doing, then, tries, session, base, loaded, busy, pipe, env>>

\* The first response in the pipe is taken for the command's.
Read(w) ==
  /\ at[w] = "wait" /\ pipe[w] # <<>>
  /\ answer' = [answer EXCEPT ![doing[w]] = Head(pipe[w])]
  /\ pipe' = [pipe EXCEPT ![w] = Tail(@)]
  /\ Goto(w, "return")
  /\ UNCHANGED <<shutdown, queue, future, doing, then, tries, session, process, base, loaded, busy, env>>

\* Variant with a bug: a process that is late is asked again.
RunFailsKept(w) ==
  /\ at[w] = "wait"
  /\ Goto(w, "send")
  /\ UNCHANGED <<pool, doing, then, tries, session, repl, env>>

\* The process has exited, the time is up, or the response is too long or no JSON.
RunFails(w) ==
  /\ at[w] = "wait"
  /\ StartFor(w, "retry")
  /\ UNCHANGED <<pool, doing, tries, session, env>>

\* A future that was cancelled stays so.
Settle(w, state) ==
  /\ future' = [future EXCEPT ![doing[w]] = IF @ = "cancelled" THEN @ ELSE state]
  /\ doing' = [doing EXCEPT ![w] = None]
  /\ Goto(w, "get")

Return(w) ==
  /\ at[w] = "return"
  /\ Settle(w, "result")
  /\ UNCHANGED <<shutdown, queue, answer, then, tries, session, repl, env>>

\* Variant with a bug: an exception ends the worker.
RaiseEnds(w) ==
  /\ at[w] = "raise"
  /\ Goto(w, "ended")
  /\ Close(w)
  /\ UNCHANGED <<pool, doing, then, tries, session, env>>

\* run() or the first start() raises: a session whose process is gone is dropped.
Raise(w) ==
  /\ at[w] = "raise"
  /\ Settle(w, "exception")
  /\ IF process[w] = "alive" THEN UNCHANGED <<session, repl>>
                             ELSE Close(w) /\ session' = [session EXCEPT ![w] = FALSE]
  /\ UNCHANGED <<shutdown, queue, answer, then, tries, env>>

---------------------------------------------------------------------------

WorkerStep(w) ==
  \/ Take(w) \/ FindEmpty(w) \/ End(w) \/ Started(w) \/ StartFails(w)
  \/ RefuseImports(w) \/ CheckMemory(w) \/ Send(w) \/ BreakPipe(w)
  \/ Read(w) \/ RunFails(w) \/ Return(w) \/ Raise(w)

Next ==
  \/ Shutdown
  \/ \E c \in Calls : Submit(c) \/ Put(c) \/ Cancel(c)
  \/ \E w \in Workers : WorkerStep(w) \/ Die(w) \/ Respond(w)

\* Threads run, a start and a command have timeouts.
Fairness ==
  /\ \A w \in Workers : WF_vars(WorkerStep(w))
  /\ \A c \in Calls : WF_vars(Put(c))

Spec == Init /\ [][Next]_vars /\ Fairness

---------------------------------------------------------------------------
(* Properties *)

\* The variables keep their types.
CallTypes ==
  /\ shutdown \in BOOLEAN /\ queue \in Seq(Calls)
  /\ future \in [Calls -> {"new", "admitted", "pending"} \cup Settled]
  /\ answer \in [Calls -> Calls \cup {None, Failure}]

ThreadTypes ==
  /\ at \in [Workers -> Places] /\ doing \in [Workers -> Calls \cup {None}]
  /\ then \in [Workers -> {None, "run", "send", "retry"}] /\ tries \in [Workers -> 0..MaxRetries]
  /\ session \in [Workers -> BOOLEAN]

ReplTypes ==
  /\ process \in [Workers -> {None, "alive", "dead"}]
  /\ base \in [Workers -> BOOLEAN] /\ loaded \in [Workers -> BOOLEAN] /\ env \in [Workers -> BOOLEAN]
  /\ busy \in [Workers -> Calls \cup {None}] /\ pipe \in [Workers -> Seq(Calls)]

TypeOK == CallTypes /\ ThreadTypes /\ ReplTypes

\* A call gets the response to its own command or an error, never what a command
\* that timed out left in the pipe.
AnswersOwn == \A c \in Calls : answer[c] \in {None, Failure, c}

\* A command runs in the environment of the header, although run() reads the number of
\* that environment before the check of the memory and the retries restart the process.
OnBase == \A w \in Workers : busy[w] # None => env[w] /\ loaded[w]

\* A process that lives belongs to a session or is being started: no failure of a
\* start, a retry or the pool leaves one behind.
NoOrphan == \A w \in Workers : process[w] = "alive" => session[w] \/ at[w] = "start"

\* As long as the pool is not shut down, every call gets an answer or an exception,
\* whatever happens to the processes.
Served == \A c \in Calls : (future[c] = "pending") ~> (future[c] \in Settled \/ shutdown)

=============================================================================
