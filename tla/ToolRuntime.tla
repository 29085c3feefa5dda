---------------------------- MODULE ToolRuntime ----------------------------
(***************************************************************************)
(* How an agent's tool calls are executed (core/mcp/tool_runtime.py) on    *)
(* the sessions its manager keeps with the tool servers                    *)
(* (core/mcp/manager.py, core/mcp/client.py).                              *)
(*                                                                         *)
(* The calls of one answer are a batch: they are executed one after the    *)
(* other.  A call whose server fails evicts the session; a server with a   *)
(* reconnect callback is then started again and the call retried once.     *)
(* Results that are too long are written to a file named by the id of the  *)
(* call, and the conversation gets the name of the file.                   *)
(***************************************************************************)
EXTENDS Naturals, Sequences, SequencesExt, FiniteSets

CONSTANTS
  Servers,        \* MCP servers; a tool is known by the one it belongs to
  Restartable,    \* those whose configuration has a reconnect callback
  Lengthy,        \* those whose tools give results over their limit
  PersistDir,     \* whether there is a persist_dir
  MaxDeaths       \* how often servers die (bound of the model)

ASSUME RuntimeAssumption ==
  /\ IsFiniteSet(Servers)
  /\ Restartable \subseteq Servers /\ Lengthy \subseteq Servers
  /\ PersistDir \in BOOLEAN
  /\ MaxDeaths \in Nat

VARIABLES
  batch,      \* calls under execution, [n, id, named, tool]; n is the call's number
  results,    \* results so far, [n, id, ok, file]: file says that it names a file
  phase,      \* of the batch's next call: "idle", "session", "call", "restart", "again"
  discovered, \* servers whose tools the manager knows
  sessions,   \* _sessions: for every server its client's number, 0 if there is none
  open,       \* clients that are connected, <<server, number>>
  alive,      \* servers that run
  deaths,
  disk        \* tool-results/: the number of the call whose result a file has, by id

toolVars == <<batch, results, phase, discovered, sessions, open, alive, deaths, disk>>

ToolInit ==
  /\ batch = <<>> /\ results = <<>> /\ phase = "idle"
  /\ discovered = Servers
  /\ sessions = [s \in Servers |-> 1]
  /\ open = Servers \X {1}
  /\ alive = Servers /\ deaths = 0
  /\ disk = <<>>

---------------------------------------------------------------------------

Current == batch[Len(results) + 1]

\* execute() has a call to begin with.
Fetching == phase = "idle" /\ Len(results) < Len(batch)

\* The current call has its result, and the next one's turn comes.
AnsweredWith(ok, file) ==
  /\ results' = Append(results, [n |-> Current.n, id |-> Current.id, ok |-> ok, file |-> file])
  /\ phase' = "idle"
  /\ UNCHANGED batch

\* Errors are short and stay in the conversation.
Errs == AnsweredWith(FALSE, FALSE) /\ UNCHANGED disk

\* The files after the given results were written, in their order.
Written(rs) ==
  [id \in DOMAIN disk \cup {r.id : r \in rs} |->
     IF \E r \in rs : r.id = id THEN (CHOOSE r \in rs : r.id = id /\ \A q \in rs : q.id = id => q.n <= r.n).n
                             ELSE disk[id]]

\* A result within the limit of its tool or cut short, or one that _persist_result()
\* writes to a file.
Completes ==
  IF PersistDir /\ Current.tool \in Lengthy
  THEN AnsweredWith(TRUE, TRUE) /\ disk' = Written({Current})
  ELSE AnsweredWith(TRUE, FALSE) /\ UNCHANGED disk

\* A call without a name, or of a tool the agent may not use.
Refuse ==
  /\ Fetching
  /\ ~Current.named \/ Current.tool \notin discovered
  /\ Errs
  /\ UNCHANGED <<discovered, sessions, open, alive, deaths>>

BeginTool ==
  /\ Fetching
  /\ Current.named /\ Current.tool \in discovered
  /\ phase' = "session"
  /\ UNCHANGED <<batch, results, discovered, sessions, open, alive, deaths, disk>>

\* A client with a number that no connected client of the server has.
Connected(s) ==
  LET n == CHOOSE n \in 1..(Cardinality(open) + 1) : <<s, n>> \notin open
  IN  /\ sessions' = [sessions EXCEPT ![s] = n]
      /\ open' = open \cup {<<s, n>>}

\* _get_session(), before the first try (phase "session") and after a restart.
GetSession ==
  /\ phase = "session"
  /\ phase' = "call"
  /\ \/ /\ sessions[Current.tool] # 0
        /\ UNCHANGED <<sessions, open>>
     \/ /\ sessions[Current.tool] = 0 /\ Current.tool \in alive
        /\ Connected(Current.tool)
  /\ UNCHANGED <<batch, results, discovered, alive, deaths, disk>>

\* There is no session and none can be had: the call fails, and the callback is
\* not called, for this is outside the manager's try.
NoSession ==
  /\ phase = "session"
  /\ sessions[Current.tool] = 0
  /\ Errs
  /\ UNCHANGED <<discovered, sessions, open, alive, deaths>>

CallSucceeds ==
  /\ phase \in {"call", "again"}
  /\ Current.tool \in alive
  /\ Completes
  /\ UNCHANGED <<discovered, sessions, open, alive, deaths>>

\* The session is taken from the dictionary and its client closed.
Evict ==
  /\ sessions' = [sessions EXCEPT ![Current.tool] = 0]
  /\ open' = open \ {<<Current.tool, sessions[Current.tool]>>}

\* External: the call timed out, or its server has died.  That a server is dead is
\* seen by nobody but the calls and the connections to it.
MayDie ==
  \/ UNCHANGED <<alive, deaths>>
  \/ deaths < MaxDeaths /\ alive' = alive \ {Current.tool} /\ deaths' = deaths + 1

CallFails ==
  /\ phase = "call"
  /\ Evict
  /\ IF Current.tool \in Restartable
     THEN phase' = "restart" /\ UNCHANGED <<batch, results, disk>>
     ELSE Errs
  /\ MayDie /\ UNCHANGED discovered

\* The callback starts the server, or joins the one that runs, and the manager
\* connects to it.
Restart ==
  /\ phase = "restart"
  /\ alive' = alive \cup {Current.tool}
  /\ Connected(Current.tool)
  /\ phase' = "again"
  /\ UNCHANGED <<batch, results, discovered, deaths, disk>>

\* The callback fails, or the connection to the server it started does.
RestartFails ==
  /\ phase = "restart"
  /\ alive' \in {alive, alive \cup {Current.tool}}
  /\ Errs
  /\ UNCHANGED <<discovered, sessions, open, deaths>>

\* Variant with a bug: the session of the retry is not closed.
RetryFailsUnclosed ==
  /\ phase = "again"
  /\ sessions' = [sessions EXCEPT ![Current.tool] = 0]
  /\ Errs
  /\ UNCHANGED <<discovered, open, alive, deaths>>

\* The retried call fails as well: failed_session is closed and the call fails.
RetryFails ==
  /\ phase = "again"
  /\ Evict
  /\ Errs
  /\ MayDie /\ UNCHANGED discovered

\* _apply_aggregate_budget(): some results that are no errors and in no file yet.
Eligible == IF PersistDir THEN {k \in DOMAIN results : results[k].ok /\ ~results[k].file} ELSE {}
Budgeted(kept) ==
  [k \in DOMAIN results |-> IF k \in kept THEN [results[k] EXCEPT !.file = TRUE] ELSE results[k]]

BatchDone == phase = "idle" /\ batch # <<>> /\ Len(results) = Len(batch)

\* discover_tools(), when an agent starts: the servers that cannot be reached are
\* skipped, and their tools are not known.
Discover ==
  /\ discovered' = alive
  /\ sessions' = [s \in Servers |-> IF s \in alive THEN 1 ELSE 0]
  /\ open' = open \cup (alive \X {1})
  /\ UNCHANGED <<batch, results, phase, alive, deaths, disk>>

\* close_all()
CloseAll ==
  /\ batch' = <<>> /\ results' = <<>> /\ phase' = "idle"
  /\ sessions' = [s \in Servers |-> 0]
  /\ open' = open \ {<<s, sessions[s]>> : s \in Servers}
  /\ UNCHANGED <<discovered, alive, deaths, disk>>

ToolStep ==
  \/ Refuse \/ BeginTool \/ GetSession \/ NoSession
  \/ CallSucceeds \/ CallFails \/ Restart \/ RestartFails \/ RetryFails

---------------------------------------------------------------------------
(* Properties *)

\* Every client that is connected is the session the manager knows: none stays
\* connected that nobody will close, whatever failed before, at whichever try.
NoClientLeft == open = {<<s, sessions[s]>> : s \in {t \in Servers : sessions[t] # 0}}

\* "Provides a reconnect callback so the MCP manager can auto-restart the server if
\* it dies" (tools/execution/lean/repl/server.py:287): a call of a server with a
\* callback fails only when a restart was tried.  Violated: after a restart that
\* failed there is no session, and without one the callback is never called again.
RestartTried ==
  [][phase = "session" /\ phase' = "idle" => Current.tool \notin Restartable]_toolVars
=============================================================================
