----------------------------- MODULE LspSession -----------------------------
(***************************************************************************)
(* The language server tools: a manager that keeps one session for a       *)
(* workspace (tools/execution/lsp/server.py,                               *)
(* tools/execution/lean/native_lsp/server.py), the session with its        *)
(* subprocess (lsp/session.py, lean/native_lsp/session.py), and the thread *)
(* that reads what the server writes (lsp/endpoint.py, lsp/json_rpc.py).   *)
(*                                                                         *)
(* The tools run on threads of their own and share the session of a        *)
(* workspace.  Requests are matched to answers by ids.  The diagnostics of *)
(* a text are not: the reader sets an event when the server says that it   *)
(* has processed something, and whoever waits takes the last diagnostics.  *)
(*                                                                         *)
(* Texts and requests are numbered here in the order they are sent.        *)
(***************************************************************************)
EXTENDS Integers, Sequences

CONSTANTS
  Callers,     \* threads that run tools
  MaxCalls,    \* calls of tools (bound of the model)
  MaxStarts,   \* language servers that are spawned (bound of the model)
  MaxFailures  \* how often a server or a reader dies (bound of the model)

ASSUME LspAssumption ==
  /\ {MaxCalls, MaxStarts, MaxFailures} \subseteq Nat
  /\ "free" \notin Callers

VARIABLES
  kind,        \* of the session: "lean" or "generic"
  pc,          \* where each caller is
  op,          \* the tool it runs: "check", "file", "look" or "ask"
  stage,       \* what a Lean check waits for: "warm", "check" or "file"
  mine,        \* the text or the request the caller has sent, its number and its id
  got,         \* what the last call gave the caller
  calls,
  lock,        \* of the manager: the caller that has it, or "free"
  kept,        \* the process of the session the manager has, 0 if none
  spawned, processes,       \* processes so far, and those that run
  orphans,     \* processes of starts that failed
  nextId, waiting, answers, notified,  \* _next_id, _event_dict, _response_dict, conditions
  processed, last, warmed,  \* the event, last_diagnostics, _warmed_up
  asked, work, inbox,       \* at the server: requests, texts; on the way back: messages
  reader,      \* the endpoint's thread: "none", "up" or "down"
  handling,    \* the id whose condition the reader is about to notify
  sent, requests,           \* texts and requests so far
  failures,
  disturbed,   \* a wait for the event timed out, or two of them overlapped
  closing      \* close_all(): "no", "stopping" or "done"

managerVars == <<calls, lock, kept, spawned, processes, orphans>>
endpointVars == <<nextId, waiting, answers, notified>>
leanVars == <<processed, last, warmed>>
serverVars == <<asked, work>>
readerVars == <<reader, handling>>
historyVars == <<sent, requests, failures, disturbed>>
callerVars == <<pc, op, stage, mine, got>>
lspVars == <<kind, callerVars, managerVars, endpointVars, leanVars, serverVars, inbox, readerVars, historyVars, closing>>

Nothing == [number |-> 0, id |-> 0, of |-> 0]
NoId == -1

LspInit ==
  /\ kind \in {"lean", "generic"}
  /\ pc = [c \in Callers |-> "idle"] /\ op = [c \in Callers |-> "ask"]
  /\ stage = [c \in Callers |-> "warm"]
  /\ mine = [c \in Callers |-> Nothing] /\ got = [c \in Callers |-> Nothing]
  /\ calls = 0 /\ lock = "free" /\ kept = 0 /\ spawned = 0 /\ processes = {} /\ orphans = {}
  /\ nextId = 0 /\ waiting = {} /\ answers = <<>> /\ notified = {}
  /\ processed = FALSE /\ last = 0 /\ warmed = FALSE
  /\ asked = {} /\ work = {} /\ inbox = <<>>
  /\ reader = "none" /\ handling = NoId
  /\ sent = 0 /\ requests = 0 /\ failures = 0 /\ disturbed = FALSE /\ closing = "no"

---------------------------------------------------------------------------
(* The manager *)

Ops == IF kind = "lean" THEN {"check", "file", "ask"} ELSE {"look", "ask"}
Alive == spawned \in processes

At(c, place) == pc' = [pc EXCEPT ![c] = place]

\* The tool returns or raises; its caller forgets.
EndCall(c, result) ==
  /\ At(c, "idle")
  /\ got' = [got EXCEPT ![c] = result]
  /\ mine' = [mine EXCEPT ![c] = Nothing]
  /\ stage' = [stage EXCEPT ![c] = "warm"]
  /\ op' = [op EXCEPT ![c] = "ask"]

BeginCall(c) ==
  /\ pc[c] = "idle" /\ calls < MaxCalls /\ closing = "no"
  /\ calls' = calls + 1
  /\ \E o \in Ops : op' = [op EXCEPT ![c] = o]
  /\ At(c, "lock")
  /\ got' = [got EXCEPT ![c] = Nothing]
  /\ UNCHANGED <<kind, stage, mine, lock, kept, spawned, processes, orphans, endpointVars, leanVars,
                 serverVars, inbox, readerVars, historyVars, closing>>

\* get_session() finds one.
GetSession(c) ==
  /\ pc[c] = "lock" /\ lock = "free" /\ kept # 0
  /\ At(c, "ready")
  /\ UNCHANGED <<kind, op, stage, mine, got, managerVars, endpointVars, leanVars, serverVars, inbox,
                 readerVars, historyVars, closing>>

\* call_method(): register the condition and send the request.
Request(c, ids) ==
  /\ mine' = [mine EXCEPT ![c] = [number |-> requests + 1, id |-> nextId, of |-> 0]]
  /\ requests' = requests + 1
  /\ nextId' = nextId + 1
  /\ waiting' = ids \cup {nextId}

\* get_session() finds none: the server is spawned and sent the request to
\* initialize, under the manager's lock.
Spawn(c) ==
  /\ pc[c] = "lock" /\ lock = "free" /\ kept = 0 /\ spawned < MaxStarts
  /\ lock' = c
  /\ spawned' = spawned + 1 /\ processes' = processes \cup {spawned + 1}
  /\ reader' = "up"
  /\ Request(c, {}) /\ asked' = {[id |-> nextId, number |-> requests + 1]}
  /\ At(c, "init")
  /\ UNCHANGED <<kind, op, stage, got, calls, kept, orphans, answers, notified, leanVars, work, inbox,
                 handling, sent, failures, disturbed, closing>>

\* The server cannot be spawned.
NoProcess(c) ==
  /\ pc[c] = "lock" /\ lock = "free" /\ kept = 0
  /\ EndCall(c, Nothing)
  /\ UNCHANGED <<kind, managerVars, endpointVars, leanVars, serverVars, inbox, readerVars, historyVars, closing>>

\* The caller was notified: the answer is taken from the dictionaries.
Taken(c) ==
  /\ mine[c].id \in notified
  /\ waiting' = waiting \ {mine[c].id}
  /\ notified' = notified \ {mine[c].id}
  /\ answers' = [i \in DOMAIN answers \ {mine[c].id} |-> answers[i]]
  /\ UNCHANGED nextId

\* The server is initialized, and the session is kept.
SessionStarted(c) ==
  /\ pc[c] = "init" /\ Taken(c) /\ answers[mine[c].id].ok /\ Alive
  /\ kept' = spawned /\ lock' = "free"
  /\ At(c, "ready")
  /\ mine' = [mine EXCEPT ![c] = Nothing]
  /\ UNCHANGED <<kind, op, stage, got, calls, spawned, processes, orphans, leanVars, serverVars, inbox,
                 readerVars, historyVars, closing>>

\* The answer is an error or too late, or the server is dead: start() raises, and
\* nobody closes what it has begun.
SessionFails(c) ==
  /\ pc[c] = "init"
  /\ EndCall(c, Nothing)
  /\ lock' = "free"
  /\ orphans' = orphans \cup (processes \cap {spawned})
  /\ nextId' = 0 /\ waiting' = {} /\ answers' = <<>> /\ notified' = {}
  /\ asked' = {} /\ work' = {} /\ inbox' = <<>> /\ reader' = "none" /\ handling' = NoId
  /\ UNCHANGED <<kind, calls, kept, spawned, processes, leanVars, historyVars, closing>>

---------------------------------------------------------------------------
(* Checks *)

Checking == {c \in Callers : pc[c] \in {"cleared", "waiting", "read"}}

\* Variant with a bug: the event is not cleared before the text is sent.
ClearNot(c) ==
  /\ pc[c] = "ready" /\ op[c] \in {"check", "file"}
  /\ stage' = [stage EXCEPT ![c] = IF op[c] = "file" THEN "file" ELSE IF warmed THEN "check" ELSE "warm"]
  /\ At(c, "cleared")
  /\ disturbed' = (disturbed \/ Checking # {})
  /\ UNCHANGED <<kind, op, mine, got, managerVars, endpointVars, leanVars, serverVars, inbox, readerVars,
                 sent, requests, failures, closing>>

\* check_code(), with a warm-up before the first check, and run_file().
Clear(c) ==
  /\ pc[c] = "ready" /\ op[c] \in {"check", "file"}
  /\ stage' = [stage EXCEPT ![c] = IF op[c] = "file" THEN "file" ELSE IF warmed THEN "check" ELSE "warm"]
  /\ processed' = FALSE
  /\ At(c, "cleared")
  /\ disturbed' = (disturbed \/ Checking # {})
  /\ UNCHANGED <<kind, op, mine, got, managerVars, endpointVars, last, warmed, serverVars, inbox, readerVars,
                 sent, requests, failures, closing>>

\* didOpen or didChange; the generic tool opens the file and sleeps.
SendText(c) ==
  /\ pc[c] = "cleared" \/ (pc[c] = "ready" /\ op[c] = "look")
  /\ Alive
  /\ At(c, IF op[c] = "look" THEN "asleep" ELSE "waiting")
  /\ sent' = sent + 1
  /\ mine' = [mine EXCEPT ![c] = [Nothing EXCEPT !.number = sent + 1]]
  /\ work' = work \cup {[number |-> sent + 1, told |-> FALSE]}
  /\ UNCHANGED <<kind, op, stage, got, managerVars, endpointVars, leanVars, asked, inbox, readerVars,
                 requests, failures, disturbed, closing>>

\* The pipe to a server that is dead is broken; a request stays registered.
SendFails(c) ==
  /\ pc[c] = "cleared" \/ (pc[c] = "ready" /\ op[c] \in {"look", "ask"})
  /\ ~Alive
  /\ EndCall(c, Nothing)
  /\ IF op[c] = "ask"
     THEN waiting' = waiting \cup {nextId} /\ nextId' = nextId + 1
     ELSE UNCHANGED <<waiting, nextId>>
  /\ UNCHANGED <<kind, managerVars, answers, notified, leanVars, serverVars, inbox, readerVars, historyVars, closing>>

\* The event is set: the check begins after the warm-up, or its result is read next.
Processed(c) ==
  /\ pc[c] = "waiting" /\ processed
  /\ IF stage[c] = "warm"
     THEN warmed' = TRUE /\ At(c, "ready")
     ELSE At(c, "read") /\ UNCHANGED warmed
  /\ UNCHANGED <<kind, op, stage, mine, got, managerVars, endpointVars, processed, last, serverVars, inbox,
                 readerVars, historyVars, closing>>

CheckTimesOut(c) ==
  /\ pc[c] = "waiting" /\ ~processed
  /\ EndCall(c, Nothing)
  /\ disturbed' = TRUE
  /\ UNCHANGED <<kind, managerVars, endpointVars, leanVars, serverVars, inbox, readerVars,
                 sent, requests, failures, closing>>

\* The last diagnostics are returned, whichever text they are of.
ReadDiagnostics(c) ==
  /\ pc[c] \in {"read", "asleep"}
  /\ EndCall(c, [number |-> mine[c].number, id |-> 0, of |-> last])
  /\ UNCHANGED <<kind, managerVars, endpointVars, leanVars, serverVars, inbox, readerVars, historyVars, closing>>

---------------------------------------------------------------------------
(* Requests: hover, definition, the goals of a proof *)

Ask(c) ==
  /\ pc[c] = "ready" /\ op[c] = "ask" /\ Alive
  /\ Request(c, waiting) /\ asked' = asked \cup {[id |-> nextId, number |-> requests + 1]}
  /\ At(c, "asking")
  /\ UNCHANGED <<kind, op, stage, got, managerVars, answers, notified, leanVars, work, inbox, readerVars,
                 sent, failures, disturbed, closing>>

Answered(c) ==
  /\ pc[c] = "asking" /\ Taken(c)
  /\ EndCall(c, IF answers[mine[c].id].ok THEN [mine[c] EXCEPT !.of = answers[mine[c].id].number] ELSE Nothing)
  /\ UNCHANGED <<kind, managerVars, leanVars, serverVars, inbox, readerVars, historyVars, closing>>

\* The condition and an answer that comes later stay in the dictionaries.
AskTimesOut(c) ==
  /\ pc[c] = "asking" /\ mine[c].id \notin notified
  /\ EndCall(c, Nothing)
  /\ UNCHANGED <<kind, managerVars, endpointVars, leanVars, serverVars, inbox, readerVars, historyVars, closing>>

---------------------------------------------------------------------------
(* The reader *)

\* Variant with a bug: answers are taken to come in the order of the requests.
DispatchInOrder ==
  /\ reader = "up" /\ handling = NoId /\ inbox # <<>>
  /\ LET m == Head(inbox)
         oldest == CHOOSE i \in waiting : \A j \in waiting : i <= j
     IN  /\ last' = IF m.about = "diagnostics" THEN m.number ELSE last
         /\ processed' = (processed \/ m.about = "done")
         /\ IF m.about = "answer" /\ waiting # {}
            THEN /\ handling' = oldest
                 /\ answers' = [i \in DOMAIN answers \cup {oldest} |->
                                  IF i = oldest THEN [number |-> m.number, ok |-> m.ok] ELSE answers[i]]
            ELSE UNCHANGED <<handling, answers>>
  /\ inbox' = Tail(inbox)
  /\ UNCHANGED <<kind, callerVars, managerVars, nextId, waiting, notified, warmed, serverVars, reader,
                 historyVars, closing>>

\* run(), _dispatch(): the callbacks of notifications, and the answer of a request,
\* which is stored before its condition is notified.
Dispatch ==
  /\ reader = "up" /\ handling = NoId /\ inbox # <<>>
  /\ LET m == Head(inbox)
     IN  /\ last' = IF m.about = "diagnostics" THEN m.number ELSE last
         /\ processed' = (processed \/ m.about = "done")
         /\ IF m.about = "answer"
            THEN /\ handling' = m.id
                 /\ answers' = [i \in DOMAIN answers \cup {m.id} |->
                                  IF i = m.id THEN [number |-> m.number, ok |-> m.ok] ELSE answers[i]]
            ELSE UNCHANGED <<handling, answers>>
  /\ inbox' = Tail(inbox)
  /\ UNCHANGED <<kind, callerVars, managerVars, nextId, waiting, notified, warmed, serverVars, reader,
                 historyVars, closing>>

Notify ==
  /\ handling # NoId
  /\ handling' = NoId
  /\ notified' = notified \cup ({handling} \cap {mine[c].id : c \in {d \in Callers : pc[d] \in {"init", "asking"}}})
  /\ UNCHANGED <<kind, callerVars, managerVars, nextId, waiting, answers, leanVars, serverVars, inbox, reader,
                 historyVars, closing>>

\* The end of the stream, and stop().
ReaderEnds ==
  /\ reader = "up" /\ handling = NoId
  /\ closing # "no" \/ (inbox = <<>> /\ ~Alive)
  /\ reader' = "down" /\ inbox' = <<>> /\ asked' = {} /\ work' = {}
  /\ UNCHANGED <<kind, callerVars, managerVars, endpointVars, leanVars, handling,
                 historyVars, closing>>

\* A message that cannot be decoded or validated: the exception ends the thread.
ReaderFails ==
  /\ reader = "up" /\ handling = NoId /\ closing = "no" /\ failures < MaxFailures
  /\ reader' = "down" /\ inbox' = <<>> /\ asked' = {} /\ work' = {}
  /\ failures' = failures + 1
  /\ UNCHANGED <<kind, callerVars, managerVars, endpointVars, leanVars, handling,
                 sent, requests, disturbed, closing>>

---------------------------------------------------------------------------
(* External: the language server.  What it writes when there is no reader is lost. *)

Heard == reader = "up" /\ closing = "no"

ServerUnchanged == UNCHANGED <<kind, callerVars, managerVars, endpointVars, leanVars, readerVars, historyVars, closing>>

\* Requests are answered in any order, some with an error.
ServerAnswers ==
  \E r \in asked, ok \in BOOLEAN :
    /\ Heard
    /\ asked' = asked \ {r}
    /\ inbox' = Append(inbox, [about |-> "answer", id |-> r.id, number |-> r.number, ok |-> ok])
    /\ UNCHANGED work /\ ServerUnchanged

\* The diagnostics of a text come before the notice that it was processed, which
\* the generic session does not listen to; a text that is replaced is given up.
ServerDiagnoses ==
  \E w \in work :
    /\ Heard
    /\ work' = IF w.told \/ kind = "generic" THEN work \ {w} ELSE (work \ {w}) \cup {[w EXCEPT !.told = TRUE]}
    /\ inbox' = Append(inbox, [about |-> IF w.told THEN "done" ELSE "diagnostics", number |-> w.number, id |-> NoId, ok |-> TRUE])
    /\ UNCHANGED asked /\ ServerUnchanged

ServerGivesUp ==
  \E w \in work :
    /\ Heard
    /\ \E v \in work : v.number > w.number
    /\ work' = work \ {w}
    /\ UNCHANGED <<asked, inbox>> /\ ServerUnchanged

ServerDies ==
  /\ Alive /\ closing = "no" /\ failures < MaxFailures
  /\ processes' = processes \ {spawned}
  /\ failures' = failures + 1
  /\ asked' = {} /\ work' = {}
  /\ UNCHANGED <<kind, callerVars, calls, lock, kept, spawned, orphans, endpointVars, leanVars, inbox,
                 readerVars, sent, requests, disturbed, closing>>

---------------------------------------------------------------------------
(* The end *)

\* close_all(), when the program ends: the reader is stopped before the request to
\* shut down is sent, and nobody waits for its answer.
CloseAll ==
  /\ closing = "no" /\ lock = "free" /\ \A c \in Callers : pc[c] = "idle"
  /\ closing' = "stopping"
  /\ UNCHANGED <<kind, callerVars, managerVars, endpointVars, leanVars, serverVars, inbox, readerVars, historyVars>>

\* The reader has ended, or was waited for long enough; the process is terminated.
Terminate ==
  /\ closing = "stopping"
  /\ closing' = "done"
  /\ processes' = processes \ {kept}
  /\ kept' = 0
  /\ asked' = {} /\ work' = {}
  /\ UNCHANGED <<kind, callerVars, calls, lock, spawned, orphans, endpointVars, leanVars, inbox, readerVars, historyVars>>

CallerStep(c) ==
  \/ GetSession(c) \/ Spawn(c) \/ NoProcess(c) \/ SessionStarted(c) \/ SessionFails(c)
  \/ Clear(c) \/ SendText(c) \/ SendFails(c) \/ Processed(c) \/ CheckTimesOut(c) \/ ReadDiagnostics(c)
  \/ Ask(c) \/ Answered(c) \/ AskTimesOut(c)

Server == ServerAnswers \/ ServerDiagnoses \/ ServerGivesUp \/ ServerDies

LspNext ==
  \/ \E c \in Callers : BeginCall(c) \/ CallerStep(c)
  \/ Dispatch \/ Notify \/ ReaderEnds \/ ReaderFails
  \/ Server \/ CloseAll \/ Terminate

\* Every thread runs on, and every wait has a timeout.
LspFairness == (\A c \in Callers : WF_lspVars(CallerStep(c))) /\ WF_lspVars(Terminate)

LspSpec == LspInit /\ [][LspNext]_lspVars /\ LspFairness

---------------------------------------------------------------------------
(* Properties *)

Slots == [number: Nat, id: Nat, of: Nat]
Messages == [about: {"answer", "diagnostics", "done"}, number: Nat, id: Int, ok: BOOLEAN]

\* The variables keep their types.
LspTypeOK ==
  /\ kind \in {"lean", "generic"} /\ closing \in {"no", "stopping", "done"}
  /\ pc \in [Callers -> {"idle", "lock", "init", "ready", "cleared", "waiting", "read", "asleep", "asking"}]
  /\ op \in [Callers -> {"check", "file", "look", "ask"}]
  /\ stage \in [Callers -> {"warm", "check", "file"}]
  /\ mine \in [Callers -> Slots] /\ got \in [Callers -> Slots]
  /\ lock \in Callers \cup {"free"}
  /\ {kept, spawned, nextId, sent, requests, last} \subseteq Nat
  /\ {processed, warmed, disturbed} \subseteq BOOLEAN
  /\ asked \subseteq [id: Nat, number: Nat] /\ work \subseteq [number: Nat, told: BOOLEAN]
  /\ inbox \in Seq(Messages) /\ handling \in Nat \cup {NoId}
  /\ waiting \subseteq Nat /\ notified \subseteq Nat
  /\ \A i \in DOMAIN answers : i \in Nat /\ answers[i] \in [number: Nat, ok: BOOLEAN]

\* A request is never given the answer of another one, although requests overlap,
\* time out and are answered late and in any order.
AnswerIsOwn == \A c \in Callers : got[c].id # 0 => got[c].of = got[c].number

\* A Lean check returns the diagnostics of its own text, not those of the warm-up or of
\* an earlier check, as long as no wait timed out and no two checks overlapped.
DiagnosticsAreOwn == kind = "lean" /\ ~disturbed => \A c \in Callers : got[c].of = got[c].number

\* Every tool call ends, with servers that never answer, die, or cannot be started.
CallEnds == \A c \in Callers : pc[c] # "idle" ~> pc[c] = "idle"

\* "Diagnostics from the Lean server, or None on timeout" (native_lsp/session.py:159):
\* the same without the condition.  Violated: after a timeout the event is set by the
\* late end of the earlier text; and by the other's, when two checks overlap.
DiagnosticsAlwaysOwn == kind = "lean" => \A c \in Callers : got[c].of = got[c].number

\* "Open a file in the language server and return diagnostics" (lsp/server.py:78):
\* violated, the generic tool sleeps half a second and returns what there is.
LookIsOwn == \A c \in Callers : got[c].of = got[c].number

\* No language server is left behind by the end.  Violated by a start that fails.
NoServerLeft == closing = "done" => processes = {}
=============================================================================
