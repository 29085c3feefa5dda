----------------------------- MODULE AgentLoop -----------------------------
(***************************************************************************)
(* An agent (core/agent/loop.py) with the conversation its inference       *)
(* client keeps (core/inference/openai_api.py), the interactive messages   *)
(* the web UI sends it, and its trace with the archive of the trace        *)
(* (autoform/bot/archive.py).                                              *)
(*                                                                         *)
(* Calls are serialized by a lock.  A call comes from the agent's owner    *)
(* (the orchestrator's loop, or a task's attempt) or from the agent's own  *)
(* queue consumer.  A task resets the pooled agent it is given; the agent   *)
(* of the orchestrator is loaded from its trace when the process starts.   *)
(*                                                                         *)
(* All tool calls of one answer are one message of role "calls", and all   *)
(* their results one of role "results".  Every message has a number, which *)
(* is history.  What the language model answers is any answer.             *)
(***************************************************************************)
EXTENDS Naturals, Sequences, SequencesExt, FiniteSets

CONSTANTS
  Pools,             \* whether the agent may be one of a pool (TRUE), or not (FALSE)
  MaxTurns,          \* max_turns
  MaxCutOffs,        \* _MAX_OUTPUT_RECOVERY
  MaxOverflows,      \* _MAX_REACTIVE_COMPACTIONS
  MaxCalls,          \* calls of the owner in one process (bound of the model)
  MaxSent,           \* interactive messages in one process (bound of the model)
  MaxStarts          \* processes, one after the other (bound of the model)

ASSUME AgentAssumption ==
  /\ Pools \subseteq BOOLEAN
  /\ MaxTurns \in Nat /\ MaxCutOffs \in Nat /\ MaxOverflows \in Nat
  /\ MaxCalls \in Nat /\ MaxSent \in Nat /\ MaxStarts \in Nat

VARIABLES
  pooled,        \* the agent is one of a pool
  life,          \* "down", "loaded" from the trace, or "running"
  starts,
  \* callers
  owner,         \* "idle", "waiting" for the lock or "calling"
  consumer,      \* "getting" from the queue, "waiting" for the lock or "calling"
  held,          \* the message the consumer waits with, or 0
  caller,        \* who has _call_lock: "nobody", "owner" or "consumer"
  waiters,       \* queue of the lock
  calls,         \* calls of the owner so far
  \* the loop
  place,         \* "rest", "top" of the loop, or what it awaits: "llm", "tools", "summary"
  after,         \* where the loop goes after a compaction: "top" or "return"
  turns,         \* total_turns
  cutOffs,       \* output_recovery_count
  overflows,     \* reactive_compaction_count
  \* the inference client
  conv,          \* _messages
  system,        \* whose system prompt: the "agent"'s or the "summarizer"'s
  snapshot,      \* saved_messages of the compaction under way
  said,          \* history: messages that have been added
  \* interactive messages, numbered in the order they are sent
  sent,
  delivered,     \* the first so many have reached the queue
  taken,         \* the first so many have left it
  told,          \* history: messages that were added to the conversation
  \* files
  saved,         \* messages of the trace
  archive,       \* numbers of the messages in the archive of the trace
  counted,       \* _message_counts: length of the conversation at the last save
  store          \* what the archive knows of the trace: "nothing", a "file" or its "count"

callers == <<owner, consumer, held, caller, waiters, calls>>
loopVars == <<place, after, turns, cutOffs, overflows>>
client == <<conv, system, snapshot, said>>
inbox == <<sent, delivered, taken, told>>
files == <<saved, archive, counted, store>>
agentVars == <<pooled, life, starts, callers, loopVars, client, inbox, files>>

Roles == {"user", "calls", "results", "text", "empty", "summary", "summarize"}
Messages == [role : Roles, n : Nat]

AgentInit ==
  /\ pooled \in Pools
  /\ life = "down" /\ starts = 0
  /\ owner = "idle" /\ consumer = "getting" /\ held = 0
  /\ caller = "nobody" /\ waiters = <<>> /\ calls = 0
  /\ place = "rest" /\ after = "top" /\ turns = 0 /\ cutOffs = 0 /\ overflows = 0
  /\ conv = <<>> /\ system = "agent" /\ snapshot = <<>> /\ said = 0
  /\ sent = 0 /\ delivered = 0 /\ taken = 0 /\ told = {}
  /\ saved = <<>> /\ archive = <<>> /\ counted = 0 /\ store = "nothing"

---------------------------------------------------------------------------
(* The conversation *)

\* The messages c, followed by new ones of the given roles.
With(c, roles) == c \o [i \in DOMAIN roles |-> [role |-> roles[i], n |-> said + i]]

Say(roles) ==
  /\ conv' = With(conv, roles)
  /\ said' = said + Len(roles)

\* cleanup_interrupted(): up to the last message that is safe to keep.
Trailing == {"calls", "results", "empty"}
Cleaned(c) ==
  LET kept == {k \in DOMAIN c : c[k].role \notin Trailing}
  IN  SubSeq(c, 1, IF kept = {} THEN 0 ELSE CHOOSE k \in kept : \A j \in kept : j <= k)

\* The last message, if it has tool calls, and what comes before it.
Open(c) == IF c # <<>> /\ Last(c).role = "calls" THEN <<Last(c)>> ELSE <<>>
Closed(c) == SubSeq(c, 1, Len(c) - Len(Open(c)))

\* Variant with a bug: a conversation that was compacted replaces the archive.
ArchivedAnew(c) ==
  LET Numbers(m) == [i \in DOMAIN m |-> m[i].n]
      count == IF store = "count" THEN counted ELSE Len(c)
  IN  IF store = "nothing" \/ Len(c) < count THEN Numbers(c)
      ELSE archive \o Numbers(SubSeq(c, count + 1, Len(c)))

\* ArchiveTraceStore.save(): the archive gets what the conversation has more than
\* at the last save, or all of it when it has less.
Archived(c) ==
  LET Numbers(m) == [i \in DOMAIN m |-> m[i].n]
      count == IF store = "count" THEN counted ELSE Len(c)
      fresh == SubSeq(c, IF Len(c) < count THEN 1 ELSE count + 1, Len(c))
  IN  IF store = "nothing" THEN Numbers(c) ELSE archive \o Numbers(fresh)

\* TraceStore.save() writes the trace, the subclass the archive.
Save(c) ==
  /\ saved' = c
  /\ archive' = Archived(c)
  /\ counted' = Len(c)
  /\ store' = "count"

---------------------------------------------------------------------------
(* The process *)

\* load_from_trace() in the coordinator's initialize().
Load ==
  /\ life = "down" /\ starts < MaxStarts
  /\ life' = "loaded"
  /\ starts' = starts + 1
  /\ conv' = IF pooled THEN <<>> ELSE Cleaned(saved)
  /\ UNCHANGED <<pooled, system, snapshot, said, callers, loopVars, inbox, files>>

\* __aenter__(): tools are discovered, the agent is reset, the consumer starts.
Enter ==
  /\ life = "loaded"
  /\ life' = "running"
  /\ conv' = <<>>
  /\ turns' = 0
  /\ UNCHANGED <<pooled, starts, callers, place, after, cutOffs, overflows, system, snapshot, said, inbox, files>>

\* Whatever lives in memory only.
Forget ==
  /\ life' = "down"
  /\ owner' = "idle" /\ consumer' = "getting" /\ held' = 0
  /\ caller' = "nobody" /\ waiters' = <<>> /\ calls' = 0
  /\ place' = "rest" /\ after' = "top" /\ turns' = 0 /\ cutOffs' = 0 /\ overflows' = 0
  /\ conv' = <<>> /\ system' = "agent" /\ snapshot' = <<>>
  /\ sent' = 0 /\ delivered' = 0 /\ taken' = 0 /\ told' = {}
  /\ UNCHANGED <<pooled, starts, said>>

AgentCrash ==
  /\ life = "running" /\ Forget
  /\ counted' = 0 /\ store' = IF store = "nothing" THEN "nothing" ELSE "file"
  /\ UNCHANGED <<saved, archive>>

\* A shutdown cancels the calls; finalize_trace() saves what they leave, and the
\* archive forgets its count of a finalized trace.
Shutdown ==
  /\ life = "running" /\ Forget
  /\ saved' = conv /\ archive' = Archived(conv)
  /\ counted' = 0 /\ store' = "file"

---------------------------------------------------------------------------
(* Callers *)

\* The lock is taken: the idle event is cleared, the message is added, and the
\* exchange begins.
BeginCall(c) ==
  /\ caller' = c
  /\ Say(<<"user">>)
  /\ place' = "top"
  /\ told' = IF c = "consumer" THEN told \cup {held} ELSE told
  /\ held' = IF c = "consumer" THEN 0 ELSE held
  /\ owner' = IF c = "owner" THEN "calling" ELSE owner
  /\ consumer' = IF c = "consumer" THEN "calling" ELSE consumer
  /\ UNCHANGED <<pooled, life, starts, calls, after, turns, cutOffs, overflows, system, snapshot, sent, delivered,
                 taken, files>>

Granted(c) == caller = "nobody" /\ waiters # <<>> /\ Head(waiters) = c

\* The first waiter gets the lock; who asks later queues behind it.
Acquire(c) ==
  /\ Granted(c)
  /\ waiters' = Tail(waiters)
  /\ BeginCall(c)

\* call()
AskForLock(c) ==
  /\ waiters' = Append(waiters, c)
  /\ owner' = IF c = "owner" THEN "waiting" ELSE owner
  /\ consumer' = IF c = "consumer" THEN "waiting" ELSE consumer

OwnerCalls ==
  /\ life = "running" /\ owner = "idle" /\ calls < MaxCalls
  /\ pooled => calls > 0
  /\ calls' = calls + 1
  /\ AskForLock("owner")
  /\ UNCHANGED <<pooled, life, starts, held, caller, loopVars, client, inbox, files>>

\* A task begins with a new trace, set_trace() and reset(), which ask for no lock,
\* and then calls.
BeginTask ==
  /\ pooled
  /\ life = "running" /\ owner = "idle" /\ calls < MaxCalls
  /\ calls' = calls + 1
  /\ AskForLock("owner")
  /\ conv' = <<>> /\ system' = "agent" /\ turns' = 0
  /\ saved' = <<>> /\ archive' = <<>> /\ counted' = 0 /\ store' = "nothing"
  /\ UNCHANGED <<pooled, life, starts, held, caller, place, after, cutOffs, overflows, snapshot, said, inbox>>

\* send_message() hands the message to the event loop.
Send ==
  /\ life = "running" /\ sent < MaxSent
  /\ sent' = sent + 1
  /\ UNCHANGED <<pooled, life, starts, callers, loopVars, client, delivered, taken, told, files>>

Deliver ==
  /\ delivered < sent
  /\ delivered' = delivered + 1
  /\ UNCHANGED <<pooled, life, starts, callers, loopVars, client, sent, taken, told, files>>

\* _consume_queue(): the idle event is set whenever the consumer comes back to it,
\* so that all it ever waits for is the queue, and then the lock.
Take ==
  /\ life = "running" /\ consumer = "getting" /\ taken < delivered
  /\ taken' = taken + 1
  /\ held' = taken + 1
  /\ AskForLock("consumer")
  /\ UNCHANGED <<pooled, life, starts, caller, calls, loopVars, client, sent, delivered, told, files>>

---------------------------------------------------------------------------
(* The loop *)

\* The call returns or raises: its owner goes on, and so does the consumer,
\* which logs an exception.
EndCall ==
  /\ caller' = "nobody"
  /\ place' = "rest" /\ after' = "top" /\ cutOffs' = 0 /\ overflows' = 0
  /\ owner' = IF caller = "owner" THEN "idle" ELSE owner
  /\ consumer' = IF caller = "consumer" THEN "getting" ELSE consumer
  /\ UNCHANGED <<held, waiters, calls>>

\* The call goes on, with its counts of cut off answers and overflows.
Goto(next, cuts, overs) ==
  /\ place' = next /\ after' = "top" /\ cutOffs' = cuts /\ overflows' = overs
  /\ UNCHANGED callers

\* A turn begins with the messages that are in the queue, as one message.
Turn ==
  /\ place = "top" /\ turns < MaxTurns
  /\ turns' = turns + 1
  /\ taken' = delivered
  /\ told' = told \cup {m \in 1..delivered : m > taken}
  /\ Say(IF taken < delivered THEN <<"user">> ELSE <<>>)
  /\ Goto("llm", cutOffs, overflows)
  /\ UNCHANGED <<pooled, life, starts, system, snapshot, sent, delivered, files>>

GiveUp ==
  /\ place = "top" /\ turns >= MaxTurns
  /\ EndCall
  /\ UNCHANGED <<pooled, life, starts, turns, client, inbox, files>>

\* The conversation is c, and the loop goes on or the call returns.
Resume(c, next, cuts, overs) ==
  /\ conv' = c
  /\ IF next = "return" THEN EndCall ELSE Goto("top", cuts, overs)

\* _compact() of the messages c, up to its request.
Compact(c, next, cuts, overs) ==
  /\ snapshot' = c
  /\ conv' = <<[role |-> "summarize", n |-> 0]>>
  /\ system' = "summarizer"
  /\ place' = "summary" /\ after' = next /\ cutOffs' = cuts /\ overflows' = overs
  /\ UNCHANGED callers

\* With a conversation that has nothing to summarize there is nothing to do.
CompactOrResume(c, next, cuts, overs) ==
  IF Closed(c) = <<>> THEN Resume(c, next, cuts, overs) /\ UNCHANGED <<system, snapshot>>
                      ELSE Compact(c, next, cuts, overs)

\* After an answer that is not cut off: over the limit of tokens or not.
Continue(c, next) ==
  \/ Resume(c, next, 0, overflows) /\ UNCHANGED <<system, snapshot>>
  \/ CompactOrResume(c, next, 0, overflows)

\* complete() answers: the answer is added to the conversation and the trace saved.
Reply(role) ==
  /\ place = "llm"
  /\ Save(With(conv, <<role>>))
  /\ UNCHANGED <<pooled, life, starts, turns, inbox>>

Answer(role) ==
  /\ Reply(role)
  /\ said' = said + 1
  /\ Continue(With(conv, <<role>>), "return")

AskTools ==
  /\ Reply("calls")
  /\ Say(<<"calls">>)
  /\ Goto("tools", 0, overflows)
  /\ UNCHANGED <<system, snapshot>>

\* Variant with a bug: tool calls that are dropped are not answered.
DropCallsUnanswered ==
  /\ Reply("calls")
  /\ Say(<<"calls", "user">>)
  /\ Goto("top", cutOffs, overflows)
  /\ UNCHANGED <<system, snapshot>>

\* Tool calls that are cut off or malformed are not executed.
DropCalls ==
  /\ Reply("calls")
  /\ Say(<<"calls", "results", "user">>)
  /\ Goto("top", cutOffs, overflows)
  /\ UNCHANGED <<system, snapshot>>

CutOff ==
  /\ Reply("text")
  /\ IF cutOffs < MaxCutOffs THEN Say(<<"text", "user">>) /\ Goto("top", cutOffs + 1, overflows)
                             ELSE Say(<<"text">>) /\ EndCall
  /\ UNCHANGED <<system, snapshot>>

TooLong ==
  /\ place = "llm" /\ overflows < MaxOverflows
  /\ CompactOrResume(conv, "top", cutOffs, overflows + 1)
  /\ UNCHANGED <<pooled, life, starts, turns, said, inbox, files>>

\* Variant with a bug: an exception leaves the idle event cleared, and the consumer
\* never gets back to the queue.
FailStaysBusy ==
  /\ place = "llm"
  /\ caller' = "nobody"
  /\ place' = "rest" /\ after' = "top" /\ cutOffs' = 0 /\ overflows' = 0
  /\ owner' = IF caller = "owner" THEN "idle" ELSE owner
  /\ consumer' = IF consumer = "getting" THEN "calling" ELSE consumer
  /\ UNCHANGED <<pooled, life, starts, held, waiters, calls, turns, client, inbox, files>>

\* Variant with a bug: an exception keeps the lock.
FailKeepsLock ==
  /\ place = "llm"
  /\ place' = "rest" /\ after' = "top" /\ cutOffs' = 0 /\ overflows' = 0
  /\ owner' = IF caller = "owner" THEN "idle" ELSE owner
  /\ consumer' = IF caller = "consumer" THEN "getting" ELSE consumer
  /\ UNCHANGED <<pooled, life, starts, caller, held, waiters, calls, turns, client, inbox, files>>

\* complete() raises: once too often that the prompt is too long, or anything else
\* after its retries.
Fail ==
  /\ place = "llm"
  /\ EndCall
  /\ UNCHANGED <<pooled, life, starts, turns, client, inbox, files>>

\* The tools have run, each with a result or an error; the trace is saved before
\* the results are added.
ToolsDone ==
  /\ place = "tools"
  /\ Save(conv)
  /\ said' = said + 1
  /\ Continue(With(conv, <<"results">>), "top")
  /\ UNCHANGED <<pooled, life, starts, turns, inbox>>

\* replace_history(), and the message with pending calls again.
Summarized ==
  /\ place = "summary"
  /\ Resume(<<[role |-> "summary", n |-> said + 1]>> \o Open(snapshot), after, cutOffs, overflows)
  /\ said' = said + 1
  /\ system' = "agent" /\ snapshot' = <<>>
  /\ UNCHANGED <<pooled, life, starts, turns, inbox, files>>

\* The request for a summary raises, and so does the call.
NotSummarized ==
  /\ place = "summary"
  /\ conv' = snapshot
  /\ system' = "agent" /\ snapshot' = <<>>
  /\ EndCall
  /\ UNCHANGED <<pooled, life, starts, said, turns, inbox, files>>

---------------------------------------------------------------------------

LoopStep ==
  \/ Turn \/ GiveUp \/ AskTools \/ DropCalls \/ CutOff \/ TooLong \/ Fail
  \/ Answer("text") \/ Answer("empty")
  \/ ToolsDone \/ Summarized \/ NotSummarized

AgentNext ==
  \/ Load \/ Enter \/ AgentCrash \/ Shutdown
  \/ OwnerCalls \/ BeginTask \/ Send \/ Deliver \/ Take
  \/ Acquire("owner") \/ Acquire("consumer")
  \/ LoopStep

\* The event loop runs what is ready; requests and tools have timeouts.
Fairness ==
  /\ WF_agentVars(Enter) /\ WF_agentVars(Deliver) /\ WF_agentVars(Take)
  /\ WF_agentVars(Acquire("owner") \/ Acquire("consumer"))
  /\ WF_agentVars(LoopStep)

AgentSpec == AgentInit /\ [][AgentNext]_agentVars /\ Fairness

---------------------------------------------------------------------------
(* Properties *)

\* The variables keep their types.
AgentTypeOK ==
  /\ life \in {"down", "loaded", "running"} /\ starts \in 0..MaxStarts
  /\ owner \in {"idle", "waiting", "calling"} /\ consumer \in {"getting", "waiting", "calling"}
  /\ held \in 0..MaxSent /\ caller \in {"nobody", "owner", "consumer"}
  /\ waiters \in Seq({"owner", "consumer"}) /\ calls \in 0..MaxCalls
  /\ place \in {"rest", "top", "llm", "tools", "summary"} /\ after \in {"top", "return"}
  /\ turns \in 0..MaxTurns /\ cutOffs \in 0..MaxCutOffs /\ overflows \in 0..MaxOverflows
  /\ conv \in Seq(Messages) /\ system \in {"agent", "summarizer"}
  /\ snapshot \in Seq(Messages) /\ said \in Nat
  /\ sent \in 0..MaxSent /\ delivered \in 0..sent /\ taken \in 0..delivered /\ told \subseteq 1..MaxSent
  /\ saved \in Seq(Messages) /\ archive \in Seq(Nat) /\ counted \in Nat
  /\ store \in {"nothing", "file", "count"}

\* Tool calls and results come in pairs, and nothing between them.
Paired(c) ==
  \A k \in DOMAIN c :
    /\ c[k].role = "calls" => k < Len(c) /\ c[k + 1].role = "results"
    /\ c[k].role = "results" => k > 1 /\ c[k - 1].role = "calls"

\* "Compact after tool results so function_call/function_call_output items are
\* always paired": the orchestrator's agent sends no request that a language model's
\* API refuses, however messages, truncated answers, compactions and failures meet.
RequestsPaired == place = "llm" /\ ~pooled => Paired(conv)

\* The trace in the archive grows and loses nothing it has, through compactions,
\* crashes and restarts, which make the conversation shorter.
ArchiveGrows == [][store' # "nothing" => IsPrefix(archive, archive')]_agentVars

\* Every message the web UI sends is given to the agent, busy or idle, whether its
\* calls succeed or not, as long as the process lives.
MessageHeard ==
  \A m \in 1..MaxSent : (life = "running" /\ sent >= m) ~> (m \in told \/ life # "running")

\* Every call of the owner comes to an end, also when the consumer's calls, cut off
\* answers or compactions come before its own.
CallReturns == (owner # "idle") ~> (owner = "idle")

\* The same of every agent.  Violated: a task resets its agent while the consumer's
\* call waits for tools, whose results then come without their calls.
AllRequestsPaired == place = "llm" => Paired(conv)

\* The docs say that the orchestrator's conversation survives restarts.  Violated:
\* entering the agent resets what was loaded from the trace.
ConversationSurvives ==
  [][life = "loaded" /\ life' = "running" => conv' = conv]_agentVars

\* A message that arrives during a call is left for the next turn.  Violated: the
\* consumer has passed its wait for idleness and takes the message.
LeftForTheTurn == [][held' # held /\ held' # 0 => caller = "nobody"]_agentVars

\* The archive has every message of the trace.  Violated: it compares lengths only.
ArchiveComplete ==
  \A k \in DOMAIN saved : \E i \in DOMAIN archive : archive[i] = saved[k].n
=============================================================================
