---------------------------- MODULE Conversation ----------------------------
(***************************************************************************)
(* The calls of an agent, streaming or not (core/agent/loop.py), over the  *)
(* conversation each of the four inference clients keeps in its own way    *)
(* (core/inference/openai_api.py, openai_response_api.py, sdk/anthropic.py *)
(* and sdk/gemini.py), with the tools its answers ask for.                 *)
(*                                                                         *)
(* What the language model answers, and how much of it arrives, is a       *)
(* record of Answers.  For each client an operator says what is left of    *)
(* it: the items it adds to the conversation and what it gives the loop.   *)
(* An item has the ids of its tool calls or results, and the facts it      *)
(* tells: the user's messages and the outputs of tools, by number.         *)
(***************************************************************************)
EXTENDS ToolRuntime

CONSTANTS
  Agents,         \* [provider, mode, maxTurns]: client, call() or call_streaming(), max_turns
  Idless,         \* agents of those whose server gives tool calls no ids
  Prompted,       \* whether the agent has a system prompt
  Answers,        \* [text, thinking, cut, broke, calls]: what the model may answer
  MaxCutOffs,     \* _MAX_OUTPUT_RECOVERY
  MaxOverflows,   \* _MAX_REACTIVE_COMPACTIONS
  MaxRetries,     \* retries of a request
  MaxCalls,       \* calls of the agent (bound of the model)
  MaxRestores     \* how often it is restored from its trace (bound of the model)

ASSUME ConversationAssumption ==
  /\ Agents \subseteq [provider : {"chat", "response", "anthropic", "gemini"},
                       mode : {"complete", "stream"}, maxTurns : Nat]
  /\ Idless \subseteq {g \in Agents : g.provider = "chat"}
  /\ Prompted \in BOOLEAN
  /\ \A a \in Answers :
       /\ {a.text, a.thinking, a.cut} \subseteq BOOLEAN /\ a.broke \in {"no", "midway", "late"}
       /\ a.calls \in Seq([named : BOOLEAN, valid : BOOLEAN, tool : STRING])
  /\ {MaxCutOffs, MaxOverflows, MaxRetries, MaxCalls, MaxRestores} \subseteq Nat

VARIABLES
  agent,
  place,          \* "rest", "top", "request", "tools", "summary", or "down" between processes
  calls,          \* calls so far, each with a message of the user
  turns,          \* total_turns
  cutOffs,        \* output_recovery_count
  overflows,      \* reactive_compaction_count
  retriedEmpty,   \* retried_empty
  tries,          \* attempts of the request that failed
  bare,           \* the request is made without tools, which the model does not support
  after,          \* where the loop goes after a compaction: "top", "return" or "empty"
  conv,           \* _messages: items [kind, ids, facts, files]
  snapshot,       \* saved_messages of the compaction under way
  asked,          \* tool calls so far
  facts,          \* history: what the agent was told and has not lost in a crash
  saved,          \* messages and turns of the trace, [conv, turns]
  restores

loopVars == <<place, calls, turns, cutOffs, overflows, retriedEmpty, tries, bare, after>>
textVars == <<conv, snapshot, asked, facts, saved, restores>>
vars == <<agent, loopVars, textVars, toolVars>>

provider == agent.provider
mode == agent.mode
MaxTurns == agent.maxTurns

Init ==
  /\ agent \in Agents
  /\ place = "rest" /\ calls = 0 /\ turns = 0 /\ cutOffs = 0 /\ overflows = 0
  /\ retriedEmpty = FALSE /\ tries = 0 /\ bare = FALSE /\ after = "top"
  /\ conv = <<>> /\ snapshot = <<>> /\ asked = 0 /\ facts = {} /\ saved = [conv |-> <<>>, turns |-> 0] /\ restores = 0
  /\ ToolInit

---------------------------------------------------------------------------
(* Items of a conversation *)

Item(kind, ids, told) == [kind |-> kind, ids |-> ids, facts |-> told, files |-> {}]

\* Facts: the k-th message of the user, the output of the n-th tool call.
UserFact(k) == k
ResultFact(n) == MaxCalls + n

Note == Item("user", <<>>, {})

\* add_tool_results(): one message for each result, or one for all.
Results(rs) ==
  [kind |-> "results", ids |-> [k \in DOMAIN rs |-> rs[k].id],
   facts |-> {ResultFact(rs[k].n) : k \in {j \in DOMAIN rs : rs[j].ok}},
   files |-> {<<rs[k].id, rs[k].n>> : k \in {j \in DOMAIN rs : rs[j].file}}]
ResultItems(rs) ==
  IF provider \in {"chat", "response"} THEN [k \in DOMAIN rs |-> Results(<<rs[k]>>)] ELSE <<Results(rs)>>

\* cleanup_interrupted(): up to the last item that is safe to keep.
Cleaned(c) ==
  LET kept == {k \in DOMAIN c : c[k].kind \notin {"calls", "results", "empty"}}
  IN  SubSeq(c, 1, IF kept = {} THEN 0 ELSE CHOOSE k \in kept : \A j \in kept : j <= k)

Told(c) == UNION {c[k].facts : k \in DOMAIN c}

---------------------------------------------------------------------------
(* What the clients make of an answer *)

\* Variant with a bug: the ids are always made of the index.
NumberedByIndex(a) ==
  [k \in DOMAIN a.calls |->
     [n |-> asked + k, named |-> a.calls[k].named, tool |-> a.calls[k].tool, valid |-> a.calls[k].valid, id |-> k]]

\* The answer's calls with their numbers and ids: a server that gives none makes the
\* client number them from the first call of the answer.
Numbered(a) ==
  [k \in DOMAIN a.calls |->
     [n |-> asked + k, named |-> a.calls[k].named, tool |-> a.calls[k].tool, valid |-> a.calls[k].valid,
      id |-> IF agent \in Idless THEN k ELSE 2 + asked + k]]

Ids(cs) == [k \in DOMAIN cs |-> cs[k].id]
NamedOnly(cs) == IF \A k \in DOMAIN cs : cs[k].named THEN cs ELSE SelectSeq(cs, LAMBDA c : c.named)
Parsed(cs) == [k \in DOMAIN cs |-> [cs[k] EXCEPT !.valid = TRUE]]

\* The one message of an answer: empty when there is neither text nor a call.
Message(hasText, cs) ==
  <<Item(IF cs # <<>> THEN "calls" ELSE IF hasText THEN "text" ELSE "empty", Ids(cs), {})>>

\* Items of the Response API: the text and then each call by itself.
ItemsOf(hasText, cs) ==
  (IF hasText THEN <<Item("text", <<>>, {})>> ELSE <<>>) \o [k \in DOMAIN cs |-> Item("calls", <<cs[k].id>>, {})]

Result(items, cs, a, finish) ==
  [items |-> items, calls |-> cs, silent |-> ~a.text /\ ~a.thinking, finish |-> finish]

Finish(cut, cs) == IF cut THEN "length" ELSE IF cs # <<>> THEN "tool_calls" ELSE "stop"

\* OpenAIInference.complete()
ChatComplete(a) ==
  LET cs == Numbered(a)
  IN  {Result(Message(a.text, cs), cs, a, Finish(a.cut, cs))}

\* Variant with a bug: the message is added before the calls are discarded.
ChatStreamEarly(a) ==
  LET cs == IF a.broke = "no" THEN Numbered(a) ELSE <<>>
  IN  {Result(Message(a.text, Numbered(a)), cs, a, IF a.broke = "midway" THEN "stop" ELSE Finish(a.cut, cs))}

\* OpenAIInference.stream(): a connection that breaks leaves the text and no call.
ChatStream(a) ==
  LET cs == IF a.broke = "no" THEN Numbered(a) ELSE <<>>
  IN  {Result(Message(a.text, cs), cs, a, IF a.broke = "midway" THEN "stop" ELSE Finish(a.cut, cs))}

\* OpenAIResponseInference.complete(): calls without a name stay in the conversation
\* but are not given to the loop.
ResponseComplete(a) ==
  LET cs == NamedOnly(Numbered(a))
  IN  {Result(ItemsOf(a.text, Numbered(a)), cs, a, Finish(a.cut, cs))}

\* OpenAIResponseInference.stream(): only an answer that is complete has the event
\* whose output is added as it is; otherwise the items are put together again.
\* Nobody is told that an answer was cut off.
ResponseStream(a) ==
  LET cs == IF a.broke = "no" THEN Numbered(a) ELSE <<>>
      complete == ~a.cut /\ a.broke # "midway"
  IN  {Result(IF complete THEN ItemsOf(a.text, Numbered(a)) ELSE ItemsOf(a.text, NamedOnly(cs)),
              cs, [a EXCEPT !.thinking = FALSE], Finish(FALSE, cs))}

\* AnthropicInference.complete(): arguments come as objects.
AnthropicComplete(a) ==
  LET cs == Parsed(Numbered(a))
  IN  {Result(Message(a.text \/ a.thinking, cs), cs, a, Finish(a.cut, cs))}

\* AnthropicInference.stream(): a connection that breaks is an exception.
AnthropicStream(a) ==
  LET cs == Numbered(a)
  IN  IF a.broke # "no" THEN {} ELSE {Result(Message(a.text \/ a.thinking, cs), cs, a, Finish(a.cut, cs))}

\* GeminiInference.complete(): a call hides that the answer was cut off; a candidate
\* without content adds nothing, one without parts an empty item.
GeminiComplete(a) ==
  LET cs == Parsed(Numbered(a))
      told == Result(Message(a.text \/ a.thinking, cs), cs, a, IF cs # <<>> THEN "tool_calls" ELSE Finish(a.cut, cs))
  IN  IF cs # <<>> \/ a.text \/ a.thinking THEN {told} ELSE {told, [told EXCEPT !.items = <<>>]}

\* GeminiInference.stream(): the reason to finish may come after the calls or with
\* them; without any part nothing is added.
GeminiStream(a) ==
  LET cs == Parsed(Numbered(a))
      items == IF a.text \/ a.thinking \/ cs # <<>> THEN Message(TRUE, cs) ELSE <<>>
  IN  IF a.broke # "no" THEN {}
      ELSE {Result(items, cs, a, f) : f \in {Finish(a.cut, cs)} \cup (IF cs # <<>> THEN {"tool_calls"} ELSE {})}

Outcomes(a) ==
  CASE provider = "chat" /\ mode = "complete" -> ChatComplete(a)
    [] provider = "chat" /\ mode = "stream" -> ChatStream(a)
    [] provider = "response" /\ mode = "complete" -> ResponseComplete(a)
    [] provider = "response" /\ mode = "stream" -> ResponseStream(a)
    [] provider = "anthropic" /\ mode = "complete" -> AnthropicComplete(a)
    [] provider = "anthropic" /\ mode = "stream" -> AnthropicStream(a)
    [] provider = "gemini" /\ mode = "complete" -> GeminiComplete(a)
    [] provider = "gemini" /\ mode = "stream" -> GeminiStream(a)

---------------------------------------------------------------------------
(* The loop *)

\* The call goes on from the given place.
Goto(next, cuts, overs) ==
  /\ place' = next /\ cutOffs' = cuts /\ overflows' = overs
  /\ tries' = 0 /\ bare' = FALSE /\ after' = "top"
  /\ UNCHANGED <<calls, turns, retriedEmpty>>

\* The call returns or raises.
EndCall ==
  /\ place' = "rest" /\ cutOffs' = 0 /\ overflows' = 0 /\ retriedEmpty' = FALSE
  /\ tries' = 0 /\ bare' = FALSE /\ after' = "top"
  /\ UNCHANGED <<calls, turns>>

\* call(), call_streaming()
BeginCall ==
  /\ place = "rest" /\ calls < MaxCalls
  /\ place' = "top" /\ calls' = calls + 1
  /\ conv' = Append(conv, Item("user", <<>>, {UserFact(calls + 1)}))
  /\ facts' = facts \cup {UserFact(calls + 1)}
  /\ UNCHANGED agent /\ UNCHANGED <<turns, cutOffs, overflows, retriedEmpty, tries, bare, after>>
  /\ UNCHANGED <<snapshot, asked, saved, restores, toolVars>>

Turn ==
  /\ place = "top"
  /\ IF turns < MaxTurns
     THEN /\ place' = "request" /\ turns' = turns + 1
          /\ UNCHANGED <<calls, cutOffs, overflows, retriedEmpty, tries, bare, after>>
     ELSE EndCall
  /\ UNCHANGED agent /\ UNCHANGED <<textVars, toolVars>>

\* The loop goes on, or the call returns, or an empty answer is asked for once more.
Resume(next) ==
  CASE next = "top" -> Goto("top", cutOffs, overflows)
    [] next = "return" -> EndCall
    [] next = "empty" /\ turns > 1 /\ ~retriedEmpty ->
         /\ place' = "top" /\ retriedEmpty' = TRUE /\ cutOffs' = 0
         /\ tries' = 0 /\ bare' = FALSE /\ after' = "top"
         /\ UNCHANGED <<calls, turns, overflows>>
    [] OTHER -> EndCall

\* What _compact() summarizes: all but the first message, which it takes for the
\* system prompt, and but a last message with calls.
Open(c) == IF c # <<>> /\ Last(c).kind = "calls" /\ provider # "response" THEN <<Last(c)>> ELSE <<>>
Summarizable(c) ==
  LET most == IF Prompted \/ c = <<>> THEN c ELSE Tail(c)
  IN  SubSeq(most, 1, Len(most) - Len(Open(most)))

\* _compact() of the conversation c, up to its request; then the loop goes on.
Compact(c, next, cuts, overs) ==
  IF Summarizable(c) = <<>>
  THEN conv' = c /\ Resume(next) /\ UNCHANGED snapshot
  ELSE /\ snapshot' = IF Prompted THEN c ELSE Tail(c)
       /\ conv' = <<Item("summarize", <<>>, {})>>
       /\ place' = "summary" /\ after' = next /\ cutOffs' = cuts /\ overflows' = overs
       /\ tries' = 0 /\ bare' = FALSE
       /\ UNCHANGED <<calls, turns, retriedEmpty>>

\* The answer was not cut off: the prompt is over the limit of tokens or not.
Continue(c, next) ==
  \/ conv' = c /\ Resume(next) /\ UNCHANGED snapshot
  \/ Compact(c, next, 0, overflows)

\* The request is answered; the answer is in the conversation c when the trace is
\* saved and the loop sees it.
Received(a, c) ==
  /\ place = "request"
  /\ bare => a.calls = <<>>
  /\ saved' = [conv |-> c, turns |-> turns]
  /\ asked' = asked + Len(a.calls)
  /\ UNCHANGED agent /\ UNCHANGED <<facts, restores>>

\* Calls that are cut off or malformed are answered and not executed.
DropCalls(r, c) ==
  /\ r.calls # <<>>
  /\ r.finish = "length" \/ \E k \in DOMAIN r.calls : ~r.calls[k].valid
  /\ LET errors == [k \in DOMAIN r.calls |-> [n |-> r.calls[k].n, id |-> r.calls[k].id, ok |-> FALSE, file |-> FALSE]]
     IN  conv' = c \o ResultItems(errors) \o <<Note>>
  /\ Goto("top", cutOffs, overflows)
  /\ UNCHANGED <<snapshot, toolVars>>

CutOff(r, c) ==
  /\ r.calls = <<>> /\ r.finish = "length"
  /\ IF cutOffs < MaxCutOffs
     THEN conv' = Append(c, Note) /\ Goto("top", cutOffs + 1, overflows)
     ELSE conv' = c /\ EndCall
  /\ UNCHANGED <<snapshot, toolVars>>

\* An answer without calls ends the call; the streaming loop asks again for an
\* empty one.
NoCalls(r, c) ==
  /\ r.calls = <<>> /\ r.finish # "length"
  /\ Continue(c, IF mode = "stream" /\ r.silent THEN "empty" ELSE "return")
  /\ UNCHANGED toolVars

AskTools(r, c) ==
  /\ r.calls # <<>> /\ r.finish # "length" /\ \A k \in DOMAIN r.calls : r.calls[k].valid
  /\ conv' = c
  /\ Goto("tools", 0, overflows)
  /\ batch' = r.calls /\ results' = <<>>
  /\ UNCHANGED <<snapshot, phase, discovered, sessions, open, alive, deaths, disk>>

Answered ==
  \E a \in {b \in Answers : b.broke = "no" \/ mode = "stream"} : \E r \in Outcomes(a) :
    LET c == conv \o r.items
    IN  /\ Received(a, c)
        /\ DropCalls(r, c) \/ CutOff(r, c) \/ NoCalls(r, c) \/ AskTools(r, c)

\* A transient error, and another attempt: before anything was streamed.
Retry ==
  /\ place \in {"request", "summary"} /\ tries < MaxRetries
  /\ tries' = tries + 1
  /\ UNCHANGED agent /\ UNCHANGED <<place, calls, turns, cutOffs, overflows, retriedEmpty, bare, after, textVars, toolVars>>

\* "does not support tools": the same request without them.  A stream is not retried
\* any more.
WithoutTools ==
  /\ place = "request" /\ provider \in {"chat", "response"} /\ ~bare
  /\ bare' = TRUE
  /\ tries' = IF mode = "stream" THEN MaxRetries ELSE 0
  /\ UNCHANGED agent /\ UNCHANGED <<place, calls, turns, cutOffs, overflows, retriedEmpty, after, textVars, toolVars>>

\* PromptTooLongError
TooLong ==
  /\ place = "request" /\ ~bare /\ overflows < MaxOverflows
  /\ \/ Summarizable(conv) = <<>> /\ Goto("top", cutOffs, overflows + 1) /\ UNCHANGED <<conv, snapshot>>
     \/ Summarizable(conv) # <<>> /\ Compact(conv, "top", cutOffs, overflows + 1)
  /\ UNCHANGED agent /\ UNCHANGED <<asked, facts, saved, restores, toolVars>>

\* Any other error, or one of those too often; a stream that breaks, for the clients
\* that do not catch it.
Fail ==
  /\ place = "request"
  /\ EndCall
  /\ UNCHANGED agent /\ UNCHANGED <<textVars, toolVars>>

\* The aggregate budget, and add_tool_results(): then the loop may compact.
ToolsDone ==
  /\ place = "tools" /\ BatchDone
  /\ saved' = [conv |-> conv, turns |-> turns]
  /\ \E kept \in SUBSET Eligible :
       /\ disk' = Written({results[k] : k \in kept})
       /\ Continue(conv \o ResultItems(Budgeted(kept)), "top")
  /\ facts' = facts \cup {ResultFact(results[k].n) : k \in {j \in DOMAIN results : results[j].ok}}
  /\ batch' = <<>> /\ results' = <<>>
  /\ UNCHANGED agent /\ UNCHANGED <<asked, restores, phase, discovered, sessions, open, alive, deaths>>

\* The text of a message the summarizer is shown: of results only the OpenAI client's.
Shown(c) ==
  UNION {c[k].facts : k \in {j \in DOMAIN c : c[j].kind \in {"user", "summary"} \/ provider = "chat"}}

\* replace_history(), and the message with pending calls again.
Summarized ==
  /\ place = "summary"
  /\ LET told == Shown(SubSeq(snapshot, 1, Len(snapshot) - Len(Open(snapshot))))
     IN  conv' = <<Item("summary", <<>>, told)>> \o Open(snapshot)
  /\ Resume(after)
  /\ snapshot' = <<>>
  /\ UNCHANGED agent /\ UNCHANGED <<asked, facts, saved, restores, toolVars>>

\* Variant with a bug: nothing is restored.
NotSummarizedLeft ==
  /\ place = "summary"
  /\ conv' = <<>> /\ snapshot' = <<>>
  /\ EndCall
  /\ UNCHANGED agent /\ UNCHANGED <<asked, facts, saved, restores, toolVars>>

\* The request for a summary raises: the messages are restored, and the call raises.
\* The Gemini client cannot restore them.
NotSummarized ==
  /\ place = "summary"
  /\ conv' = IF provider = "gemini" THEN <<>> ELSE snapshot
  /\ snapshot' = <<>>
  /\ EndCall
  /\ UNCHANGED agent /\ UNCHANGED <<asked, facts, saved, restores, toolVars>>

\* External: the caller of call_streaming() leaves when it is told that tools start.
Abandon ==
  /\ mode = "stream"
  /\ place = "tools" /\ phase = "idle" /\ results = <<>>
  /\ EndCall
  /\ batch' = <<>>
  /\ UNCHANGED agent /\ UNCHANGED <<textVars, results, phase, discovered, sessions, open, alive, deaths, disk>>

---------------------------------------------------------------------------
(* The process *)

\* The process ends, also in the middle of a call: in a shutdown the trace is finalized with
\* the conversation as it is, in a crash it is what was saved last.
Interrupt ==
  /\ place # "down" /\ restores < MaxRestores
  /\ place' = "down"
  /\ saved' \in {saved, [conv |-> conv, turns |-> turns]}
  /\ conv' = <<>> /\ snapshot' = <<>> /\ facts' = {}
  /\ turns' = 0 /\ cutOffs' = 0 /\ overflows' = 0 /\ retriedEmpty' = FALSE
  /\ tries' = 0 /\ bare' = FALSE /\ after' = "top"
  /\ CloseAll
  /\ UNCHANGED agent /\ UNCHANGED <<calls, asked, restores>>

\* The tools are discovered, and load_from_trace() restores the conversation: it
\* raises for Gemini, whose agent begins anew.
Restore ==
  /\ place = "down"
  /\ place' = "rest" /\ restores' = restores + 1
  /\ conv' = IF provider = "gemini" THEN <<>> ELSE Cleaned(saved.conv)
  /\ turns' = saved.turns
  /\ facts' = Told(conv')
  /\ UNCHANGED agent /\ UNCHANGED <<calls, cutOffs, overflows, retriedEmpty, tries, bare, after>>
  /\ Discover
  /\ UNCHANGED <<snapshot, asked, saved>>

ToolsRun == place = "tools" /\ ToolStep /\ UNCHANGED agent /\ UNCHANGED <<loopVars, textVars>>

LoopStep ==
  \/ Turn \/ Answered \/ Retry \/ WithoutTools \/ TooLong \/ Fail
  \/ ToolsRun \/ ToolsDone \/ Summarized \/ NotSummarized

Next == BeginCall \/ LoopStep \/ Interrupt \/ Restore

\* The event loop runs what is ready; requests and tools have timeouts.
Fairness == WF_vars(LoopStep) /\ WF_vars(Restore)

Spec == Init /\ [][Next]_vars /\ Fairness

\* The same with callers that leave.
LeavingSpec == Init /\ [][Next \/ Abandon]_vars

---------------------------------------------------------------------------
(* Properties *)

Kinds == {"user", "text", "empty", "calls", "results", "summary", "summarize"}
Items == [kind : Kinds, ids : Seq(Nat), facts : SUBSET Nat, files : SUBSET (Nat \X Nat)]
ToolCalls == [n : Nat, id : Nat, named : BOOLEAN, tool : STRING, valid : BOOLEAN]
ToolResults == [n : Nat, id : Nat, ok : BOOLEAN, file : BOOLEAN]

\* The variables keep their types.
TypeOK ==
  /\ agent \in Agents
  /\ place \in {"rest", "top", "request", "tools", "summary", "down"}
  /\ calls \in 0..MaxCalls /\ asked \in Nat /\ facts \subseteq Nat
  /\ conv \in Seq(Items) /\ snapshot \in Seq(Items) /\ saved.conv \in Seq(Items)
  /\ batch \in Seq(ToolCalls) /\ results \in Seq(ToolResults)
  /\ phase \in {"idle", "session", "call", "restart", "again"}
  /\ \A id \in DOMAIN disk : id \in Nat /\ disk[id] \in Nat

\* Every call an item asks for has its result among the items that follow it at once,
\* and every result its call.
Near(c, k, j) == \A m \in (k + 1)..(j - 1) : c[m].kind \in {"calls", "results"}
HasId(item, id) == \E i \in DOMAIN item.ids : item.ids[i] = id
Paired(c) ==
  \A k \in DOMAIN c : \A i \in DOMAIN c[k].ids :
    \E j \in DOMAIN c :
      /\ c[j].kind = (IF c[k].kind = "calls" THEN "results" ELSE "calls")
      /\ HasId(c[j], c[k].ids[i])
      /\ IF c[k].kind = "calls" THEN j > k /\ Near(c, k, j) ELSE j < k /\ Near(c, j, k)

\* "function_call/function_call_output items are always paired" (loop.py:365): no
\* client sends a request with a call that has no result or a result that has no
\* call, however streams break, answers are cut off, compactions fail and processes
\* end in between.
CallsPaired == place = "request" => Paired(conv)

\* "restore on failure to prevent corruption" (loop.py:959): every message of the user
\* is told in every later request, itself or in a summary, through compactions and
\* their failures and restarts from the trace; of the OpenAI client, also every
\* result.  (The Gemini client, which cannot restore, loses them.)
Remembered ==
  place = "request" /\ provider # "gemini" =>
    /\ {f \in facts : f <= MaxCalls} \subseteq Told(conv)
    /\ provider = "chat" => facts \subseteq Told(conv)

\* A file that a result in the conversation names is there and holds the output of that
\* call; without ids, call_{index} of a later answer may have overwritten it with its
\* own, but it never holds what an earlier call left there.
FileIsOwn ==
  \A k \in DOMAIN conv : \A f \in conv[k].files :
    /\ f[1] \in DOMAIN disk /\ f[2] <= disk[f[1]]
    /\ agent \notin Idless => disk[f[1]] = f[2]

\* The same of every agent: "Write full result to disk" (tool_runtime.py:236).
\* Violated: without ids, each answer's calls are call_0, call_1 and so on again.
FileAlwaysOwn == \A k \in DOMAIN conv : \A f \in conv[k].files : disk[f[1]] = f[2]

\* Every call of the agent ends, whatever the model answers and the tools do.
CallEnds == (place \notin {"rest", "down"}) ~> (place \in {"rest", "down"})

\* The same of every client.  Violated: the Gemini client's replace_messages() raises
\* when a compaction that failed restores the messages.
AllRemembered ==
  place = "request" => {f \in facts : f <= MaxCalls} \subseteq Told(conv)

\* "Summarize all non-system messages" (loop.py:900).  Violated: extract_text_content()
\* finds no text in results but those of the OpenAI client, and they are gone.
ResultsRemembered == place = "request" /\ provider # "gemini" => facts \subseteq Told(conv)
=============================================================================
