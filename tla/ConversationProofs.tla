------------------------- MODULE ConversationProofs -------------------------
(***************************************************************************)
(* Theorems about Conversation and ToolRuntime: for any agents, answers,   *)
(* servers and bounds.                                                     *)
(***************************************************************************)
EXTENDS Conversation, FiniteSetTheorems, SequenceTheorems, WellFoundedInduction, TLAPS

---------------------------------------------------------------------------
(* Where the loop goes on *)

\* The call goes on from its top or is over, with the conversation c.
GoesOn(c) ==
  /\ place' \in {"top", "rest"} /\ conv' = c
  /\ UNCHANGED <<calls, snapshot>>

\* A summary of the conversation c is asked for.
AsksSummary(c) ==
  /\ place' = "summary" /\ conv' = <<Item("summarize", <<>>, {})>>
  /\ snapshot' = IF Prompted THEN c ELSE Tail(c)
  /\ UNCHANGED calls
  /\ Summarizable(c) # <<>>

LEMMA ResumeGoesOn ==
  ASSUME NEW next, Resume(next)
  PROVE  place' \in {"top", "rest"} /\ UNCHANGED calls
BY DEF Resume, Goto, EndCall

LEMMA CompactEither ==
  ASSUME NEW c, NEW next, NEW cuts, NEW overs, Compact(c, next, cuts, overs)
  PROVE  GoesOn(c) \/ AsksSummary(c)
<1>1. CASE Summarizable(c) = <<>>
  BY <1>1, ResumeGoesOn DEF Compact, GoesOn
<1>2. CASE Summarizable(c) # <<>>
  BY <1>2 DEF Compact, AsksSummary
<1>. QED
  BY <1>1, <1>2

LEMMA ContinueEither ==
  ASSUME NEW c, NEW next, Continue(c, next)
  PROVE  GoesOn(c) \/ AsksSummary(c)
<1>1. CASE conv' = c /\ Resume(next) /\ UNCHANGED snapshot
  BY <1>1, ResumeGoesOn DEF GoesOn
<1>2. CASE Compact(c, next, 0, overflows)
  BY <1>2, CompactEither
<1>. QED
  BY <1>1, <1>2 DEF Continue

---------------------------------------------------------------------------
(* The sessions *)

\* There are none in a process that is down, and none of a server that is started
\* again; whoever is called is a server.
SessionsInv ==
  /\ discovered \subseteq Servers /\ alive \subseteq Servers
  /\ sessions \in [Servers -> Nat]
  /\ phase \in {"idle", "session", "call", "restart", "again"}
  /\ phase # "idle" => Current.tool \in Servers
  /\ phase = "restart" => sessions[Current.tool] = 0
  /\ place = "down" => \A s \in Servers : sessions[s] = 0
  /\ place # "tools" => phase = "idle"

SessionsKept == SessionsInv /\ NoClientLeft

\* The steps of the loop that begin and end between the batches.
Quiet ==
  /\ phase = "idle" /\ place' # "down"
  /\ UNCHANGED <<phase, discovered, sessions, open, alive>>

LEMMA QuietKeepsSessions ==
  ASSUME SessionsKept, Quiet
  PROVE  SessionsKept'
BY DEF SessionsKept, SessionsInv, NoClientLeft, Quiet

LEMMA InitSessions == Init => SessionsKept
BY DEF Init, ToolInit, SessionsKept, SessionsInv, NoClientLeft

LEMMA OpenIsFinite ==
  ASSUME SessionsKept
  PROVE  Cardinality(open) \in Nat
<1>. DEFINE T == {t \in Servers : sessions[t] # 0}
            f == [s \in T |-> <<s, sessions[s]>>]
<1>1. IsFiniteSet(T)
  <2>1. T \in SUBSET Servers
    OBVIOUS
  <2>. QED
    BY <2>1, RuntimeAssumption, FS_Subset
<1>2. f \in Surjection(T, open)
  BY DEF SessionsKept, NoClientLeft, Surjection
<1>. HIDE DEF T, f
<1>3. IsFiniteSet(open)
  BY <1>1, <1>2, FS_Surjection
<1>. QED
  BY <1>3, FS_CardinalityType

\* The server that is connected to had no session, and has one now.
LEMMA ConnectedKeeps ==
  ASSUME SessionsKept, NEW s \in Servers, sessions[s] = 0, Connected(s)
  PROVE  /\ sessions' \in [Servers -> Nat]
         /\ NoClientLeft'
<1>. DEFINE n == CHOOSE m \in 1..(Cardinality(open) + 1) : <<s, m>> \notin open
<1>1. n \in Nat /\ n # 0
  <2>1. \A m : <<s, m>> \notin open
    BY DEF SessionsKept, SessionsInv, NoClientLeft
  <2>2. 1 \in 1..(Cardinality(open) + 1)
    BY OpenIsFinite
  <2>3. n \in 1..(Cardinality(open) + 1)
    BY <2>1, <2>2
  <2>4. Cardinality(open) + 1 \in Nat
    BY OpenIsFinite
  <2>. HIDE DEF n
  <2>. QED
    BY <2>3, <2>4
<1>2. sessions' = [sessions EXCEPT ![s] = n] /\ open' = open \cup {<<s, n>>}
  BY DEF Connected
<1>. HIDE DEF n
<1>. QED
  BY <1>1, <1>2 DEF SessionsKept, SessionsInv, NoClientLeft

LEMMA EvictKeeps ==
  ASSUME SessionsKept, phase # "idle", Evict
  PROVE  /\ sessions' \in [Servers -> Nat] /\ sessions'[Current.tool] = 0
         /\ NoClientLeft'
<1>. DEFINE s == Current.tool
<1>1. s \in Servers
  BY DEF SessionsKept, SessionsInv
<1>2. sessions' = [sessions EXCEPT ![s] = 0] /\ open' = open \ {<<s, sessions[s]>>}
  BY DEF Evict
<1>. HIDE DEF s
<1>3. /\ sessions' \in [Servers -> Nat] /\ sessions'[s] = 0
      /\ NoClientLeft'
  BY <1>1, <1>2 DEF SessionsKept, SessionsInv, NoClientLeft
<1>. QED
  BY <1>3 DEF s

\* A tool's step goes on with the same call or ends it.
LEMMA ToolsKeepSessions ==
  ASSUME SessionsKept, ToolsRun
  PROVE  SessionsKept'
<1>. USE DEF SessionsKept, SessionsInv
<1>1. place' = "tools" /\ place = "tools"
  BY DEF ToolsRun, loopVars
<1>2. CASE Refuse
  BY <1>1, <1>2 DEF Refuse, Fetching, Errs, AnsweredWith, NoClientLeft
<1>3. CASE BeginTool
  <2>1. UNCHANGED <<batch, results, discovered, sessions, open, alive>> /\ phase' = "session"
    BY <1>3 DEF BeginTool
  <2>2. Current' = Current /\ Current.tool \in Servers
    BY <1>3, <2>1 DEF BeginTool, Current
  <2>. QED
    BY <1>1, <2>1, <2>2 DEF NoClientLeft
<1>4. CASE GetSession
  <2>1. UNCHANGED <<batch, results, discovered, alive>> /\ phase = "session" /\ phase' = "call"
    BY <1>4 DEF GetSession
  <2>2. Current' = Current /\ Current.tool \in Servers
    BY <2>1 DEF Current
  <2>3. sessions' \in [Servers -> Nat] /\ NoClientLeft'
    <3>1. CASE sessions[Current.tool] # 0 /\ UNCHANGED <<sessions, open>>
      BY <3>1 DEF NoClientLeft
    <3>2. CASE sessions[Current.tool] = 0 /\ Connected(Current.tool)
      BY <2>2, <3>2, ConnectedKeeps
    <3>. QED
      BY <1>4, <3>1, <3>2 DEF GetSession
  <2>. QED
    BY <1>1, <2>1, <2>2, <2>3
<1>5. CASE NoSession
  BY <1>1, <1>5 DEF NoSession, Errs, AnsweredWith, NoClientLeft
<1>6. CASE CallSucceeds
  <2>1. phase' = "idle" /\ UNCHANGED <<discovered, sessions, open, alive>>
    BY <1>6 DEF CallSucceeds, Completes, AnsweredWith
  <2>. QED
    BY <1>1, <2>1 DEF NoClientLeft
<1>7. CASE CallFails
  <2>1. phase = "call" /\ Evict /\ MayDie /\ UNCHANGED discovered
    BY <1>7 DEF CallFails
  <2>2. sessions' \in [Servers -> Nat] /\ sessions'[Current.tool] = 0 /\ NoClientLeft'
    BY <2>1, EvictKeeps
  <2>3. alive' \subseteq Servers
    BY <2>1 DEF MayDie
  <2>4. CASE phase' = "restart" /\ UNCHANGED <<batch, results>>
    <3>1. Current' = Current
      BY <2>4 DEF Current
    <3>. QED
      BY <1>1, <2>1, <2>2, <2>3, <2>4, <3>1
  <2>5. CASE phase' = "idle"
    BY <1>1, <2>1, <2>2, <2>3, <2>5
  <2>. QED
    BY <1>7, <2>4, <2>5 DEF CallFails, Errs, AnsweredWith
<1>8. CASE Restart
  <2>1. UNCHANGED <<batch, results, discovered>> /\ phase = "restart" /\ phase' = "again"
    BY <1>8 DEF Restart
  <2>2. Current' = Current /\ Current.tool \in Servers /\ sessions[Current.tool] = 0
    BY <2>1 DEF Current
  <2>3. Connected(Current.tool) /\ alive' \subseteq Servers
    BY <1>8, <2>2 DEF Restart
  <2>4. sessions' \in [Servers -> Nat] /\ NoClientLeft'
    BY <2>2, <2>3, ConnectedKeeps
  <2>. QED
    BY <1>1, <2>1, <2>2, <2>3, <2>4
<1>9. CASE RestartFails
  <2>1. phase' = "idle" /\ UNCHANGED <<discovered, sessions, open>>
    BY <1>9 DEF RestartFails, Errs, AnsweredWith
  <2>2. alive' \subseteq Servers
    BY <1>9 DEF RestartFails
  <2>. QED
    BY <1>1, <2>1, <2>2 DEF NoClientLeft
<1>10. CASE RetryFails
  <2>1. phase = "again" /\ Evict /\ MayDie /\ UNCHANGED discovered /\ phase' = "idle"
    BY <1>10 DEF RetryFails, Errs, AnsweredWith
  <2>2. sessions' \in [Servers -> Nat] /\ NoClientLeft'
    BY <2>1, EvictKeeps
  <2>3. alive' \subseteq Servers
    BY <2>1 DEF MayDie
  <2>. QED
    BY <1>1, <2>1, <2>2, <2>3
<1>. QED
  BY <1>2, <1>3, <1>4, <1>5, <1>6, <1>7, <1>8, <1>9, <1>10 DEF ToolsRun, ToolStep

\* Everything else the loop does leaves the sessions alone.
LEMMA LoopIsQuiet ==
  ASSUME SessionsKept,
         BeginCall \/ Turn \/ Answered \/ Retry \/ WithoutTools \/ TooLong \/ Fail
           \/ ToolsDone \/ Summarized \/ NotSummarized
  PROVE  Quiet
<1>. DEFINE Still == UNCHANGED <<phase, discovered, sessions, open, alive>>
<1>1. place # "tools" => phase = "idle"
  BY DEF SessionsKept, SessionsInv
<1>2. CASE BeginCall
  BY <1>1, <1>2 DEF BeginCall, Quiet, toolVars
<1>3. CASE Turn
  BY <1>1, <1>3 DEF Turn, EndCall, Quiet, toolVars
<1>4. CASE Answered
  <2>answer. PICK a \in Answers : \E r \in Outcomes(a) :
          /\ Received(a, conv \o r.items)
          /\ \/ DropCalls(r, conv \o r.items) \/ CutOff(r, conv \o r.items)
             \/ NoCalls(r, conv \o r.items) \/ AskTools(r, conv \o r.items)
    BY <1>4 DEF Answered
  <2>1. PICK r \in Outcomes(a) :
          /\ Received(a, conv \o r.items)
          /\ \/ DropCalls(r, conv \o r.items) \/ CutOff(r, conv \o r.items)
             \/ NoCalls(r, conv \o r.items) \/ AskTools(r, conv \o r.items)
    BY <2>answer
  <2>2. phase = "idle"
    BY <1>1, <2>1 DEF Received
  <2>3. CASE DropCalls(r, conv \o r.items)
    BY <2>2, <2>3 DEF DropCalls, Goto, Quiet, toolVars
  <2>4. CASE CutOff(r, conv \o r.items)
    BY <2>2, <2>4 DEF CutOff, Goto, EndCall, Quiet, toolVars
  <2>5. CASE NoCalls(r, conv \o r.items)
    <3>1. place' # "down"
      BY <2>5, ContinueEither DEF NoCalls, GoesOn, AsksSummary
    <3>. QED
      BY <2>2, <2>5, <3>1 DEF NoCalls, Quiet, toolVars
  <2>6. CASE AskTools(r, conv \o r.items)
    BY <2>2, <2>6 DEF AskTools, Goto, Quiet
  <2>. QED
    BY <2>1, <2>3, <2>4, <2>5, <2>6
<1>5. CASE Retry
  BY <1>1, <1>5 DEF Retry, Quiet, toolVars
<1>6. CASE WithoutTools
  BY <1>1, <1>6 DEF WithoutTools, Quiet, toolVars
<1>7. CASE TooLong
  <2>1. place' # "down"
    BY <1>7, CompactEither DEF TooLong, Goto, GoesOn, AsksSummary
  <2>. QED
    BY <1>1, <1>7, <2>1 DEF TooLong, Quiet, toolVars
<1>8. CASE Fail
  BY <1>1, <1>8 DEF Fail, EndCall, Quiet, toolVars
<1>9. CASE ToolsDone
  <2>1. place' # "down"
    BY <1>9, ContinueEither DEF ToolsDone, GoesOn, AsksSummary
  <2>. QED
    BY <1>9, <2>1 DEF ToolsDone, BatchDone, Quiet
<1>10. CASE Summarized
  BY <1>1, <1>10, ResumeGoesOn DEF Summarized, Quiet, toolVars
<1>11. CASE NotSummarized
  BY <1>1, <1>11 DEF NotSummarized, EndCall, Quiet, toolVars
<1>. QED
  BY <1>2, <1>3, <1>4, <1>5, <1>6, <1>7, <1>8, <1>9, <1>10, <1>11

LEMMA StepKeepsSessions ==
  ASSUME SessionsKept, [Next]_vars
  PROVE  SessionsKept'
<1>1. CASE BeginCall \/ Turn \/ Answered \/ Retry \/ WithoutTools \/ TooLong \/ Fail
             \/ ToolsDone \/ Summarized \/ NotSummarized
  BY <1>1, LoopIsQuiet, QuietKeepsSessions
<1>2. CASE ToolsRun
  BY <1>2, ToolsKeepSessions
<1>3. CASE Interrupt
  <2>1. /\ place' = "down" /\ CloseAll
    BY <1>3 DEF Interrupt
  <2>2. open' = {}
    BY <2>1 DEF CloseAll, SessionsKept, NoClientLeft
  <2>. QED
    BY <2>1, <2>2 DEF CloseAll, SessionsKept, SessionsInv, NoClientLeft
<1>4. CASE Restore
  <2>1. place = "down" /\ place' = "rest" /\ Discover
    BY <1>4 DEF Restore
  <2>2. open = {} /\ phase = "idle"
    BY <2>1 DEF SessionsKept, SessionsInv, NoClientLeft
  <2>. QED
    BY <2>1, <2>2 DEF Discover, SessionsKept, SessionsInv, NoClientLeft
<1>5. CASE UNCHANGED vars
  <2>1. UNCHANGED <<place, batch, results, phase, discovered, sessions, open, alive>>
    BY <1>5 DEF vars, loopVars, toolVars
  <2>2. Current' = Current
    BY <2>1 DEF Current
  <2>. QED
    BY <2>1, <2>2 DEF SessionsKept, SessionsInv, NoClientLeft
<1>. QED
  BY <1>1, <1>2, <1>3, <1>4, <1>5 DEF Next, LoopStep

\* _get_session(), _restart_and_retry(), close_all(): whatever calls, restarts and
\* retries fail and whenever the process ends, every client that is connected is the
\* session of its server.
THEOREM NoClientEverLeft == Spec => []NoClientLeft
<1>1. SessionsKept => NoClientLeft
  BY DEF SessionsKept
<1>. QED
  BY <1>1, InitSessions, StepKeepsSessions, PTL DEF Spec

---------------------------------------------------------------------------
(* What items, calls and results are *)

\* Every call has a name, which matters to the client of the Response API only.
NamedCalls ==
  (\E g \in Agents : g.provider = "response") =>
    \A a \in Answers : \A k \in DOMAIN a.calls : a.calls[k].named

\* A call has a number, and but for servers that give no ids the id is its own.
Counted(r) == r.n >= 1 /\ (agent \notin Idless => r.id = r.n + 2)
CountedCalls == {c \in ToolCalls : Counted(c)}

\* The files E are the files D after some were written, by later calls.
Grows(D, E) ==
  \A id \in DOMAIN D : id \in DOMAIN E /\ \A n \in Nat : n <= D[id] => n <= E[id]

\* The file that a result names has been written, by its call or a later one.
Got(D) == {r \in ToolResults : Counted(r) /\ (r.file => r.id \in DOMAIN D /\ r.n <= D[r.id])}

\* Which kinds have ids and facts; the file an item names is that of the call whose id
\* it has, written by it or, without ids, by a later one.
ItemInv(x, D) ==
  /\ x.kind = "calls" => x.ids # <<>> /\ x.facts = {}
  /\ x.kind \notin {"calls", "results"} => x.ids = <<>>
  /\ \A f \in x.facts : f <= MaxCalls => x.kind \in {"user", "summary"}
  /\ \A f \in x.files : /\ f[1] \in DOMAIN D /\ f[2] <= D[f[1]]
                        /\ agent \notin Idless => f[1] = f[2] + 2
Good(D) == {x \in Items : ItemInv(x, D)}

LEMMA GoodGrows ==
  ASSUME NEW D, NEW E, Grows(D, E)
  PROVE  Good(D) \subseteq Good(E) /\ Got(D) \subseteq Got(E)
<1>1. ASSUME NEW x \in Good(D)
      PROVE  x \in Good(E)
  <2>1. ASSUME NEW f \in x.files
        PROVE  f[1] \in DOMAIN E /\ f[2] <= E[f[1]]
    <3>1. f[2] \in Nat /\ f[1] \in DOMAIN D /\ f[2] <= D[f[1]]
      BY DEF Good, ItemInv, Items
    <3>. QED
      BY <3>1 DEF Grows
  <2>. QED
    BY <2>1 DEF Good, ItemInv
<1>2. ASSUME NEW r \in Got(D)
      PROVE  r \in Got(E)
  BY DEF Got, ToolResults, Grows
<1>. QED
  BY <1>1, <1>2

LEMMA PlainIsGood ==
  ASSUME NEW D, NEW kind \in Kinds \ {"calls", "results"}, NEW told \in SUBSET Nat,
         kind \in {"user", "summary"} \/ told = {}
  PROVE  Item(kind, <<>>, told) \in Good(D)
<1>1. <<>> \in Seq(Nat)
  OBVIOUS
<1>2. Item(kind, <<>>, told) \in Items
  BY <1>1 DEF Item, Items
<1>. QED
  BY <1>2 DEF Good, ItemInv, Item

LEMMA CallsAreGood ==
  ASSUME NEW D, NEW ids \in Seq(Nat), ids # <<>>
  PROVE  Item("calls", ids, {}) \in Good(D)
<1>1. Item("calls", ids, {}) \in Items
  BY DEF Item, Items, Kinds
<1>. QED
  BY <1>1 DEF Good, ItemInv, Item

---------------------------------------------------------------------------
(* What the clients make of an answer *)

LEMMA NumberedCounts ==
  ASSUME asked \in Nat, NEW a \in Answers
  PROVE  Numbered(a) \in Seq(CountedCalls) /\ Len(Numbered(a)) = Len(a.calls)
<1>. DEFINE S == [named : BOOLEAN, valid : BOOLEAN, tool : STRING]
            cs == a.calls
<1>1. cs \in Seq(S)
  BY ConversationAssumption
<1>2. DOMAIN cs = 1..Len(cs) /\ Len(cs) \in Nat /\ \A k \in 1..Len(cs) : cs[k] \in S
  <2>. HIDE DEF S, cs
  <2>. QED
    BY <1>1
<1>. HIDE DEF cs
<1>3. ASSUME NEW k \in 1..Len(cs)
      PROVE  [n |-> asked + k, named |-> cs[k].named, tool |-> cs[k].tool, valid |-> cs[k].valid,
              id |-> IF agent \in Idless THEN k ELSE 2 + asked + k] \in CountedCalls
  <2>1. cs[k].named \in BOOLEAN /\ cs[k].tool \in STRING /\ cs[k].valid \in BOOLEAN
    BY <1>2
  <2>2. asked + k \in Nat /\ asked + k >= 1 /\ k \in Nat /\ 2 + asked + k = (asked + k) + 2
    OBVIOUS
  <2>. QED
    BY <2>1, <2>2 DEF CountedCalls, ToolCalls, Counted
<1>4. Numbered(a) =
        [k \in 1..Len(cs) |->
          [n |-> asked + k, named |-> cs[k].named, tool |-> cs[k].tool, valid |-> cs[k].valid,
           id |-> IF agent \in Idless THEN k ELSE 2 + asked + k]]
  BY <1>2 DEF Numbered, cs
<1>5. Numbered(a) \in [1..Len(cs) -> CountedCalls]
  BY <1>3, <1>4
<1>6. Numbered(a) \in Seq(CountedCalls) /\ Len(Numbered(a)) = Len(cs)
  BY <1>2, <1>5
<1>. QED
  BY <1>6 DEF cs

LEMMA IdsOfCalls ==
  ASSUME NEW cs \in Seq(CountedCalls)
  PROVE  /\ Ids(cs) \in Seq(Nat) /\ Len(Ids(cs)) = Len(cs)
         /\ \A k \in 1..Len(cs) : Ids(cs)[k] = cs[k].id /\ cs[k].id \in Nat
<1>1. DOMAIN cs = 1..Len(cs) /\ Len(cs) \in Nat /\ \A k \in 1..Len(cs) : cs[k].id \in Nat
  BY DEF CountedCalls, ToolCalls
<1>2. Ids(cs) \in [1..Len(cs) -> Nat]
  BY <1>1 DEF Ids
<1>3. Ids(cs) \in Seq(Nat) /\ Len(Ids(cs)) = Len(cs)
  BY <1>1, <1>2
<1>. QED
  BY <1>1, <1>3 DEF Ids

\* The items ask for the calls cs and no others, and but for the first only ask.
Asks(items, cs) ==
  /\ \A k \in 1..Len(items) : items[k].kind \in {"text", "empty", "calls"}
  /\ \A k \in 1..Len(items) : k # 1 => items[k].kind = "calls"
  /\ \A k \in 1..Len(items) : \A i \in DOMAIN items[k].ids :
       \E j \in 1..Len(cs) : cs[j].id = items[k].ids[i]
  /\ \A j \in 1..Len(cs) : \E k \in 1..Len(items) :
       items[k].kind = "calls" /\ HasId(items[k], cs[j].id)

LEMMA NoItemsAsk == Asks(<<>>, <<>>) /\ \A D : <<>> \in Seq(Good(D))
BY DEF Asks

LEMMA MessageAsks ==
  ASSUME NEW D, NEW hasText \in BOOLEAN, NEW cs \in Seq(CountedCalls)
  PROVE  Message(hasText, cs) \in Seq(Good(D)) /\ Asks(Message(hasText, cs), cs)
<1>. DEFINE x == Item(IF cs # <<>> THEN "calls" ELSE IF hasText THEN "text" ELSE "empty", Ids(cs), {})
<1>1. Message(hasText, cs) = <<x>>
  BY DEF Message
<1>2. /\ Ids(cs) \in Seq(Nat) /\ Len(Ids(cs)) = Len(cs) /\ Len(cs) \in Nat
      /\ \A k \in 1..Len(cs) : Ids(cs)[k] = cs[k].id
      /\ DOMAIN Ids(cs) = 1..Len(cs)
  BY IdsOfCalls
<1>3. x \in Good(D)
  <2>1. CASE cs # <<>>
    <3>1. Ids(cs) # <<>>
      BY <1>2, <2>1
    <3>. QED
      BY <1>2, <2>1, <3>1, CallsAreGood
  <2>2. CASE cs = <<>>
    <3>1. Ids(cs) = <<>>
      BY <1>2, <2>2
    <3>2. {} \in SUBSET Nat
      OBVIOUS
    <3>. QED
      BY <2>2, <3>1, <3>2, PlainIsGood DEF Kinds
  <2>. QED
    BY <2>1, <2>2
<1>4. x.ids = Ids(cs) /\ x.kind \in {"text", "empty", "calls"} /\ (Len(cs) # 0 => x.kind = "calls")
  BY DEF Item
<1>. HIDE DEF x
<1>5. <<x>> \in Seq(Good(D)) /\ Len(<<x>>) = 1 /\ <<x>>[1] = x
  BY <1>3
<1>6. Asks(<<x>>, cs)
  <2>. DEFINE e == <<x>>
  <2>1. Len(e) = 1 /\ e[1] = x
    BY <1>5
  <2>. HIDE DEF e
  <2>2. \A j \in 1..Len(cs) : x.kind = "calls" /\ HasId(x, cs[j].id)
    BY <1>2, <1>4 DEF HasId
  <2>3. \A i \in DOMAIN x.ids : \E j \in 1..Len(cs) : cs[j].id = x.ids[i]
    BY <1>2, <1>4
  <2>4. Asks(e, cs)
    BY <1>4, <2>1, <2>2, <2>3 DEF Asks
  <2>. QED
    BY <2>4 DEF e
<1>. QED
  BY <1>1, <1>5, <1>6

LEMMA ItemsOfAsk ==
  ASSUME NEW D, NEW hasText \in BOOLEAN, NEW cs \in Seq(CountedCalls)
  PROVE  ItemsOf(hasText, cs) \in Seq(Good(D)) /\ Asks(ItemsOf(hasText, cs), cs)
<1>. DEFINE front == IF hasText THEN <<Item("text", <<>>, {})>> ELSE <<>>
            back == [k \in DOMAIN cs |-> Item("calls", <<cs[k].id>>, {})]
<1>1. /\ DOMAIN cs = 1..Len(cs) /\ Len(cs) \in Nat
      /\ \A k \in 1..Len(cs) : cs[k].id \in Nat
  BY IdsOfCalls
<1>2. \A k \in 1..Len(cs) : Item("calls", <<cs[k].id>>, {}) \in Good(D)
  <2>1. \A i \in Nat : <<i>> \in Seq(Nat) /\ <<i>> # <<>>
    OBVIOUS
  <2>. QED
    BY <1>1, <2>1, CallsAreGood
<1>3. back \in Seq(Good(D)) /\ Len(back) = Len(cs)
  <2>1. back \in [1..Len(cs) -> Good(D)]
    BY <1>1, <1>2
  <2>. HIDE DEF back
  <2>. QED
    BY <1>1, <2>1
<1>4. \A k \in 1..Len(cs) : back[k].kind = "calls" /\ back[k].ids = <<cs[k].id>>
  BY <1>1 DEF Item
<1>5. /\ front \in Seq(Good(D)) /\ Len(front) \in {0, 1}
      /\ \A k \in 1..Len(front) : front[k].kind = "text" /\ front[k].ids = <<>>
  <2>1. {} \in SUBSET Nat /\ Item("text", <<>>, {}).kind = "text" /\ Item("text", <<>>, {}).ids = <<>>
    BY DEF Item
  <2>2. Item("text", <<>>, {}) \in Good(D)
    BY <2>1, PlainIsGood DEF Kinds
  <2>. QED
    BY <2>1, <2>2
<1>6. ItemsOf(hasText, cs) = front \o back
  BY DEF ItemsOf
<1>. HIDE DEF front, back
<1>7. /\ front \o back \in Seq(Good(D)) /\ Len(front \o back) = Len(front) + Len(cs)
      /\ \A k \in 1..(Len(front) + Len(cs)) :
           (front \o back)[k] = IF k <= Len(front) THEN front[k] ELSE back[k - Len(front)]
  BY <1>3, <1>5, ConcatProperties
<1>. DEFINE all == front \o back
            m == Len(front)
<1>8. m \in {0, 1} /\ Len(all) = m + Len(cs)
  BY <1>5, <1>7
<1>9. ASSUME NEW k \in 1..Len(all)
      PROVE  \/ k = 1 /\ all[k].kind = "text" /\ all[k].ids = <<>>
             \/ k - m \in 1..Len(cs) /\ all[k].kind = "calls" /\ all[k].ids = <<cs[k - m].id>>
  <2>1. CASE k <= m
    <3>1. k \in 1..m /\ k = 1 /\ k \in 1..(m + Len(cs))
      <4>. HIDE DEF all, m
      <4>. QED
        BY <1>1, <1>8, <2>1
    <3>2. all[k] = front[k]
      BY <1>7, <2>1, <3>1
    <3>. QED
      BY <1>5, <3>1, <3>2
  <2>2. CASE ~(k <= m)
    <3>1. all[k] = back[k - m] /\ k - m \in 1..Len(cs)
      BY <1>1, <1>7, <1>8, <2>2
    <3>. QED
      BY <1>4, <3>1
  <2>. QED
    BY <2>1, <2>2
<1>10. ASSUME NEW j \in 1..Len(cs)
       PROVE  /\ j + m \in 1..Len(all) /\ all[j + m].kind = "calls"
              /\ all[j + m].ids = <<cs[j].id>>
  <2>1. j + m \in 1..(m + Len(cs)) /\ ~(j + m <= m) /\ (j + m) - m = j
    BY <1>1, <1>8
  <2>2. all[j + m] = back[j]
    BY <1>7, <2>1
  <2>. QED
    BY <1>4, <1>8, <2>1, <2>2
<1>11. \A k \in 1..Len(all) : k # 1 => all[k].kind = "calls"
  BY <1>9
<1>12. all \in Seq(Good(D))
  BY <1>7
<1>. HIDE DEF all, m
<1>13. \A i \in Nat : <<i>>[1] = i /\ DOMAIN <<i>> = {1}
  OBVIOUS
<1>14. ASSUME NEW k \in 1..Len(all), NEW i \in DOMAIN all[k].ids
       PROVE  \E j \in 1..Len(cs) : cs[j].id = all[k].ids[i]
  <2>1. k - m \in 1..Len(cs) /\ all[k].ids = <<cs[k - m].id>>
    <3>1. DOMAIN <<>> = {}
      OBVIOUS
    <3>. QED
      BY <1>9, <1>14, <3>1
  <2>. QED
    BY <1>1, <1>13, <1>14, <2>1
<1>15. ASSUME NEW j \in 1..Len(cs)
       PROVE  \E k \in 1..Len(all) : all[k].kind = "calls" /\ HasId(all[k], cs[j].id)
  <2>1. /\ j + m \in 1..Len(all) /\ all[j + m].kind = "calls" /\ all[j + m].ids = <<cs[j].id>>
    BY <1>10
  <2>2. HasId(all[j + m], cs[j].id)
    BY <1>1, <1>13, <2>1 DEF HasId
  <2>. QED
    BY <2>1, <2>2
<1>16. \A k \in 1..Len(all) : all[k].kind \in {"text", "empty", "calls"}
  BY <1>9
<1>17. Asks(all, cs)
  BY <1>11, <1>14, <1>15, <1>16 DEF Asks
<1>. QED
  BY <1>6, <1>12, <1>17 DEF all

LEMMA ParsedCounts ==
  ASSUME NEW cs \in Seq(CountedCalls)
  PROVE  Parsed(cs) \in Seq(CountedCalls)
<1>1. DOMAIN cs = 1..Len(cs) /\ Len(cs) \in Nat /\ \A k \in 1..Len(cs) : cs[k] \in CountedCalls
  BY ElementOfSeq, LenProperties
<1>2. ASSUME NEW c \in CountedCalls
      PROVE  [c EXCEPT !.valid = TRUE] \in CountedCalls
  BY DEF CountedCalls, ToolCalls, Counted
<1>3. Parsed(cs) \in [1..Len(cs) -> CountedCalls]
  BY <1>1, <1>2 DEF Parsed
<1>. QED
  BY <1>1, <1>3

\* A stream of the client of the Response API never breaks after an answer with calls is
\* complete: the client would keep the calls and not give them to the loop.
WholeAnswers ==
  (\E g \in Agents : g.provider = "response") =>
    \A a \in Answers : a.broke = "late" => a.calls = <<>>

\* What every client leaves of an answer.
Fits(r) ==
  /\ r.calls \in Seq(CountedCalls)
  /\ \A D : r.items \in Seq(Good(D))
  /\ WholeAnswers => Asks(r.items, r.calls)

LEMMA ChatFits ==
  ASSUME asked \in Nat, NEW a \in Answers, NEW r \in ChatComplete(a) \cup ChatStream(a)
  PROVE  Fits(r)
<1>1. Numbered(a) \in Seq(CountedCalls) /\ <<>> \in Seq(CountedCalls) /\ a.text \in BOOLEAN
  BY NumberedCounts, ConversationAssumption
<1>2. PICK cs \in {Numbered(a), <<>>} : r.items = Message(a.text, cs) /\ r.calls = cs
  BY DEF ChatComplete, ChatStream, Result
<1>3. cs \in Seq(CountedCalls)
  BY <1>1, <1>2
<1>. QED
  BY <1>1, <1>2, <1>3, MessageAsks DEF Fits

LEMMA ResponseFits ==
  ASSUME NamedCalls, agent \in Agents, provider = "response", asked \in Nat,
         NEW a \in Answers, NEW r \in ResponseComplete(a) \cup ResponseStream(a)
  PROVE  Fits(r)
<1>1. /\ Numbered(a) \in Seq(CountedCalls) /\ Len(Numbered(a)) = Len(a.calls)
      /\ <<>> \in Seq(CountedCalls) /\ a.text \in BOOLEAN
      /\ a.calls \in Seq([named : BOOLEAN, valid : BOOLEAN, tool : STRING])
  BY NumberedCounts, ConversationAssumption
<1>2. NamedOnly(Numbered(a)) = Numbered(a) /\ NamedOnly(<<>>) = <<>>
  <2>1. \A k \in DOMAIN a.calls : a.calls[k].named
    BY DEF NamedCalls, provider
  <2>2. \A k \in DOMAIN Numbered(a) : Numbered(a)[k].named
    BY <2>1 DEF Numbered
  <2>3. DOMAIN <<>> = {}
    OBVIOUS
  <2>. QED
    BY <2>2, <2>3 DEF NamedOnly
<1>3. ASSUME NEW cs \in Seq(CountedCalls), NEW items,
             r.calls = cs, items = ItemsOf(a.text, cs), r.items = items
      PROVE  Fits(r)
  BY <1>1, <1>3, ItemsOfAsk DEF Fits
<1>4. CASE r \in ResponseComplete(a)
  <2>1. r.calls = Numbered(a) /\ r.items = ItemsOf(a.text, Numbered(a))
    BY <1>2, <1>4 DEF ResponseComplete, Result
  <2>. QED
    BY <1>1, <1>3, <2>1
<1>5. CASE r \in ResponseStream(a)
  <2>1. CASE a.broke = "no"
    <3>1. r.calls = Numbered(a) /\ r.items = ItemsOf(a.text, Numbered(a))
      BY <1>2, <1>5, <2>1 DEF ResponseStream, Result
    <3>. QED
      BY <1>1, <1>3, <3>1
  <2>2. CASE a.broke # "no"
    <3>1. r.calls = <<>>
      BY <1>5, <2>2 DEF ResponseStream, Result
    <3>2. CASE r.items = ItemsOf(a.text, <<>>)
      BY <1>1, <1>3, <3>1, <3>2
    <3>3. CASE r.items # ItemsOf(a.text, <<>>)
      <4>1. r.items = ItemsOf(a.text, Numbered(a)) /\ a.broke # "midway"
        BY <1>2, <1>5, <2>2, <3>3 DEF ResponseStream, Result
      <4>2. WholeAnswers => Numbered(a) = <<>>
        <5>1. a.broke = "late"
          BY <2>2, <4>1, ConversationAssumption
        <5>2. SUFFICES ASSUME WholeAnswers PROVE Numbered(a) = <<>>
          OBVIOUS
        <5>3. a.calls = <<>>
          BY <5>1, <5>2 DEF WholeAnswers, provider
        <5>. QED
          BY <1>1, <5>3
      <4>3. ~WholeAnswers
        BY <3>3, <4>1, <4>2
      <4>. QED
        BY <1>1, <3>1, <4>1, <4>3, ItemsOfAsk DEF Fits
    <3>. QED
      BY <3>2, <3>3
  <2>. QED
    BY <2>1, <2>2
<1>. QED
  BY <1>4, <1>5

LEMMA AnthropicFits ==
  ASSUME asked \in Nat, NEW a \in Answers, NEW r \in AnthropicComplete(a) \cup AnthropicStream(a)
  PROVE  Fits(r)
<1>1. /\ Numbered(a) \in Seq(CountedCalls) /\ Parsed(Numbered(a)) \in Seq(CountedCalls)
      /\ (a.text \/ a.thinking) \in BOOLEAN
  BY NumberedCounts, ParsedCounts, ConversationAssumption
<1>2. PICK cs \in {Numbered(a), Parsed(Numbered(a))} :
        r.items = Message(a.text \/ a.thinking, cs) /\ r.calls = cs
  <2>1. CASE r \in AnthropicComplete(a)
    BY <2>1 DEF AnthropicComplete, Result
  <2>2. CASE r \in AnthropicStream(a)
    <3>1. a.broke = "no"
      BY <2>2 DEF AnthropicStream
    <3>. QED
      BY <2>2, <3>1 DEF AnthropicStream, Result
  <2>. QED
    BY <2>1, <2>2
<1>3. cs \in Seq(CountedCalls)
  BY <1>1, <1>2
<1>. QED
  BY <1>1, <1>2, <1>3, MessageAsks DEF Fits

LEMMA GeminiFits ==
  ASSUME asked \in Nat, NEW a \in Answers, NEW r \in GeminiComplete(a) \cup GeminiStream(a)
  PROVE  Fits(r)
<1>. DEFINE cs == Parsed(Numbered(a))
<1>1. /\ cs \in Seq(CountedCalls)
      /\ (a.text \/ a.thinking) \in BOOLEAN /\ TRUE \in BOOLEAN
  BY NumberedCounts, ParsedCounts, ConversationAssumption
<1>. HIDE DEF cs
<1>2. ASSUME r \in GeminiComplete(a)
      PROVE  /\ r.calls = cs
             /\ \/ r.items = <<>> /\ cs = <<>>
                \/ \E told \in BOOLEAN : r.items = Message(told, cs)
  <2>1. PICK finish : LET told == Result(Message(a.text \/ a.thinking, cs), cs, a, finish)
                      IN  r \in IF cs # <<>> \/ a.text \/ a.thinking THEN {told}
                                ELSE {told, [told EXCEPT !.items = <<>>]}
    BY <1>2 DEF GeminiComplete, cs
  <2>. DEFINE told == Result(Message(a.text \/ a.thinking, cs), cs, a, finish)
  <2>2. r = told \/ (r = [told EXCEPT !.items = <<>>] /\ cs = <<>>)
    BY <2>1
  <2>3. told.calls = cs /\ told.items = Message(a.text \/ a.thinking, cs)
    BY DEF Result
  <2>4. [told EXCEPT !.items = <<>>].calls = cs /\ [told EXCEPT !.items = <<>>].items = <<>>
    BY DEF Result
  <2>. HIDE DEF told
  <2>. QED
    BY <1>1, <2>2, <2>3, <2>4
<1>3. ASSUME r \in GeminiStream(a)
      PROVE  /\ r.calls = cs
             /\ \/ r.items = <<>> /\ cs = <<>>
                \/ \E told \in BOOLEAN : r.items = Message(told, cs)
  <2>1. a.broke = "no"
    BY <1>3 DEF GeminiStream
  <2>. DEFINE items == IF a.text \/ a.thinking \/ cs # <<>> THEN Message(TRUE, cs) ELSE <<>>
  <2>2. PICK finish : r = Result(items, cs, a, finish)
    BY <1>3, <2>1 DEF GeminiStream, cs
  <2>3. r.calls = cs /\ r.items = items
    BY <2>2 DEF Result
  <2>. QED
    BY <1>1, <2>3
<1>4. r \in GeminiComplete(a) \/ r \in GeminiStream(a)
  OBVIOUS
<1>. QED
  BY <1>1, <1>2, <1>3, <1>4, MessageAsks, NoItemsAsk DEF Fits

LEMMA OutcomeFits ==
  ASSUME NamedCalls, agent \in Agents, asked \in Nat, NEW a \in Answers, NEW r \in Outcomes(a)
  PROVE  Fits(r)
<1>1. provider \in {"chat", "response", "anthropic", "gemini"} /\ mode \in {"complete", "stream"}
  BY ConversationAssumption DEF provider, mode
<1>2. CASE provider = "chat"
  BY <1>1, <1>2, ChatFits DEF Outcomes
<1>3. CASE provider = "response"
  BY <1>1, <1>3, ResponseFits DEF Outcomes
<1>4. CASE provider = "anthropic"
  BY <1>1, <1>4, AnthropicFits DEF Outcomes
<1>5. CASE provider = "gemini"
  BY <1>1, <1>5, GeminiFits DEF Outcomes
<1>. QED
  BY <1>1, <1>2, <1>3, <1>4, <1>5

\* The calls of an answer have the next numbers, and no two the same id.
LEMMA NumberedApart ==
  ASSUME asked \in Nat, NEW a \in Answers, NEW cs \in {<<>>, Numbered(a), Parsed(Numbered(a))}
  PROVE  /\ \A j \in 1..Len(cs) : asked < cs[j].n /\ cs[j].n <= asked + Len(a.calls)
         /\ \A j, k \in 1..Len(cs) : cs[j].id = cs[k].id => cs[j].n = cs[k].n
<1>. DEFINE b == Numbered(a)
<1>1. /\ b \in Seq(CountedCalls) /\ Len(b) = Len(a.calls) /\ Len(b) \in Nat /\ DOMAIN b = 1..Len(b)
      /\ \A k \in 1..Len(b) : b[k] \in CountedCalls
  BY NumberedCounts, ElementOfSeq, LenProperties
<1>2. DOMAIN b = DOMAIN a.calls
  BY DEF Numbered
<1>3. \A k \in 1..Len(b) : b[k].n = asked + k /\ b[k].id = IF agent \in Idless THEN k ELSE 2 + asked + k
  BY <1>1, <1>2 DEF Numbered
<1>. HIDE DEF b
<1>4. \A j \in 1..Len(b) : asked < b[j].n /\ b[j].n <= asked + Len(a.calls)
  BY <1>1, <1>3
<1>5. \A j, k \in 1..Len(b) : b[j].id = b[k].id => b[j].n = b[k].n
  BY <1>1, <1>3
<1>6. CASE cs = <<>>
  BY <1>6
<1>7. CASE cs = b
  BY <1>4, <1>5, <1>7
<1>8. CASE cs = Parsed(b)
  <2>1. DOMAIN cs = DOMAIN b /\ \A k \in DOMAIN b : cs[k].n = b[k].n /\ cs[k].id = b[k].id
    BY <1>1, <1>8 DEF Parsed, CountedCalls, ToolCalls
  <2>2. cs \in Seq(CountedCalls)
    BY <1>1, <1>8, ParsedCounts
  <2>3. Len(cs) = Len(b)
    BY <1>1, <2>1, <2>2, LenProperties
  <2>. QED
    BY <1>1, <1>4, <1>5, <2>1, <2>3
<1>. QED
  BY <1>6, <1>7, <1>8 DEF b

\* The calls the loop is given are those of the answer, or none.
LEMMA OutcomeCalls ==
  ASSUME NamedCalls, agent \in Agents, NEW a \in Answers, NEW r \in Outcomes(a)
  PROVE  r.calls \in {<<>>, Numbered(a), Parsed(Numbered(a))}
<1>1. provider \in {"chat", "response", "anthropic", "gemini"} /\ mode \in {"complete", "stream"}
  BY ConversationAssumption DEF provider, mode
<1>2. CASE provider = "chat"
  <2>1. r \in ChatComplete(a) \cup ChatStream(a)
    BY <1>1, <1>2 DEF Outcomes
  <2>. QED
    BY <2>1 DEF ChatComplete, ChatStream, Result
<1>3. CASE provider = "response"
  <2>1. r \in ResponseComplete(a) \cup ResponseStream(a)
    BY <1>1, <1>3 DEF Outcomes
  <2>2. \A k \in DOMAIN a.calls : a.calls[k].named
    BY <1>3 DEF NamedCalls, provider
  <2>3. \A k \in DOMAIN Numbered(a) : Numbered(a)[k].named
    BY <2>2 DEF Numbered
  <2>4. NamedOnly(Numbered(a)) = Numbered(a)
    BY <2>3 DEF NamedOnly
  <2>. QED
    <3>1. CASE r \in ResponseComplete(a)
      BY <2>4, <3>1 DEF ResponseComplete, Result
    <3>2. CASE r \in ResponseStream(a)
      BY <3>2 DEF ResponseStream, Result
    <3>. QED
      BY <2>1, <3>1, <3>2
<1>4. CASE provider = "anthropic"
  <2>1. r \in AnthropicComplete(a) \/ r \in AnthropicStream(a)
    BY <1>1, <1>4 DEF Outcomes
  <2>2. CASE r \in AnthropicComplete(a)
    BY <2>2 DEF AnthropicComplete, Result
  <2>3. CASE r \in AnthropicStream(a)
    <3>1. a.broke = "no"
      BY <2>3 DEF AnthropicStream
    <3>. QED
      BY <2>3, <3>1 DEF AnthropicStream, Result
  <2>. QED
    BY <2>1, <2>2, <2>3
<1>5. CASE provider = "gemini"
  <2>1. r \in GeminiComplete(a) \/ r \in GeminiStream(a)
    BY <1>1, <1>5 DEF Outcomes
  <2>2. ASSUME r \in GeminiComplete(a)
        PROVE  r.calls = Parsed(Numbered(a))
    <3>. DEFINE cs == Parsed(Numbered(a))
                told == Result(Message(a.text \/ a.thinking, cs), cs, a, IF cs # <<>> THEN "tool_calls" ELSE Finish(a.cut, cs))
    <3>1. r = told \/ r = [told EXCEPT !.items = <<>>]
      BY <2>2 DEF GeminiComplete
    <3>2. told.calls = cs /\ [told EXCEPT !.items = <<>>].calls = cs
      BY DEF Result
    <3>. HIDE DEF told
    <3>. QED
      BY <3>1, <3>2
  <2>3. ASSUME r \in GeminiStream(a)
        PROVE  r.calls = Parsed(Numbered(a))
    <3>. DEFINE cs == Parsed(Numbered(a))
                items == IF a.text \/ a.thinking \/ cs # <<>> THEN Message(TRUE, cs) ELSE <<>>
    <3>1. a.broke = "no"
      BY <2>3 DEF GeminiStream
    <3>2. PICK finish : r = Result(items, cs, a, finish)
      BY <2>3, <3>1 DEF GeminiStream
    <3>. QED
      BY <3>2 DEF Result
  <2>. QED
    BY <2>1, <2>2, <2>3
<1>. QED
  BY <1>1, <1>2, <1>3, <1>4, <1>5

---------------------------------------------------------------------------
(* Results *)

LEMMA ResultsAreOne ==
  ASSUME NEW D, NEW rs \in Seq(Got(D))
  PROVE  /\ Results(rs) \in Good(D) /\ Results(rs).kind = "results"
         /\ DOMAIN Results(rs).ids = 1..Len(rs)
         /\ \A k \in 1..Len(rs) : Results(rs).ids[k] = rs[k].id
         /\ \A k \in 1..Len(rs) : rs[k].ok => ResultFact(rs[k].n) \in Results(rs).facts
<1>1. /\ DOMAIN rs = 1..Len(rs) /\ Len(rs) \in Nat
      /\ \A k \in 1..Len(rs) : rs[k] \in Got(D)
  BY ElementOfSeq, LenProperties
<1>2. \A k \in 1..Len(rs) : /\ rs[k].id \in Nat /\ rs[k].n \in Nat /\ rs[k].n >= 1
                            /\ agent \notin Idless => rs[k].id = rs[k].n + 2
                            /\ rs[k].file => rs[k].id \in DOMAIN D /\ rs[k].n <= D[rs[k].id]
  BY <1>1 DEF Got, ToolResults, Counted
<1>. DEFINE ids == [k \in DOMAIN rs |-> rs[k].id]
            told == {ResultFact(rs[k].n) : k \in {j \in DOMAIN rs : rs[j].ok}}
            files == {<<rs[k].id, rs[k].n>> : k \in {j \in DOMAIN rs : rs[j].file}}
<1>3. ids \in Seq(Nat) /\ DOMAIN ids = 1..Len(rs)
  <2>1. ids \in [1..Len(rs) -> Nat]
    BY <1>1, <1>2
  <2>. HIDE DEF ids
  <2>. QED
    BY <1>1, <2>1
<1>4. told \in SUBSET Nat /\ \A f \in told : ~(f <= MaxCalls)
  BY <1>1, <1>2, ConversationAssumption DEF ResultFact
<1>5. files \in SUBSET (Nat \X Nat)
  BY <1>1, <1>2
<1>6. \A f \in files : /\ f[1] \in DOMAIN D /\ f[2] <= D[f[1]]
                       /\ agent \notin Idless => f[1] = f[2] + 2
  BY <1>1, <1>2
<1>7. \A k \in 1..Len(rs) : ids[k] = rs[k].id /\ (rs[k].ok => ResultFact(rs[k].n) \in told)
  BY <1>1
<1>8. Results(rs) = [kind |-> "results", ids |-> ids, facts |-> told, files |-> files]
  BY DEF Results
<1>. HIDE DEF ids, told, files
<1>9. Results(rs) \in Items
  BY <1>3, <1>4, <1>5, <1>8 DEF Items, Kinds
<1>10. Results(rs) \in Good(D)
  <2>. DEFINE x == Results(rs)
  <2>1. x.kind = "results" /\ x.facts = told /\ x.files = files
    BY <1>8
  <2>. HIDE DEF x
  <2>2. ItemInv(x, D)
    BY <1>4, <1>6, <2>1 DEF ItemInv
  <2>. QED
    BY <1>9, <2>2 DEF Good, x
<1>. QED
  BY <1>3, <1>7, <1>8, <1>10

LEMMA ResultItemsAnswer ==
  ASSUME NEW D, NEW rs \in Seq(Got(D))
  PROVE  /\ ResultItems(rs) \in Seq(Good(D))
         /\ \A k \in 1..Len(ResultItems(rs)) : ResultItems(rs)[k].kind = "results"
         /\ \A k \in 1..Len(ResultItems(rs)) : \A i \in DOMAIN ResultItems(rs)[k].ids :
              \E j \in 1..Len(rs) : rs[j].id = ResultItems(rs)[k].ids[i]
         /\ \A j \in 1..Len(rs) : \E k \in 1..Len(ResultItems(rs)) :
              HasId(ResultItems(rs)[k], rs[j].id)
         /\ \A j \in 1..Len(rs) : rs[j].ok => \E k \in 1..Len(ResultItems(rs)) :
              ResultFact(rs[j].n) \in ResultItems(rs)[k].facts
<1>1. /\ DOMAIN rs = 1..Len(rs) /\ Len(rs) \in Nat
      /\ \A k \in 1..Len(rs) : rs[k] \in Got(D)
  BY ElementOfSeq, LenProperties
<1>2. CASE provider \in {"chat", "response"}
  <2>. DEFINE items == [k \in DOMAIN rs |-> Results(<<rs[k]>>)]
  <2>1. ResultItems(rs) = items
    BY <1>2 DEF ResultItems
  <2>2. ASSUME NEW k \in 1..Len(rs)
        PROVE  /\ Results(<<rs[k]>>) \in Good(D) /\ Results(<<rs[k]>>).kind = "results"
               /\ DOMAIN Results(<<rs[k]>>).ids = {1} /\ Results(<<rs[k]>>).ids[1] = rs[k].id
               /\ rs[k].ok => ResultFact(rs[k].n) \in Results(<<rs[k]>>).facts
    <3>. DEFINE one == <<rs[k]>>
    <3>1. one \in Seq(Got(D)) /\ Len(one) = 1 /\ one[1] = rs[k]
      BY <1>1
    <3>. HIDE DEF one
    <3>2. /\ Results(one) \in Good(D) /\ Results(one).kind = "results"
          /\ DOMAIN Results(one).ids = 1..1
          /\ \A j \in 1..1 : Results(one).ids[j] = one[j].id
          /\ \A j \in 1..1 : one[j].ok => ResultFact(one[j].n) \in Results(one).facts
      BY <3>1, ResultsAreOne
    <3>3. /\ Results(one) \in Good(D) /\ Results(one).kind = "results"
          /\ DOMAIN Results(one).ids = {1} /\ Results(one).ids[1] = rs[k].id
          /\ rs[k].ok => ResultFact(rs[k].n) \in Results(one).facts
      BY <3>1, <3>2
    <3>. QED
      BY <3>3 DEF one
  <2>3. items \in [1..Len(rs) -> Good(D)] /\ \A k \in 1..Len(rs) : items[k] = Results(<<rs[k]>>)
    BY <1>1, <2>2
  <2>. HIDE DEF items
  <2>4. items \in Seq(Good(D)) /\ Len(items) = Len(rs)
    BY <1>1, <2>3
  <2>5. \A k \in 1..Len(rs) : HasId(items[k], rs[k].id)
    BY <2>2, <2>3 DEF HasId
  <2>6. \A k \in 1..Len(rs) : \A i \in DOMAIN items[k].ids : rs[k].id = items[k].ids[i]
    BY <2>2, <2>3
  <2>7. \A k \in 1..Len(rs) : /\ items[k].kind = "results"
                              /\ rs[k].ok => ResultFact(rs[k].n) \in items[k].facts
    BY <2>2, <2>3
  <2>. QED
    <3>1. /\ items \in Seq(Good(D))
          /\ \A k \in 1..Len(items) : items[k].kind = "results"
      BY <2>4, <2>7
    <3>2. /\ \A k \in 1..Len(items) : \A i \in DOMAIN items[k].ids :
               \E j \in 1..Len(rs) : rs[j].id = items[k].ids[i]
          /\ \A j \in 1..Len(rs) : \E k \in 1..Len(items) : HasId(items[k], rs[j].id)
      BY <2>4, <2>5, <2>6
    <3>3. \A j \in 1..Len(rs) : rs[j].ok => \E k \in 1..Len(items) :
            ResultFact(rs[j].n) \in items[k].facts
      BY <2>4, <2>7
    <3>. QED
      BY <2>1, <3>1, <3>2, <3>3
<1>3. CASE provider \notin {"chat", "response"}
  <2>. DEFINE x == Results(rs)
              items == <<x>>
  <2>1. ResultItems(rs) = items
    BY <1>3 DEF ResultItems
  <2>2. /\ x \in Good(D) /\ x.kind = "results" /\ DOMAIN x.ids = 1..Len(rs)
        /\ \A k \in 1..Len(rs) : x.ids[k] = rs[k].id
        /\ \A k \in 1..Len(rs) : rs[k].ok => ResultFact(rs[k].n) \in x.facts
    BY ResultsAreOne
  <2>. HIDE DEF x
  <2>3. items \in Seq(Good(D)) /\ Len(items) = 1 /\ items[1] = x
    BY <2>2
  <2>. HIDE DEF items
  <2>4. \A k \in 1..Len(rs) : HasId(items[1], rs[k].id)
    BY <2>2, <2>3 DEF HasId
  <2>. QED
    BY <2>1, <2>2, <2>3, <2>4
<1>. QED
  BY <1>2, <1>3

\* The result of a batch's call after the aggregate budget.
LEMMA BudgetedGot ==
  ASSUME NEW D, NEW E, Grows(D, E), results \in Seq(Got(D)), NEW kept \in SUBSET DOMAIN results,
         \A k \in kept : results[k].id \in DOMAIN E /\ results[k].n <= E[results[k].id]
  PROVE  /\ Budgeted(kept) \in Seq(Got(E)) /\ Len(Budgeted(kept)) = Len(results)
         /\ \A k \in 1..Len(results) : /\ Budgeted(kept)[k].id = results[k].id
                                       /\ Budgeted(kept)[k].n = results[k].n
                                       /\ Budgeted(kept)[k].ok = results[k].ok
<1>1. /\ DOMAIN results = 1..Len(results) /\ Len(results) \in Nat
      /\ \A k \in 1..Len(results) : results[k] \in Got(D)
  BY ElementOfSeq, LenProperties
<1>2. ASSUME NEW r \in Got(D), NEW file \in BOOLEAN,
             file => r.file \/ (r.id \in DOMAIN E /\ r.n <= E[r.id])
      PROVE  LET q == [r EXCEPT !.file = file]
             IN  q \in Got(E) /\ q.id = r.id /\ q.n = r.n /\ q.ok = r.ok
  BY <1>2 DEF Got, ToolResults, Counted, Grows
<1>3. ASSUME NEW k \in 1..Len(results)
      PROVE  /\ Budgeted(kept)[k] \in Got(E) /\ Budgeted(kept)[k].id = results[k].id
             /\ Budgeted(kept)[k].n = results[k].n /\ Budgeted(kept)[k].ok = results[k].ok
  <2>1. CASE k \in kept
    <3>1. Budgeted(kept)[k] = [results[k] EXCEPT !.file = TRUE]
      BY <1>1, <2>1 DEF Budgeted
    <3>. QED
      BY <1>1, <1>2, <2>1, <3>1
  <2>2. CASE k \notin kept
    <3>1. Budgeted(kept)[k] = results[k]
      BY <1>1, <2>2 DEF Budgeted
    <3>. QED
      BY <1>1, <3>1, GoodGrows
  <2>. QED
    BY <2>1, <2>2
<1>4. DOMAIN Budgeted(kept) = 1..Len(results)
  BY <1>1 DEF Budgeted
<1>5. Budgeted(kept) \in [1..Len(results) -> Got(E)]
  BY <1>3, <1>4 DEF Budgeted
<1>. QED
  BY <1>1, <1>3, <1>5

---------------------------------------------------------------------------
(* The data: conversations, the batch and the files *)

\* A call's number is its own in the batch b, and no file that has its id is of a
\* later one.
OfOne(b, D) ==
  /\ \A j \in 1..Len(b) : b[j].n <= asked /\ (b[j].id \in DOMAIN D => D[b[j].id] <= b[j].n)
  /\ \A j, k \in 1..Len(b) : b[j].id = b[k].id => b[j].n = b[k].n

\* The results are those of the first calls of the batch, and outside of the tools
\* there is no batch.
BatchInv ==
  /\ batch \in Seq(CountedCalls) /\ results \in Seq(Got(disk))
  /\ place # "tools" => batch = <<>> /\ results = <<>> /\ phase = "idle"
  /\ place = "tools" => batch # <<>>
  /\ phase # "idle" => Len(results) < Len(batch)
  /\ Len(results) <= Len(batch)
  /\ \A k \in 1..Len(results) : results[k].id = batch[k].id /\ results[k].n = batch[k].n
  /\ OfOne(batch, disk)

\* A file has the number of a call whose id is its name.
DiskInv ==
  \A id \in DOMAIN disk : /\ id \in Nat /\ disk[id] \in Nat /\ disk[id] <= asked
                          /\ agent \notin Idless => id = disk[id] + 2

TextInv ==
  /\ agent \in Agents /\ calls \in 0..MaxCalls /\ asked \in Nat /\ facts \in SUBSET Nat
  /\ place \in {"rest", "top", "request", "tools", "summary", "down"}
  /\ conv \in Seq(Good(disk)) /\ snapshot \in Seq(Good(disk))
  /\ saved.conv \in Seq(Good(disk))

DataInv == BatchInv /\ DiskInv /\ TextInv

LEMMA InitData == Init => DataInv
<1>1. /\ \A S : <<>> \in Seq(S)
      /\ Len(<<>>) = 0 /\ DOMAIN <<>> = {} /\ 0 \in Nat /\ {} \in SUBSET Nat
  OBVIOUS
<1>2. 0 \in 0..MaxCalls
  BY ConversationAssumption
<1>3. Init => BatchInv
  BY <1>1 DEF Init, ToolInit, BatchInv, OfOne
<1>4. Init => DiskInv
  BY <1>1 DEF Init, ToolInit, DiskInv
<1>5. Init => TextInv
  <2>1. Init => saved.conv = <<>>
    BY DEF Init
  <2>. QED
    BY <1>1, <1>2, <2>1 DEF Init, TextInv
<1>. QED
  BY <1>3, <1>4, <1>5 DEF DataInv

LEMMA GoodPrimed ==
  ASSUME UNCHANGED agent
  PROVE  /\ Good(disk)' = Good(disk')
         /\ Got(disk)' = Got(disk')
         /\ CountedCalls' = CountedCalls
BY DEF Good, Got, ItemInv, CountedCalls, Counted, provider

\* What was good stays so when files are written.
LEMMA GoodLater ==
  ASSUME UNCHANGED agent, Grows(disk, disk')
  PROVE  /\ \A c \in Seq(Good(disk)) : c \in Seq(Good(disk)')
         /\ \A c \in Seq(Got(disk)) : c \in Seq(Got(disk)')
BY GoodPrimed, GoodGrows, SeqMonotonic

\* Files are written for the calls rs of a batch.
LEMMA WrittenKeeps ==
  ASSUME DiskInv, batch \in Seq(CountedCalls), OfOne(batch, disk), UNCHANGED <<agent, asked>>,
         NEW rs, disk' = Written(rs),
         \A r \in rs : \E j \in 1..Len(batch) : r.id = batch[j].id /\ r.n = batch[j].n
  PROVE  /\ DiskInv' /\ Grows(disk, disk') /\ OfOne(batch, disk')
         /\ \A r \in rs : r.id \in DOMAIN disk' /\ r.n <= disk'[r.id]
<1>1. DOMAIN disk' = DOMAIN disk \cup {r.id : r \in rs}
  BY DEF Written
<1>2. \A j \in 1..Len(batch) : /\ batch[j].id \in Nat /\ batch[j].n \in Nat /\ batch[j].n <= asked
                               /\ agent \notin Idless => batch[j].id = batch[j].n + 2
  BY ElementOfSeq, LenProperties DEF CountedCalls, ToolCalls, Counted, OfOne
<1>3. ASSUME NEW j \in 1..Len(batch), \E r \in rs : r.id = batch[j].id
      PROVE  disk'[batch[j].id] = batch[j].n
  <2>. DEFINE id == batch[j].id
              last == CHOOSE r \in rs : r.id = id /\ \A q \in rs : q.id = id => q.n <= r.n
  <2>1. \A q \in rs : q.id = id => q.n = batch[j].n
    BY DEF OfOne
  <2>2. PICK r \in rs : r.id = id
    BY <1>3
  <2>3. \A q \in rs : q.id = id => q.n <= r.n
    BY <1>2, <2>1, <2>2
  <2>4. last \in rs /\ last.id = id
    BY <2>2, <2>3
  <2>5. disk'[id] = last.n
    BY <1>1, <1>3 DEF Written
  <2>. HIDE DEF last
  <2>. QED
    BY <2>1, <2>4, <2>5
<1>4. ASSUME NEW id \in DOMAIN disk', ~\E r \in rs : r.id = id
      PROVE  id \in DOMAIN disk /\ disk'[id] = disk[id]
  BY <1>1, <1>4 DEF Written
<1>5. ASSUME NEW id \in DOMAIN disk'
      PROVE  \/ \E j \in 1..Len(batch) : id = batch[j].id /\ disk'[id] = batch[j].n
             \/ id \in DOMAIN disk /\ disk'[id] = disk[id]
  BY <1>3, <1>4
<1>6. DiskInv'
  <2>1. ASSUME NEW id \in DOMAIN disk'
        PROVE  /\ id \in Nat /\ disk'[id] \in Nat /\ disk'[id] <= asked
               /\ agent \notin Idless => id = disk'[id] + 2
    BY <1>2, <1>5 DEF DiskInv
  <2>. QED
    BY <2>1 DEF DiskInv
<1>7. Grows(disk, disk')
  <2>1. ASSUME NEW id \in DOMAIN disk, NEW n \in Nat, n <= disk[id]
        PROVE  id \in DOMAIN disk' /\ n <= disk'[id]
    <3>1. id \in DOMAIN disk' /\ disk[id] \in Nat
      BY <1>1 DEF DiskInv
    <3>2. CASE \E j \in 1..Len(batch) : id = batch[j].id /\ disk'[id] = batch[j].n
      BY <1>2, <2>1, <3>1, <3>2 DEF OfOne
    <3>3. CASE disk'[id] = disk[id]
      BY <2>1, <3>1, <3>3
    <3>. QED
      BY <1>5, <3>1, <3>2, <3>3
  <2>2. \A id \in DOMAIN disk : id \in DOMAIN disk'
    BY <1>1
  <2>. QED
    BY <2>1, <2>2 DEF Grows
<1>8. OfOne(batch, disk')
  <2>1. ASSUME NEW j \in 1..Len(batch), batch[j].id \in DOMAIN disk'
        PROVE  disk'[batch[j].id] <= batch[j].n
    <3>1. CASE \E r \in rs : r.id = batch[j].id
      BY <1>2, <1>3, <3>1
    <3>2. CASE ~\E r \in rs : r.id = batch[j].id
      BY <1>4, <2>1, <3>2 DEF OfOne
    <3>. QED
      BY <3>1, <3>2
  <2>. QED
    BY <2>1 DEF OfOne
<1>9. ASSUME NEW r \in rs
      PROVE  r.id \in DOMAIN disk' /\ r.n <= disk'[r.id]
  BY <1>1, <1>2, <1>3
<1>. QED
  BY <1>6, <1>7, <1>8, <1>9

\* The current call of a batch that is not done.
LEMMA CurrentCounts ==
  ASSUME BatchInv, Len(results) < Len(batch)
  PROVE  /\ Current \in CountedCalls /\ Current.id \in Nat /\ Current.n \in Nat /\ Counted(Current)
         /\ Len(results) + 1 \in 1..Len(batch) /\ Current = batch[Len(results) + 1]
<1>1. Len(results) \in Nat /\ Len(batch) \in Nat /\ DOMAIN batch = 1..Len(batch)
  BY LenProperties DEF BatchInv
<1>2. Len(results) + 1 \in 1..Len(batch)
  BY <1>1
<1>3. Current \in CountedCalls
  BY <1>2, ElementOfSeq DEF BatchInv, Current
<1>. QED
  BY <1>2, <1>3 DEF Current, CountedCalls, ToolCalls

\* A call gets its result.
LEMMA AnsweredKeeps ==
  ASSUME BatchInv, Len(results) < Len(batch), place = "tools", UNCHANGED <<agent, place, asked>>,
         NEW ok \in BOOLEAN, NEW file \in BOOLEAN, AnsweredWith(ok, file),
         Grows(disk, disk'), OfOne(batch, disk'),
         file => Current.id \in DOMAIN disk' /\ Current.n <= disk'[Current.id]
  PROVE  BatchInv'
<1>. DEFINE S == Got(disk')
            x == [n |-> Current.n, id |-> Current.id, ok |-> ok, file |-> file]
<1>1. results' = Append(results, x) /\ phase' = "idle" /\ batch' = batch
  BY DEF AnsweredWith
<1>2. x \in S
  BY CurrentCounts DEF Got, ToolResults, Counted
<1>3. results \in Seq(S) /\ Got(disk)' = S /\ CountedCalls' = CountedCalls
  BY GoodLater, GoodPrimed DEF BatchInv
<1>4. /\ x.id = batch[Len(results) + 1].id /\ x.n = batch[Len(results) + 1].n
      /\ Len(results) + 1 \in 1..Len(batch)
  BY CurrentCounts
<1>. HIDE DEF S, x
<1>5. /\ results' \in Seq(S) /\ Len(results') = Len(results) + 1 /\ Len(results) \in Nat
      /\ \A k \in 1..Len(results) : results'[k] = results[k]
      /\ results'[Len(results) + 1] = x
  BY <1>1, <1>2, <1>3
<1>6. Len(batch) \in Nat
  BY LenProperties DEF BatchInv
<1>7. \A k \in 1..Len(results') : results'[k].id = batch[k].id /\ results'[k].n = batch[k].n
  <2>1. ASSUME NEW k \in 1..Len(results')
        PROVE  k \in 1..Len(results) \/ k = Len(results) + 1
    BY <1>5
  <2>. QED
    BY <1>4, <1>5, <2>1 DEF BatchInv
<1>8. Len(results') <= Len(batch)
  BY <1>5, <1>6
<1>9. OfOne(batch, disk)'
  BY <1>1 DEF OfOne
<1>. QED
  BY <1>1, <1>3, <1>5, <1>7, <1>8, <1>9 DEF BatchInv

\* The batch's call goes on.
LEMMA CallGoesOn ==
  ASSUME BatchInv, place = "tools", UNCHANGED <<agent, place, asked, batch, results, disk>>,
         Len(results) < Len(batch)
  PROVE  BatchInv'
<1>1. /\ results \in Seq(Got(disk)') /\ CountedCalls' = CountedCalls
  BY GoodLater, GoodPrimed DEF BatchInv, Grows
<1>. QED
  BY <1>1 DEF BatchInv, OfOne

LEMMA ToolsKeepData ==
  ASSUME DataInv, ToolsRun
  PROVE  DataInv'
<1>1. /\ place = "tools" /\ UNCHANGED <<agent, place, conv, snapshot, asked, facts, saved, calls>>
  BY DEF ToolsRun, loopVars, textVars
<1>2. BatchInv /\ DiskInv /\ TextInv
  BY DEF DataInv
<1>3. ASSUME Grows(disk, disk')
      PROVE  TextInv'
  <2>1. conv \in Seq(Good(disk)') /\ snapshot \in Seq(Good(disk)')
        /\ saved.conv \in Seq(Good(disk)')
    BY <1>1, <1>2, <1>3, GoodLater DEF TextInv
  <2>. QED
    BY <1>1, <1>2, <2>1 DEF TextInv
<1>4. ASSUME UNCHANGED disk, BatchInv'
      PROVE  DataInv'
  <2>1. Grows(disk, disk')
    BY <1>4 DEF Grows
  <2>. QED
    BY <1>1, <1>2, <1>3, <1>4, <2>1 DEF DataInv, DiskInv
<1>still. ASSUME UNCHANGED disk
          PROVE  Grows(disk, disk') /\ OfOne(batch, disk')
  BY <1>2, <1>still DEF Grows, BatchInv
<1>5. Errs /\ Len(results) < Len(batch) => DataInv'
  BY <1>1, <1>2, <1>4, <1>still, AnsweredKeeps DEF Errs
<1>6. UNCHANGED <<batch, results, disk>> /\ Len(results) < Len(batch) => DataInv'
  BY <1>1, <1>2, <1>4, CallGoesOn
<1>7. phase # "idle" \/ Fetching => Len(results) < Len(batch)
  BY <1>2 DEF BatchInv, Fetching
<1>8. CASE CallSucceeds
  <2>1. Completes /\ Len(results) < Len(batch)
    BY <1>7, <1>8 DEF CallSucceeds
  <2>2. CASE PersistDir /\ Current.tool \in Lengthy
    <3>1. AnsweredWith(TRUE, TRUE) /\ disk' = Written({Current})
      BY <2>1, <2>2 DEF Completes
    <3>2. \A r \in {Current} : \E j \in 1..Len(batch) : r.id = batch[j].id /\ r.n = batch[j].n
      BY <1>2, <2>1, CurrentCounts
    <3>3. /\ DiskInv' /\ Grows(disk, disk') /\ OfOne(batch, disk')
          /\ \A r \in {Current} : r.id \in DOMAIN disk' /\ r.n <= disk'[r.id]
      BY <1>1, <1>2, <3>1, <3>2, WrittenKeeps DEF BatchInv
    <3>4. BatchInv'
      BY <1>1, <1>2, <2>1, <3>1, <3>3, AnsweredKeeps
    <3>. QED
      BY <1>3, <3>3, <3>4 DEF DataInv
  <2>3. CASE ~(PersistDir /\ Current.tool \in Lengthy)
    <3>1. AnsweredWith(TRUE, FALSE) /\ UNCHANGED disk
      BY <2>1, <2>3 DEF Completes
    <3>. QED
      BY <1>1, <1>2, <1>4, <1>still, <2>1, <3>1, AnsweredKeeps
  <2>. QED
    BY <2>2, <2>3
<1>9. CASE Refuse \/ NoSession \/ RestartFails \/ RetryFails
  BY <1>5, <1>7, <1>9 DEF Refuse, NoSession, RestartFails, RetryFails
<1>10. CASE BeginTool \/ GetSession \/ Restart
  BY <1>6, <1>7, <1>10 DEF BeginTool, GetSession, Restart
<1>11. CASE CallFails
  BY <1>5, <1>6, <1>7, <1>11 DEF CallFails
<1>. QED
  BY <1>8, <1>9, <1>10, <1>11 DEF ToolsRun, ToolStep

LEMMA HasLast ==
  ASSUME NEW n \in Nat, NEW S \in SUBSET (1..n), S # {}
  PROVE  \E k \in S : \A j \in S : j <= k
<1>. DEFINE Above(k) == {j \in 1..n : k < j}
            T == {Above(k) : k \in S}
<1>1. T \subseteq FiniteSubsetsOf(1..n) /\ T # {}
  <2>1. IsFiniteSet(1..n)
    BY FS_Interval
  <2>2. FiniteSubsetsOf(1..n) = SUBSET (1..n)
    BY <2>1, FS_FiniteSubsetsOfFinite
  <2>3. PICK k \in S : TRUE
    OBVIOUS
  <2>4. Above(k) \in T
    BY <2>3
  <2>5. \A j : Above(j) \subseteq 1..n
    OBVIOUS
  <2>6. T \subseteq SUBSET (1..n)
    BY <2>5
  <2>. QED
    BY <2>2, <2>4, <2>6
<1>2. PICK U \in T : \A V \in T : <<V, U>> \notin StrictSubsetOrdering(1..n)
  BY <1>1, FS_StrictSubsetOrderingWellFounded, WFMin
<1>3. PICK k \in S : U = Above(k)
  BY <1>2
<1>4. ASSUME NEW j \in S, ~(j <= k)
      PROVE  FALSE
  <2>1. Above(j) \in T /\ Above(j) \subseteq Above(k) /\ j \in Above(k) /\ j \notin Above(j)
    BY <1>4
  <2>2. <<Above(j), Above(k)>> \in StrictSubsetOrdering(1..n)
    BY <2>1 DEF StrictSubsetOrdering
  <2>. QED
    BY <1>2, <1>3, <2>1, <2>2
<1>. QED
  BY <1>4

---------------------------------------------------------------------------
(* Parts of a conversation *)

\* The message with calls that is kept aside while a summary is made.
LEMMA OpenIsLast ==
  ASSUME NEW S, NEW c \in Seq(S)
  PROVE  \/ Open(c) = <<>>
         \/ /\ c # <<>> /\ Len(c) \in 1..Len(c) /\ c[Len(c)] \in S /\ Open(c) = <<c[Len(c)]>>
            /\ c[Len(c)].kind = "calls" /\ provider # "response"
<1>1. SUFFICES ASSUME Open(c) # <<>>
               PROVE  /\ c # <<>> /\ Len(c) \in 1..Len(c) /\ c[Len(c)] \in S /\ Open(c) = <<c[Len(c)]>>
                      /\ c[Len(c)].kind = "calls" /\ provider # "response"
  OBVIOUS
<1>2. c # <<>> /\ Last(c).kind = "calls" /\ provider # "response" /\ Open(c) = <<Last(c)>>
  BY <1>1 DEF Open
<1>3. Len(c) \in 1..Len(c)
  BY <1>2
<1>. QED
  BY <1>2, <1>3, ElementOfSeq DEF Last

LEMMA SummarizableIsNot ==
  ASSUME Summarizable(<<>>) # <<>>
  PROVE  FALSE
<1>1. Open(<<>>) = <<>>
  BY DEF Open
<1>2. SubSeq(<<>>, 1, 0 - 0) = <<>>
  BY SubSeqEmpty
<1>. QED
  BY <1>1, <1>2 DEF Summarizable

\* Whether the loop goes on or asks for a summary, it has the same items.
LEMMA EitherIsGood ==
  ASSUME NEW D, NEW c \in Seq(Good(D)), snapshot \in Seq(Good(D)), GoesOn(c) \/ AsksSummary(c)
  PROVE  /\ conv' \in Seq(Good(D)) /\ snapshot' \in Seq(Good(D))
         /\ place' \in {"top", "rest", "summary"} /\ calls' = calls
<1>1. CASE GoesOn(c)
  BY <1>1 DEF GoesOn
<1>2. CASE AsksSummary(c)
  <2>1. {} \in SUBSET Nat
    OBVIOUS
  <2>2. Item("summarize", <<>>, {}) \in Good(D)
    BY <2>1, PlainIsGood DEF Kinds
  <2>3. <<Item("summarize", <<>>, {})>> \in Seq(Good(D))
    BY <2>2
  <2>4. c # <<>>
    BY <1>2, SummarizableIsNot DEF AsksSummary
  <2>5. Tail(c) \in Seq(Good(D))
    BY <2>4, HeadTailProperties
  <2>. QED
    BY <1>2, <2>3, <2>5 DEF AsksSummary
<1>. QED
  BY <1>1, <1>2

\* cleanup_interrupted(): what is kept ends with an item that is safe, and only items
\* that are not come after it.
LEMMA CleanedIs ==
  ASSUME NEW S, NEW c \in Seq(S)
  PROVE  \E n \in 0..Len(c) :
           /\ Cleaned(c) = SubSeq(c, 1, n) /\ Cleaned(c) \in Seq(S) /\ Len(Cleaned(c)) = n
           /\ \A k \in 1..n : Cleaned(c)[k] = c[k]
           /\ n # 0 => c[n].kind \notin {"calls", "results", "empty"}
           /\ \A k \in 1..Len(c) : k > n => c[k].kind \in {"calls", "results", "empty"}
<1>. DEFINE kept == {k \in DOMAIN c : c[k].kind \notin {"calls", "results", "empty"}}
            n == IF kept = {} THEN 0 ELSE CHOOSE k \in kept : \A j \in kept : j <= k
<1>1. DOMAIN c = 1..Len(c) /\ Len(c) \in Nat /\ kept \in SUBSET (1..Len(c))
  OBVIOUS
<1>2. Cleaned(c) = SubSeq(c, 1, n)
  BY DEF Cleaned
<1>3. kept # {} => n \in kept /\ \A j \in kept : j <= n
  <2>1. kept # {} => \E k \in kept : \A j \in kept : j <= k
    <3>. HIDE DEF kept
    <3>. QED
      BY <1>1, HasLast
  <2>. QED
    BY <2>1
<1>4. kept = {} => n = 0
  OBVIOUS
<1>5. /\ \A k \in 1..Len(c) : k \notin kept => c[k].kind \in {"calls", "results", "empty"}
      /\ \A k \in kept : c[k].kind \notin {"calls", "results", "empty"}
  OBVIOUS
<1>. HIDE DEF n, kept
<1>6. n \in 0..Len(c)
  <2>1. CASE kept = {}
    <3>1. 0 \in 0..Len(c)
      BY <1>1
    <3>. QED
      BY <1>4, <2>1, <3>1
  <2>2. CASE kept # {}
    <3>1. n \in 1..Len(c)
      BY <1>1, <1>3, <2>2
    <3>. QED
      BY <1>1, <3>1
  <2>. QED
    BY <2>1, <2>2
<1>7. \A k \in 1..Len(c) : k > n => k \notin kept
  BY <1>1, <1>3, <1>4, <1>6
<1>8. n # 0 => n \in kept
  BY <1>3, <1>4
<1>9. SubSeq(c, 1, n) \in Seq(S) /\ Len(SubSeq(c, 1, n)) = n /\ \A k \in 1..n : SubSeq(c, 1, n)[k] = c[k]
  BY <1>6
<1>. QED
  BY <1>2, <1>5, <1>6, <1>7, <1>8, <1>9

---------------------------------------------------------------------------
(* The steps of the loop keep the data *)

LEMMA IdleBatch ==
  ASSUME BatchInv, DiskInv, place # "tools", place' # "tools", asked \in Nat, asked' \in Nat,
         asked <= asked', UNCHANGED <<agent, batch, results, phase, disk>>
  PROVE  BatchInv' /\ DiskInv'
<1>1. /\ results \in Seq(Got(disk)') /\ CountedCalls' = CountedCalls
  BY GoodLater, GoodPrimed DEF BatchInv, Grows
<1>2. OfOne(batch, disk)'
  BY DEF OfOne, BatchInv
<1>. QED
  BY <1>1, <1>2 DEF BatchInv, DiskInv

\* The batch ends, or is taken from a process that ends.
LEMMA NoBatch ==
  ASSUME place' # "tools", batch' = <<>>, results' = <<>>, phase' = "idle"
  PROVE  BatchInv'
<1>1. \A S : <<>> \in Seq(S)
  OBVIOUS
<1>2. Len(<<>>) = 0
  OBVIOUS
<1>. QED
  BY <1>1, <1>2 DEF BatchInv, OfOne

LEMMA TextIsGood ==
  ASSUME TextInv, UNCHANGED <<agent, disk>>,
         conv' \in Seq(Good(disk)), snapshot' \in Seq(Good(disk)),
         saved'.conv \in Seq(Good(disk)),
         calls' \in 0..MaxCalls, asked' \in Nat, facts' \in SUBSET Nat,
         place' \in {"rest", "top", "request", "tools", "summary", "down"}
  PROVE  TextInv'
BY GoodPrimed DEF TextInv

LEMMA BeginKeepsData ==
  ASSUME DataInv, BeginCall
  PROVE  DataInv'
<1>1. BatchInv /\ DiskInv /\ TextInv
  BY DEF DataInv
<1>2. /\ place = "rest" /\ place' = "top" /\ calls' = calls + 1 /\ calls < MaxCalls
      /\ conv' = Append(conv, Item("user", <<>>, {UserFact(calls + 1)}))
      /\ facts' = facts \cup {UserFact(calls + 1)}
      /\ UNCHANGED <<agent, batch, results, phase, disk, snapshot, asked, saved>>
  BY DEF BeginCall, toolVars
<1>3. calls' \in 0..MaxCalls /\ calls + 1 \in Nat /\ MaxCalls \in Nat
  BY <1>1, <1>2, ConversationAssumption DEF TextInv
<1>4. {UserFact(calls + 1)} \in SUBSET Nat
  BY <1>3 DEF UserFact
<1>5. Item("user", <<>>, {UserFact(calls + 1)}) \in Good(disk)
  BY <1>4, PlainIsGood DEF Kinds
<1>6. conv' \in Seq(Good(disk))
  BY <1>1, <1>2, <1>5 DEF TextInv
<1>7. TextInv'
  BY <1>1, <1>2, <1>3, <1>4, <1>6, TextIsGood DEF TextInv
<1>. QED
  BY <1>1, <1>2, <1>7, IdleBatch DEF DataInv, TextInv

\* Steps that change neither the conversation nor what is known of it.
LEMMA PlaceKeepsData ==
  ASSUME DataInv, Turn \/ Retry \/ WithoutTools \/ Fail
  PROVE  DataInv'
<1>1. BatchInv /\ DiskInv /\ TextInv
  BY DEF DataInv
<1>2. /\ place \in {"top", "request", "summary"} /\ place' \in {"top", "request", "summary", "rest"}
      /\ calls' = calls
      /\ UNCHANGED <<agent, batch, results, phase, disk, conv, snapshot, asked, facts, saved>>
  <2>1. CASE Turn
    BY <2>1 DEF Turn, EndCall, toolVars, textVars
  <2>2. CASE Retry
    BY <2>2 DEF Retry, toolVars, textVars
  <2>3. CASE WithoutTools
    BY <2>3 DEF WithoutTools, toolVars, textVars
  <2>4. CASE Fail
    BY <2>4 DEF Fail, EndCall, toolVars, textVars
  <2>. QED
    BY <2>1, <2>2, <2>3, <2>4
<1>3. TextInv'
  BY <1>1, <1>2, TextIsGood DEF TextInv
<1>. QED
  BY <1>1, <1>2, <1>3, IdleBatch DEF DataInv, TextInv

\* The results that are answers to dropped calls.
LEMMA ErrorsGot ==
  ASSUME NEW D, NEW cs \in Seq(CountedCalls)
  PROVE  LET errors == [k \in DOMAIN cs |-> [n |-> cs[k].n, id |-> cs[k].id, ok |-> FALSE, file |-> FALSE]]
         IN  /\ errors \in Seq(Got(D)) /\ Len(errors) = Len(cs)
             /\ \A k \in 1..Len(cs) : errors[k].id = cs[k].id
<1>. DEFINE errors == [k \in DOMAIN cs |-> [n |-> cs[k].n, id |-> cs[k].id, ok |-> FALSE, file |-> FALSE]]
<1>1. DOMAIN cs = 1..Len(cs) /\ Len(cs) \in Nat /\ \A k \in 1..Len(cs) : cs[k] \in CountedCalls
  BY ElementOfSeq, LenProperties
<1>2. ASSUME NEW c \in CountedCalls
      PROVE  [n |-> c.n, id |-> c.id, ok |-> FALSE, file |-> FALSE] \in Got(D)
  BY DEF CountedCalls, ToolCalls, Counted, Got, ToolResults
<1>3. errors \in [1..Len(cs) -> Got(D)] /\ \A k \in 1..Len(cs) : errors[k].id = cs[k].id
  BY <1>1, <1>2
<1>. HIDE DEF errors
<1>4. errors \in Seq(Got(D)) /\ Len(errors) = Len(cs)
  BY <1>1, <1>3
<1>. QED
  BY <1>3, <1>4 DEF errors

LEMMA AnsweredKeepsData ==
  ASSUME NamedCalls, DataInv, Answered
  PROVE  DataInv'
<1>. DEFINE D == disk
<1>1. BatchInv /\ DiskInv /\ TextInv
  BY DEF DataInv
<1>answer. PICK a \in Answers : \E r \in Outcomes(a) :
        /\ Received(a, conv \o r.items)
        /\ \/ DropCalls(r, conv \o r.items) \/ CutOff(r, conv \o r.items)
           \/ NoCalls(r, conv \o r.items) \/ AskTools(r, conv \o r.items)
  BY DEF Answered
<1>2. PICK r \in Outcomes(a) :
        /\ Received(a, conv \o r.items)
        /\ \/ DropCalls(r, conv \o r.items) \/ CutOff(r, conv \o r.items)
           \/ NoCalls(r, conv \o r.items) \/ AskTools(r, conv \o r.items)
  BY <1>answer
<1>. DEFINE c == conv \o r.items
<1>3. r.calls \in Seq(CountedCalls) /\ r.items \in Seq(Good(D))
  <2>1. r \in Outcomes(a) /\ agent \in Agents /\ asked \in Nat
    BY <1>1, <1>2 DEF TextInv
  <2>2. Fits(r)
    BY <2>1, OutcomeFits
  <2>. QED
    BY <2>2 DEF Fits
<1>4. c \in Seq(Good(D))
  BY <1>1, <1>3, ConcatProperties DEF TextInv
<1>. HIDE DEF c
<1>5. /\ place = "request" /\ saved' = [conv |-> c, turns |-> turns]
      /\ asked' = asked + Len(a.calls) /\ UNCHANGED <<agent, facts>>
  BY <1>2 DEF Received, c
<1>later. asked' \in Nat /\ asked <= asked'
  <2>1. a.calls \in Seq([named : BOOLEAN, valid : BOOLEAN, tool : STRING])
    BY ConversationAssumption
  <2>2. Len(a.calls) \in Nat
    BY <2>1, LenProperties
  <2>. QED
    BY <1>1, <1>5, <2>2 DEF TextInv
<1>6. asked' \in Nat /\ saved'.conv = c
  BY <1>5, <1>later
<1>7. Note \in Good(D) /\ <<Note>> \in Seq(Good(D))
  <2>1. {} \in SUBSET Nat
    OBVIOUS
  <2>. QED
    BY <2>1, PlainIsGood DEF Note, Kinds
<1>8. ASSUME UNCHANGED disk, calls' = calls,
             place' \in {"rest", "top", "request", "tools", "summary", "down"},
             conv' \in Seq(Good(D)), snapshot' \in Seq(Good(D))
      PROVE  TextInv'
  BY <1>1, <1>4, <1>5, <1>6, <1>8, TextIsGood DEF TextInv
<1>9. CASE DropCalls(r, c)
  <2>. DEFINE errors == [k \in DOMAIN r.calls |->
                          [n |-> r.calls[k].n, id |-> r.calls[k].id, ok |-> FALSE, file |-> FALSE]]
              more == ResultItems(errors)
  <2>1. more \in Seq(Good(D))
    BY <1>3, ErrorsGot, ResultItemsAnswer
  <2>2. conv' = c \o more \o <<Note>>
    BY <1>9 DEF DropCalls
  <2>. HIDE DEF more
  <2>3. conv' \in Seq(Good(D))
    BY <1>4, <1>7, <2>1, <2>2, ConcatProperties
  <2>4. place' = "top" /\ calls' = calls /\ UNCHANGED <<snapshot, batch, results, phase, disk>>
    BY <1>9 DEF DropCalls, Goto, toolVars
  <2>5. TextInv'
    BY <1>1, <1>8, <2>3, <2>4 DEF TextInv
  <2>. QED
    BY <1>1, <1>5, <1>later, <2>4, <2>5, IdleBatch DEF DataInv, TextInv
<1>10. CASE CutOff(r, c)
  <2>1. /\ place' \in {"rest", "top"} /\ calls' = calls
        /\ UNCHANGED <<snapshot, batch, results, phase, disk>>
        /\ conv' = Append(c, Note) \/ conv' = c
    BY <1>10 DEF CutOff, Goto, EndCall, toolVars
  <2>2. conv' \in Seq(Good(D))
    BY <1>4, <1>7, <2>1
  <2>3. TextInv'
    BY <1>1, <1>8, <2>1, <2>2 DEF TextInv
  <2>. QED
    BY <1>1, <1>5, <1>later, <2>1, <2>3, IdleBatch DEF DataInv, TextInv
<1>11. CASE NoCalls(r, c)
  <2>1. /\ \E next : Continue(c, next)
        /\ UNCHANGED <<batch, results, phase, disk>>
    BY <1>11 DEF NoCalls, toolVars
  <2>2. GoesOn(c) \/ AsksSummary(c)
    BY <2>1, ContinueEither
  <2>3. /\ conv' \in Seq(Good(D)) /\ snapshot' \in Seq(Good(D))
        /\ place' \in {"top", "rest", "summary"} /\ calls' = calls
    BY <1>1, <1>4, <2>2, EitherIsGood DEF TextInv
  <2>4. TextInv'
    BY <1>8, <2>1, <2>3
  <2>. QED
    BY <1>1, <1>5, <1>later, <2>1, <2>3, <2>4, IdleBatch DEF DataInv, TextInv
<1>12. CASE AskTools(r, c)
  <2>1. /\ r.calls # <<>> /\ conv' = c /\ place' = "tools" /\ calls' = calls
        /\ batch' = r.calls /\ results' = <<>> /\ UNCHANGED <<snapshot, phase, disk>>
    BY <1>12 DEF AskTools, Goto
  <2>2. TextInv'
    BY <1>1, <1>4, <1>8, <2>1 DEF TextInv
  <2>3. BatchInv'
    <3>1. results' \in Seq(Got(disk)') /\ Len(results') = 0
      BY <2>1
    <3>2. Len(batch') \in Nat \ {0} /\ batch' \in Seq(CountedCalls')
      BY <1>3, <1>5, <2>1, EmptySeq, GoodPrimed
    <3>3. /\ \A j \in 1..Len(r.calls) : asked < r.calls[j].n /\ r.calls[j].n <= asked + Len(a.calls)
          /\ \A j, k \in 1..Len(r.calls) : r.calls[j].id = r.calls[k].id => r.calls[j].n = r.calls[k].n
      BY <1>1, OutcomeCalls, NumberedApart DEF TextInv
    <3>4. \A j \in 1..Len(r.calls) : r.calls[j].n \in Nat
      BY <1>3, ElementOfSeq DEF CountedCalls, ToolCalls
    <3>5. OfOne(batch, disk)'
      BY <1>1, <1>5, <2>1, <3>3, <3>4 DEF OfOne, DiskInv, TextInv
    <3>. QED
      BY <1>1, <2>1, <3>1, <3>2, <3>5 DEF BatchInv
  <2>4. DiskInv'
    BY <1>1, <1>5, <1>later, <2>1 DEF DiskInv, TextInv
  <2>. QED
    BY <2>2, <2>3, <2>4 DEF DataInv
<1>. QED
  BY <1>2, <1>9, <1>10, <1>11, <1>12 DEF c

LEMMA TooLongKeepsData ==
  ASSUME DataInv, TooLong
  PROVE  DataInv'
<1>1. BatchInv /\ DiskInv /\ TextInv
  BY DEF DataInv
<1>2. place = "request" /\ UNCHANGED <<agent, asked, facts, saved, batch, results, phase, disk>>
  BY DEF TooLong, toolVars
<1>3. /\ conv' \in Seq(Good(disk)) /\ snapshot' \in Seq(Good(disk))
      /\ place' \in {"top", "rest", "summary"} /\ calls' = calls
  <2>1. CASE Goto("top", cutOffs, overflows + 1) /\ UNCHANGED <<conv, snapshot>>
    BY <1>1, <2>1 DEF Goto, TextInv
  <2>2. CASE Compact(conv, "top", cutOffs, overflows + 1)
    BY <1>1, <2>2, CompactEither, EitherIsGood DEF TextInv
  <2>. QED
    BY <2>1, <2>2 DEF TooLong
<1>4. TextInv'
  BY <1>1, <1>2, <1>3, TextIsGood DEF TextInv
<1>. QED
  BY <1>1, <1>2, <1>3, <1>4, IdleBatch DEF DataInv, TextInv

\* The results that the conversation gets when a batch is done, and the files.
LEMMA ToolsDoneResults ==
  ASSUME DataInv, ToolsDone
  PROVE  \E rs \in Seq(Got(disk')) :
           /\ Len(rs) = Len(results) /\ Len(results) = Len(batch)
           /\ \A k \in 1..Len(results) : /\ rs[k].id = results[k].id /\ rs[k].n = results[k].n
                                         /\ rs[k].ok = results[k].ok
           /\ Continue(conv \o ResultItems(rs), "top")
           /\ Grows(disk, disk') /\ DiskInv'
<1>1. BatchInv /\ DiskInv /\ TextInv /\ UNCHANGED agent /\ Len(results) = Len(batch)
  BY DEF DataInv, ToolsDone, BatchDone
<1>2. PICK kept \in SUBSET Eligible :
        /\ disk' = Written({results[k] : k \in kept})
        /\ Continue(conv \o ResultItems(Budgeted(kept)), "top")
  BY DEF ToolsDone
<1>3. DOMAIN results = 1..Len(results)
  BY <1>1, LenProperties DEF BatchInv
<1>4. kept \in SUBSET DOMAIN results
  BY DEF Eligible
<1>. DEFINE rs == {results[k] : k \in kept}
<1>5. \A r \in rs : \E j \in 1..Len(batch) : r.id = batch[j].id /\ r.n = batch[j].n
  BY <1>1, <1>3, <1>4 DEF BatchInv
<1>6. batch \in Seq(CountedCalls) /\ OfOne(batch, disk) /\ UNCHANGED <<agent, asked>>
  BY <1>1 DEF BatchInv, ToolsDone
<1>7. /\ DiskInv' /\ Grows(disk, disk')
      /\ \A r \in rs : r.id \in DOMAIN disk' /\ r.n <= disk'[r.id]
  BY <1>1, <1>2, <1>5, <1>6, WrittenKeeps
<1>8. \A k \in kept : results[k].id \in DOMAIN disk' /\ results[k].n <= disk'[results[k].id]
  BY <1>7
<1>9. Grows(disk, disk')
  BY <1>7
<1>10. results \in Seq(Got(disk))
  BY <1>1 DEF BatchInv
<1>11. /\ Budgeted(kept) \in Seq(Got(disk')) /\ Len(Budgeted(kept)) = Len(results)
       /\ \A k \in 1..Len(results) : /\ Budgeted(kept)[k].id = results[k].id
                                     /\ Budgeted(kept)[k].n = results[k].n
                                     /\ Budgeted(kept)[k].ok = results[k].ok
  BY <1>4, <1>8, <1>9, <1>10, BudgetedGot
<1>. QED
  BY <1>1, <1>2, <1>7, <1>9, <1>11

LEMMA ToolsDoneKeepsData ==
  ASSUME DataInv, ToolsDone
  PROVE  DataInv'
<1>. DEFINE E == disk'
<1>1. BatchInv /\ DiskInv /\ TextInv
  BY DEF DataInv
<1>2. /\ place = "tools" /\ phase = "idle" /\ UNCHANGED <<agent, asked, phase>>
      /\ batch' = <<>> /\ results' = <<>> /\ saved' = [conv |-> conv, turns |-> turns]
      /\ facts' = facts \cup {ResultFact(results[k].n) : k \in {j \in DOMAIN results : results[j].ok}}
  BY DEF ToolsDone, BatchDone
<1>3. PICK rs \in Seq(Got(E)) :
        /\ Continue(conv \o ResultItems(rs), "top")
        /\ Grows(disk, E) /\ DiskInv'
  BY ToolsDoneResults
<1>4. conv \in Seq(Good(E)) /\ snapshot \in Seq(Good(E)) /\ Good(disk)' = Good(E)
  BY <1>1, <1>2, <1>3, GoodLater, GoodPrimed DEF TextInv
<1>. DEFINE c == conv \o ResultItems(rs)
<1>5. c \in Seq(Good(E))
  BY <1>4, ResultItemsAnswer, ConcatProperties
<1>. HIDE DEF c
<1>6. GoesOn(c) \/ AsksSummary(c)
  BY <1>3, ContinueEither DEF c
<1>7. /\ conv' \in Seq(Good(E)) /\ snapshot' \in Seq(Good(E))
      /\ place' \in {"top", "rest", "summary"} /\ calls' = calls
  BY <1>4, <1>5, <1>6, EitherIsGood
<1>8. facts' \in SUBSET Nat
  <2>1. \A k \in DOMAIN results : results[k].n \in Nat
    BY <1>1, ElementOfSeq, LenProperties DEF BatchInv, Got, ToolResults
  <2>2. \A k \in DOMAIN results : ResultFact(results[k].n) \in Nat
    BY <2>1, ConversationAssumption DEF ResultFact
  <2>. QED
    BY <1>1, <1>2, <2>2 DEF TextInv
<1>9. saved'.conv = conv
  BY <1>2
<1>10. TextInv'
  BY <1>1, <1>2, <1>4, <1>7, <1>8, <1>9 DEF TextInv
<1>11. BatchInv'
  BY <1>2, <1>7, NoBatch
<1>. QED
  BY <1>3, <1>10, <1>11 DEF DataInv

LEMMA SummarizedKeepsData ==
  ASSUME DataInv, Summarized \/ NotSummarized
  PROVE  DataInv'
<1>. DEFINE D == disk
<1>1. BatchInv /\ DiskInv /\ TextInv
  BY DEF DataInv
<1>2. /\ place = "summary" /\ snapshot' = <<>>
      /\ UNCHANGED <<agent, asked, facts, saved, batch, results, phase, disk>>
  BY DEF Summarized, NotSummarized, toolVars
<1>3. snapshot \in Seq(Good(D)) /\ <<>> \in Seq(Good(D))
  BY <1>1 DEF TextInv
<1>4. place' \in {"top", "rest"} /\ calls' = calls
  BY ResumeGoesOn DEF Summarized, NotSummarized, EndCall
<1>5. conv' \in Seq(Good(D))
  <2>1. CASE NotSummarized
    BY <1>3, <2>1 DEF NotSummarized
  <2>2. CASE Summarized
    <3>. DEFINE told == Shown(SubSeq(snapshot, 1, Len(snapshot) - Len(Open(snapshot))))
                rest == Open(snapshot)
    <3>1. rest \in Seq(Good(D)) /\ Len(rest) \in Nat /\ Len(rest) <= Len(snapshot)
      <4>1. CASE rest = <<>>
        BY <1>3, <4>1
      <4>2. CASE rest # <<>>
        <5>1. /\ Len(snapshot) \in 1..Len(snapshot) /\ snapshot[Len(snapshot)] \in Good(D)
              /\ rest = <<snapshot[Len(snapshot)]>>
          BY <1>3, <4>2, OpenIsLast
        <5>. QED
          BY <5>1
      <4>. QED
        BY <4>1, <4>2
    <3>2. told \in SUBSET Nat
      <4>. DEFINE front == SubSeq(snapshot, 1, Len(snapshot) - Len(rest))
      <4>. HIDE DEF rest
      <4>1. front \in Seq(Good(D))
        <5>1. Len(snapshot) \in Nat /\ Len(snapshot) - Len(rest) \in Int
          BY <1>3, <3>1, LenProperties
        <5>2. \A k \in 1..(Len(snapshot) - Len(rest)) : snapshot[k] \in Good(D)
          BY <1>3, <3>1, <5>1, ElementOfSeq
        <5>. QED
          BY <5>1, <5>2, SubSeqProperties
      <4>. HIDE DEF front
      <4>2. \A k \in DOMAIN front : front[k].facts \in SUBSET Nat
        BY <4>1, ElementOfSeq, LenProperties DEF Good, Items
      <4>3. Shown(front) \in SUBSET Nat
        BY <4>2 DEF Shown
      <4>. QED
        BY <4>3 DEF front, rest
    <3>3. Item("summary", <<>>, told) \in Good(D)
      <4>. HIDE DEF told
      <4>. QED
        BY <3>2, PlainIsGood DEF Kinds
    <3>4. conv' = <<Item("summary", <<>>, told)>> \o rest
      BY <2>2 DEF Summarized
    <3>. HIDE DEF told, rest
    <3>5. <<Item("summary", <<>>, told)>> \in Seq(Good(D))
      BY <3>3
    <3>. QED
      BY <3>1, <3>4, <3>5, ConcatProperties
  <2>. QED
    BY <2>1, <2>2
<1>6. TextInv'
  BY <1>1, <1>2, <1>3, <1>4, <1>5, TextIsGood DEF TextInv
<1>. QED
  BY <1>1, <1>2, <1>4, <1>6, IdleBatch DEF DataInv, TextInv

LEMMA ProcessKeepsData ==
  ASSUME DataInv, Interrupt \/ Restore
  PROVE  DataInv'
<1>. DEFINE D == disk
<1>1. BatchInv /\ DiskInv /\ TextInv
  BY DEF DataInv
<1>2. \A S : <<>> \in Seq(S)
  OBVIOUS
<1>3. CASE Interrupt
  <2>1. /\ place' = "down" /\ conv' = <<>> /\ snapshot' = <<>> /\ facts' = {}
        /\ saved' \in {saved, [conv |-> conv, turns |-> turns]}
        /\ UNCHANGED <<agent, calls, asked, disk>>
        /\ batch' = <<>> /\ results' = <<>> /\ phase' = "idle"
    BY <1>3 DEF Interrupt, CloseAll
  <2>2. saved'.conv \in Seq(Good(D))
    BY <1>1, <2>1 DEF TextInv
  <2>3. conv' \in Seq(Good(D)) /\ snapshot' \in Seq(Good(D)) /\ facts' \in SUBSET Nat
    BY <1>2, <2>1
  <2>4. TextInv'
    BY <1>1, <2>1, <2>2, <2>3, TextIsGood DEF TextInv
  <2>5. BatchInv'
    BY <2>1, NoBatch
  <2>. QED
    BY <1>1, <2>1, <2>4, <2>5 DEF DataInv, DiskInv
<1>4. CASE Restore
  <2>1. /\ place = "down" /\ place' = "rest"
        /\ conv' = IF provider = "gemini" THEN <<>> ELSE Cleaned(saved.conv)
        /\ facts' = Told(conv')
        /\ UNCHANGED <<agent, calls, snapshot, asked, saved, batch, results, phase, disk>>
    BY <1>4 DEF Restore, Discover
  <2>2. saved.conv \in Seq(Good(D))
    BY <1>1 DEF TextInv
  <2>3. conv' \in Seq(Good(D))
    <3>. DEFINE old == saved.conv
    <3>1. old \in Seq(Good(D)) /\ (conv' = <<>> \/ conv' = Cleaned(old))
      BY <2>1, <2>2
    <3>. HIDE DEF old, D
    <3>2. Cleaned(old) \in Seq(Good(D))
      BY <3>1, CleanedIs
    <3>. QED
      BY <1>2, <3>1, <3>2
  <2>4. facts' \in SUBSET Nat
    <3>1. ASSUME NEW c \in Seq(Good(D))
          PROVE  Told(c) \in SUBSET Nat
      <4>1. \A k \in DOMAIN c : c[k].facts \in SUBSET Nat
        BY ElementOfSeq, LenProperties DEF Good, Items
      <4>. QED
        BY <4>1 DEF Told
    <3>. QED
      BY <2>1, <2>3, <3>1
  <2>5. TextInv'
    BY <1>1, <2>1, <2>2, <2>3, <2>4, TextIsGood DEF TextInv
  <2>. QED
    BY <1>1, <2>1, <2>5, IdleBatch DEF DataInv, TextInv
<1>. QED
  BY <1>3, <1>4

LEMMA StepKeepsData ==
  ASSUME NamedCalls, DataInv, [Next]_vars
  PROVE  DataInv'
<1>1. CASE UNCHANGED vars
  <2>1. UNCHANGED <<agent, place, calls, asked, facts, conv, snapshot, saved, batch, results, phase, disk>>
    BY <1>1 DEF vars, loopVars, textVars, toolVars
  <2>2. Good(disk)' = Good(disk) /\ Got(disk)' = Got(disk)
        /\ CountedCalls' = CountedCalls
    BY <2>1, GoodPrimed
  <2>. QED
    BY <2>1, <2>2 DEF DataInv, BatchInv, OfOne, DiskInv, TextInv
<1>. QED
  BY <1>1, BeginKeepsData, PlaceKeepsData, AnsweredKeepsData, TooLongKeepsData, ToolsKeepData,
     ToolsDoneKeepsData, SummarizedKeepsData, ProcessKeepsData DEF Next, LoopStep

LEMMA AlwaysData ==
  ASSUME NamedCalls
  PROVE  Spec => []DataInv
<1>1. DataInv /\ [Next]_vars => DataInv'
  BY StepKeepsData
<1>. QED
  BY <1>1, InitData, PTL DEF Spec

\* _persist_result(), _apply_aggregate_budget(): the file a result names is there and has
\* the output of its call, or of a later one where the ids are made up again in every
\* answer; never that of an earlier call, however often the process ended.
THEOREM FileIsAlwaysOwn ==
  ASSUME NamedCalls
  PROVE  Spec => []FileIsOwn
<1>1. ASSUME DataInv
      PROVE  FileIsOwn
  <2>1. \A k \in DOMAIN conv : conv[k] \in Good(disk)
    BY <1>1, ElementOfSeq, LenProperties DEF DataInv, TextInv
  <2>2. ASSUME NEW k \in DOMAIN conv, NEW f \in conv[k].files
        PROVE  /\ f[1] \in DOMAIN disk /\ f[2] <= disk[f[1]]
               /\ agent \notin Idless => disk[f[1]] = f[2]
    <3>1. /\ f[1] \in DOMAIN disk /\ f[2] <= disk[f[1]] /\ f[2] \in Nat
          /\ agent \notin Idless => f[1] = f[2] + 2
      BY <2>1 DEF Good, ItemInv, Items
    <3>2. disk[f[1]] \in Nat /\ (agent \notin Idless => f[1] = disk[f[1]] + 2)
      BY <1>1, <3>1 DEF DataInv, DiskInv
    <3>. QED
      BY <3>1, <3>2
  <2>. QED
    BY <2>2 DEF FileIsOwn
<1>2. DataInv => FileIsOwn
  BY <1>1
<1>. QED
  BY <1>2, AlwaysData, PTL

---------------------------------------------------------------------------
(* What the agent was told *)

\* The conversation c tells the facts F that must not be lost: messages of the user,
\* and with the OpenAI client results as well.
Recalls(c, F) ==
  provider # "gemini" =>
    /\ \A f \in F : f <= MaxCalls => f \in Told(c)
    /\ provider = "chat" => F \subseteq Told(c)

\* Nothing is forgotten: it is in the conversation, or in the copy of it while a summary
\* is made.
MemoryInv ==
  /\ place \notin {"summary", "down"} => Recalls(conv, facts)
  /\ place = "summary" => Recalls(snapshot, facts)

LEMMA RecallsPrimed ==
  ASSUME UNCHANGED agent
  PROVE  MemoryInv' <=> /\ place' \notin {"summary", "down"} => Recalls(conv', facts')
                        /\ place' = "summary" => Recalls(snapshot', facts')
BY DEF MemoryInv, Recalls, provider

LEMMA ToldMore ==
  ASSUME NEW S, NEW c \in Seq(S), NEW d \in Seq(S)
  PROVE  /\ Told(c) \subseteq Told(c \o d)
         /\ \A k \in 1..Len(d) : d[k].facts \subseteq Told(c \o d)
<1>. DEFINE e == c \o d
<1>1. /\ Len(c) \in Nat /\ Len(d) \in Nat /\ DOMAIN c = 1..Len(c)
      /\ e \in Seq(S) /\ Len(e) = Len(c) + Len(d)
      /\ \A i \in 1..(Len(c) + Len(d)) : e[i] = IF i <= Len(c) THEN c[i] ELSE d[i - Len(c)]
  BY ConcatProperties, LenProperties
<1>. HIDE DEF e
<1>2. DOMAIN e = 1..(Len(c) + Len(d))
  BY <1>1
<1>3. \A k \in DOMAIN c : k \in DOMAIN e /\ e[k] = c[k]
  BY <1>1, <1>2
<1>4. ASSUME NEW k \in 1..Len(d)
      PROVE  k + Len(c) \in DOMAIN e /\ e[k + Len(c)] = d[k]
  <2>1. k + Len(c) \in 1..(Len(c) + Len(d)) /\ ~(k + Len(c) <= Len(c)) /\ (k + Len(c)) - Len(c) = k
    BY <1>1
  <2>. QED
    BY <1>1, <1>2, <2>1
<1>5. Told(c) \subseteq Told(e)
  BY <1>3 DEF Told
<1>6. \A k \in 1..Len(d) : d[k].facts \subseteq Told(e)
  BY <1>4 DEF Told
<1>. QED
  BY <1>5, <1>6 DEF e

LEMMA RecallsMore ==
  ASSUME NEW S, NEW c \in Seq(S), NEW d \in Seq(S), NEW F, Recalls(c, F)
  PROVE  Recalls(c \o d, F)
BY ToldMore DEF Recalls

LEMMA AppendOne ==
  ASSUME NEW S, NEW c \in Seq(S), NEW x \in S
  PROVE  Append(c, x) = c \o <<x>> /\ <<x>> \in Seq(S) /\ Len(<<x>>) = 1 /\ <<x>>[1] = x
OBVIOUS

\* With a system prompt, the copy that is summarized is the whole conversation.
LEMMA EitherRecalls ==
  ASSUME Prompted, UNCHANGED agent, NEW c, GoesOn(c) \/ AsksSummary(c), Recalls(c, facts')
  PROVE  MemoryInv'
BY RecallsPrimed DEF GoesOn, AsksSummary

LEMMA InitMemory == Init => MemoryInv
BY DEF Init, MemoryInv, Recalls

LEMMA AnsweredKeepsMemory ==
  ASSUME NamedCalls, Prompted, DataInv, MemoryInv, Answered
  PROVE  MemoryInv'
<1>. DEFINE D == disk
<1>1. BatchInv /\ DiskInv /\ TextInv
  BY DEF DataInv
<1>answer. PICK a \in Answers : \E r \in Outcomes(a) :
        /\ Received(a, conv \o r.items)
        /\ \/ DropCalls(r, conv \o r.items) \/ CutOff(r, conv \o r.items)
           \/ NoCalls(r, conv \o r.items) \/ AskTools(r, conv \o r.items)
  BY DEF Answered
<1>2. PICK r \in Outcomes(a) :
        /\ Received(a, conv \o r.items)
        /\ \/ DropCalls(r, conv \o r.items) \/ CutOff(r, conv \o r.items)
           \/ NoCalls(r, conv \o r.items) \/ AskTools(r, conv \o r.items)
  BY <1>answer
<1>. DEFINE c == conv \o r.items
<1>3. r.calls \in Seq(CountedCalls) /\ r.items \in Seq(Good(D)) /\ conv \in Seq(Good(D))
  <2>1. r \in Outcomes(a) /\ agent \in Agents /\ asked \in Nat
    BY <1>1, <1>2 DEF TextInv
  <2>2. Fits(r)
    BY <2>1, OutcomeFits
  <2>. QED
    BY <1>1, <2>2 DEF Fits, TextInv
<1>4. place = "request" /\ UNCHANGED <<agent, facts>>
  BY <1>2 DEF Received
<1>5. c \in Seq(Good(D)) /\ Recalls(c, facts)
  BY <1>3, <1>4, ConcatProperties, RecallsMore DEF MemoryInv
<1>. HIDE DEF c
<1>6. ASSUME NEW d \in Seq(Good(D)), place' \notin {"summary", "down"}, conv' = c \o d
      PROVE  MemoryInv'
  BY <1>4, <1>5, <1>6, RecallsMore, RecallsPrimed
<1>7. ASSUME place' \notin {"summary", "down"}, conv' = c
      PROVE  MemoryInv'
  BY <1>4, <1>5, <1>7, RecallsPrimed
<1>8. Note \in Good(D) /\ <<Note>> \in Seq(Good(D))
  <2>1. {} \in SUBSET Nat
    OBVIOUS
  <2>. QED
    BY <2>1, PlainIsGood DEF Note, Kinds
<1>9. CASE DropCalls(r, c)
  <2>. DEFINE errors == [k \in DOMAIN r.calls |->
                          [n |-> r.calls[k].n, id |-> r.calls[k].id, ok |-> FALSE, file |-> FALSE]]
              more == ResultItems(errors)
  <2>1. more \in Seq(Good(D))
    BY <1>3, ErrorsGot, ResultItemsAnswer
  <2>2. conv' = c \o more \o <<Note>>
    BY <1>9 DEF DropCalls
  <2>. HIDE DEF more
  <2>3. c \o more \o <<Note>> = c \o (more \o <<Note>>) /\ more \o <<Note>> \in Seq(Good(D))
    BY <1>5, <1>8, <2>1, ConcatAssociative, ConcatProperties
  <2>4. place' = "top"
    BY <1>9 DEF DropCalls, Goto
  <2>. QED
    BY <1>6, <2>2, <2>3, <2>4
<1>10. CASE CutOff(r, c)
  <2>1. place' \in {"rest", "top"} /\ (conv' = Append(c, Note) \/ conv' = c)
    BY <1>10 DEF CutOff, Goto, EndCall
  <2>2. Append(c, Note) = c \o <<Note>>
    BY <1>5, <1>8, AppendOne
  <2>. QED
    BY <1>6, <1>7, <1>8, <2>1, <2>2
<1>11. CASE NoCalls(r, c)
  <2>1. GoesOn(c) \/ AsksSummary(c)
    BY <1>11, ContinueEither DEF NoCalls
  <2>. QED
    BY <1>4, <1>5, <2>1, EitherRecalls
<1>12. CASE AskTools(r, c)
  BY <1>7, <1>12 DEF AskTools, Goto
<1>. QED
  BY <1>2, <1>9, <1>10, <1>11, <1>12 DEF c

LEMMA ToolsDoneKeepsMemory ==
  ASSUME Prompted, DataInv, MemoryInv, ToolsDone
  PROVE  MemoryInv'
<1>. DEFINE E == disk'
<1>1. BatchInv /\ DiskInv /\ TextInv
  BY DEF DataInv
<1>2. /\ place = "tools" /\ UNCHANGED agent
      /\ facts' = facts \cup {ResultFact(results[k].n) : k \in {j \in DOMAIN results : results[j].ok}}
  BY DEF ToolsDone
<1>3. PICK rs \in Seq(Got(E)) :
        /\ Len(rs) = Len(results)
        /\ \A k \in 1..Len(results) : rs[k].n = results[k].n /\ rs[k].ok = results[k].ok
        /\ Continue(conv \o ResultItems(rs), "top")
        /\ Grows(disk, E)
  BY ToolsDoneResults
<1>4. conv \in Seq(Good(E))
  BY <1>1, <1>2, <1>3, GoodLater, GoodPrimed DEF TextInv
<1>. DEFINE c == conv \o ResultItems(rs)
<1>5. ResultItems(rs) \in Seq(Good(E))
  BY ResultItemsAnswer
<1>6. Told(conv) \subseteq Told(c)
  BY <1>4, <1>5, ToldMore
<1>7. /\ DOMAIN results = 1..Len(results)
      /\ \A k \in 1..Len(results) : results[k].n \in Nat /\ results[k].n >= 1
  BY <1>1, ElementOfSeq, LenProperties DEF BatchInv, Got, ToolResults, Counted
<1>8. ASSUME NEW k \in DOMAIN results, results[k].ok
      PROVE  ResultFact(results[k].n) \in Told(c) /\ ~(ResultFact(results[k].n) <= MaxCalls)
  <2>1. k \in 1..Len(rs) /\ rs[k].ok /\ rs[k].n = results[k].n
    BY <1>3, <1>7, <1>8
  <2>2. PICK i \in 1..Len(ResultItems(rs)) : ResultFact(rs[k].n) \in ResultItems(rs)[i].facts
    BY <2>1, ResultItemsAnswer
  <2>3. ResultFact(results[k].n) \in Told(c)
    BY <1>4, <1>5, <2>1, <2>2, ToldMore
  <2>4. ~(ResultFact(results[k].n) <= MaxCalls)
    BY <1>7, ConversationAssumption DEF ResultFact
  <2>. QED
    BY <2>3, <2>4
<1>. HIDE DEF c
<1>9. Recalls(conv, facts)
  BY <1>2 DEF MemoryInv
<1>10. Recalls(c, facts')
  BY <1>2, <1>6, <1>8, <1>9 DEF Recalls
<1>11. GoesOn(c) \/ AsksSummary(c)
  BY <1>3, ContinueEither DEF c
<1>. QED
  BY <1>2, <1>10, <1>11, EitherRecalls

\* The summary tells what the messages before it told, and the message with calls that
\* was kept aside comes again.
LEMMA SummaryTells ==
  ASSUME TextInv, Recalls(snapshot, facts)
  PROVE  LET told == Shown(SubSeq(snapshot, 1, Len(snapshot) - Len(Open(snapshot))))
         IN  Recalls(<<Item("summary", <<>>, told)>> \o Open(snapshot), facts)
<1>. DEFINE D == disk
            rest == Open(snapshot)
            front == SubSeq(snapshot, 1, Len(snapshot) - Len(rest))
            x == Item("summary", <<>>, Shown(front))
            c == <<x>> \o rest
<1>1. snapshot \in Seq(Good(D)) /\ DOMAIN snapshot = 1..Len(snapshot) /\ Len(snapshot) \in Nat
  BY LenProperties DEF TextInv
<1>2. \/ rest = <<>>
      \/ Len(snapshot) \in 1..Len(snapshot) /\ rest = <<snapshot[Len(snapshot)]>>
         /\ snapshot[Len(snapshot)] \in Good(D)
  BY <1>1, OpenIsLast
<1>3. /\ rest \in Seq(Good(D)) /\ Len(rest) \in {0, 1} /\ Len(rest) <= Len(snapshot)
      /\ Len(rest) = 1 => rest[1] = snapshot[Len(snapshot)]
  <2>. HIDE DEF D, rest
  <2>1. CASE rest = <<>>
    <3>1. <<>> \in Seq(Good(D)) /\ Len(<<>>) = 0
      OBVIOUS
    <3>. QED
      BY <1>1, <2>1, <3>1
  <2>2. CASE rest # <<>>
    <3>. DEFINE y == snapshot[Len(snapshot)]
    <3>1. y \in Good(D) /\ rest = <<y>> /\ Len(snapshot) \in 1..Len(snapshot)
      BY <1>2, <2>2
    <3>. HIDE DEF y
    <3>2. rest \in Seq(Good(D)) /\ Len(rest) = 1 /\ rest[1] = y /\ 1 <= Len(snapshot)
      BY <1>1, <3>1
    <3>. QED
      BY <3>2 DEF y
  <2>. QED
    BY <2>1, <2>2
<1>4. x.facts = Shown(front)
  BY DEF Item
<1>. HIDE DEF rest
<1>5. /\ DOMAIN front = 1..(Len(snapshot) - Len(rest))
      /\ \A k \in 1..(Len(snapshot) - Len(rest)) : front[k] = snapshot[k]
  <2>1. Len(snapshot) - Len(rest) \in Nat /\ Len(snapshot) - Len(rest) \in 0..Len(snapshot)
    BY <1>1, <1>3
  <2>2. \A k \in 1..(Len(snapshot) - Len(rest)) : snapshot[k] \in Good(D)
    BY <1>1, <2>1, ElementOfSeq
  <2>3. /\ front \in Seq(Good(D)) /\ Len(front) = Len(snapshot) - Len(rest)
        /\ \A k \in 1..(Len(snapshot) - Len(rest)) : front[k] = snapshot[k]
    BY <1>1, <2>1, <2>2
  <2>. QED
    BY <2>3
<1>. HIDE DEF front, x
<1>6. Told(c) = x.facts \cup Told(rest)
  <2>1. /\ \A k \in DOMAIN c : c[k] = x \/ (k - 1 \in DOMAIN rest /\ c[k] = rest[k - 1])
        /\ 1 \in DOMAIN c /\ c[1] = x
        /\ \A k \in DOMAIN rest : k + 1 \in DOMAIN c /\ c[k + 1] = rest[k]
    <3>. DEFINE h == <<x>>
              S == {x} \cup Good(D)
    <3>1. h \in Seq(S) /\ Len(h) = 1 /\ h[1] = x
      OBVIOUS
    <3>2. rest \in Seq(S)
      BY <1>3, SeqMonotonic
    <3>. HIDE DEF h, S
    <3>concat. /\ h \o rest \in Seq(S) /\ Len(h \o rest) = Len(h) + Len(rest)
               /\ \A i \in 1..(Len(h) + Len(rest)) :
                    (h \o rest)[i] = IF i <= Len(h) THEN h[i] ELSE rest[i - Len(h)]
      BY <3>1, <3>2, ConcatProperties, Zenon
    <3>3. /\ h \o rest \in Seq(S) /\ Len(h \o rest) = 1 + Len(rest)
          /\ \A i \in 1..(1 + Len(rest)) : (h \o rest)[i] = IF i <= 1 THEN h[i] ELSE rest[i - 1]
      BY <3>1, <3>concat
    <3>4. c = h \o rest
      BY DEF h
    <3>. HIDE DEF c
    <3>5. DOMAIN c = 1..(1 + Len(rest)) /\ DOMAIN rest = 1..Len(rest) /\ Len(rest) \in Nat
      BY <3>2, <3>3, <3>4, LenProperties
    <3>6. 1 \in DOMAIN c /\ c[1] = x
      BY <3>1, <3>3, <3>4, <3>5
    <3>7. ASSUME NEW k \in DOMAIN c
          PROVE  c[k] = x \/ (k - 1 \in DOMAIN rest /\ c[k] = rest[k - 1])
      <4>1. CASE k = 1
        BY <3>6, <4>1
      <4>2. CASE k # 1
        <5>1. k \in 1..(1 + Len(rest)) /\ ~(k <= 1) /\ k - 1 \in 1..Len(rest)
          BY <3>5, <4>2
        <5>. QED
          BY <3>3, <3>4, <3>5, <5>1
      <4>. QED
        BY <4>1, <4>2
    <3>8. ASSUME NEW k \in DOMAIN rest
          PROVE  k + 1 \in DOMAIN c /\ c[k + 1] = rest[k]
      <4>1. k + 1 \in 1..(1 + Len(rest)) /\ ~(k + 1 <= 1) /\ (k + 1) - 1 = k
        BY <3>5
      <4>. QED
        BY <3>3, <3>4, <3>5, <4>1
    <3>. QED
      BY <3>6, <3>7, <3>8
  <2>. HIDE DEF c
  <2>. QED
    BY <2>1 DEF Told
<1>7. ASSUME NEW f \in Told(snapshot),
             f <= MaxCalls \/ provider = "chat"
      PROVE  f \in Told(c)
  <2>1. PICK k \in DOMAIN snapshot : f \in snapshot[k].facts
    BY DEF Told
  <2>2. snapshot[k] \in Good(D)
    BY <1>1, ElementOfSeq
  <2>3. CASE k <= Len(snapshot) - Len(rest)
    <3>1. k \in DOMAIN front /\ front[k] = snapshot[k]
      BY <1>1, <1>3, <1>5, <2>3
    <3>2. snapshot[k].kind \in {"user", "summary"} \/ provider = "chat"
      BY <1>7, <2>1, <2>2 DEF Good, ItemInv
    <3>3. f \in Shown(front)
      BY <2>1, <3>1, <3>2 DEF Shown
    <3>. QED
      BY <1>4, <1>6, <3>3
  <2>4. CASE ~(k <= Len(snapshot) - Len(rest))
    <3>1. Len(rest) = 1 /\ k = Len(snapshot)
      <4>1. \A i, m \in Nat : \A j \in {0, 1} : ~(i <= m - j) /\ i <= m => j = 1 /\ i = m
        OBVIOUS
      <4>2. k \in Nat /\ k <= Len(snapshot) /\ Len(snapshot) \in Nat /\ Len(rest) \in {0, 1}
        BY <1>1, <1>3
      <4>. QED
        BY <2>4, <4>1, <4>2
    <3>2. 1 \in DOMAIN rest /\ rest[1] = snapshot[k]
      BY <1>3, <3>1
    <3>3. f \in Told(rest)
      BY <2>1, <3>2 DEF Told
    <3>. QED
      BY <1>6, <3>3
  <2>. QED
    BY <2>3, <2>4
<1>. HIDE DEF c
<1>8. Recalls(c, facts)
  BY <1>7 DEF Recalls
<1>. QED
  BY <1>8 DEF c, x, front, rest

LEMMA StepKeepsMemory ==
  ASSUME NamedCalls, Prompted, DataInv, MemoryInv, [Next]_vars
  PROVE  MemoryInv'
<1>1. TextInv
  BY DEF DataInv
<1>2. CASE BeginCall
  <2>. DEFINE x == Item("user", <<>>, {UserFact(calls + 1)})
  <2>1. /\ place = "rest" /\ place' = "top" /\ calls < MaxCalls /\ UNCHANGED agent
        /\ conv' = Append(conv, x) /\ facts' = facts \cup {UserFact(calls + 1)}
    BY <1>2 DEF BeginCall
  <2>2. UserFact(calls + 1) \in x.facts
    BY DEF Item
  <2>3. x \in Good(disk)
    <3>1. {UserFact(calls + 1)} \in SUBSET Nat
      BY <1>1 DEF TextInv, UserFact
    <3>. QED
      BY <3>1, PlainIsGood DEF Kinds
  <2>. HIDE DEF x
  <2>4. conv' = conv \o <<x>> /\ <<x>> \in Seq(Good(disk)) /\ Len(<<x>>) = 1 /\ <<x>>[1] = x
    BY <1>1, <2>1, <2>3, AppendOne DEF TextInv
  <2>5. Told(conv) \subseteq Told(conv')
    BY <1>1, <2>4, ToldMore DEF TextInv
  <2>6. UserFact(calls + 1) \in Told(conv')
    <3>. DEFINE d == <<x>>
    <3>1. d \in Seq(Good(disk)) /\ 1 \in 1..Len(d) /\ d[1] = x /\ conv' = conv \o d
      BY <2>4
    <3>. HIDE DEF d
    <3>2. d[1].facts \subseteq Told(conv')
      BY <1>1, <3>1, ToldMore DEF TextInv
    <3>. QED
      BY <2>2, <3>1, <3>2
  <2>7. Recalls(conv', facts')
    BY <2>1, <2>5, <2>6 DEF MemoryInv, Recalls
  <2>. QED
    BY <2>1, <2>7, RecallsPrimed
<1>3. ASSUME UNCHANGED <<agent, conv, facts, snapshot>>, place \notin {"summary", "down"},
             place' \notin {"summary", "down"}
      PROVE  MemoryInv'
  BY <1>3, RecallsPrimed DEF MemoryInv
<1>4. CASE Turn
  BY <1>3, <1>4 DEF Turn, EndCall, textVars
<1>5. CASE Answered
  BY <1>5, AnsweredKeepsMemory
<1>6. CASE Retry
  BY <1>6, RecallsPrimed DEF Retry, textVars, MemoryInv
<1>7. CASE WithoutTools
  BY <1>3, <1>7 DEF WithoutTools, textVars
<1>8. CASE TooLong
  <2>1. place = "request" /\ UNCHANGED <<agent, facts>>
    BY <1>8 DEF TooLong
  <2>2. CASE Goto("top", cutOffs, overflows + 1) /\ UNCHANGED <<conv, snapshot>>
    BY <1>3, <2>1, <2>2 DEF Goto
  <2>3. CASE Compact(conv, "top", cutOffs, overflows + 1)
    <3>1. Recalls(conv, facts')
      BY <2>1 DEF MemoryInv
    <3>. QED
      BY <2>1, <2>3, <3>1, CompactEither, EitherRecalls
  <2>. QED
    BY <1>8, <2>2, <2>3 DEF TooLong
<1>9. CASE Fail
  BY <1>3, <1>9 DEF Fail, EndCall, textVars
<1>10. CASE ToolsRun
  BY <1>3, <1>10 DEF ToolsRun, loopVars, textVars
<1>11. CASE ToolsDone
  BY <1>11, ToolsDoneKeepsMemory
<1>12. CASE Summarized
  <2>1. place' \in {"top", "rest"} /\ UNCHANGED <<agent, facts>> /\ Recalls(snapshot, facts)
    BY <1>12, ResumeGoesOn DEF Summarized, MemoryInv
  <2>2. Recalls(conv', facts)
    BY <1>1, <1>12, <2>1, SummaryTells DEF Summarized
  <2>. QED
    BY <2>1, <2>2, RecallsPrimed
<1>13. CASE NotSummarized
  <2>1. place' = "rest" /\ UNCHANGED <<agent, facts>> /\ Recalls(snapshot, facts)
        /\ conv' = IF provider = "gemini" THEN <<>> ELSE snapshot
    BY <1>13 DEF NotSummarized, EndCall, MemoryInv
  <2>2. Recalls(conv', facts)
    BY <2>1 DEF Recalls
  <2>. QED
    BY <2>1, <2>2, RecallsPrimed
<1>14. CASE Interrupt
  BY <1>14, RecallsPrimed DEF Interrupt
<1>15. CASE Restore
  <2>1. place' = "rest" /\ UNCHANGED agent /\ facts' = Told(conv')
    BY <1>15 DEF Restore
  <2>. QED
    BY <2>1, RecallsPrimed DEF Recalls
<1>16. CASE UNCHANGED vars
  BY <1>16, RecallsPrimed DEF vars, loopVars, textVars, MemoryInv
<1>. QED
  BY <1>2, <1>4, <1>5, <1>6, <1>7, <1>8, <1>9, <1>10, <1>11, <1>12, <1>13, <1>14, <1>15, <1>16
     DEF Next, LoopStep

\* _compact() and load_from_trace(): of an agent with a system prompt no message of the
\* user is forgotten by a compaction, its failure or a restart, and with the OpenAI client
\* no result of a tool.
THEOREM AlwaysRemembered ==
  ASSUME NamedCalls, Prompted
  PROVE  Spec => []Remembered
<1>1. ASSUME DataInv, MemoryInv
      PROVE  Remembered
  BY <1>1 DEF MemoryInv, Recalls, Remembered
<1>2. DataInv /\ MemoryInv /\ [Next]_vars => MemoryInv'
  BY StepKeepsMemory
<1>. QED
  BY <1>1, <1>2, InitMemory, AlwaysData, PTL DEF Spec

---------------------------------------------------------------------------
(* Calls and their results *)

\* The i-th id of the k-th item is paired, as Paired asks of all.
PairedAt(c, k, i) ==
  \E j \in DOMAIN c :
    /\ c[j].kind = (IF c[k].kind = "calls" THEN "results" ELSE "calls")
    /\ HasId(c[j], c[k].ids[i])
    /\ IF c[k].kind = "calls" THEN j > k /\ Near(c, k, j) ELSE j < k /\ Near(c, j, k)

\* From the k-th item on there are only calls.
Hangs(c, k) == \A m \in k..Len(c) : c[m].kind = "calls"

\* Calls without results are the last items of a conversation.
Hanging(c) == \A k \in DOMAIN c : \A i \in DOMAIN c[k].ids : PairedAt(c, k, i) \/ Hangs(c, k)

\* They are the calls b.
HangingOn(c, b) ==
  /\ Hanging(c)
  /\ \A k \in DOMAIN c : Hangs(c, k) => \A i \in DOMAIN c[k].ids : \E j \in DOMAIN b : b[j].id = c[k].ids[i]
  /\ \A j \in DOMAIN b : \E k \in DOMAIN c : Hangs(c, k) /\ HasId(c[k], b[j].id)

LEMMA PairedEverywhere ==
  ASSUME NEW c
  PROVE  Paired(c) <=> \A k \in DOMAIN c : \A i \in DOMAIN c[k].ids : PairedAt(c, k, i)
BY DEF Paired, PairedAt

LEMMA PairedHangs ==
  ASSUME NEW c, Paired(c)
  PROVE  Hanging(c)
BY PairedEverywhere DEF Hanging

\* What follows a pair does not part it.
LEMMA PairedAtLater ==
  ASSUME NEW S, NEW c \in Seq(S), NEW e \in Seq(S), Len(c) <= Len(e),
         \A m \in 1..Len(c) : e[m] = c[m],
         NEW k \in 1..Len(c), NEW i, PairedAt(c, k, i)
  PROVE  PairedAt(e, k, i)
<1>1. /\ DOMAIN c = 1..Len(c) /\ DOMAIN e = 1..Len(e) /\ Len(c) \in Nat /\ Len(e) \in Nat
  BY LenProperties
<1>2. PICK j \in 1..Len(c) :
        /\ c[j].kind = (IF c[k].kind = "calls" THEN "results" ELSE "calls")
        /\ HasId(c[j], c[k].ids[i])
        /\ IF c[k].kind = "calls" THEN j > k /\ Near(c, k, j) ELSE j < k /\ Near(c, j, k)
  BY <1>1 DEF PairedAt
<1>3. e[j] = c[j] /\ e[k] = c[k] /\ j \in 1..Len(e)
  BY <1>1
<1>4. ASSUME NEW p \in 1..Len(c), NEW q \in 1..Len(c), Near(c, p, q)
      PROVE  Near(e, p, q)
  <2>1. ASSUME NEW m \in (p + 1)..(q - 1)
        PROVE  e[m].kind \in {"calls", "results"}
    <3>1. m \in 1..Len(c)
      BY <1>1
    <3>. QED
      BY <1>4, <3>1 DEF Near
  <2>. QED
    BY <2>1 DEF Near
<1>. QED
  BY <1>1, <1>2, <1>3, <1>4 DEF PairedAt

\* Items without ids may follow.
LEMMA PairedMore ==
  ASSUME NEW S, NEW c \in Seq(S), NEW d \in Seq(S), Paired(c),
         \A k \in 1..Len(d) : d[k].ids = <<>>
  PROVE  Paired(c \o d)
<1>. DEFINE e == c \o d
<1>1. /\ DOMAIN c = 1..Len(c) /\ Len(c) \in Nat /\ Len(d) \in Nat
      /\ e \in Seq(S) /\ Len(e) = Len(c) + Len(d) /\ DOMAIN e = 1..(Len(c) + Len(d))
      /\ \A m \in 1..(Len(c) + Len(d)) : e[m] = IF m <= Len(c) THEN c[m] ELSE d[m - Len(c)]
  BY ConcatProperties, LenProperties
<1>. HIDE DEF e
<1>2. Len(c) <= Len(e) /\ \A m \in 1..Len(c) : e[m] = c[m]
  BY <1>1
<1>3. ASSUME NEW k \in DOMAIN e, NEW i \in DOMAIN e[k].ids
      PROVE  PairedAt(e, k, i)
  <2>1. CASE k <= Len(c)
    <3>1. k \in 1..Len(c) /\ i \in DOMAIN c[k].ids
      BY <1>1, <1>2, <1>3, <2>1
    <3>2. PairedAt(c, k, i)
      BY <1>1, <3>1, PairedEverywhere
    <3>. QED
      BY <1>1, <1>2, <3>1, <3>2, PairedAtLater
  <2>2. CASE ~(k <= Len(c))
    <3>1. k - Len(c) \in 1..Len(d) /\ e[k] = d[k - Len(c)]
      BY <1>1, <2>2
    <3>2. DOMAIN <<>> = {}
      OBVIOUS
    <3>. QED
      BY <1>3, <3>1, <3>2
  <2>. QED
    BY <2>1, <2>2
<1>4. Paired(e)
  BY <1>3, PairedEverywhere
<1>. QED
  BY <1>4 DEF e

\* An answer comes: its calls hang.
LEMMA AnswerHangs ==
  ASSUME NEW D, NEW c \in Seq(Good(D)), NEW d \in Seq(Good(D)), NEW b \in Seq(CountedCalls),
         Paired(c), Asks(d, b)
  PROVE  HangingOn(c \o d, b)
<1>. DEFINE S == Good(D)
            e == c \o d
            n == Len(c)
<1>1. /\ DOMAIN c = 1..n /\ n \in Nat /\ Len(d) \in Nat /\ DOMAIN b = 1..Len(b)
      /\ e \in Seq(S) /\ Len(e) = n + Len(d) /\ DOMAIN e = 1..(n + Len(d))
      /\ \A m \in 1..(n + Len(d)) : e[m] = IF m <= n THEN c[m] ELSE d[m - n]
  BY ConcatProperties, LenProperties
<1>2. \A k \in 1..Len(d) : d[k].kind # "calls" => d[k].ids = <<>>
  <2>1. \A k \in 1..Len(d) : d[k] \in Good(D)
    BY ElementOfSeq
  <2>2. \A x \in Good(D) : x.kind \in {"text", "empty"} => x.ids = <<>>
    BY DEF Good, ItemInv
  <2>. QED
    BY <2>1, <2>2 DEF Asks
<1>. HIDE DEF S, e, n
<1>3. n <= Len(e) /\ \A m \in 1..n : e[m] = c[m]
  BY <1>1
<1>4. c \in Seq(S) /\ n = Len(c)
  BY DEF S, n
<1>5. ASSUME NEW k \in 1..n, NEW i \in DOMAIN e[k].ids
      PROVE  PairedAt(c, k, i) /\ PairedAt(e, k, i)
  <2>1. PairedAt(c, k, i)
    BY <1>1, <1>3, PairedEverywhere
  <2>. QED
    BY <1>1, <1>3, <1>4, <2>1, PairedAtLater
<1>6. ASSUME NEW k \in DOMAIN e, ~(k <= n)
      PROVE  k - n \in 1..Len(d) /\ e[k] = d[k - n]
  BY <1>1, <1>6
<1>7. ASSUME NEW k \in 1..Len(d), d[k].kind = "calls"
      PROVE  k + n \in DOMAIN e /\ e[k + n] = d[k] /\ Hangs(e, k + n)
  <2>1. \A m \in 1..Len(d) : m + n \in 1..(n + Len(d)) /\ ~(m + n <= n) /\ (m + n) - n = m
    BY <1>1
  <2>2. k + n \in DOMAIN e /\ e[k + n] = d[k]
    BY <1>1, <2>1
  <2>3. ASSUME NEW m \in (k + n)..Len(e)
        PROVE  e[m].kind = "calls"
    <3>1. m \in DOMAIN e /\ ~(m <= n) /\ m - n >= k /\ m - n \in 1..Len(d)
      BY <1>1
    <3>2. e[m] = d[m - n]
      BY <1>6, <3>1
    <3>3. CASE m - n = k
      BY <1>7, <3>2, <3>3
    <3>4. CASE m - n # k
      <4>1. m - n # 1
        BY <3>1, <3>4
      <4>. QED
        BY <3>1, <3>2, <4>1 DEF Asks
    <3>. QED
      BY <3>3, <3>4
  <2>. QED
    BY <2>2, <2>3 DEF Hangs
<1>8. ASSUME NEW k \in DOMAIN e, NEW i \in DOMAIN e[k].ids, ~(k <= n)
      PROVE  /\ Hangs(e, k)
             /\ \E j \in DOMAIN b : b[j].id = e[k].ids[i]
  <2>1. k - n \in 1..Len(d) /\ e[k] = d[k - n]
    BY <1>6, <1>8
  <2>2. e[k].kind = "calls"
    <3>1. DOMAIN <<>> = {}
      OBVIOUS
    <3>. QED
      BY <1>2, <1>8, <2>1, <3>1
  <2>3. (k - n) + n = k
    BY <1>1
  <2>4. Hangs(e, k)
    BY <1>7, <2>1, <2>2, <2>3
  <2>5. \E j \in 1..Len(b) : b[j].id = e[k].ids[i]
    BY <1>8, <2>1 DEF Asks
  <2>. QED
    BY <1>1, <2>4, <2>5
<1>9. \A k \in DOMAIN e : k <= n => k \in 1..n
  BY <1>1
<1>10. Hanging(e)
  BY <1>5, <1>8, <1>9 DEF Hanging
<1>11. ASSUME NEW k \in DOMAIN e, Hangs(e, k), NEW i \in DOMAIN e[k].ids
       PROVE  \E j \in DOMAIN b : b[j].id = e[k].ids[i]
  <2>1. CASE k <= n
    <3>1. k \in 1..n /\ PairedAt(e, k, i)
      BY <1>5, <1>9, <1>11, <2>1
    <3>2. e[k].kind = "calls" /\ \A m \in k..Len(e) : e[m].kind = "calls"
      BY <1>1, <1>11 DEF Hangs
    <3>3. PICK j \in DOMAIN e : e[j].kind = "results" /\ j > k
      BY <3>1, <3>2 DEF PairedAt
    <3>4. j \in k..Len(e)
      BY <1>1, <3>3
    <3>. QED
      BY <3>2, <3>3, <3>4
  <2>2. CASE ~(k <= n)
    BY <1>8, <1>11, <2>2
  <2>. QED
    BY <2>1, <2>2
<1>12. ASSUME NEW j \in DOMAIN b
       PROVE  \E k \in DOMAIN e : Hangs(e, k) /\ HasId(e[k], b[j].id)
  <2>1. PICK k \in 1..Len(d) : d[k].kind = "calls" /\ HasId(d[k], b[j].id)
    BY <1>1 DEF Asks
  <2>. QED
    BY <1>7, <2>1
<1>13. HangingOn(e, b)
  BY <1>10, <1>11, <1>12 DEF HangingOn
<1>. QED
  BY <1>13 DEF e

\* Without calls nothing hangs.
LEMMA NothingHangs ==
  ASSUME NEW c, HangingOn(c, <<>>)
  PROVE  Paired(c)
<1>1. DOMAIN <<>> = {}
  OBVIOUS
<1>2. ASSUME NEW k \in DOMAIN c, NEW i \in DOMAIN c[k].ids
      PROVE  PairedAt(c, k, i)
  BY <1>1, <1>2 DEF HangingOn, Hanging
<1>. QED
  BY <1>2, PairedEverywhere

\* The results of the calls come: everything is paired.
LEMMA ResultsPair ==
  ASSUME NEW S, NEW c \in Seq(S), NEW d \in Seq(S), NEW b, HangingOn(c, b),
         \A k \in 1..Len(d) : d[k].kind = "results",
         \A k \in 1..Len(d) : \A i \in DOMAIN d[k].ids : \E j \in DOMAIN b : b[j].id = d[k].ids[i],
         \A j \in DOMAIN b : \E k \in 1..Len(d) : HasId(d[k], b[j].id)
  PROVE  Paired(c \o d)
<1>. DEFINE e == c \o d
            n == Len(c)
<1>1. /\ DOMAIN c = 1..n /\ n \in Nat /\ Len(d) \in Nat
      /\ e \in Seq(S) /\ Len(e) = n + Len(d) /\ DOMAIN e = 1..(n + Len(d))
      /\ \A m \in 1..(n + Len(d)) : e[m] = IF m <= n THEN c[m] ELSE d[m - n]
  BY ConcatProperties, LenProperties
<1>. HIDE DEF e
<1>2. n <= Len(e) /\ \A m \in 1..n : e[m] = c[m] /\ m \in DOMAIN e
  BY <1>1
<1>3. ASSUME NEW m \in 1..Len(d)
      PROVE  m + n \in DOMAIN e /\ e[m + n] = d[m] /\ m + n > n
  <2>1. m + n \in 1..(n + Len(d)) /\ ~(m + n <= n) /\ (m + n) - n = m /\ m + n > n
    BY <1>1
  <2>. QED
    BY <1>1, <2>1
<1>4. ASSUME NEW k \in DOMAIN e, ~(k <= n)
      PROVE  k - n \in 1..Len(d) /\ e[k] = d[k - n] /\ e[k].kind = "results"
  BY <1>1, <1>4
<1>5. \* from calls that hang on, up to the results
      ASSUME NEW k \in 1..n, Hangs(c, k), NEW j \in DOMAIN e, ~(j <= n)
      PROVE  Near(e, k, j) /\ j > k /\ e[k].kind = "calls" /\ e[j].kind = "results"
  <2>1. ASSUME NEW m \in (k + 1)..(j - 1)
        PROVE  e[m].kind \in {"calls", "results"}
    <3>1. m \in DOMAIN e
      BY <1>1
    <3>2. CASE m <= n
      <4>1. m \in 1..n /\ m \in k..n
        BY <1>1, <3>2
      <4>2. c[m].kind = "calls"
        BY <1>5, <4>1 DEF Hangs
      <4>. QED
        BY <1>2, <4>1, <4>2
    <3>3. CASE ~(m <= n)
      BY <1>4, <3>1, <3>3
    <3>. QED
      BY <3>2, <3>3
  <2>2. c[k].kind = "calls"
    <3>1. k \in k..n
      BY <1>1
    <3>. QED
      BY <1>5, <3>1 DEF Hangs
  <2>3. j > k
    BY <1>1, <1>5
  <2>. QED
    BY <1>2, <1>4, <1>5, <2>1, <2>2, <2>3 DEF Near
<1>6. ASSUME NEW k \in DOMAIN e, NEW i \in DOMAIN e[k].ids
      PROVE  PairedAt(e, k, i)
  <2>1. CASE k <= n
    <3>1. k \in 1..n /\ e[k] = c[k]
      BY <1>1, <1>2, <2>1
    <3>2. CASE PairedAt(c, k, i)
      BY <1>1, <1>2, <3>1, <3>2, PairedAtLater
    <3>3. CASE ~PairedAt(c, k, i)
      <4>1. Hangs(c, k)
        BY <1>1, <1>6, <3>1, <3>3 DEF HangingOn, Hanging
      <4>2. PICK j \in DOMAIN b : b[j].id = c[k].ids[i]
        BY <1>1, <1>6, <3>1, <4>1 DEF HangingOn
      <4>3. PICK m \in 1..Len(d) : HasId(d[m], b[j].id)
        BY <4>2
      <4>4. m + n \in DOMAIN e /\ e[m + n] = d[m] /\ ~(m + n <= n)
        BY <1>1, <1>3
      <4>5. Near(e, k, m + n) /\ m + n > k /\ e[k].kind = "calls" /\ e[m + n].kind = "results"
        BY <1>5, <3>1, <4>1, <4>4
      <4>6. HasId(e[m + n], e[k].ids[i])
        BY <3>1, <4>2, <4>3, <4>4
      <4>. QED
        BY <4>4, <4>5, <4>6 DEF PairedAt
    <3>. QED
      BY <3>2, <3>3
  <2>2. CASE ~(k <= n)
    <3>1. k - n \in 1..Len(d) /\ e[k] = d[k - n] /\ e[k].kind = "results"
      BY <1>4, <2>2
    <3>2. PICK j \in DOMAIN b : b[j].id = e[k].ids[i]
      BY <1>6, <3>1
    <3>3. PICK p \in DOMAIN c : Hangs(c, p) /\ HasId(c[p], b[j].id)
      BY <3>2 DEF HangingOn
    <3>4. p \in 1..n /\ p \in DOMAIN e /\ e[p] = c[p]
      BY <1>1, <1>2
    <3>5. Near(e, p, k) /\ k > p /\ e[p].kind = "calls"
      BY <1>5, <2>2, <3>3, <3>4
    <3>6. HasId(e[p], e[k].ids[i]) /\ p < k
      BY <3>2, <3>3, <3>4, <3>5
    <3>. QED
      BY <3>1, <3>4, <3>5, <3>6 DEF PairedAt
  <2>. QED
    BY <2>1, <2>2
<1>7. Paired(e)
  BY <1>6, PairedEverywhere
<1>. QED
  BY <1>7 DEF e

\* cleanup_interrupted() cuts what hangs off, and parts no pair.
LEMMA CleanedIsPaired ==
  ASSUME NEW S, NEW c \in Seq(S), Hanging(c)
  PROVE  Paired(Cleaned(c))
<1>1. PICK n \in 0..Len(c) :
        /\ Cleaned(c) \in Seq(S) /\ Len(Cleaned(c)) = n
        /\ \A k \in 1..n : Cleaned(c)[k] = c[k]
        /\ n # 0 => c[n].kind \notin {"calls", "results", "empty"}
  BY CleanedIs
<1>. DEFINE e == Cleaned(c)
<1>2. /\ DOMAIN c = 1..Len(c) /\ Len(c) \in Nat /\ n \in Nat /\ n <= Len(c) /\ DOMAIN e = 1..n
      /\ \A k \in 1..n : e[k] = c[k]
  BY <1>1, LenProperties
<1>. HIDE DEF e
<1>3. ASSUME NEW k \in DOMAIN e, NEW i \in DOMAIN e[k].ids
      PROVE  PairedAt(e, k, i)
  <2>1. k \in 1..n /\ k \in DOMAIN c /\ e[k] = c[k] /\ n # 0 /\ n \in 1..n
    BY <1>2
  <2>2. c[n].kind \notin {"calls", "results"}
    BY <1>1, <2>1
  <2>3. ~Hangs(c, k)
    <3>1. n \in k..Len(c)
      BY <1>2, <2>1
    <3>. QED
      BY <2>2, <3>1 DEF Hangs
  <2>4. PICK j \in DOMAIN c :
          /\ c[j].kind = (IF c[k].kind = "calls" THEN "results" ELSE "calls")
          /\ HasId(c[j], c[k].ids[i])
          /\ IF c[k].kind = "calls" THEN j > k /\ Near(c, k, j) ELSE j < k /\ Near(c, j, k)
    BY <1>3, <2>1, <2>3 DEF Hanging, PairedAt
  <2>5. j \in 1..n
    <3>1. CASE c[k].kind = "calls"
      <4>1. SUFFICES ASSUME ~(j <= n) PROVE FALSE
        BY <1>2
      <4>2. k # n
        BY <2>2, <3>1
      <4>3. n \in (k + 1)..(j - 1)
        BY <1>2, <2>1, <4>1, <4>2
      <4>. QED
        BY <2>2, <2>4, <3>1, <4>3 DEF Near
    <3>2. CASE c[k].kind # "calls"
      BY <1>2, <2>1, <2>4, <3>2
    <3>. QED
      BY <3>1, <3>2
  <2>6. ASSUME NEW p \in 1..n, NEW q \in 1..n, Near(c, p, q)
        PROVE  Near(e, p, q)
    <3>1. \A m \in (p + 1)..(q - 1) : m \in 1..n
      BY <1>2
    <3>. QED
      BY <1>2, <2>6, <3>1 DEF Near
  <2>. QED
    BY <1>2, <2>1, <2>4, <2>5, <2>6 DEF PairedAt
<1>4. Paired(e)
  BY <1>3, PairedEverywhere
<1>. QED
  BY <1>4 DEF e

\* A message with calls is never the last of a paired conversation.
LEMMA PairedIsNotOpen ==
  ASSUME NEW D, NEW c \in Seq(Good(D)), Paired(c)
  PROVE  Open(c) = <<>>
<1>1. SUFFICES ASSUME Open(c) # <<>> PROVE FALSE
  OBVIOUS
<1>2. Len(c) \in 1..Len(c) /\ c[Len(c)] \in Good(D) /\ c[Len(c)].kind = "calls"
  BY <1>1, OpenIsLast
<1>3. c[Len(c)].ids # <<>> /\ c[Len(c)].ids \in Seq(Nat)
  BY <1>2 DEF Good, ItemInv, Items
<1>4. 1 \in DOMAIN c[Len(c)].ids
  <2>. DEFINE ids == c[Len(c)].ids
  <2>. HIDE DEF ids
  <2>1. ids \in Seq(Nat) /\ ids # <<>>
    BY <1>3 DEF ids
  <2>2. 1 \in DOMAIN ids
    BY <2>1
  <2>. QED
    BY <2>2 DEF ids
<1>5. DOMAIN c = 1..Len(c) /\ Len(c) \in Nat
  BY LenProperties
<1>6. PairedAt(c, Len(c), 1)
  BY <1>2, <1>4, <1>5, PairedEverywhere
<1>7. PICK j \in DOMAIN c : j > Len(c)
  BY <1>2, <1>6 DEF PairedAt
<1>. QED
  BY <1>5, <1>7

---------------------------------------------------------------------------
(* Every step keeps the pairs *)

PairsInv ==
  /\ place \in {"rest", "top", "request"} => Paired(conv)
  /\ place = "tools" => HangingOn(conv, batch)
  /\ place = "summary" => Paired(snapshot) /\ Paired(conv)
  /\ place = "down" => Paired(conv)
  /\ Hanging(saved.conv)

LEMMA NothingIsPaired == Paired(<<>>) /\ \A x : x.ids = <<>> => Paired(<<x>>)
<1>1. DOMAIN <<>> = {} /\ \A x : DOMAIN <<x>> = {1} /\ <<x>>[1] = x
  OBVIOUS
<1>. QED
  BY <1>1 DEF Paired

LEMMA EitherPairs ==
  ASSUME Prompted, NEW c, Paired(c), GoesOn(c) \/ AsksSummary(c), Hanging(saved'.conv)
  PROVE  PairsInv'
<1>1. CASE GoesOn(c)
  BY <1>1 DEF GoesOn, PairsInv
<1>2. CASE AsksSummary(c)
  <2>1. Item("summarize", <<>>, {}).ids = <<>>
    BY DEF Item
  <2>2. Paired(conv')
    BY <1>2, <2>1, NothingIsPaired DEF AsksSummary
  <2>3. snapshot' = c /\ place' = "summary"
    BY <1>2 DEF AsksSummary
  <2>. QED
    BY <2>2, <2>3 DEF PairsInv
<1>. QED
  BY <1>1, <1>2

LEMMA InitPairs == Init => PairsInv
<1>1. Init => conv = <<>> /\ saved.conv = <<>> /\ place = "rest"
  BY DEF Init
<1>. QED
  BY <1>1, NothingIsPaired, PairedHangs DEF PairsInv

LEMMA AnsweredKeepsPairs ==
  ASSUME NamedCalls, WholeAnswers, Prompted, DataInv, PairsInv, Answered
  PROVE  PairsInv'
<1>. DEFINE D == disk
<1>1. BatchInv /\ DiskInv /\ TextInv
  BY DEF DataInv
<1>answer. PICK a \in Answers : \E r \in Outcomes(a) :
        /\ Received(a, conv \o r.items)
        /\ \/ DropCalls(r, conv \o r.items) \/ CutOff(r, conv \o r.items)
           \/ NoCalls(r, conv \o r.items) \/ AskTools(r, conv \o r.items)
  BY DEF Answered
<1>2. PICK r \in Outcomes(a) :
        /\ Received(a, conv \o r.items)
        /\ \/ DropCalls(r, conv \o r.items) \/ CutOff(r, conv \o r.items)
           \/ NoCalls(r, conv \o r.items) \/ AskTools(r, conv \o r.items)
  BY <1>answer
<1>. DEFINE c == conv \o r.items
<1>3. /\ r.calls \in Seq(CountedCalls) /\ r.items \in Seq(Good(D)) /\ conv \in Seq(Good(D))
      /\ Asks(r.items, r.calls)
  <2>1. r \in Outcomes(a) /\ agent \in Agents /\ asked \in Nat
    BY <1>1, <1>2 DEF TextInv
  <2>2. Fits(r)
    BY <2>1, OutcomeFits
  <2>. QED
    BY <1>1, <2>2 DEF Fits, TextInv
<1>4. place = "request" /\ saved'.conv = c
  BY <1>2 DEF Received
<1>5. c \in Seq(Good(D)) /\ HangingOn(c, r.calls)
  BY <1>3, <1>4, ConcatProperties, AnswerHangs DEF PairsInv
<1>. HIDE DEF c
<1>6. Hanging(saved'.conv)
  BY <1>4, <1>5 DEF HangingOn
<1>7. r.calls = <<>> => Paired(c)
  BY <1>5, NothingHangs
<1>8. ASSUME place' \in {"rest", "top"}, Paired(conv')
      PROVE  PairsInv'
  BY <1>6, <1>8 DEF PairsInv
<1>9. Note \in Good(D) /\ <<Note>> \in Seq(Good(D)) /\ \A k \in 1..Len(<<Note>>) : <<Note>>[k].ids = <<>>
  <2>1. {} \in SUBSET Nat
    OBVIOUS
  <2>2. Note \in Good(D) /\ Note.ids = <<>>
    BY <2>1, PlainIsGood DEF Note, Kinds, Item
  <2>. QED
    BY <2>2
<1>10. CASE DropCalls(r, c)
  <2>. DEFINE errors == [k \in DOMAIN r.calls |->
                          [n |-> r.calls[k].n, id |-> r.calls[k].id, ok |-> FALSE, file |-> FALSE]]
              more == ResultItems(errors)
              b == r.calls
  <2>1. /\ errors \in Seq(Got(D)) /\ Len(errors) = Len(r.calls)
        /\ \A k \in 1..Len(r.calls) : errors[k].id = r.calls[k].id
    BY <1>3, ErrorsGot
  <2>2. conv' = c \o more \o <<Note>> /\ place' = "top"
    BY <1>10 DEF DropCalls, Goto
  <2>3. DOMAIN b = 1..Len(b)
    BY <1>3, LenProperties
  <2>. HIDE DEF errors
  <2>4. /\ more \in Seq(Good(D)) /\ \A k \in 1..Len(more) : more[k].kind = "results"
        /\ \A k \in 1..Len(more) : \A i \in DOMAIN more[k].ids :
             \E j \in 1..Len(errors) : errors[j].id = more[k].ids[i]
        /\ \A j \in 1..Len(errors) : \E k \in 1..Len(more) : HasId(more[k], errors[j].id)
    BY <2>1, ResultItemsAnswer
  <2>5. /\ \A k \in 1..Len(more) : \A i \in DOMAIN more[k].ids : \E j \in DOMAIN b : b[j].id = more[k].ids[i]
        /\ \A j \in DOMAIN b : \E k \in 1..Len(more) : HasId(more[k], b[j].id)
    <3>. HIDE DEF more, b
    <3>1. Len(errors) = Len(b) /\ \A k \in 1..Len(b) : errors[k].id = b[k].id
      BY <2>1 DEF b
    <3>2. ASSUME NEW k \in 1..Len(more), NEW i \in DOMAIN more[k].ids
          PROVE  \E j \in DOMAIN b : b[j].id = more[k].ids[i]
      <4>1. PICK j \in 1..Len(errors) : errors[j].id = more[k].ids[i]
        BY <2>4
      <4>. QED
        BY <2>3, <3>1, <4>1
    <3>3. ASSUME NEW j \in DOMAIN b
          PROVE  \E k \in 1..Len(more) : HasId(more[k], b[j].id)
      <4>1. j \in 1..Len(errors) /\ errors[j].id = b[j].id
        BY <2>3, <3>1
      <4>2. \E k \in 1..Len(more) : HasId(more[k], errors[j].id)
        BY <2>4, <4>1
      <4>. QED
        BY <4>1, <4>2
    <3>. QED
      BY <3>2, <3>3
  <2>. HIDE DEF more
  <2>6. Paired(c \o more)
    BY <1>5, <2>4, <2>5, ResultsPair
  <2>7. c \o more \in Seq(Good(D))
    BY <1>5, <2>4, ConcatProperties
  <2>8. Paired(conv')
    BY <1>9, <2>2, <2>6, <2>7, PairedMore
  <2>. QED
    BY <1>8, <2>2, <2>8
<1>11. CASE CutOff(r, c)
  <2>1. /\ place' \in {"rest", "top"} /\ (conv' = Append(c, Note) \/ conv' = c)
        /\ Paired(c)
    BY <1>7, <1>11 DEF CutOff, Goto, EndCall
  <2>2. Append(c, Note) = c \o <<Note>>
    BY <1>5, <1>9, AppendOne
  <2>3. Paired(c \o <<Note>>)
    BY <1>5, <1>9, <2>1, PairedMore
  <2>. QED
    BY <1>8, <2>1, <2>2, <2>3
<1>12. CASE NoCalls(r, c)
  <2>1. (GoesOn(c) \/ AsksSummary(c)) /\ Paired(c)
    BY <1>7, <1>12, ContinueEither DEF NoCalls
  <2>. QED
    BY <1>6, <2>1, EitherPairs
<1>13. CASE AskTools(r, c)
  <2>1. place' = "tools" /\ conv' = c /\ batch' = r.calls
    BY <1>13 DEF AskTools, Goto
  <2>. QED
    BY <1>5, <1>6, <2>1 DEF PairsInv
<1>. QED
  BY <1>2, <1>10, <1>11, <1>12, <1>13 DEF c

LEMMA ToolsDoneKeepsPairs ==
  ASSUME Prompted, DataInv, PairsInv, ToolsDone
  PROVE  PairsInv'
<1>. DEFINE E == disk'
<1>1. BatchInv /\ DiskInv /\ TextInv
  BY DEF DataInv
<1>2. place = "tools" /\ UNCHANGED agent /\ saved'.conv = conv
  BY DEF ToolsDone
<1>3. PICK rs \in Seq(Got(E)) :
        /\ Len(rs) = Len(results) /\ Len(results) = Len(batch)
        /\ \A k \in 1..Len(results) : rs[k].id = results[k].id
        /\ Continue(conv \o ResultItems(rs), "top")
        /\ Grows(disk, E)
  BY ToolsDoneResults
<1>4. conv \in Seq(Good(E))
  BY <1>1, <1>2, <1>3, GoodLater, GoodPrimed DEF TextInv
<1>. DEFINE d == ResultItems(rs)
<1>5. DOMAIN batch = 1..Len(batch) /\ \A k \in 1..Len(batch) : rs[k].id = batch[k].id
  BY <1>1, <1>3, LenProperties DEF BatchInv
<1>6. /\ d \in Seq(Good(E)) /\ \A k \in 1..Len(d) : d[k].kind = "results"
      /\ \A k \in 1..Len(d) : \A i \in DOMAIN d[k].ids : \E j \in 1..Len(rs) : rs[j].id = d[k].ids[i]
      /\ \A j \in 1..Len(rs) : \E k \in 1..Len(d) : HasId(d[k], rs[j].id)
  BY ResultItemsAnswer
<1>. HIDE DEF d
<1>7. /\ \A k \in 1..Len(d) : \A i \in DOMAIN d[k].ids : \E j \in DOMAIN batch : batch[j].id = d[k].ids[i]
      /\ \A j \in DOMAIN batch : \E k \in 1..Len(d) : HasId(d[k], batch[j].id)
  <2>1. ASSUME NEW k \in 1..Len(d), NEW i \in DOMAIN d[k].ids
        PROVE  \E j \in DOMAIN batch : batch[j].id = d[k].ids[i]
    <3>1. PICK j \in 1..Len(rs) : rs[j].id = d[k].ids[i]
      BY <1>6
    <3>. QED
      BY <1>3, <1>5, <3>1
  <2>2. ASSUME NEW j \in DOMAIN batch
        PROVE  \E k \in 1..Len(d) : HasId(d[k], batch[j].id)
    <3>1. j \in 1..Len(rs) /\ rs[j].id = batch[j].id
      BY <1>3, <1>5
    <3>2. \E k \in 1..Len(d) : HasId(d[k], rs[j].id)
      BY <1>6, <3>1
    <3>. QED
      BY <3>1, <3>2
  <2>. QED
    BY <2>1, <2>2
<1>8. HangingOn(conv, batch)
  BY <1>2 DEF PairsInv
<1>9. Paired(conv \o d)
  BY <1>4, <1>6, <1>7, <1>8, ResultsPair
<1>10. Hanging(saved'.conv)
  BY <1>2, <1>8 DEF HangingOn
<1>11. GoesOn(conv \o d) \/ AsksSummary(conv \o d)
  BY <1>3, ContinueEither DEF d
<1>. QED
  BY <1>9, <1>10, <1>11, EitherPairs

LEMMA StepKeepsPairs ==
  ASSUME NamedCalls, WholeAnswers, Prompted, DataInv, PairsInv, [Next]_vars
  PROVE  PairsInv'
<1>. DEFINE S == Good(disk)
<1>1. /\ conv \in Seq(S) /\ snapshot \in Seq(S) /\ saved.conv \in Seq(S)
      /\ calls \in Nat /\ place \in {"rest", "top", "request", "tools", "summary", "down"}
  BY DEF DataInv, TextInv
<1>. HIDE DEF S
<1>2. CASE BeginCall
  <2>. DEFINE x == Item("user", <<>>, {UserFact(calls + 1)})
  <2>1. /\ place = "rest" /\ place' = "top" /\ UNCHANGED saved
        /\ conv' = Append(conv, x)
    BY <1>2 DEF BeginCall
  <2>2. x.ids = <<>> /\ x \in S
    <3>1. {UserFact(calls + 1)} \in SUBSET Nat
      BY <1>1 DEF UserFact
    <3>. QED
      BY <3>1, PlainIsGood DEF Kinds, S, Item
  <2>. HIDE DEF x
  <2>. DEFINE d == <<x>>
  <2>3. conv' = conv \o d /\ d \in Seq(S) /\ \A k \in 1..Len(d) : d[k].ids = <<>>
    BY <1>1, <2>1, <2>2, AppendOne
  <2>. HIDE DEF d
  <2>4. Paired(conv')
    BY <1>1, <2>1, <2>3, PairedMore DEF PairsInv
  <2>. QED
    BY <2>1, <2>4 DEF PairsInv
<1>3. ASSUME UNCHANGED <<conv, saved>>, place \in {"top", "request"},
             place' \in {"rest", "top", "request"}
      PROVE  PairsInv'
  BY <1>3 DEF PairsInv
<1>4. CASE Turn
  BY <1>3, <1>4 DEF Turn, EndCall, textVars
<1>5. CASE Answered
  BY <1>5, AnsweredKeepsPairs
<1>6. CASE Retry
  BY <1>6 DEF Retry, textVars, PairsInv
<1>7. CASE WithoutTools
  BY <1>3, <1>7 DEF WithoutTools, textVars
<1>8. CASE TooLong
  <2>1. place = "request" /\ UNCHANGED saved
    BY <1>8 DEF TooLong
  <2>2. CASE Goto("top", cutOffs, overflows + 1) /\ UNCHANGED <<conv, snapshot>>
    BY <1>3, <2>1, <2>2 DEF Goto
  <2>3. CASE Compact(conv, "top", cutOffs, overflows + 1)
    <3>1. Paired(conv) /\ Hanging(saved'.conv)
      BY <2>1 DEF PairsInv
    <3>. QED
      BY <2>3, <3>1, CompactEither, EitherPairs
  <2>. QED
    BY <1>8, <2>2, <2>3 DEF TooLong
<1>9. CASE Fail
  BY <1>3, <1>9 DEF Fail, EndCall, textVars
<1>10. CASE ToolsRun
  <2>1. place = "tools" /\ UNCHANGED <<place, conv, snapshot, saved>>
    BY <1>10 DEF ToolsRun, loopVars, textVars
  <2>2. UNCHANGED batch
    BY <1>10 DEF ToolsRun, ToolStep, Refuse, BeginTool, GetSession, NoSession, CallSucceeds, CallFails,
       Restart, RestartFails, RetryFails, Errs, Completes, AnsweredWith
  <2>. QED
    BY <2>1, <2>2 DEF PairsInv
<1>11. CASE ToolsDone
  BY <1>11, ToolsDoneKeepsPairs
<1>12. CASE Summarized
  <2>. DEFINE told == Shown(SubSeq(snapshot, 1, Len(snapshot) - Len(Open(snapshot))))
              x == Item("summary", <<>>, told)
  <2>1. place = "summary" /\ place' \in {"top", "rest"} /\ UNCHANGED saved
        /\ conv' = <<x>> \o Open(snapshot)
    BY <1>12, ResumeGoesOn DEF Summarized
  <2>2. Open(snapshot) = <<>>
    BY <1>1, <2>1, PairedIsNotOpen DEF PairsInv, S
  <2>3. x.ids = <<>>
    BY DEF Item
  <2>. HIDE DEF x
  <2>4. conv' = <<x>>
    BY <2>1, <2>2
  <2>. QED
    BY <2>1, <2>3, <2>4, NothingIsPaired DEF PairsInv
<1>13. CASE NotSummarized
  <2>1. place = "summary" /\ place' = "rest" /\ UNCHANGED saved
        /\ (conv' = <<>> \/ conv' = snapshot)
    BY <1>13 DEF NotSummarized, EndCall
  <2>. QED
    BY <2>1, NothingIsPaired DEF PairsInv
<1>14. CASE Interrupt
  <2>1. /\ place # "down" /\ place' = "down" /\ conv' = <<>>
        /\ saved' \in {saved, [conv |-> conv, turns |-> turns]}
    BY <1>14 DEF Interrupt
  <2>2. Hanging(conv)
    BY <1>1, <2>1, PairedHangs DEF PairsInv, HangingOn
  <2>3. Hanging(saved'.conv)
    BY <2>1, <2>2 DEF PairsInv
  <2>. QED
    BY <2>1, <2>3, NothingIsPaired DEF PairsInv
<1>15. CASE Restore
  <2>1. /\ place' = "rest" /\ UNCHANGED saved
        /\ conv' = <<>> \/ conv' = Cleaned(saved.conv)
    BY <1>15 DEF Restore
  <2>2. Paired(Cleaned(saved.conv))
    <3>. DEFINE old == saved.conv
    <3>1. old \in Seq(S) /\ Hanging(old)
      BY <1>1 DEF PairsInv
    <3>. HIDE DEF old
    <3>2. Paired(Cleaned(old))
      BY <3>1, CleanedIsPaired
    <3>. QED
      BY <3>2 DEF old
  <2>. QED
    BY <2>1, <2>2, NothingIsPaired DEF PairsInv
<1>16. CASE UNCHANGED vars
  BY <1>16 DEF vars, loopVars, textVars, toolVars, PairsInv
<1>. QED
  BY <1>2, <1>4, <1>5, <1>6, <1>7, <1>8, <1>9, <1>10, <1>11, <1>12, <1>13, <1>14, <1>15, <1>16
     DEF Next, LoopStep

\* "function_call/function_call_output items are always paired" (loop.py:365): with a
\* system prompt no request has a call without result or a result without call, for any
\* agents, answers and bounds, wherever streams break, compactions fail and processes end.
THEOREM CallsAlwaysPaired ==
  ASSUME NamedCalls, WholeAnswers, Prompted
  PROVE  Spec => []CallsPaired
<1>1. PairsInv => CallsPaired
  BY DEF PairsInv, CallsPaired
<1>2. DataInv /\ PairsInv /\ [Next]_vars => PairsInv'
  BY StepKeepsPairs
<1>. QED
  BY <1>1, <1>2, InitPairs, AlwaysData, PTL DEF Spec

=============================================================================
