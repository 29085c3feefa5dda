-------------------------- MODULE MCConversation --------------------------
(* Every client in both modes, two servers, the answers that differ. *)
EXTENDS Conversation

Agent(p, m, n) == [provider |-> p, mode |-> m, maxTurns |-> n]
SomeAgents ==
  {Agent(p, m, 2) : p \in {"chat", "response", "anthropic", "gemini"}, m \in {"complete", "stream"}}
    \cup {Agent(p, "stream", 3) : p \in {"chat", "anthropic"}}

\* The server of one of them gives no ids.
SomeIdless == {Agent("chat", "stream", 3)}

Call(t) == [named |-> TRUE, valid |-> TRUE, tool |-> t]
Plain == [text |-> FALSE, thinking |-> FALSE, cut |-> FALSE, broke |-> "no", calls |-> <<>>]

SomeAnswers ==
  {Plain, [Plain EXCEPT !.text = TRUE], [Plain EXCEPT !.text = TRUE, !.cut = TRUE],
   [Plain EXCEPT !.calls = <<Call("repl")>>],
   [Plain EXCEPT !.calls = <<Call("files")>>, !.cut = TRUE],
   [Plain EXCEPT !.text = TRUE, !.calls = <<Call("forbidden"), Call("files")>>, !.broke = "midway"],
   [Plain EXCEPT !.calls = <<Call("repl"), [Call("files") EXCEPT !.valid = FALSE]>>]}

\* Calls without a name, and a connection that breaks after the answer is complete.
OddAnswers ==
  SomeAnswers \cup {[Plain EXCEPT !.calls = <<[Call("repl") EXCEPT !.named = FALSE]>>],
                    [Plain EXCEPT !.calls = <<Call("repl")>>, !.broke = "late"]}
=============================================================================
