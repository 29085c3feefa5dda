----------------------------- MODULE Evaluation -----------------------------
(***************************************************************************)
(* The assessment of book targets (autoform/eval/pipeline.py, matching.py, *)
(* the graders and rubrics), and what its two callers do with it: an       *)
(* evaluation of the whole book, which a person starts, stops and copies   *)
(* into the goals from the visualizer (autoform/bot/eval_process.py,       *)
(* autoform/visualizer/app.py), and the evaluation of a merge, for the     *)
(* targets a language model names (autoform/bot/merge_eval.py).            *)
(*                                                                         *)
(* A build gates everything.  Then each target is matched to a             *)
(* declaration, whose name Lean has to resolve unless it is empty, and     *)
(* judged by one agent per rubric.  A judge's score is reduced to whether  *)
(* it reaches the rubric's threshold; an answer that cannot be read has    *)
(* score 0.  The report is annotated with the failures that are inherited, *)
(* where the assessment of all targets may still end with an exception.    *)
(***************************************************************************)
EXTENDS Naturals, Sequences, FiniteSets

CONSTANTS
  Goals,          \* indices of the book's targets
  Decls,          \* Lean declarations
  Axioms,         \* axioms and other issues of proofs
  Rubrics,        \* rubrics that are active
  ProofIntegrity, \* the one whose judge gives verdicts on axioms
  Graphs,         \* dependency graphs: the declarations they know, and what each of these
                  \* depends on, directly or not
  Evaluations,    \* who asks for which targets
  Slots,          \* values of concurrency
  MaxRetries,     \* the 3 of match_statement()
  ProgressBatch   \* progress_batch

ASSUME EvaluationAssumption ==
  /\ Goals \subseteq Nat /\ ProofIntegrity \in Rubrics
  /\ Evaluations \subseteq [caller : {"book", "merge"}, asked : Seq(Goals) \ {<<>>}]
  /\ Graphs \subseteq [known : SUBSET Decls, uses : SUBSET (Decls \X Decls)]
  /\ \A G \in Graphs :
       /\ G.uses \subseteq G.known \X Decls /\ \A d \in Decls : <<d, d>> \notin G.uses
       /\ \A d, e, f \in Decls : <<d, e>> \in G.uses /\ <<e, f>> \in G.uses => <<d, f>> \in G.uses
  /\ Slots \subseteq Nat \ {0} /\ MaxRetries \in Nat \ {0} /\ ProgressBatch \in Nat \ {0}

None == "none"          \* no declaration, no vote, no verdict

Nameless == ""          \* the declaration an answer names with an empty string

ASSUME NamesAssumption == None \notin Decls /\ Nameless \notin Decls

VARIABLES
  caller, asked,   \* who asks, and for which targets in which order
  phase,           \* of the evaluation
  built, graph,    \* the build of the dependency graph has ended, and with what
  free,            \* slots of the semaphore
  task,            \* of each position of asked: its assessment
  finished,        \* results in the order they are there
  collected,       \* how many of them as_completed() has handed over
  results,         \* what assess_targets() returns
  final,           \* the entries of the report it returns
  report,          \* report.json: the entries this evaluation last wrote to it
  latest,          \* the link to the latest report names it
  goals            \* goals.json, and (history) whose result gave the status

vars == <<caller, asked, phase, built, graph, free, task, finished, collected, results,
          final, report, latest, goals>>

Positions == 1..Len(asked)
NoVotes == [r \in Rubrics |-> None]
NoGraph == [known |-> {}, uses |-> {}]   \* its build failed; an empty one is as good as none

\* Positions a list's items get when it is sorted by index; equal ones keep their order.
Rank(s, j) == Cardinality({m \in DOMAIN s : s[m].idx < s[j].idx \/ (s[m].idx = s[j].idx /\ m <= j)})
Sorted(s) == [k \in DOMAIN s |-> s[CHOOSE j \in DOMAIN s : Rank(s, j) = k]]

Init ==
  /\ \E e \in Evaluations : caller = e.caller /\ asked = e.asked
  /\ phase = "gate" /\ built = FALSE /\ graph = NoGraph
  /\ free \in Slots
  /\ task = [i \in Positions |-> [at |-> "waiting", decl |-> None, retries |-> 0, checked |-> FALSE,
                                  votes |-> NoVotes, issues |-> {}, only |-> FALSE]]
  /\ finished = <<>> /\ collected = 0 /\ results = <<>> /\ final = <<>>
  /\ report = <<>>
  /\ latest \in (IF caller = "book" THEN BOOLEAN ELSE {FALSE})
  /\ goals = [g \in Goals |-> [status |-> "pending", about |-> {}]]

---------------------------------------------------------------------------
(* Build, dependency graph, report *)

\* What a result says that was not judged: reason "gate", "not_found", "no_name" (null, with
\* another confidence), "not_built" or "error".
Unjudged(i, reason, decl) ==
  [idx |-> asked[i], reason |-> reason, decl |-> decl, passed |-> FALSE, checked |-> FALSE,
   votes |-> NoVotes, issues |-> {}, only |-> FALSE, inherited |-> FALSE]

\* build_report(): the visualizer sees it if the caller gave a path.
Written(entries) == report' = IF caller = "book" THEN entries ELSE report

\* lake build succeeds and no forbidden keyword is found; an empty report is written.
GatePasses ==
  /\ phase = "gate"
  /\ phase' = "assessing"
  /\ Written(<<>>)
  /\ UNCHANGED <<caller, asked, built, graph, free, task, finished, collected, results, final, latest, goals>>

\* The build fails, times out or breaks a rule: every target fails, in the order asked for.
GateFails ==
  /\ phase = "gate"
  /\ phase' = "done"
  /\ LET failing == [i \in Positions |-> Unjudged(i, "gate", None)]
     IN  results' = failing /\ final' = failing /\ Written(failing)
  /\ UNCHANGED <<caller, asked, built, graph, free, task, finished, collected, latest, goals>>

\* _build_graph() ends: without a graph when anything goes wrong.
GraphDone ==
  /\ phase = "assessing" /\ ~built
  /\ built' = TRUE /\ graph' \in Graphs \cup {NoGraph}
  /\ UNCHANGED <<caller, asked, phase, free, task, finished, collected, results, final, report, latest, goals>>

---------------------------------------------------------------------------
(* The assessment of one target *)

At(i, place) == phase = "assessing" /\ i \in Positions /\ task[i].at = place
Goto(i, next) == task' = [task EXCEPT ![i] = next]
OnlyTask == UNCHANGED <<caller, asked, phase, built, graph, free, finished, collected, results, final, report, latest, goals>>

\* The semaphore lets the assessments in, in the order of the list.
Enter(i) ==
  /\ At(i, "waiting") /\ free > 0
  /\ \A j \in 1..i-1 : task[j].at # "waiting"
  /\ free' = free - 1
  /\ Goto(i, [task[i] EXCEPT !.at = "matching"])
  /\ UNCHANGED <<caller, asked, phase, built, graph, finished, collected, results, final, report, latest, goals>>

\* _assess_one() returns a result and leaves the semaphore.
Finish(i, result) ==
  /\ finished' = Append(finished, result)
  /\ free' = free + 1
  /\ Goto(i, [task[i] EXCEPT !.at = "finished", !.decl = None, !.retries = 0, !.checked = FALSE,
                             !.votes = NoVotes, !.issues = {}, !.only = FALSE])
  /\ UNCHANGED <<caller, asked, phase, built, graph, collected, results, final, report, latest, goals>>

\* The matcher names a declaration, which is checked unless its name is empty.
Match(i) ==
  /\ At(i, "matching")
  /\ \/ \E d \in Decls : Goto(i, [task[i] EXCEPT !.at = "checking", !.decl = d])
     \/ Goto(i, [task[i] EXCEPT !.at = "matched", !.decl = Nameless])
  /\ OnlyTask

\* It finds none.
NoMatch(i) ==
  /\ At(i, "matching") \/ At(i, "correcting")
  /\ \E reason \in {"not_found", "no_name"} : Finish(i, Unjudged(i, reason, None))

\* #print axioms knows the name, which it never does of an empty one, or it does not and
\* the matcher is told.
Resolve(i) ==
  /\ At(i, "checking") /\ task[i].decl # Nameless
  /\ Goto(i, [task[i] EXCEPT !.at = "matched", !.checked = TRUE])
  /\ OnlyTask

Unresolved(i) ==
  /\ At(i, "checking")
  /\ Goto(i, [task[i] EXCEPT !.at = "correcting", !.retries = @ + 1])
  /\ OnlyTask

\* Variant with a bug: the last correction is believed.
CorrectAtLast(i) ==
  /\ At(i, "correcting")
  /\ \E d \in Decls \cup {Nameless} :
       Goto(i, [task[i] EXCEPT !.decl = d, !.at = IF task[i].retries < MaxRetries THEN "checking" ELSE "matched"])
  /\ OnlyTask

\* A corrected name is checked in its turn, but not the one after the last check.
Correct(i) ==
  /\ At(i, "correcting")
  /\ \E d \in Decls \cup {Nameless} :
       IF task[i].retries < MaxRetries
       THEN Goto(i, [task[i] EXCEPT !.at = "checking", !.decl = d]) /\ OnlyTask
       ELSE Finish(i, Unjudged(i, "not_built", d))

\* The matcher may say of its own that the file is not built.
NotBuilt(i) ==
  /\ At(i, "matched")
  /\ Finish(i, Unjudged(i, "not_built", task[i].decl))

\* The judges get the dependency graph, so it has to be there.
BeginJudging(i) ==
  /\ At(i, "matched") /\ built
  /\ Goto(i, [task[i] EXCEPT !.at = "judging"])
  /\ OnlyTask

\* One judge answers; the judges work at the same time.  issues are the axioms it has a
\* verdict on, justified or not, and only its flag axiom_only.
Vote(i, r) ==
  /\ At(i, "judging") /\ task[i].votes[r] = None
  /\ \E v \in {"pass", "fail"}, issues \in SUBSET Axioms, only \in BOOLEAN :
       /\ r # ProofIntegrity => issues = {} /\ ~only
       /\ Goto(i, [task[i] EXCEPT !.votes[r] = v,
                                  !.issues = IF r = ProofIntegrity THEN issues ELSE @,
                                  !.only = IF r = ProofIntegrity THEN only ELSE @])
  /\ OnlyTask

\* aggregate(): passed only if every judge passed it.
Conclude(i) ==
  /\ At(i, "judging") /\ \A r \in Rubrics : task[i].votes[r] # None
  /\ Finish(i, [idx |-> asked[i], reason |-> "judged", decl |-> task[i].decl,
                passed |-> \A r \in Rubrics : task[i].votes[r] = "pass", checked |-> task[i].checked,
                votes |-> task[i].votes, issues |-> task[i].issues, only |-> task[i].only,
                inherited |-> FALSE])

\* An agent, Lean or a file fails: the target fails with a pipeline error.
Fail(i) ==
  /\ \E place \in {"matching", "checking", "correcting", "judging"} : At(i, place)
  /\ Finish(i, Unjudged(i, "error", None))

---------------------------------------------------------------------------
(* The report, and what the callers do with it *)

\* as_completed() hands over the next result; now and then the report is written.
Collect ==
  /\ phase = "assessing" /\ collected < Len(finished)
  /\ collected' = collected + 1
  /\ IF collected' % ProgressBatch = 0 \/ collected' = Len(asked)
     THEN Written(SubSeq(finished, 1, collected'))
     ELSE UNCHANGED report
  /\ UNCHANGED <<caller, asked, phase, built, graph, free, task, finished, results, final, latest, goals>>

\* build_report() lists failed entries first and equal ones by name, for which the model
\* takes their order here; of two with one declaration the later is found.
DetailOf(entries, d) ==
  LET named == {k \in DOMAIN entries : entries[k].decl = d}
      Later(j, k) == \/ entries[j].passed /\ ~entries[k].passed
                     \/ entries[j].passed = entries[k].passed /\ j > k
  IN  entries[CHOOSE k \in named : \A j \in named : j = k \/ Later(k, j)]

Named(entries) == {entries[k].decl : k \in DOMAIN entries} \ {None, Nameless}

\* An entry that failed on axioms only.
AxiomsOnly(entry) == ~entry.passed /\ entry.only /\ entry.issues # {}

\* All its axioms have a verdict in the entry of something it depends on.
Inherits(entries, entry, G) ==
  /\ AxiomsOnly(entry)
  /\ \A a \in entry.issues :
       \E d \in Named(entries) : <<entry.decl, d>> \in G.uses /\ a \in DetailOf(entries, d).issues

\* Its dependencies are looked up, but without a node of the graph they are still the text
\* for the judges: an AttributeError.
Breaks(entry, G) == AxiomsOnly(entry) /\ entry.decl \notin G.known

\* _annotate_inherited_failures(): such an entry passes.
Annotated(entries, G) ==
  [k \in DOMAIN entries |->
     IF Inherits(entries, entries[k], G)
     THEN [entries[k] EXCEPT !.passed = TRUE, !.inherited = TRUE] ELSE entries[k]]

Returned(list) ==
  /\ built /\ \A k \in DOMAIN list : ~Breaks(list[k], graph)
  /\ phase' = "done"
  /\ results' = list
  /\ final' = Annotated(list, graph)
  /\ UNCHANGED <<caller, asked, built, graph, free, task, finished, collected, report, latest, goals>>

\* Variant with a bug: the results stay in the order they were there.
FinalizeUnsorted ==
  /\ phase = "assessing" /\ collected = Len(asked)
  /\ Returned(finished)

\* Variant with a bug: one target short of the end.
FinalizeEarly ==
  /\ phase = "assessing" /\ collected + 1 >= Len(asked) /\ collected > 0
  /\ Returned(Sorted(SubSeq(finished, 1, collected)))

\* All results are there: they are sorted by index, and the report is annotated.
Finalize ==
  /\ phase = "assessing" /\ collected = Len(asked)
  /\ Returned(Sorted(SubSeq(finished, 1, collected)))

\* All results are there, but the annotation fails: there is no report and no result, only
\* the last progress report of a book.
FinalizeRaises ==
  /\ phase = "assessing" /\ collected = Len(asked) /\ built
  /\ \E k \in DOMAIN finished : Breaks(finished[k], graph)
  /\ phase' = "raised"
  /\ UNCHANGED <<caller, asked, built, graph, free, task, finished, collected, results, final, report, latest, goals>>

\* run_eval() writes the report with its checkpoint, removes the link to the latest report
\* and makes it anew; it can be stopped after each of these.
Step(from, to) == caller = "book" /\ phase = from /\ phase' = to
Publish ==
  /\ \/ Step("done", "written") /\ report' = final /\ UNCHANGED latest
     \/ Step("written", "unlinked") /\ latest' = FALSE /\ UNCHANGED report
     \/ Step("unlinked", "over") /\ latest' = TRUE /\ UNCHANGED report
  /\ UNCHANGED <<caller, asked, built, graph, free, task, finished, collected, results, final, goals>>

\* The status of a goal: what has no declaration is not covered, not failed.
StatusOf(entry, uncovered) ==
  IF entry.passed THEN "completed" ELSE IF uncovered THEN "pending" ELSE "failed"

\* Each goal gets the status of the last result whose owner it is, if there is one.
Update(list, owner, uncovered) ==
  goals' = [g \in Goals |->
    LET K == {k \in DOMAIN list : owner[k] = g}
        k == CHOOSE k \in K : \A j \in K : j <= k
    IN  IF K = {} THEN goals[g]
        ELSE [status |-> StatusOf(list[k], k \in uncovered), about |-> {list[k].idx}]]

\* _update_tracker(): a merge's indices are paired with its results, by position.
RecordVerdicts ==
  /\ phase = "done" /\ caller = "merge"
  /\ phase' = "over"
  /\ Update(results, asked, {k \in DOMAIN results : results[k].reason = "not_found"})
  /\ UNCHANGED <<caller, asked, built, graph, free, task, finished, collected, results, final, report, latest>>

\* transfer_report_to_goals(): the latest report, be it this evaluation's last or a
\* progress report of it, gives each goal in it a status.
Transfer ==
  /\ caller = "book" /\ latest
  /\ Update(report, [k \in DOMAIN report |-> report[k].idx], {k \in DOMAIN report : report[k].decl \in {None, Nameless}})
  /\ UNCHANGED <<caller, asked, phase, built, graph, free, task, finished, collected, results, final, report, latest>>

\* stop_eval() kills the process of the evaluation.
Stop ==
  /\ caller = "book" /\ phase \notin {"over", "stopped", "raised"}
  /\ phase' = "stopped"
  /\ UNCHANGED <<caller, asked, built, graph, free, task, finished, collected, results, final, report, latest, goals>>

---------------------------------------------------------------------------

AssessOne(i) ==
  \/ Enter(i) \/ Match(i) \/ NoMatch(i) \/ Resolve(i) \/ Unresolved(i) \/ Correct(i)
  \/ NotBuilt(i) \/ BeginJudging(i) \/ (\E r \in Rubrics : Vote(i, r)) \/ Conclude(i) \/ Fail(i)

Assess ==
  \/ GatePasses \/ GateFails \/ GraphDone
  \/ \E i \in Positions : AssessOne(i)
  \/ Collect \/ Finalize \/ FinalizeRaises \/ Publish \/ RecordVerdicts

Next == Assess \/ Transfer \/ Stop

Spec == Init /\ [][Next]_vars /\ WF_vars(Assess)

---------------------------------------------------------------------------
(* Properties *)

\* Types: where assessments are, and the results of every kind.
Results ==
  [idx : Goals, reason : {"gate", "not_found", "no_name", "not_built", "error", "judged"},
   decl : Decls \cup {None, Nameless}, passed : BOOLEAN, checked : BOOLEAN,
   votes : [Rubrics -> {None, "pass", "fail"}], issues : SUBSET Axioms, only : BOOLEAN, inherited : BOOLEAN]
Places == {"waiting", "matching", "checking", "correcting", "matched", "judging", "finished"}

TypeOK ==
  /\ [caller |-> caller, asked |-> asked] \in Evaluations
  /\ phase \in {"gate", "assessing", "done", "raised", "written", "unlinked", "over", "stopped"}
  /\ built \in BOOLEAN /\ graph \in Graphs \cup {NoGraph}
  /\ free \in Nat
  /\ task \in [Positions -> [at : Places, decl : Decls \cup {None, Nameless}, retries : 0..MaxRetries, checked : BOOLEAN,
                             votes : [Rubrics -> {None, "pass", "fail"}], issues : SUBSET Axioms, only : BOOLEAN]]
  /\ finished \in Seq(Results) /\ collected \in 0..Len(finished)
  /\ results \in Seq(Results) /\ final \in Seq(Results)
  /\ report \in Seq(Results)
  /\ latest \in BOOLEAN
  /\ goals \in [Goals -> [status : {"pending", "completed", "failed"}, about : SUBSET Goals]]

HasEnded == phase \in {"done", "written", "unlinked", "over"}

Reported(list) ==
  /\ Len(list) = Len(asked)
  /\ \A g \in Goals : Cardinality({k \in DOMAIN list : list[k].idx = g})
                        = Cardinality({k \in Positions : asked[k] = g})

\* Every target asked for has its result, once for each time it was asked for, whatever
\* failed, in whatever order the assessments ended.  Only an entry that failed on axioms
\* only and is not known to the graph keeps them from being returned; even then all
\* targets of a book are in the progress report (assess_targets()).
EveryTargetReported ==
  /\ HasEnded => Reported(results)
  /\ phase = "raised" => /\ \E k \in DOMAIN finished : Breaks(finished[k], graph)
                         /\ caller = "book" => Reported(report)

\* assess_targets(): "Returns the report dict and the list of per-target EvalResults".
AlwaysReported == phase # "raised"

\* A target passes only with a declaration, whose name Lean resolved as the judges got it
\* unless it is empty, by all judges or, if it is not empty, by inheritance from another
\* (match_statement(), the graders).
PassedIsEarned ==
  \A k \in DOMAIN final : LET e == final[k] IN
    e.passed => /\ e.decl # None
                /\ e.checked \/ (e.decl = Nameless /\ ~e.inherited)
                /\ e.inherited \/ \A r \in Rubrics : e.votes[r] = "pass"

\* match_statement(): the check "validates the match by running #print axioms on the
\* returned declaration".
PassedIsChecked == \A k \in DOMAIN final : final[k].passed => final[k].checked

\* A failure that is inherited has a root: for each of the axioms, something the declaration
\* depends on has a verdict on it and inherits nothing (_annotate_inherited_failures()).
RootRemains ==
  \A k \in DOMAIN final : final[k].inherited =>
    \A a \in final[k].issues :
      \E j \in DOMAIN final : /\ <<final[k].decl, final[j].decl>> \in graph.uses
                              /\ a \in final[j].issues /\ ~final[j].inherited

\* The status of a goal comes from the result of that goal.
OwnVerdict == \A g \in Goals : goals[g].about \subseteq {g}

\* It does when the targets were asked for in the order of their indices, in whatever
\* order their assessments ended (assess_targets(), _update_tracker()).
OwnVerdictInOrder == (\A i, j \in Positions : i < j => asked[i] <= asked[j]) => OwnVerdict

\* A target passes only when all rubrics reach their thresholds but for the one
\* on the axioms, from whose verdicts a failure may be inherited.
RubricsReached ==
  \A k \in DOMAIN final : final[k].passed => \A r \in Rubrics \ {ProofIntegrity} : final[k].votes[r] = "pass"

\* An evaluation ends, unless it is stopped: no failure keeps the others from their turn.
EvaluationEnds == <>(phase \in {"over", "raised", "stopped"})
=============================================================================
