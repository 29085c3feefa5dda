------------------------------- MODULE MCJobs -------------------------------
(* The programs that work on files beside the agents, each on its own: the   *)
(* extraction of statements, the dependency graph, and the preparation and   *)
(* statistics of a run.  One of them is chosen at first; the others stay in  *)
(* one of their initial states.                                              *)
EXTENDS TLC, StatementExtraction, DependencyGraph, RunFiles

CONSTANTS a, b, c

VARIABLE job

JobsInit ==
  /\ job \in {"extraction", "graph", "run"}
  /\ \/ job = "extraction"
     \/ job # "extraction" /\ book = {}
  /\ \/ job = "graph"
     \/ job # "graph" /\ env = CHOOSE e \in Environments : TRUE
  /\ \/ job = "graph"
     \/ job # "graph" /\ limit = CHOOSE l \in Limits : TRUE
  /\ Init /\ GraphInit /\ RunInit

JobsNext ==
  \/ job = "extraction" /\ Next /\ UNCHANGED <<job, graphVars, runVars>>
  \/ job = "graph" /\ GraphNext /\ UNCHANGED <<job, vars, runVars>>
  \/ job = "run" /\ RunNext /\ UNCHANGED <<job, vars, graphVars>>

JobsSpec == JobsInit /\ [][JobsNext]_<<job, vars, graphVars, runVars>>

---------------------------------------------------------------------------
(* Books of up to two statements of up to three lines *)

Symmetry == Permutations(Names)

Short == {s \in Statements : s.last - s.first <= 2}
SmallBooks ==
  {{}} \cup {{p[1], p[2]} : p \in {q \in Short \X Short : q[1] = q[2] \/ q[1].last < q[2].first}}

---------------------------------------------------------------------------
(* Three declarations that refer to each other in every way Lean allows: one *)
(* of them with something to be alerted of, the others theorems or types     *)
(* that may be defined together.                                             *)

ThreeDeclarations == {a, b, c}

Theorem == [kind |-> "theorem", is_class |-> FALSE, type_head |-> "", is_auto |-> FALSE, has_sorry |-> FALSE,
            is_unproved |-> FALSE, scanned |-> FALSE, body_tags |-> {}]
Type == [Theorem EXCEPT !.kind = "inductive"]
Class == [Type EXCEPT !.is_class = TRUE]

Marked ==
  { [Theorem EXCEPT !.kind = "axiom"],
    [Theorem EXCEPT !.kind = "axiom", !.scanned = TRUE],
    [Theorem EXCEPT !.has_sorry = TRUE],
    [Theorem EXCEPT !.has_sorry = TRUE, !.is_auto = TRUE],
    [Theorem EXCEPT !.kind = "opaque"],
    [Theorem EXCEPT !.kind = "def", !.body_tags = {"vacuous_body"}],
    Class }

\* A vacuous c may be the instance of the class b.
Attributes ==
  {(a :> mark) @@ [n \in ThreeDeclarations |-> other] : mark \in Marked \cup {Type}, other \in {Theorem, Type}}
    \cup {(b :> Class) @@ (c :> [Theorem EXCEPT !.kind = "def", !.body_tags = {"vacuous_body"}, !.type_head = b])
            @@ (a :> Theorem)}

References == {deps \in [ThreeDeclarations -> SUBSET ThreeDeclarations] : \A n \in ThreeDeclarations : n \notin deps[n]}

\* What n refers to in one, two or three steps.
Within(deps, n) ==
  LET two == deps[n] \cup UNION {deps[m] : m \in deps[n]}
  IN  two \cup UNION {deps[m] : m \in two}

\* Only types are defined in terms of each other.
AllEnvironments ==
  {[n \in ThreeDeclarations |-> ("deps" :> deps[n]) @@ attributes[n]] :
     <<attributes, deps>> \in
       {x \in Attributes \X References :
          \A n \in ThreeDeclarations : n \in Within(x[2], n) => x[1][n].kind = "inductive"}}
=============================================================================
