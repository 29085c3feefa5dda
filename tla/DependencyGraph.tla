--------------------------- MODULE DependencyGraph ---------------------------
(***************************************************************************)
(* The dependency graph of a Lean project (autoform/eval/dependency_graph):*)
(* what a metaprogram prints of each declaration is parsed, tagged, and    *)
(* closed under dependency by a recursive search that remembers what it    *)
(* has found; the tools of the judges then collect the cone of a           *)
(* declaration by a search of their own (cone.py, tools/dep_graph/core.py).*)
(* The recursion of both is written out as a stack of calls, and the order *)
(* in which dependencies are taken is left open.                           *)
(*                                                                         *)
(* Lean has no circular definitions, but an inductive type is listed with  *)
(* the constants of its constructors, so the types of a mutual inductive   *)
(* definition depend on each other.                                        *)
(***************************************************************************)
EXTENDS Naturals, Sequences, FiniteSets

CONSTANTS
  Declarations,          \* of declarations
  Environments,   \* Lean environments: what each declaration is and what it refers to
  Limits          \* how deep the recursion may go

\* Tags a body is given by Lean that make an instance with it a trivial one.
Suspicious == {"vacuous_body", "ignores_params", "proof_by_exfalso", "proof_by_subsingleton",
               "returns_assumption", "trivial_constructor"}
\* Tags that raise an alert for whatever depends on the declaration.
Alerting == {"vacuous_body", "orphan_class", "trivial_instance", "proof_by_exfalso", "proof_by_subsingleton"}

Printed ==
  [kind : {"theorem", "def", "axiom", "opaque", "inductive"}, is_class : BOOLEAN, type_head : Declarations \cup {""},
   is_auto : BOOLEAN, has_sorry : BOOLEAN, is_unproved : BOOLEAN, scanned : BOOLEAN,
   body_tags : SUBSET (Suspicious \cup {"field_projection_body", "custom_hypothesis_in_type"}),
   deps : SUBSET Declarations]

ASSUME GraphAssumption ==
  /\ IsFiniteSet(Declarations) /\ "" \notin Declarations /\ "sorryAx" \notin Declarations
  /\ Environments \subseteq [Declarations -> Printed]
  /\ \A e \in Environments : \A n \in Declarations : n \notin e[n].deps
  /\ Limits \subseteq Nat \ {0}

VARIABLES
  env,       \* the environment
  limit,     \* of this process
  phase,     \* of the build: "lean", "closure", "done" or "failed"
  nodes,     \* the nodes parsed and tagged
  calls,     \* the calls of _all_deps() that have not returned
  cache,     \* what those that have returned found
  target,    \* of the query a judge makes
  cone,      \* the nodes it has collected
  descents   \* the calls of _collect_cone(): what each has still to visit

graphVars == <<env, limit, phase, nodes, calls, cache, target, cone, descents>>
build == <<env, limit, phase, nodes, calls, cache>>
query == <<target, cone, descents>>

GraphInit ==
  /\ env \in Environments
  /\ limit \in Limits
  /\ phase = "lean"
  /\ nodes = <<>> /\ calls = <<>> /\ cache = <<>>
  /\ target = "" /\ cone = {} /\ descents = <<>>

---------------------------------------------------------------------------
(* Parsing and tagging *)

\* Instances of a class among the lines printed: declarations whose type ends in it.
Instances(printed, n) == {m \in printed : env[m].type_head = n /\ ~env[m].is_auto}

\* An axiom is unproved by choice if Lean says so or the sources declare its name so.
Unproved(n) == env[n].is_unproved \/ (env[n].kind = "axiom" /\ env[n].scanned)

\* _parse_output(), _mark_unproved() and apply_graph_tags().
Tags(printed, n) ==
  env[n].body_tags
    \cup (IF env[n].is_class /\ Instances(printed, n) = {} THEN {"orphan_class"} ELSE {})
    \cup (IF /\ env[n].body_tags \cap Suspicious # {} /\ ~env[n].is_auto
             /\ env[n].type_head \in printed /\ env[env[n].type_head].is_class
          THEN {"trivial_instance"} ELSE {})

Node(printed, n) ==
  [kind |-> env[n].kind, is_auto |-> env[n].is_auto, has_sorry |-> env[n].has_sorry,
   is_unproved |-> Unproved(n), tags |-> Tags(printed, n), deps |-> env[n].deps]

\* The metaprogram prints every declaration, or some of them before an error.
LeanPrints ==
  /\ phase = "lean"
  /\ \E printed \in SUBSET Declarations : nodes' = [n \in printed |-> Node(printed, n)]
  /\ phase' = "closure"
  /\ UNCHANGED <<env, limit, calls, cache, query>>

\* It ends with an error and has printed nothing, or takes too long.
LeanFails ==
  /\ phase = "lean"
  /\ phase' = "failed"
  /\ UNCHANGED <<env, limit, nodes, calls, cache, query>>

---------------------------------------------------------------------------
(* _all_deps(): everything a declaration depends on *)

Top(s) == s[Len(s)]
Pop(s) == SubSeq(s, 1, Len(s) - 1)
Stack == {calls[i].name : i \in DOMAIN calls}
Known(n) == n \in DOMAIN cache
Remember(n, found) == cache' = [m \in DOMAIN cache \cup {n} |-> IF m = n THEN found ELSE cache[m]]

\* A call for a node begins with its dependencies as the result.
Called(n) == [name |-> n, result |-> nodes[n].deps, todo |-> nodes[n].deps]

Overflow ==
  /\ phase' = "failed"
  /\ UNCHANGED <<env, limit, nodes, calls, cache, query>>

\* The next of the nodes is looked up.
Ask(n) ==
  /\ phase = "closure" /\ calls = <<>>
  /\ n \in DOMAIN nodes /\ ~Known(n)
  /\ calls' = <<Called(n)>>
  /\ UNCHANGED <<env, limit, phase, nodes, cache, query>>

\* The call on top has taken d, with what was found for it.
Taken(call, d, found) == [call EXCEPT !.todo = @ \ {d}, !.result = @ \cup found]
Took(d, found) == [calls EXCEPT ![Len(calls)] = Taken(Top(calls), d, found)]

\* Variant with a bug: what the cache knows is passed over as what is on the stack.
VisitOnce(d) ==
  /\ phase = "closure" /\ calls # <<>> /\ d \in Top(calls).todo
  /\ IF Known(d) \/ d \in Stack \/ d \notin DOMAIN nodes
     THEN calls' = Took(d, {})
     ELSE Len(calls) < limit /\ calls' = Append(calls, Called(d))
  /\ UNCHANGED <<env, limit, phase, nodes, cache, query>>

\* A dependency d of the call on top: the cache knows it, or its own call has not
\* returned and nothing is found, or it is no node, or it is called.
Visit(d) ==
  /\ phase = "closure" /\ calls # <<>> /\ d \in Top(calls).todo
  /\ \/ /\ Known(d)
        /\ calls' = Took(d, cache[d])
        /\ UNCHANGED <<env, limit, phase, nodes, cache, query>>
     \/ /\ ~Known(d) /\ d \in Stack
        /\ calls' = Took(d, {})
        /\ UNCHANGED <<env, limit, phase, nodes, cache, query>>
     \/ /\ ~Known(d) /\ d \notin Stack /\ d \notin DOMAIN nodes
        /\ Remember(d, {})
        /\ calls' = Took(d, {})
        /\ UNCHANGED <<env, limit, phase, nodes, query>>
     \/ /\ ~Known(d) /\ d \notin Stack /\ d \in DOMAIN nodes /\ Len(calls) < limit
        /\ calls' = Append(calls, Called(d))
        /\ UNCHANGED <<env, limit, phase, nodes, cache, query>>
     \/ /\ ~Known(d) /\ d \notin Stack /\ d \in DOMAIN nodes /\ Len(calls) >= limit
        /\ Overflow

\* The call on top has taken all its dependencies and returns what was found to its
\* caller, which finds it in the cache.
Return ==
  /\ phase = "closure" /\ calls # <<>> /\ Top(calls).todo = {}
  /\ Remember(Top(calls).name, Top(calls).result)
  /\ calls' = Pop(calls)
  /\ UNCHANGED <<env, limit, phase, nodes, query>>

\* Every node has its dependencies.
Built ==
  /\ phase = "closure" /\ calls = <<>> /\ DOMAIN nodes \subseteq DOMAIN cache
  /\ phase' = "done"
  /\ UNCHANGED <<env, limit, nodes, calls, cache, query>>

---------------------------------------------------------------------------
(* support_cone() *)

\* A judge asks for the health of a declaration.
Query(n) ==
  /\ phase = "done" /\ target = "" /\ n \in DOMAIN nodes
  /\ target' = n
  /\ descents' = <<{n}>>
  /\ UNCHANGED <<build, cone>>

\* _collect_cone(): a node that is new is collected and its dependencies are visited.
Collect(d) ==
  /\ descents # <<>> /\ d \in Top(descents)
  /\ LET rest == [descents EXCEPT ![Len(descents)] = @ \ {d}]
     IN  IF d \in cone \/ d \notin DOMAIN nodes
         THEN descents' = rest /\ UNCHANGED cone
         ELSE descents' = Append(rest, nodes[d].deps) /\ cone' = cone \cup {d}
  /\ UNCHANGED <<build, target>>

Ascend ==
  /\ descents # <<>> /\ Top(descents) = {}
  /\ descents' = Pop(descents)
  /\ UNCHANGED <<build, target, cone>>

\* What declarations D raise for whatever depends on them.
Alerts(D) ==
  {tag \in Alerting : \E m \in D : tag \in nodes[m].tags}
    \cup (IF \E m \in D : nodes[m].has_sorry /\ ~nodes[m].is_auto THEN {"depends_on_sorry"} ELSE {})
    \cup (IF \E m \in D : nodes[m].kind = "opaque" THEN {"contains_opaque"} ELSE {})
    \cup (IF \E m \in D : nodes[m].is_unproved THEN {"has_unproved"} ELSE {})

\* The alerts and axioms the build keeps of a node, from its transitive dependencies.
ClosureAlerts(n) == Alerts(cache[n] \cap DOMAIN nodes)

TransitiveAxioms(n) ==
  LET D == (cache[n] \cap DOMAIN nodes) \cup {n}
  IN  {m \in D : nodes[m].kind = "axiom"} \cup (IF \E m \in D : nodes[m].has_sorry THEN {"sorryAx"} ELSE {})

\* The alerts of a cone.
ConeAlerts(n) == Alerts(cone \ {n})

---------------------------------------------------------------------------

BuildStep ==
  \/ LeanPrints \/ LeanFails
  \/ \E n \in Declarations : Ask(n) \/ Visit(n)
  \/ Return \/ Built

QueryStep == (\E n \in Declarations : Query(n) \/ Collect(n)) \/ Ascend

GraphNext == BuildStep \/ QueryStep

GraphSpec == GraphInit /\ [][GraphNext]_graphVars

---------------------------------------------------------------------------
(* Properties *)

GraphTypeOK ==
  /\ env \in Environments /\ limit \in Limits
  /\ phase \in {"lean", "closure", "done", "failed"}
  /\ DOMAIN nodes \subseteq Declarations
  /\ \A n \in DOMAIN nodes : nodes[n].deps \subseteq Declarations
  /\ calls \in Seq([name : Declarations, result : SUBSET Declarations, todo : SUBSET Declarations])
  /\ DOMAIN cache \subseteq Declarations /\ \A n \in DOMAIN cache : cache[n] \subseteq Declarations
  /\ target \in Declarations \cup {""} /\ cone \subseteq DOMAIN nodes
  /\ descents \in Seq(SUBSET Declarations)

\* The reference definition: what a declaration depends on is the least set that has
\* its dependencies and theirs.
DepsOf(n) == IF n \in DOMAIN nodes THEN nodes[n].deps ELSE {}
Closed(S) == \A m \in S : DepsOf(m) \subseteq S
DependsOn(n) == {m \in Declarations : \A S \in SUBSET Declarations : DepsOf(n) \subseteq S /\ Closed(S) => m \in S}
Acyclic == \A n \in Declarations : n \notin DependsOn(n)

\* What the build finds for a declaration the declaration does depend on, whatever
\* order the search took and whatever cycles it met (_compute_transitive_deps()).
ClosureSound == \A n \in DOMAIN cache : cache[n] \subseteq DependsOn(n)

\* Where no declarations depend on each other it finds everything, although each
\* result is put together from results remembered of earlier searches.
ClosureComplete == Acyclic => \A n \in DOMAIN cache : DependsOn(n) \subseteq cache[n]

\* The memoized search is right: no dependency is made up, and outside of cycles
\* none is missed, in whatever order the declarations are asked for.
ClosureCorrect == ClosureSound /\ ClosureComplete

\* The two searches agree: the alerts and axioms kept of a node, which the judges read,
\* are those of the cone the same tool summarizes (get_dependency_health()).
AlertsAgree ==
  Acyclic /\ phase = "done" /\ target # "" /\ descents = <<>> =>
    /\ ClosureAlerts(target) = ConeAlerts(target)
    /\ TransitiveAxioms(target) \ {"sorryAx"} = {m \in cone : nodes[m].kind = "axiom"}

\* The recursion is no deeper than there are declarations, also in a cycle.
RecursionFits == Len(calls) <= Cardinality(DOMAIN nodes)

\* Docs: transitive_axioms has the names of the axioms that are reachable transitively.
ReachableAxiomsKept ==
  phase = "done" =>
    \A n \in DOMAIN nodes : \A m \in DependsOn(n) \cap DOMAIN nodes :
       nodes[m].kind = "axiom" => m \in TransitiveAxioms(n)
=============================================================================
