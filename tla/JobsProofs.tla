----------------------------- MODULE JobsProofs -----------------------------
(***************************************************************************)
(* Proofs about the programs that work on files beside the agents: the     *)
(* dependency graph, for any declarations, environments and recursion      *)
(* limits; the extraction of statements, for any book, chunk size, overlap *)
(* and number of samplers; the files of a run, for any number of tasks,    *)
(* attempts, starts and calls.                                             *)
(***************************************************************************)
EXTENDS StatementExtraction, DependencyGraph, RunFiles, FiniteSetTheorems, SequenceTheorems,
        WellFoundedInduction, TLAPS

---------------------------------------------------------------------------
(* The dependency graph *)

CallRecord == [name : Declarations, result : SUBSET Declarations, todo : SUBSET Declarations]

\* What a call that has not returned holds: nothing but what its node depends on, and,
\* where nothing depends on itself, the dependencies of all it need not visit.
Holds(call) ==
  /\ call \in CallRecord
  /\ call.name \in DOMAIN nodes
  /\ call.todo \subseteq DepsOf(call.name) /\ DepsOf(call.name) \subseteq call.result
  /\ call.result \subseteq DependsOn(call.name)
  /\ Acyclic => \A m \in call.result \ call.todo : DepsOf(m) \subseteq call.result

\* A call depends on, and differs from, the calls it was made for.
Chain ==
  \A i, j \in 1..Len(calls) :
    i < j => calls[i].name # calls[j].name /\ calls[j].name \in DependsOn(calls[i].name)

CallsInv == (\A i \in 1..Len(calls) : Holds(calls[i])) /\ Chain

CacheInv ==
  \A n \in DOMAIN cache :
    cache[n] \subseteq DependsOn(n) /\ DepsOf(n) \subseteq cache[n] /\ (Acyclic => Closed(cache[n]))

PhaseInv ==
  /\ phase = "lean" => calls = <<>> /\ DOMAIN cache = {} /\ DOMAIN nodes = {}
  /\ phase # "done" => target = ""
  /\ phase = "done" => DOMAIN nodes \subseteq DOMAIN cache
  /\ target = "" => cone = {} /\ descents = <<>>

\* What is yet to be collected.
Pending == {m \in Declarations : \E i \in 1..Len(descents) : m \in descents[i]}

QueryInv ==
  target # "" =>
    /\ target \in DOMAIN nodes /\ target \in cone \cup Pending
    /\ cone \cup Pending \subseteq DependsOn(target) \cup {target}
    /\ \A m \in cone : DepsOf(m) \cap DOMAIN nodes \subseteq cone \cup Pending

IInv == GraphTypeOK /\ CallsInv /\ CacheInv /\ PhaseInv /\ QueryInv

---------------------------------------------------------------------------
(* What depends on what *)

\* Dependencies, and the dependencies of what a declaration depends on, are depended on.
LEMMA DependsOnClosed ==
  ASSUME GraphTypeOK, NEW n
  PROVE  DepsOf(n) \subseteq DependsOn(n) /\ Closed(DependsOn(n))
<1>1. DepsOf(n) \subseteq Declarations /\ \A m \in Declarations : DepsOf(m) \subseteq Declarations
  BY DEF GraphTypeOK, DepsOf
<1>2. DepsOf(n) \subseteq DependsOn(n)
  BY <1>1 DEF DependsOn
<1>3. ASSUME NEW m \in DependsOn(n), NEW k \in DepsOf(m) PROVE k \in DependsOn(n)
  <2>1. m \in Declarations /\ k \in Declarations
    BY <1>1 DEF DependsOn
  <2>2. ASSUME NEW S \in SUBSET Declarations, DepsOf(n) \subseteq S, Closed(S) PROVE k \in S
    <3>1. m \in S
      BY <2>2 DEF DependsOn
    <3> QED BY <2>2, <3>1 DEF Closed
  <2> QED BY <2>1, <2>2 DEF DependsOn
<1> QED BY <1>2, <1>3 DEF Closed

\* It is the least such set.
LEMMA DependsOnLeast ==
  ASSUME NEW n, NEW S \in SUBSET Declarations, DepsOf(n) \subseteq S, Closed(S)
  PROVE  DependsOn(n) \subseteq S
BY DEF DependsOn

LEMMA DependsOnTransitive ==
  ASSUME GraphTypeOK, NEW n, NEW m \in DependsOn(n)
  PROVE  DependsOn(m) \subseteq DependsOn(n)
<1>1. Closed(DependsOn(n)) /\ DependsOn(n) \in SUBSET Declarations
  BY DependsOnClosed DEF DependsOn
<1>2. DepsOf(m) \subseteq DependsOn(n)
  BY <1>1 DEF Closed
<1> QED BY <1>1, <1>2, DependsOnLeast

\* As long as the nodes are the same, so is what depends on what.
LEMMA SameNodes ==
  ASSUME nodes' = nodes
  PROVE  /\ \A n : DepsOf(n)' = DepsOf(n) /\ DependsOn(n)' = DependsOn(n)
         /\ Acyclic' <=> Acyclic
         /\ \A S : Closed(S)' <=> Closed(S)
<1>1. \A n : DepsOf(n)' = DepsOf(n)
  BY DEF DepsOf
<1>2. \A S : Closed(S)' <=> Closed(S)
  BY <1>1 DEF Closed
<1>3. \A n : DependsOn(n)' = DependsOn(n)
  BY <1>1, <1>2 DEF DependsOn
<1> QED BY <1>1, <1>2, <1>3 DEF Acyclic

---------------------------------------------------------------------------
(* The stack of calls *)

LEMMA PopFacts ==
  ASSUME NEW S, NEW s \in Seq(S), s # <<>>
  PROVE  /\ Pop(s) \in Seq(S) /\ Len(Pop(s)) = Len(s) - 1
         /\ \A i \in 1..(Len(s) - 1) : Pop(s)[i] = s[i]
<1>1. Len(s) \in Nat /\ Len(s) # 0
  OBVIOUS
<1>2. \A i \in 1..(Len(s) - 1) : s[i] \in S
  BY <1>1
<1>3. /\ SubSeq(s, 1, Len(s) - 1) \in Seq(S)
      /\ Len(SubSeq(s, 1, Len(s) - 1)) = IF 1 <= Len(s) - 1 THEN (Len(s) - 1) - 1 + 1 ELSE 0
      /\ \A i \in 1..((Len(s) - 1) - 1 + 1) : SubSeq(s, 1, Len(s) - 1)[i] = s[1 + i - 1]
  BY <1>1, <1>2, SubSeqProperties
<1>4. (Len(s) - 1) - 1 + 1 = Len(s) - 1 /\ \A i \in 1..(Len(s) - 1) : 1 + i - 1 = i
  BY <1>1
<1>5. Len(Pop(s)) = Len(s) - 1
  BY <1>1, <1>3, <1>4 DEF Pop
<1>6. \A i \in 1..(Len(s) - 1) : Pop(s)[i] = s[i]
  BY <1>3, <1>4 DEF Pop
<1> QED BY <1>3, <1>5, <1>6 DEF Pop

LEMMA CallsType ==
  ASSUME GraphTypeOK
  PROVE  calls \in Seq(CallRecord) /\ Len(calls) \in Nat
<1>1. calls \in Seq([name : Declarations, result : SUBSET Declarations, todo : SUBSET Declarations])
  BY DEF GraphTypeOK
<1>2. calls \in Seq(CallRecord)
  BY <1>1 DEF CallRecord
<1> QED BY <1>2, LenProperties

LEMMA TopFacts ==
  ASSUME NEW S, NEW s \in Seq(S), s # <<>>
  PROVE  Len(s) \in 1..Len(s) /\ Top(s) = s[Len(s)] /\ Top(s) \in S
<1>1. Len(s) \in Nat /\ Len(s) # 0
  OBVIOUS
<1> QED BY <1>1 DEF Top

\* What the search keeps is kept while the nodes, the calls and the cache are.
LEMMA SearchKept ==
  ASSUME CallsInv, CacheInv, UNCHANGED <<nodes, calls, cache>>
  PROVE  CallsInv' /\ CacheInv'
<1>1. CallsInv'
  BY SameNodes DEF CallsInv, Holds, Chain, CallRecord
<1>2. CacheInv'
  BY SameNodes DEF CacheInv
<1> QED BY <1>1, <1>2

\* So is what the query keeps while the nodes and its own variables are.
LEMMA QueryKept ==
  ASSUME QueryInv, UNCHANGED <<nodes, query>>
  PROVE  QueryInv'
<1>1. Pending' = Pending
  BY DEF Pending, query
<1> QED BY <1>1, SameNodes DEF QueryInv, query

\* A new call on top of the others.
LEMMA PushKept ==
  ASSUME IInv, NEW d \in Declarations, d \in DOMAIN nodes, d \notin Stack,
         calls # <<>> => d \in Top(calls).todo,
         calls' = Append(calls, Called(d)), nodes' = nodes
  PROVE  calls' \in Seq(CallRecord) /\ CallsInv'
<1>1. calls \in Seq(CallRecord) /\ Len(calls) \in Nat
  BY CallsType DEF IInv
<1>2. Called(d) = [name |-> d, result |-> DepsOf(d), todo |-> DepsOf(d)] /\ Called(d) \in CallRecord
  BY DEF Called, DepsOf, IInv, GraphTypeOK, CallRecord
<1>3. calls' \in Seq(CallRecord) /\ Len(calls') = Len(calls) + 1
  BY <1>1, <1>2
<1>4. calls'[Len(calls) + 1] = Called(d) /\ \A i \in 1..Len(calls) : calls'[i] = calls[i]
  BY <1>1, <1>2
<1>5. ASSUME NEW i \in 1..Len(calls') PROVE Holds(calls[i])'
  <2>1. CASE i = Len(calls) + 1
    <3>1. DepsOf(d) \subseteq DependsOn(d)
      BY DependsOnClosed DEF IInv
    <3> QED BY <1>2, <1>4, <2>1, <3>1, SameNodes DEF Holds, CallRecord
  <2>2. CASE i # Len(calls) + 1
    <3>1. i \in 1..Len(calls)
      BY <1>1, <1>3, <2>2
    <3>2. Holds(calls[i])
      BY <3>1 DEF IInv, CallsInv
    <3> QED BY <1>4, <3>1, <3>2, SameNodes DEF Holds, CallRecord
  <2> QED BY <2>1, <2>2
<1>6. ASSUME NEW i \in 1..Len(calls') , NEW j \in 1..Len(calls'), i < j
      PROVE  (calls[i].name # calls[j].name /\ calls[j].name \in DependsOn(calls[i].name))'
  <2>1. i \in 1..Len(calls)
    BY <1>1, <1>3, <1>6
  <2>2. CASE j = Len(calls) + 1
    <3>1. calls # <<>>
      BY <1>1, <2>1
    <3>2. Holds(Top(calls)) /\ Len(calls) \in 1..Len(calls) /\ Top(calls) = calls[Len(calls)]
      BY <1>1, <3>1, TopFacts DEF IInv, CallsInv
    <3>3. d \in DependsOn(Top(calls).name)
      BY <3>1, <3>2, DependsOnClosed DEF Holds, IInv
    <3>4. d \in DependsOn(calls[i].name)
      <4>1. CASE i = Len(calls)
        BY <3>2, <3>3, <4>1
      <4>2. CASE i # Len(calls)
        <5>1. Top(calls).name \in DependsOn(calls[i].name)
          BY <1>1, <2>1, <3>2, <4>2 DEF IInv, CallsInv, Chain
        <5> QED BY <3>3, <5>1, DependsOnTransitive DEF IInv
      <4> QED BY <4>1, <4>2
    <3>5. calls[i].name # d
      BY <1>1, <2>1 DEF Stack
    <3> QED BY <1>2, <1>4, <2>1, <2>2, <3>4, <3>5, SameNodes
  <2>3. CASE j # Len(calls) + 1
    <3>1. j \in 1..Len(calls)
      BY <1>1, <1>3, <2>3
    <3> QED BY <1>4, <1>6, <2>1, <3>1, SameNodes DEF IInv, CallsInv, Chain
  <2> QED BY <2>2, <2>3
<1> QED BY <1>3, <1>5, <1>6 DEF CallsInv, Chain

\* The call on top takes d, with what closes it.
LEMMA TakeKept ==
  ASSUME IInv, calls # <<>>, NEW d \in Top(calls).todo, NEW had \in SUBSET Declarations,
         had \subseteq DependsOn(d), Acyclic => DepsOf(d) \subseteq had /\ Closed(had),
         calls' = Took(d, had), nodes' = nodes
  PROVE  calls' \in Seq(CallRecord) /\ CallsInv'
<1> DEFINE top == Top(calls)
           new == Taken(top, d, had)
<1>1. calls \in Seq(CallRecord) /\ Len(calls) \in Nat
  BY CallsType DEF IInv
<1>2. Len(calls) \in 1..Len(calls) /\ top = calls[Len(calls)] /\ top \in CallRecord
  BY <1>1, TopFacts
<1>3. /\ new \in CallRecord /\ new.name = top.name
      /\ new.result = top.result \cup had /\ new.todo = top.todo \ {d}
  BY <1>2 DEF CallRecord, Taken
<1>4. calls' = [calls EXCEPT ![Len(calls)] = new]
  BY DEF Took
<1> HIDE DEF new
<1>5. calls' \in Seq(CallRecord) /\ Len(calls') = Len(calls)
  BY <1>1, <1>2, <1>3, <1>4
<1>6. calls'[Len(calls)] = new /\ \A i \in 1..Len(calls) : i # Len(calls) => calls'[i] = calls[i]
  BY <1>1, <1>2, <1>4
<1>7. \A i \in 1..Len(calls) : calls'[i].name = calls[i].name
  BY <1>2, <1>3, <1>6
<1>8. Holds(new)
  <2>1. Holds(top)
    BY <1>2 DEF IInv, CallsInv
  <2>2. d \in DependsOn(top.name)
    BY <2>1, DependsOnClosed DEF Holds, IInv
  <2>3. had \subseteq DependsOn(top.name)
    BY <2>2, DependsOnTransitive DEF IInv
  <2>4. ASSUME Acyclic, NEW m \in new.result \ new.todo PROVE DepsOf(m) \subseteq new.result
    <3>1. CASE m = d
      BY <1>3, <2>4, <3>1
    <3>2. CASE m \in had
      BY <1>3, <2>4, <3>2 DEF Closed
    <3>3. CASE m # d /\ m \notin had
      BY <1>3, <2>1, <2>4, <3>3 DEF Holds
    <3> QED BY <3>1, <3>2, <3>3
  <2> QED BY <1>3, <2>1, <2>3, <2>4 DEF Holds
<1>9. ASSUME NEW i \in 1..Len(calls') PROVE Holds(calls[i])'
  <2>1. CASE i = Len(calls)
    BY <1>6, <1>8, <2>1, SameNodes DEF Holds, CallRecord
  <2>2. CASE i # Len(calls)
    <3>1. Holds(calls[i]) /\ calls'[i] = calls[i]
      BY <1>5, <1>6, <2>2 DEF IInv, CallsInv
    <3> QED BY <3>1, SameNodes DEF Holds, CallRecord
  <2> QED BY <2>1, <2>2
<1>10. Chain'
  BY <1>5, <1>7, SameNodes DEF IInv, CallsInv, Chain
<1> QED BY <1>5, <1>9, <1>10 DEF CallsInv

\* What is remembered of a declaration is what it depends on.
LEMMA RememberKept ==
  ASSUME IInv, NEW n \in Declarations, NEW had \in SUBSET Declarations, Remember(n, had), nodes' = nodes,
         had \subseteq DependsOn(n), DepsOf(n) \subseteq had, Acyclic => Closed(had)
  PROVE  /\ CacheInv' /\ DOMAIN cache' = DOMAIN cache \cup {n}
         /\ DOMAIN cache' \subseteq Declarations /\ \A m \in DOMAIN cache' : cache'[m] \subseteq Declarations
<1>1. DOMAIN cache' = DOMAIN cache \cup {n} /\ \A m \in DOMAIN cache' : cache'[m] = IF m = n THEN had ELSE cache[m]
  BY DEF Remember
<1>2. CacheInv'
  BY <1>1, SameNodes DEF IInv, CacheInv
<1> QED BY <1>1, <1>2 DEF IInv, GraphTypeOK

---------------------------------------------------------------------------
(* The steps of the build *)

\* The invariant holds at the start.
LEMMA GraphInitInv == GraphInit => IInv
<1> SUFFICES ASSUME GraphInit PROVE IInv
  OBVIOUS
<1>1. calls = <<>> /\ descents = <<>> /\ Len(calls) = 0 /\ DOMAIN nodes = {} /\ DOMAIN cache = {}
  <2>1. DOMAIN <<>> = {} /\ Len(<<>>) = 0
    OBVIOUS
  <2> QED BY <2>1 DEF GraphInit
<1>2. GraphTypeOK
  <2>1. calls \in Seq([name : Declarations, result : SUBSET Declarations, todo : SUBSET Declarations]) /\ descents \in Seq(SUBSET Declarations)
    BY <1>1
  <2> QED BY <1>1, <2>1 DEF GraphInit, GraphTypeOK
<1>3. 1..Len(calls) = {}
  BY <1>1
<1>4. CallsInv /\ CacheInv
  BY <1>1, <1>3 DEF CallsInv, Chain, CacheInv
<1>5. PhaseInv /\ QueryInv
  BY <1>1 DEF GraphInit, PhaseInv, QueryInv
<1> QED BY <1>2, <1>4, <1>5 DEF IInv

\* Before the closure there is nothing to keep, and printed nodes are of the environment.
LEMMA LeanInv == ASSUME IInv, LeanPrints \/ LeanFails PROVE IInv'
<1>1. phase = "lean" /\ UNCHANGED <<env, limit, calls, cache, target, cone, descents>>
  BY DEF LeanPrints, LeanFails, query
<1>2. calls = <<>> /\ DOMAIN cache = {} /\ target = "" /\ Len(calls) = 0 /\ cone = {} /\ descents = <<>>
  BY <1>1 DEF IInv, PhaseInv
<1>3. phase' \in {"closure", "failed"}
  BY DEF LeanPrints, LeanFails
<1>4. DOMAIN nodes' \subseteq Declarations /\ \A n \in DOMAIN nodes' : nodes'[n].deps \subseteq Declarations
  <2>1. CASE LeanFails
    BY <2>1 DEF LeanFails, IInv, GraphTypeOK
  <2>2. CASE LeanPrints
    <3>1. PICK printed \in SUBSET Declarations : nodes' = [n \in printed |-> Node(printed, n)]
      BY <2>2 DEF LeanPrints
    <3>2. \A n \in printed : Node(printed, n).deps = env[n].deps
      BY DEF Node
    <3>3. env \in [Declarations -> Printed]
      BY GraphAssumption DEF IInv, GraphTypeOK
    <3>4. \A n \in Declarations : env[n].deps \subseteq Declarations
      BY <3>3 DEF Printed
    <3> QED BY <3>1, <3>2, <3>4
  <2> QED BY <2>1, <2>2
<1>5. GraphTypeOK'
  BY <1>1, <1>2, <1>3, <1>4 DEF IInv, GraphTypeOK
<1>6. CallsInv' /\ CacheInv'
  <2>1. Len(calls') = 0 /\ DOMAIN cache' = {}
    BY <1>1, <1>2
  <2>2. 1..Len(calls') = {}
    BY <2>1
  <2> QED BY <2>1, <2>2 DEF CallsInv, Chain, CacheInv
<1>7. PhaseInv' /\ QueryInv'
  BY <1>1, <1>2, <1>3 DEF PhaseInv, QueryInv
<1> QED BY <1>5, <1>6, <1>7 DEF IInv

\* While the closure is computed no judge asks.
LEMMA ClosureInv ==
  ASSUME IInv, phase = "closure", phase' \in {"closure", "failed"}, UNCHANGED <<env, limit, nodes, query>>,
         calls' \in Seq(CallRecord), CallsInv', CacheInv', DOMAIN cache' \subseteq Declarations,
         \A n \in DOMAIN cache' : cache'[n] \subseteq Declarations
  PROVE  IInv'
<1>1. GraphTypeOK'
  BY DEF IInv, GraphTypeOK, query, CallRecord
<1>2. PhaseInv'
  BY DEF IInv, PhaseInv, query
<1>3. QueryInv'
  BY QueryKept DEF IInv
<1> QED BY <1>1, <1>2, <1>3 DEF IInv

LEMMA AskInv == ASSUME IInv, NEW n \in Declarations, Ask(n) PROVE IInv'
<1>1. calls = <<>> /\ n \in DOMAIN nodes /\ n \notin Stack
  BY DEF Ask, Stack
<1>2. calls' = Append(calls, Called(n)) /\ nodes' = nodes
  BY <1>1 DEF Ask
<1>3. calls' \in Seq(CallRecord) /\ CallsInv'
  BY <1>1, <1>2, PushKept
<1>4. CacheInv'
  BY SameNodes DEF Ask, IInv, CacheInv
<1> QED BY <1>3, <1>4, ClosureInv DEF Ask, IInv, GraphTypeOK

LEMMA VisitInv == ASSUME IInv, NEW d \in Declarations, Visit(d) PROVE IInv'
<1>1. phase = "closure" /\ calls # <<>> /\ d \in Top(calls).todo /\ nodes' = nodes
  BY DEF Visit, Overflow
<1>2. calls \in Seq(CallRecord) /\ Len(calls) \in Nat
  BY CallsType DEF IInv
<1>3. CASE /\ Known(d) /\ calls' = Took(d, cache[d])
           /\ UNCHANGED <<env, limit, phase, nodes, cache, query>>
  <2>1. /\ cache[d] \in SUBSET Declarations /\ cache[d] \subseteq DependsOn(d)
        /\ Acyclic => DepsOf(d) \subseteq cache[d] /\ Closed(cache[d])
    BY <1>3 DEF Known, IInv, GraphTypeOK, CacheInv
  <2>2. calls' \in Seq(CallRecord) /\ CallsInv'
    BY <1>1, <1>3, <2>1, TakeKept
  <2>3. CacheInv'
    BY <1>3, SameNodes DEF IInv, CacheInv
  <2> QED BY <1>1, <1>3, <2>2, <2>3, ClosureInv DEF IInv, GraphTypeOK
<1>4. CASE /\ ~Known(d) /\ d \in Stack /\ calls' = Took(d, {})
           /\ UNCHANGED <<env, limit, phase, nodes, cache, query>>
  <2>1. ~Acyclic
    <3>1. PICK i \in 1..Len(calls) : d = calls[i].name
      BY <1>2, <1>4 DEF Stack
    <3>2. Holds(Top(calls)) /\ Len(calls) \in 1..Len(calls) /\ Top(calls) = calls[Len(calls)]
      BY <1>1, <1>2, TopFacts DEF IInv, CallsInv
    <3>3. d \in DependsOn(Top(calls).name)
      BY <1>1, <3>2, DependsOnClosed DEF Holds, IInv
    <3>4. d \in DependsOn(d)
      <4>1. CASE i = Len(calls)
        BY <3>1, <3>2, <3>3, <4>1
      <4>2. CASE i # Len(calls)
        <5>1. Top(calls).name \in DependsOn(d)
          BY <1>2, <3>1, <3>2, <4>2 DEF IInv, CallsInv, Chain
        <5> QED BY <3>3, <5>1, DependsOnTransitive DEF IInv
      <4> QED BY <4>1, <4>2
    <3> QED BY <3>4 DEF Acyclic
  <2>2. {} \in SUBSET Declarations /\ {} \subseteq DependsOn(d)
    OBVIOUS
  <2>3. calls' \in Seq(CallRecord) /\ CallsInv'
    BY <1>1, <1>4, <2>1, <2>2, TakeKept
  <2>4. CacheInv'
    BY <1>4, SameNodes DEF IInv, CacheInv
  <2> QED BY <1>1, <1>4, <2>3, <2>4, ClosureInv DEF IInv, GraphTypeOK
<1>5. CASE /\ d \notin DOMAIN nodes /\ Remember(d, {}) /\ calls' = Took(d, {})
           /\ UNCHANGED <<env, limit, phase, nodes, query>>
  <2>1. DepsOf(d) = {} /\ Closed({})
    BY <1>5 DEF DepsOf, Closed
  <2>2. {} \in SUBSET Declarations /\ {} \subseteq DependsOn(d)
    OBVIOUS
  <2>3. calls' \in Seq(CallRecord) /\ CallsInv'
    BY <1>1, <1>5, <2>1, <2>2, TakeKept
  <2>4. /\ CacheInv' /\ DOMAIN cache' \subseteq Declarations
        /\ \A m \in DOMAIN cache' : cache'[m] \subseteq Declarations
    BY <1>5, <2>1, <2>2, RememberKept
  <2> QED BY <1>1, <1>5, <2>3, <2>4, ClosureInv
<1>6. CASE /\ d \notin Stack /\ d \in DOMAIN nodes /\ calls' = Append(calls, Called(d))
           /\ UNCHANGED <<env, limit, phase, nodes, cache, query>>
  <2>1. calls' \in Seq(CallRecord) /\ CallsInv'
    BY <1>1, <1>6, PushKept
  <2>2. CacheInv'
    BY <1>6, SameNodes DEF IInv, CacheInv
  <2> QED BY <1>1, <1>6, <2>1, <2>2, ClosureInv DEF IInv, GraphTypeOK
<1>7. CASE Overflow
  <2>1. CallsInv' /\ CacheInv'
    BY <1>7, SearchKept DEF Overflow, IInv
  <2> QED BY <1>1, <1>2, <1>7, <2>1, ClosureInv DEF Overflow, IInv, GraphTypeOK
<1> QED BY <1>3, <1>4, <1>5, <1>6, <1>7 DEF Visit

\* The result that is returned has all that the declaration depends on, once nothing is
\* left to visit.
LEMMA ReturnInv == ASSUME IInv, Return PROVE IInv'
<1> DEFINE n == Top(calls).name
           had == Top(calls).result
<1>1. calls \in Seq(CallRecord) /\ Len(calls) \in Nat
  BY CallsType DEF IInv
<1>2. Holds(Top(calls)) /\ Len(calls) \in 1..Len(calls) /\ calls # <<>>
  BY <1>1, TopFacts DEF Return, IInv, CallsInv
<1>3. /\ n \in Declarations /\ had \in SUBSET Declarations /\ had \subseteq DependsOn(n)
      /\ DepsOf(n) \subseteq had /\ (Acyclic => Closed(had))
  BY <1>2 DEF Return, Holds, CallRecord, Closed
<1>4. Remember(n, had) /\ calls' = Pop(calls) /\ nodes' = nodes
  BY DEF Return
<1>5. /\ CacheInv' /\ DOMAIN cache' \subseteq Declarations
      /\ \A m \in DOMAIN cache' : cache'[m] \subseteq Declarations
  <2> HIDE DEF n, had
  <2> QED BY <1>3, <1>4, RememberKept
<1>6. /\ calls' \in Seq(CallRecord) /\ Len(calls') = Len(calls) - 1
      /\ \A i \in 1..(Len(calls) - 1) : calls'[i] = calls[i]
  BY <1>1, <1>2, <1>4, PopFacts
<1>7. CallsInv'
  <2>1. ASSUME NEW i \in 1..Len(calls') PROVE Holds(calls[i])'
    <3>1. Holds(calls[i]) /\ calls'[i] = calls[i]
      BY <1>1, <1>6 DEF IInv, CallsInv
    <3> QED BY <1>4, <3>1, SameNodes DEF Holds, CallRecord
  <2>2. Chain'
    BY <1>1, <1>4, <1>6, SameNodes DEF IInv, CallsInv, Chain
  <2> QED BY <2>1, <2>2 DEF CallsInv
<1> QED BY <1>5, <1>6, <1>7, ClosureInv DEF Return

LEMMA BuiltInv == ASSUME IInv, Built PROVE IInv'
<1>1. GraphTypeOK' /\ PhaseInv'
  BY DEF Built, IInv, GraphTypeOK, PhaseInv, query
<1>2. CallsInv' /\ CacheInv'
  BY SearchKept DEF Built, IInv
<1>3. QueryInv'
  BY QueryKept DEF Built, IInv
<1> QED BY <1>1, <1>2, <1>3 DEF IInv

---------------------------------------------------------------------------
(* The steps of the query *)

\* While a judge's query runs the build is over.
LEMMA QueryTypes ==
  ASSUME IInv, UNCHANGED build, target' \in Declarations \cup {""}, cone' \subseteq DOMAIN nodes,
         descents' \in Seq(SUBSET Declarations), phase = "done", target' # "", QueryInv'
  PROVE  IInv'
<1>1. GraphTypeOK' /\ PhaseInv'
  BY DEF IInv, GraphTypeOK, PhaseInv, build
<1>2. CallsInv' /\ CacheInv'
  BY SearchKept DEF IInv, build
<1> QED BY <1>1, <1>2 DEF IInv

LEMMA QueryStarts == ASSUME IInv, NEW n \in Declarations, Query(n) PROVE IInv'
<1>1. cone = {} /\ target' = n /\ descents' = <<{n}>> /\ cone' = {} /\ nodes' = nodes /\ n \in DOMAIN nodes
  BY DEF Query, IInv, PhaseInv, build
<1>2. descents' \in Seq(SUBSET Declarations) /\ Len(descents') = 1 /\ descents'[1] = {n}
  BY <1>1
<1>3. Pending' = {n}
  BY <1>2 DEF Pending
<1>4. n # ""
  BY GraphAssumption
<1>5. QueryInv'
  BY <1>1, <1>3 DEF QueryInv
<1> QED BY <1>1, <1>2, <1>4, <1>5, QueryTypes DEF Query

LEMMA CollectInv == ASSUME IInv, NEW d \in Declarations, Collect(d) PROVE IInv'
<1> DEFINE rest == [descents EXCEPT ![Len(descents)] = @ \ {d}]
           Left == {m \in Declarations : \E i \in 1..Len(rest) : m \in rest[i]}
<1>1. descents \in Seq(SUBSET Declarations) /\ Len(descents) \in 1..Len(descents) /\ d \in descents[Len(descents)]
  BY TopFacts DEF Collect, Top, IInv, GraphTypeOK
<1>2. /\ rest \in Seq(SUBSET Declarations) /\ Len(rest) = Len(descents)
      /\ rest[Len(descents)] = descents[Len(descents)] \ {d}
      /\ \A i \in 1..Len(descents) : i # Len(descents) => rest[i] = descents[i]
  BY <1>1
<1>3. target # "" /\ phase = "done" /\ UNCHANGED build /\ target' = target /\ nodes' = nodes
  BY DEF Collect, IInv, PhaseInv, build
<1>4. QueryInv /\ d \in Pending /\ Pending \ {d} \subseteq Left /\ Left \subseteq Pending
  BY <1>1, <1>2 DEF Pending, IInv
<1> HIDE DEF rest, Left
<1>5. CASE (d \in cone \/ d \notin DOMAIN nodes) /\ descents' = rest /\ UNCHANGED cone
  <2>1. Pending' = Left
    BY <1>5 DEF Pending, Left
  <2>2. QueryInv'
    BY <1>3, <1>4, <1>5, <2>1, SameNodes DEF QueryInv
  <2> QED BY <1>2, <1>3, <1>5, <2>2, QueryTypes DEF IInv, GraphTypeOK
<1>6. CASE /\ d \in DOMAIN nodes /\ descents' = Append(rest, nodes[d].deps) /\ cone' = cone \cup {d}
  <2>1. DepsOf(d) = nodes[d].deps /\ DepsOf(d) \subseteq Declarations
    BY <1>6 DEF DepsOf, IInv, GraphTypeOK
  <2>2. /\ descents' \in Seq(SUBSET Declarations) /\ Len(descents') = Len(rest) + 1
        /\ descents'[Len(rest) + 1] = DepsOf(d)
        /\ \A i \in 1..Len(rest) : descents'[i] = rest[i]
    BY <1>2, <1>6, <2>1
  <2>3. Pending' = Left \cup DepsOf(d)
    <3>1. Len(rest) \in Nat
      BY <1>2
    <3>2. 1..Len(descents') = 1..Len(rest) \cup {Len(rest) + 1}
      BY <2>2, <3>1
    <3> QED BY <2>1, <2>2, <3>1, <3>2 DEF Pending, Left
  <2>4. DepsOf(d) \subseteq DependsOn(target)
    <3>1. d \in DependsOn(target) \cup {target}
      BY <1>3, <1>4 DEF QueryInv
    <3>2. CASE d = target
      BY <3>2, DependsOnClosed DEF IInv
    <3>3. CASE d \in DependsOn(target)
      BY <3>3, DependsOnClosed DEF IInv, Closed
    <3> QED BY <3>1, <3>2, <3>3
  <2>5. QueryInv'
    BY <1>3, <1>4, <1>6, <2>3, <2>4, SameNodes DEF QueryInv
  <2> QED BY <1>3, <1>6, <2>2, <2>5, QueryTypes DEF IInv, GraphTypeOK
<1> QED BY <1>5, <1>6 DEF Collect, rest

LEMMA AscendInv == ASSUME IInv, Ascend PROVE IInv'
<1>1. descents \in Seq(SUBSET Declarations) /\ descents # <<>> /\ Len(descents) \in 1..Len(descents) /\ descents[Len(descents)] = {}
  BY TopFacts DEF Ascend, Top, IInv, GraphTypeOK
<1>2. target # "" /\ phase = "done" /\ UNCHANGED build /\ target' = target /\ cone' = cone /\ nodes' = nodes
  BY DEF Ascend, IInv, PhaseInv, build
<1>3. /\ descents' \in Seq(SUBSET Declarations) /\ Len(descents') = Len(descents) - 1
      /\ \A i \in 1..(Len(descents) - 1) : descents'[i] = descents[i]
  BY <1>1, PopFacts DEF Ascend
<1>4. Pending' = Pending
  BY <1>1, <1>3 DEF Pending
<1>5. QueryInv'
  BY <1>2, <1>4, SameNodes DEF IInv, QueryInv
<1> QED BY <1>2, <1>3, <1>5, QueryTypes DEF IInv, GraphTypeOK

\* When all has been visited nothing is yet to be collected.
LEMMA NothingPending == ASSUME descents = <<>> PROVE Pending = {}
<1>1. Len(descents) = 0
  OBVIOUS
<1>2. ~ \E i \in 1..Len(descents) : TRUE
  <2>1. 1..0 = {}
    OBVIOUS
  <2> QED BY <1>1, <2>1
<1> QED BY <1>2 DEF Pending

---------------------------------------------------------------------------
(* The theorems *)

\* The inductive invariant: each call's result closes what it need not visit, and what is
\* remembered is closed where nothing depends on itself.
THEOREM GraphInvariant == GraphSpec => []IInv
<1>1. IInv /\ [GraphNext]_graphVars => IInv'
  <2> SUFFICES ASSUME IInv, [GraphNext]_graphVars PROVE IInv'
    OBVIOUS
  <2>1. CASE BuildStep
    BY <2>1, LeanInv, AskInv, VisitInv, ReturnInv, BuiltInv DEF BuildStep
  <2>2. CASE QueryStep
    BY <2>2, QueryStarts, CollectInv, AscendInv DEF QueryStep
  <2>3. CASE UNCHANGED graphVars
    <3>1. GraphTypeOK' /\ PhaseInv'
      BY <2>3 DEF IInv, GraphTypeOK, PhaseInv, graphVars
    <3>2. CallsInv' /\ CacheInv'
      BY <2>3, SearchKept DEF IInv, graphVars
    <3>3. QueryInv'
      BY <2>3, QueryKept DEF IInv, graphVars, query
    <3> QED BY <3>1, <3>2, <3>3 DEF IInv
  <2> QED BY <2>1, <2>2, <2>3 DEF GraphNext
<1> QED BY <1>1, GraphInitInv, PTL DEF GraphSpec

\* Nodes, calls, cache and cone keep their types.
THEOREM GraphTypeCorrect == GraphSpec => []GraphTypeOK
<1>1. IInv => GraphTypeOK
  BY DEF IInv
<1> QED BY <1>1, GraphInvariant, PTL

\* Whatever cycles there are and whatever order dependencies are taken in, only what a
\* declaration does depend on is found for it (_compute_transitive_deps()).
THEOREM FoundIsDependedOn == GraphSpec => []ClosureSound
<1>1. IInv => ClosureSound
  BY DEF IInv, CacheInv, ClosureSound
<1> QED BY <1>1, GraphInvariant, PTL

\* Where nothing depends on itself everything a declaration depends on is found for it.
THEOREM DependedOnIsFound == GraphSpec => []ClosureComplete
<1>1. IInv => ClosureComplete
  <2> SUFFICES ASSUME IInv, Acyclic, NEW n \in DOMAIN cache PROVE DependsOn(n) \subseteq cache[n]
    BY DEF ClosureComplete
  <2>1. DepsOf(n) \subseteq cache[n] /\ Closed(cache[n]) /\ cache[n] \in SUBSET Declarations
    BY DEF IInv, CacheInv, GraphTypeOK
  <2> QED BY <2>1, DependsOnLeast
<1> QED BY <1>1, GraphInvariant, PTL

\* The memoized search is right for any declarations, environments and orders.
THEOREM ClosureIsCorrect == GraphSpec => []ClosureCorrect
<1>1. ClosureSound /\ ClosureComplete => ClosureCorrect
  BY DEF ClosureCorrect
<1> QED BY <1>1, FoundIsDependedOn, DependedOnIsFound, PTL

\* The calls of the recursion are for different nodes, so there are no more of them.
THEOREM DepthIsBounded == GraphSpec => []RecursionFits
<1>1. IInv => RecursionFits
  <2> SUFFICES ASSUME IInv PROVE Len(calls) <= Cardinality(DOMAIN nodes)
    BY DEF RecursionFits
  <2> DEFINE f == [i \in 1..Len(calls) |-> calls[i].name]
  <2>1. Len(calls) \in Nat
    BY CallsType DEF IInv
  <2>2. IsFiniteSet(DOMAIN nodes)
    BY GraphAssumption, FS_Subset DEF IInv, GraphTypeOK
  <2>3. IsFiniteSet(1..Len(calls)) /\ Cardinality(1..Len(calls)) = Len(calls)
    BY <2>1, FS_Interval
  <2>4. f \in [1..Len(calls) -> DOMAIN nodes]
    BY DEF IInv, CallsInv, Holds
  <2>5. \A i, j \in 1..Len(calls) : i # j => f[i] # f[j]
    BY <2>1 DEF IInv, CallsInv, Chain
  <2> HIDE DEF f
  <2>6. ~(Cardinality(DOMAIN nodes) < Cardinality(1..Len(calls)))
    BY <2>2, <2>3, <2>4, <2>5, FS_PigeonHole
  <2>7. Cardinality(DOMAIN nodes) \in Nat
    BY <2>2, FS_CardinalityType
  <2> QED BY <2>1, <2>3, <2>6, <2>7
<1> QED BY <1>1, GraphInvariant, PTL

\* The alerts and axioms kept of a node are those of its cone, whichever of the two
\* searches found them (_compute_transitive_deps(), support_cone()).
THEOREM SearchesAgree == GraphSpec => []AlertsAgree
<1>1. IInv => AlertsAgree
  <2> SUFFICES ASSUME IInv, Acyclic, phase = "done", target # "", descents = <<>>
               PROVE  /\ ClosureAlerts(target) = ConeAlerts(target)
                      /\ TransitiveAxioms(target) \ {"sorryAx"} = {m \in cone : nodes[m].kind = "axiom"}
    BY DEF AlertsAgree
  <2>1. target \in DOMAIN nodes /\ target \in DOMAIN cache /\ target \in Declarations /\ DOMAIN nodes \subseteq Declarations
    BY DEF IInv, QueryInv, PhaseInv, GraphTypeOK
  <2>2. Pending = {}
    BY NothingPending
  <2>3. cache[target] = DependsOn(target)
    <3>1. DepsOf(target) \subseteq cache[target] /\ Closed(cache[target]) /\ cache[target] \in SUBSET Declarations
      BY <2>1 DEF IInv, CacheInv, GraphTypeOK
    <3> QED BY <2>1, <3>1, DependsOnLeast DEF IInv, CacheInv
  <2>4. cone \subseteq (DependsOn(target) \cap DOMAIN nodes) \cup {target} /\ target \in cone
    BY <2>2 DEF IInv, QueryInv, GraphTypeOK
  <2>5. DependsOn(target) \cap DOMAIN nodes \subseteq cone
    <3> DEFINE S == {m \in Declarations : m \in cone \/ m \notin DOMAIN nodes}
    <3>1. \A m \in cone : DepsOf(m) \subseteq S
      BY <2>2 DEF IInv, QueryInv, GraphTypeOK, DepsOf
    <3>2. \A m \in Declarations : m \notin DOMAIN nodes => DepsOf(m) \subseteq S
      BY DEF DepsOf
    <3>3. Closed(S) /\ DepsOf(target) \subseteq S /\ S \in SUBSET Declarations
      BY <2>4, <3>1, <3>2 DEF Closed
    <3> HIDE DEF S
    <3>4. DependsOn(target) \subseteq S
      BY <3>3, DependsOnLeast
    <3> QED BY <3>4 DEF S
  <2>6. target \notin DependsOn(target)
    BY <2>1 DEF Acyclic
  <2>7. cone \ {target} = cache[target] \cap DOMAIN nodes /\ cone = (cache[target] \cap DOMAIN nodes) \cup {target}
    BY <2>3, <2>4, <2>5, <2>6
  <2>8. "sorryAx" \notin cone
    BY GraphAssumption DEF IInv, GraphTypeOK
  <2> QED BY <2>7, <2>8 DEF ClosureAlerts, ConeAlerts, TransitiveAxioms
<1> QED BY <1>1, GraphInvariant, PTL
---------------------------------------------------------------------------
(* The extraction of statements *)

Read == pc \in {"extract", "reconcile", "merge", "done"}
Listed == pc \in {"reconcile", "merge", "done"}

\* A chunk has the statement's beginning, and all of it if it is short.
Seen(s) ==
  \E c \in Chunks :
    /\ chunks[c].first <= s.first /\ s.first <= chunks[c].last
    /\ s.last - s.first <= Overlap => Whole(c, s)

\* The loop has cut everything up to start, and the chunks follow each other.
ChunkInv ==
  /\ start \in Nat
  /\ chunks \in Seq([first : 1..Lines, last : 1..Lines])
  /\ \A c \in Chunks : chunks[c].first <= start /\ chunks[c].last <= start + Overlap
  /\ \A c, d \in Chunks :
       c <= d => chunks[c].first <= chunks[d].first /\ chunks[c].last <= chunks[d].last
  /\ \A s \in Statements : s.first <= start => Seen(s)
  /\ pc \in Steps \ {"chunk", "failed"} => start >= Lines

TypeInv ==
  /\ book \in Books
  /\ pc \in Steps
  /\ lapses \in 0..MaxLapses
  /\ running \subseteq Chunks \X (0..K) /\ answered \subseteq Chunks \X (0..K)
  /\ running \subseteq Asked
  /\ pc = "chunk" => answered = {}
  /\ Read => /\ found \in [Chunks -> [1..K -> SUBSET book]]
             /\ curated \in [Chunks -> SUBSET book] /\ kept \in [Chunks -> SUBSET book]
  /\ written \subseteq Chunks \X book

\* What all agents of chunk c report.
FoundByAll(c) == {s \in book : \A a \in 1..K : s \in found[c][a]}

\* The lists of a chunk: nothing all agents found gets lost between them.
ListInv ==
  /\ Read => \A c \in Chunks : \A a \in 1..K : found[c][a] \subseteq Labelled(c)
  /\ Listed => \A c \in Chunks :
       /\ curated[c] \subseteq Labelled(c)
       /\ Distinct => FoundByAll(c) \subseteq curated[c]
  /\ pc \in {"merge", "done"} => \A c \in Chunks :
       /\ kept[c] \subseteq curated[c]
       /\ Distinct => \A s \in curated[c] : \E d \in 1..c : s \in kept[d]
  /\ pc = "done" => written = {p \in Chunks \X book : p[2] \in kept[p[1]]}

\* Where nothing is overlooked, reports are complete and mergers thorough.
CareInv ==
  lapses = 0 =>
    /\ pc = "extract" =>
         \A c \in Chunks : \A a \in 1..K : <<c, a>> \in answered => found[c][a] = Labelled(c)
    /\ Listed => \A c \in Chunks : \A a \in 1..K : found[c][a] = Labelled(c)
    /\ pc = "merge" /\ Distinct =>
         \A c \in Chunks \ {1} : <<c, 0>> \in answered => kept[c] \cap curated[c - 1] = {}
    /\ pc = "done" /\ Distinct =>
         \A c \in Chunks \ {1} : NeedsMerging(c) => kept[c] \cap curated[c - 1] = {}

EInv == ChunkInv /\ TypeInv /\ ListInv /\ CareInv

USE DEF Steps

---------------------------------------------------------------------------
(* Operators *)

LEMMA ChunkNumbers ==
  ASSUME chunks \in Seq([first : 1..Lines, last : 1..Lines])
  PROVE  /\ Len(chunks) \in Nat
         /\ \A c \in Chunks : c \in Nat /\ c >= 1 /\ chunks[c] \in [first : 1..Lines, last : 1..Lines]
         /\ \A c \in Chunks \ {1} : c - 1 \in Chunks
<1>1. Len(chunks) \in Nat
  BY LenProperties
<1>2. \A c \in Chunks : chunks[c] \in [first : 1..Lines, last : 1..Lines]
  BY ElementOfSeq DEF Chunks
<1> QED
  BY <1>1, <1>2 DEF Chunks

\* What depends on the book and its chunks alone stays with them.
LEMMA SameChunks ==
  ASSUME book' = book, chunks' = chunks
  PROVE  /\ Chunks' = Chunks
         /\ \A c : Labelled(c)' = Labelled(c)
         /\ Distinct' <=> Distinct
<1>1. Chunks' = Chunks
  BY DEF Chunks
<1>2. \A c : Labelled(c)' = Labelled(c)
  BY DEF Labelled
<1> QED
  BY <1>1, <1>2 DEF Distinct

LEMMA AgreedIsFound ==
  ASSUME EInv, Read, NEW c \in Chunks
  PROVE  /\ Agreed(c) \subseteq found[c][1]
         /\ Versions(c) \subseteq Labelled(c)
         /\ Distinct => FoundByAll(c) \subseteq Agreed(c)
<1> USE ExtractionAssumption
<1>1. 1 \in 1..K
  OBVIOUS
<1>2. Agreed(c) \subseteq found[c][1]
  BY DEF Agreed, Indexed
<1>3. Versions(c) \subseteq Labelled(c)
  <2>1. \A a \in 1..K : Indexed(found[c][a]) \subseteq Labelled(c)
    BY DEF EInv, ListInv, Indexed
  <2> QED
    BY <2>1 DEF Versions
<1>4. ASSUME Distinct, NEW s \in FoundByAll(c)
      PROVE  s \in Agreed(c)
  <2>1. s \in found[c][1] /\ found[c][1] \subseteq Labelled(c)
    BY <1>1, <1>4 DEF FoundByAll, EInv, ListInv
  <2>2. s \in Indexed(found[c][1])
    <3>1. ASSUME NEW t \in found[c][1], t.name = s.name
          PROVE  t.first <= s.first
      <4>1. t = s
        BY <1>4, <2>1, <3>1 DEF Distinct
      <4>2. s \in Statements
        BY <2>1 DEF Labelled, EInv, TypeInv
      <4> QED
        BY <4>1, <4>2 DEF Statements
    <3> QED
      BY <2>1, <3>1 DEF Indexed
  <2>3. FoundBy(c, s.name) = 1..K
    BY <1>4 DEF FoundBy, Named, FoundByAll
  <2>4. Cardinality(1..K) = K
    <3>1. K \in Nat \ {0} /\ K \in Int /\ 1 \in Int
      BY ExtractionAssumption
    <3> QED
      BY <3>1, FS_Interval
  <2>5. s.name \notin Disputed(c)
    BY <2>3, <2>4 DEF Disputed
  <2> QED
    BY <2>2, <2>5 DEF Agreed
<1> QED
  BY <1>2, <1>3, <1>4

\* Without lapses nothing was overlooked, before or in this step.
LEMMA NothingOverlooked ==
  ASSUME NEW S, IsFiniteSet(S), lapses \in Nat, Overlook(S)
  PROVE  /\ lapses' \in 0..MaxLapses
         /\ lapses' = 0 => lapses = 0 /\ S = {}
<1>1. Cardinality(S) \in Nat
  BY FS_CardinalityType
<1>2. Cardinality(S) = 0 => S = {}
  BY FS_EmptySet
<1> QED
  BY <1>1, <1>2, ExtractionAssumption DEF Overlook

LEMMA FinitePieces ==
  ASSUME EInv, NEW S \in SUBSET book
  PROVE  IsFiniteSet(S)
BY FS_Subset, ExtractionAssumption DEF EInv, TypeInv

---------------------------------------------------------------------------
(* The chunks *)

LEMMA InitInv == Init => EInv
<1> SUFFICES ASSUME Init PROVE EInv
  OBVIOUS
<1> USE ExtractionAssumption DEF Init
<1>1. ChunkInv
  <2>1. Chunks = {} /\ chunks \in Seq([first : 1..Lines, last : 1..Lines])
    BY DEF Chunks
  <2>2. \A s \in Statements : ~(s.first <= start)
    BY DEF Statements
  <2> QED
    BY <2>1, <2>2 DEF ChunkInv
<1>2. TypeInv
  BY DEF TypeInv, Read
<1>3. ListInv /\ CareInv
  BY DEF ListInv, CareInv, Read, Listed
<1> QED
  BY <1>1, <1>2, <1>3 DEF EInv

LEMMA CutChunks ==
  ASSUME EInv, Cut
  PROVE  ChunkInv'
<1> USE ExtractionAssumption
<1> DEFINE new == [first |-> start + 1, last |-> Smaller(start + ChunkSize, Lines)]
           n == Len(chunks)
<1>1. /\ start \in Nat /\ start < Lines /\ pc' = "chunk" /\ book' = book
      /\ chunks' = Append(chunks, new) /\ start' = start + (ChunkSize - Overlap)
      /\ chunks \in Seq([first : 1..Lines, last : 1..Lines])
  BY DEF Cut, EInv, ChunkInv
<1>2. /\ new \in [first : 1..Lines, last : 1..Lines]
      /\ new.first = start + 1 /\ start < new.last
      /\ new.last <= start + ChunkSize /\ new.last <= Lines
      /\ new.last = start + ChunkSize \/ new.last = Lines
  BY <1>1 DEF Smaller
<1> HIDE DEF new
<1>3. /\ chunks' \in Seq([first : 1..Lines, last : 1..Lines]) /\ n \in Nat
      /\ Chunks = 1..n /\ Chunks' = 1..(n + 1)
      /\ \A c \in Chunks : chunks'[c] = chunks[c]
      /\ chunks'[n + 1] = new
  BY <1>1, <1>2, AppendProperties, LenProperties DEF Chunks
<1>4. \A c \in Chunks : chunks[c] \in [first : 1..Lines, last : 1..Lines]
  BY <1>1, ChunkNumbers
<1>5. \A c \in Chunks : chunks[c].first <= start /\ chunks[c].last <= start + Overlap
  BY DEF EInv, ChunkInv
<1>6. start' \in Nat /\ start' > start /\ start' + Overlap = start + ChunkSize
  BY <1>1
<1>7. ASSUME NEW c \in Chunks'
      PROVE  chunks'[c].first <= start' /\ chunks'[c].last <= start' + Overlap
  <2>1. CASE c \in Chunks
    BY <1>3, <1>4, <1>5, <1>6, <2>1, <1>1
  <2>2. CASE c = n + 1
    BY <1>1, <1>2, <1>3, <1>6, <2>2
  <2> QED
    BY <1>3, <2>1, <2>2
<1>8. ASSUME NEW c \in Chunks', NEW d \in Chunks', c <= d
      PROVE  chunks'[c].first <= chunks'[d].first /\ chunks'[c].last <= chunks'[d].last
  <2>1. CASE d \in Chunks
    <3>1. c \in Chunks
      BY <1>3, <1>8, <2>1
    <3> QED
      BY <1>3, <1>8, <2>1, <3>1 DEF EInv, ChunkInv
  <2>2. CASE d = n + 1 /\ c \in Chunks
    <3>1. chunks[c].last <= Lines /\ chunks[c].first \in Nat /\ chunks[c].last \in Nat
      BY <1>4, <2>2
    <3> QED
      BY <1>1, <1>2, <1>3, <1>5, <2>2, <3>1
  <2>3. CASE d = n + 1 /\ c = n + 1
    BY <1>2, <1>3, <2>3
  <2> QED
    BY <1>3, <2>1, <2>2, <2>3
<1>9. ASSUME NEW s \in Statements, s.first <= start'
      PROVE  Seen(s)'
  <2>0. s.first \in 1..Lines /\ s.last \in 1..Lines
    BY DEF Statements
  <2>1. CASE s.first <= start
    <3>1. PICK c \in Chunks : /\ chunks[c].first <= s.first /\ s.first <= chunks[c].last
                              /\ s.last - s.first <= Overlap => Whole(c, s)
      BY <2>1 DEF EInv, ChunkInv, Seen
    <3>2. c \in Chunks' /\ chunks'[c] = chunks[c]
      BY <1>3
    <3> QED
      BY <3>1, <3>2 DEF Seen, Whole
  <2>2. CASE s.first > start
    <3>1. s.first >= start + 1 /\ s.first <= start + (ChunkSize - Overlap)
      BY <1>1, <1>9, <2>0, <2>2
    <3>2. new.first <= s.first /\ s.first <= new.last
      BY <1>1, <1>2, <2>0, <3>1
    <3>3. s.last - s.first <= Overlap => s.last <= new.last
      BY <1>1, <1>2, <2>0, <3>1
    <3>4. n + 1 \in Chunks'
      BY <1>3
    <3> QED
      BY <1>3, <3>2, <3>3, <3>4 DEF Seen, Whole
  <2> QED
    BY <1>1, <2>0, <2>1, <2>2
<1> QED
  BY <1>1, <1>3, <1>6, <1>7, <1>8, <1>9 DEF ChunkInv

LEMMA CutStep ==
  ASSUME EInv, Cut
  PROVE  EInv'
<1>1. ChunkInv'
  BY CutChunks
<1>2. Chunks \subseteq Chunks'
  <2>1. chunks \in Seq([first : 1..Lines, last : 1..Lines])
    BY DEF EInv, ChunkInv
  <2>2. Len(chunks') = Len(chunks) + 1 /\ Len(chunks) \in Nat
    BY <2>1, LenProperties, AppendProperties DEF Cut
  <2> QED
    BY <2>2 DEF Chunks
<1>3. TypeInv'
  <2>1. running = {} /\ pc = "chunk"
    BY DEF Cut, EInv, TypeInv, Asked
  <2> QED
    BY <1>2, <2>1 DEF Cut, EInv, TypeInv, Read
<1>4. ListInv' /\ CareInv'
  BY DEF Cut, ListInv, CareInv, Read, Listed
<1> QED
  BY <1>1, <1>3, <1>4 DEF EInv

LEMMA SameChunkInv ==
  ASSUME EInv, UNCHANGED <<book, start, chunks>>,
         pc' = pc \/ pc' = "failed" \/ (Read /\ pc' \in Steps)
  PROVE  ChunkInv'
<1>1. Chunks' = Chunks /\ (\A s : Seen(s)' <=> Seen(s)) /\ ChunkInv
  BY SameChunks DEF Seen, Whole, EInv
<1> QED
  BY <1>1 DEF ChunkInv, Read

LEMMA ChunkedStep ==
  ASSUME EInv, Chunked
  PROVE  EInv'
<1>1. ChunkInv'
  <2>1. Chunks' = Chunks /\ (\A s : Seen(s)' <=> Seen(s)) /\ ChunkInv
    BY SameChunks DEF Chunked, Seen, Whole, EInv
  <2> QED
    BY <2>1 DEF ChunkInv, Chunked
<1>2. Chunks' = Chunks /\ \A c : Labelled(c)' = Labelled(c)
  BY SameChunks DEF Chunked
<1>3. running = {} /\ pc' = "extract" /\ running' = {}
  BY DEF Chunked, EInv, TypeInv, Asked
<1>4. TypeInv'
  BY <1>2, <1>3 DEF Chunked, EInv, TypeInv, Read
<1>5. ListInv' /\ CareInv'
  BY <1>2, <1>3 DEF Chunked, EInv, TypeInv, ListInv, CareInv, Read, Listed
<1> QED
  BY <1>1, <1>4, <1>5 DEF EInv

---------------------------------------------------------------------------
(* The agents *)

LEMMA AcquireStep ==
  ASSUME EInv, NEW agent \in Asked, Acquire(agent)
  PROVE  EInv'
<1>1. /\ pc' = pc /\ UNCHANGED <<book, start, chunks>>
      /\ pc \in {"extract", "reconcile", "merge"}
  BY DEF Acquire, Asked
<1>2. ChunkInv'
  BY <1>1, SameChunkInv
<1>3. Chunks' = Chunks /\ (\A c : Labelled(c)' = Labelled(c)) /\ (Distinct' <=> Distinct)
  BY <1>1, SameChunks
<1>4. Asked' = Asked
  BY <1>1, <1>3 DEF Acquire, Asked, Disputed, NamesFound, FoundBy, NeedsMerging
<1>5. Asked \subseteq Chunks \X (0..K)
  BY ExtractionAssumption DEF Asked
<1>6. TypeInv'
  BY <1>1, <1>3, <1>4, <1>5 DEF Acquire, EInv, TypeInv, Read
<1>7. ListInv'
  BY <1>1, <1>3 DEF Acquire, EInv, ListInv, Read, Listed, FoundByAll
<1>8. CareInv'
  BY <1>1, <1>3 DEF Acquire, EInv, CareInv, Listed
<1> QED
  BY <1>2, <1>6, <1>7, <1>8 DEF EInv

LEMMA FailStep ==
  ASSUME EInv, NEW agent, Fail(agent)
  PROVE  EInv'
<1>1. ChunkInv'
  BY SameChunkInv DEF Fail
<1>2. Chunks' = Chunks
  BY SameChunks DEF Fail
<1>3. TypeInv' /\ ListInv' /\ CareInv'
  BY <1>2 DEF Fail, EInv, TypeInv, ListInv, CareInv, Read, Listed
<1> QED
  BY <1>1, <1>3 DEF EInv

LEMMA ExtractStep ==
  ASSUME EInv, NEW c \in Chunks, NEW a \in 1..K, Extract(c, a)
  PROVE  EInv'
<1>1. PICK report \in SUBSET Labelled(c) :
        /\ Overlook(Labelled(c) \ report)
        /\ found' = [found EXCEPT ![c][a] = report]
  BY DEF Extract
<1>2. /\ pc = "extract" /\ pc' = pc /\ UNCHANGED <<book, start, chunks, curated, kept, written>>
      /\ answered' = answered \cup {<<c, a>>} /\ running' = running \ {<<c, a>>}
      /\ <<c, a>> \in running
  BY DEF Extract, Release
<1>3. Chunks' = Chunks /\ (\A d : Labelled(d)' = Labelled(d)) /\ (Distinct' <=> Distinct)
  BY <1>2, SameChunks
<1>4. Labelled(c) \subseteq book /\ IsFiniteSet(Labelled(c) \ report)
  BY FinitePieces DEF Labelled
<1>5. lapses' \in 0..MaxLapses /\ (lapses' = 0 => lapses = 0 /\ report = Labelled(c))
  <2>1. lapses \in Nat
    BY ExtractionAssumption DEF EInv, TypeInv
  <2>2. /\ lapses' \in 0..MaxLapses
        /\ lapses' = 0 => lapses = 0 /\ Labelled(c) \ report = {}
    BY <1>1, <1>4, <2>1, NothingOverlooked
  <2> QED
    BY <2>2
<1>6. /\ found \in [Chunks -> [1..K -> SUBSET book]]
      /\ found' \in [Chunks -> [1..K -> SUBSET book]]
      /\ \A d \in Chunks : \A b \in 1..K :
           found'[d][b] = IF d = c /\ b = a THEN report ELSE found[d][b]
  BY <1>1, <1>2, <1>4 DEF EInv, TypeInv, Read
<1>7. ChunkInv'
  BY <1>2, SameChunkInv
<1>8. TypeInv'
  BY <1>2, <1>3, <1>5, <1>6 DEF EInv, TypeInv, Read, Asked
<1>9. ListInv'
  BY <1>1, <1>2, <1>3, <1>6 DEF EInv, ListInv, Read, Listed
<1>10. CareInv'
  BY <1>2, <1>3, <1>5, <1>6 DEF EInv, CareInv, Listed
<1> QED
  BY <1>7, <1>8, <1>9, <1>10 DEF EInv

LEMMA ReviewStep ==
  ASSUME EInv, NEW c \in Chunks, Review(c)
  PROVE  EInv'
<1>1. PICK included \in SUBSET Versions(c) :
        /\ Overlook(Disputed(c) \ Named(included))
        /\ curated' = [curated EXCEPT ![c] = Agreed(c) \cup included]
  BY DEF Review
<1>2. /\ pc = "reconcile" /\ pc' = pc /\ UNCHANGED <<book, start, chunks, found, kept, written>>
      /\ answered' = answered \cup {<<c, 0>>} /\ running' = running \ {<<c, 0>>}
      /\ <<c, 0>> \in running
  BY DEF Review, Release
<1>3. Chunks' = Chunks /\ (\A d : Labelled(d)' = Labelled(d)) /\ (Distinct' <=> Distinct)
  BY <1>2, SameChunks
<1>4. /\ Agreed(c) \subseteq Labelled(c) /\ Versions(c) \subseteq Labelled(c)
      /\ Distinct => FoundByAll(c) \subseteq Agreed(c)
  BY <1>2, AgreedIsFound, ExtractionAssumption DEF Read, EInv, ListInv
<1>5. Labelled(c) \subseteq book
  BY DEF Labelled
<1>6. /\ curated \in [Chunks -> SUBSET book] /\ curated' \in [Chunks -> SUBSET book]
      /\ \A d \in Chunks : curated'[d] = IF d = c THEN Agreed(c) \cup included ELSE curated[d]
  BY <1>1, <1>2, <1>4, <1>5 DEF EInv, TypeInv, Read
<1>7. lapses' \in 0..MaxLapses /\ (lapses' = 0 => lapses = 0)
  <2>1. IsFiniteSet(Disputed(c) \ Named(included))
    <3> DEFINE f == [s \in book |-> s.name]
    <3>1. IsFiniteSet(book)
      BY ExtractionAssumption DEF EInv, TypeInv
    <3>2. f \in Surjection(book, Named(book))
      BY DEF Surjection, Named
    <3>3. IsFiniteSet(Named(book))
      BY <3>1, <3>2, FS_Surjection
    <3>4. Disputed(c) \subseteq Named(book)
      <4>1. \A a \in 1..K : found[c][a] \subseteq book
        BY <1>2 DEF EInv, TypeInv, Read
      <4>2. \A a \in 1..K : Named(found[c][a]) \subseteq Named(book)
        BY <4>1 DEF Named
      <4> QED
        BY <4>2 DEF Disputed, NamesFound
    <3>5. Disputed(c) \ Named(included) \in SUBSET Named(book)
      BY <3>4
    <3> QED
      BY <3>3, <3>5, FS_Subset
  <2>2. lapses \in Nat
    BY ExtractionAssumption DEF EInv, TypeInv
  <2> QED
    BY <1>1, <2>1, <2>2, NothingOverlooked
<1>8. ChunkInv'
  BY <1>2, SameChunkInv
<1>9. TypeInv'
  <2>1. \A d \in Chunks : Disputed(d)' = Disputed(d)
    BY <1>2 DEF Disputed, NamesFound, FoundBy
  <2>2. Asked' = Asked
    BY <1>2, <1>3, <2>1 DEF Asked
  <2>3. <<c, 0>> \in Chunks \X (0..K)
    BY ExtractionAssumption
  <2> QED
    BY <1>2, <1>3, <1>6, <1>7, <2>2, <2>3 DEF EInv, TypeInv, Read
<1>10. ListInv'
  BY <1>1, <1>2, <1>3, <1>4, <1>6 DEF EInv, ListInv, Read, Listed, FoundByAll
<1>11. CareInv'
  BY <1>2, <1>3, <1>7 DEF EInv, CareInv, Listed
<1> QED
  BY <1>8, <1>9, <1>10, <1>11 DEF EInv
LEMMA MergePairStep ==
  ASSUME EInv, NEW c \in Chunks, MergePair(c)
  PROVE  EInv'
<1>1. PICK duplicates \in SUBSET (curated[c] \cap curated[c - 1]) :
        /\ Overlook((curated[c] \cap curated[c - 1]) \ duplicates)
        /\ kept' = [kept EXCEPT ![c] = {s \in curated[c] : s.name \notin Named(duplicates)}]
  BY DEF MergePair
<1>2. /\ pc = "merge" /\ pc' = pc /\ UNCHANGED <<book, start, chunks, found, curated, written>>
      /\ answered' = answered \cup {<<c, 0>>} /\ running' = running \ {<<c, 0>>}
      /\ <<c, 0>> \in running
  BY DEF MergePair, Release
<1>3. Chunks' = Chunks /\ (\A d : Labelled(d)' = Labelled(d)) /\ (Distinct' <=> Distinct)
  BY <1>2, SameChunks
<1>4. c \in Nat /\ c - 1 \in Nat /\ c - 1 \in Chunks /\ c # 1
  <2>1. c # 1
    BY <1>2 DEF EInv, TypeInv, Asked
  <2> QED
    BY <2>1, ChunkNumbers DEF EInv, ChunkInv
<1> DEFINE left == {s \in curated[c] : s.name \notin Named(duplicates)}
<1>5. /\ curated \in [Chunks -> SUBSET book] /\ kept \in [Chunks -> SUBSET book]
      /\ kept' \in [Chunks -> SUBSET book]
      /\ \A d \in Chunks : kept'[d] = IF d = c THEN left ELSE kept[d]
  BY <1>1, <1>2 DEF EInv, TypeInv, Read
<1>6. /\ lapses' \in 0..MaxLapses
      /\ lapses' = 0 => lapses = 0 /\ (curated[c] \cap curated[c - 1]) \subseteq duplicates
  <2>1. lapses \in Nat
    BY ExtractionAssumption DEF EInv, TypeInv
  <2>2. (curated[c] \cap curated[c - 1]) \ duplicates \in SUBSET book
    BY <1>5
  <2>3. IsFiniteSet((curated[c] \cap curated[c - 1]) \ duplicates)
    BY <2>2, FinitePieces
  <2>4. lapses' = 0 => lapses = 0 /\ (curated[c] \cap curated[c - 1]) \ duplicates = {}
    BY <1>1, <2>1, <2>3, NothingOverlooked
  <2>5. lapses' \in 0..MaxLapses
    BY <1>1, <2>1, <2>3, NothingOverlooked
  <2> QED
    BY <2>4, <2>5
\* Names being distinct, what is dropped is a duplicate the earlier chunk has.
<1>7. ASSUME Distinct, NEW s \in curated[c], s \notin left
      PROVE  s \in curated[c - 1]
  <2>1. PICK t \in duplicates : t.name = s.name
    BY <1>7 DEF Named
  <2>2. s \in Labelled(c) /\ t \in Labelled(c)
    BY <1>1, <1>2, <1>7, <2>1 DEF EInv, ListInv, Listed
  <2>3. s = t
    BY <1>7, <2>1, <2>2 DEF Distinct
  <2> QED
    BY <2>3
<1>8. ChunkInv'
  BY <1>2, SameChunkInv
<1>9. TypeInv'
  <2>1. Asked' = Asked
    BY <1>2, <1>3 DEF Asked, NeedsMerging
  <2>2. <<c, 0>> \in Chunks \X (0..K)
    BY ExtractionAssumption
  <2> QED
    BY <1>2, <1>3, <1>5, <1>6, <2>1, <2>2 DEF EInv, TypeInv, Read
<1>10. ListInv'
  <2>1. \A d \in Chunks : kept'[d] \subseteq curated[d]
    BY <1>2, <1>5 DEF EInv, ListInv
  <2>2. ASSUME Distinct, NEW d \in Chunks, NEW s \in curated[d]
        PROVE  \E e \in 1..d : s \in kept'[e]
    <3>1. \A b \in Chunks : \A t \in curated[b] : \E e \in 1..b : t \in kept[e]
      BY <1>2, <2>2 DEF EInv, ListInv
    <3>2. \A b \in Chunks : 1..b \subseteq Chunks
      BY ChunkNumbers DEF Chunks, EInv, ChunkInv
    <3>3. PICK e \in 1..d : s \in kept[e]
      BY <2>2, <3>1
    <3>4. CASE e # c \/ s \in left
      BY <1>5, <2>2, <3>2, <3>3, <3>4
    <3>5. CASE e = c /\ s \notin left
      <4>1. s \in curated[c]
        BY <1>2, <3>3, <3>5 DEF EInv, ListInv
      <4>2. s \in curated[c - 1]
        BY <1>7, <2>2, <3>5, <4>1
      <4>3. PICK b \in 1..(c - 1) : s \in kept[b]
        BY <1>4, <3>1, <4>2
      <4>4. b \in 1..d /\ b # c /\ b \in Chunks
        BY <1>4, <2>2, <3>2, <3>3, <3>5, <4>3, ChunkNumbers DEF EInv, ChunkInv
      <4> QED
        BY <1>5, <4>3, <4>4
    <3> QED
      BY <3>4, <3>5
  <2> QED
    BY <1>2, <1>3, <2>1, <2>2 DEF EInv, ListInv, Read, Listed, FoundByAll
<1>11. CareInv'
  <2>1. ASSUME lapses' = 0, Distinct, NEW d \in Chunks \ {1}, <<d, 0>> \in answered'
        PROVE  kept'[d] \cap curated[d - 1] = {}
    <3>1. CASE d = c
      BY <1>5, <1>6, <2>1, <3>1 DEF Named
    <3>2. CASE d # c
      BY <1>2, <1>5, <1>6, <2>1, <3>2 DEF EInv, CareInv
    <3> QED
      BY <3>1, <3>2
  <2> QED
    BY <1>2, <1>3, <1>6, <2>1 DEF EInv, CareInv, Listed
<1> QED
  BY <1>8, <1>9, <1>10, <1>11 DEF EInv

---------------------------------------------------------------------------
(* gather() *)

LEMMA ExtractedStep ==
  ASSUME EInv, Extracted
  PROVE  EInv'
<1>1. /\ pc = "extract" /\ pc' = "reconcile" /\ UNCHANGED <<book, start, chunks, found, kept, written, lapses>>
      /\ running = {} /\ running' = {} /\ answered' = {} /\ Chunks \X (1..K) \subseteq answered
      /\ curated' = [c \in Chunks |-> Agreed(c)]
  BY DEF Extracted, Gathered, Asked
<1>2. Chunks' = Chunks /\ (\A c : Labelled(c)' = Labelled(c)) /\ (Distinct' <=> Distinct)
  BY <1>1, SameChunks
<1>3. \A c \in Chunks : /\ Agreed(c) \subseteq Labelled(c)
                        /\ Distinct => FoundByAll(c) \subseteq Agreed(c)
  BY <1>1, AgreedIsFound, ExtractionAssumption DEF Read, EInv, ListInv
<1>4. ChunkInv'
  BY <1>1, SameChunkInv DEF Read
<1>5. TypeInv'
  <2>1. curated' \in [Chunks -> SUBSET book]
    BY <1>1, <1>3 DEF Labelled
  <2> QED
    BY <1>1, <1>2, <2>1 DEF EInv, TypeInv, Read
<1>6. ListInv'
  BY <1>1, <1>2, <1>3 DEF EInv, ListInv, Read, Listed, FoundByAll
<1>7. CareInv'
  BY <1>1, <1>2 DEF EInv, CareInv, Listed
<1> QED
  BY <1>4, <1>5, <1>6, <1>7 DEF EInv

LEMMA ReconciledStep ==
  ASSUME EInv, Reconciled
  PROVE  EInv'
<1>1. /\ pc = "reconcile" /\ pc' = "merge" /\ UNCHANGED <<book, start, chunks, found, curated, written, lapses>>
      /\ running = {} /\ running' = {} /\ answered' = {} /\ kept' = curated
  BY DEF Reconciled, Gathered
<1>2. Chunks' = Chunks /\ (\A c : Labelled(c)' = Labelled(c)) /\ (Distinct' <=> Distinct)
  BY <1>1, SameChunks
<1>3. ChunkInv'
  BY <1>1, SameChunkInv DEF Read
<1>4. TypeInv'
  BY <1>1, <1>2 DEF EInv, TypeInv, Read
<1>5. ListInv'
  <2>1. \A c \in Chunks : c \in 1..c
    BY ChunkNumbers DEF EInv, ChunkInv
  <2> QED
    BY <1>1, <1>2, <2>1 DEF EInv, ListInv, Read, Listed, FoundByAll
<1>6. CareInv'
  BY <1>1, <1>2 DEF EInv, CareInv, Listed
<1> QED
  BY <1>3, <1>4, <1>5, <1>6 DEF EInv

LEMMA MergedStep ==
  ASSUME EInv, Merged
  PROVE  EInv'
<1>1. /\ pc = "merge" /\ pc' = "done" /\ UNCHANGED <<book, start, chunks, found, curated, kept, lapses>>
      /\ running = {} /\ running' = {} /\ answered' = answered
      /\ \A c \in Chunks \ {1} : NeedsMerging(c) => <<c, 0>> \in answered
      /\ written' = {p \in Chunks \X book : p[2] \in kept[p[1]]}
  BY DEF Merged, Gathered, Asked
<1>2. Chunks' = Chunks /\ (\A c : Labelled(c)' = Labelled(c)) /\ (Distinct' <=> Distinct)
  BY <1>1, SameChunks
<1>3. ChunkInv'
  BY <1>1, SameChunkInv DEF Read
<1>4. TypeInv'
  BY <1>1, <1>2 DEF EInv, TypeInv, Read
<1>5. ListInv'
  BY <1>1, <1>2 DEF EInv, ListInv, Read, Listed, FoundByAll
<1>6. CareInv'
  <2>1. \A c : NeedsMerging(c)' <=> NeedsMerging(c)
    BY <1>1 DEF NeedsMerging
  <2> QED
    BY <1>1, <1>2, <2>1 DEF EInv, CareInv, Listed
<1> QED
  BY <1>3, <1>4, <1>5, <1>6 DEF EInv
---------------------------------------------------------------------------
(* The theorems *)

LEMMA NextInv ==
  ASSUME EInv, [Next]_vars
  PROVE  EInv'
<1>1. CASE Cut
  BY <1>1, CutStep
<1>2. CASE Chunked
  BY <1>2, ChunkedStep
<1>3. ASSUME NEW agent \in Asked, Acquire(agent) PROVE EInv'
  BY <1>3, AcquireStep
<1>4. ASSUME NEW agent \in Asked, Fail(agent) PROVE EInv'
  BY <1>4, FailStep
<1>5. ASSUME NEW c \in Chunks, NEW a \in 1..K, Extract(c, a) PROVE EInv'
  BY <1>5, ExtractStep
<1>6. ASSUME NEW c \in Chunks, Review(c) PROVE EInv'
  BY <1>6, ReviewStep
<1>7. ASSUME NEW c \in Chunks, MergePair(c) PROVE EInv'
  BY <1>7, MergePairStep
<1>8. CASE Extracted
  BY <1>8, ExtractedStep
<1>9. CASE Reconciled
  BY <1>9, ReconciledStep
<1>10. CASE Merged
  BY <1>10, MergedStep
<1>11. CASE UNCHANGED vars
  <2>1. /\ UNCHANGED <<book, start, chunks, pc, running, answered, found, curated, kept, written, lapses>>
    BY <1>11 DEF vars
  <2>2. Chunks' = Chunks /\ (\A c : Labelled(c)' = Labelled(c)) /\ (Distinct' <=> Distinct)
    BY <2>1, SameChunks
  <2>3. Asked' = Asked
    BY <2>1, <2>2 DEF Asked, Disputed, NamesFound, FoundBy, NeedsMerging
  <2>4. ChunkInv'
    BY <2>1, SameChunkInv
  <2>5. TypeInv' /\ ListInv'
    BY <2>1, <2>2, <2>3 DEF EInv, TypeInv, ListInv, Read, Listed, FoundByAll
  <2>6. CareInv'
    BY <2>1, <2>2 DEF EInv, CareInv, Listed, NeedsMerging
  <2> QED
    BY <2>4, <2>5, <2>6 DEF EInv
<1> QED
  BY <1>1, <1>2, <1>3, <1>4, <1>5, <1>6, <1>7, <1>8, <1>9, <1>10, <1>11 DEF Next

\* The inductive invariant of the extraction: chunks that follow each other
\* (_chunk_lines), lists that lose nothing all agents found, and, while nothing
\* is overlooked, complete reports and thorough mergers.
THEOREM ExtractionInvariant == Spec => []EInv
<1>1. Init => EInv
  BY InitInv
<1>2. EInv /\ [Next]_vars => EInv'
  BY NextInv
<1> QED
  BY <1>1, <1>2, PTL DEF Spec

\* Chunks, permits and the lists of every step keep their types.
THEOREM ExtractionTypeCorrect == Spec => []TypeOK
<1>1. EInv => TypeOK
  BY DEF EInv, ChunkInv, TypeInv, TypeOK, Read
<1> QED
  BY <1>1, ExtractionInvariant, PTL

\* Whatever the sizes, every statement's beginning is in a chunk, which holds
\* all of a statement that is at most a line longer than the overlap.
THEOREM EveryStatementSeen == Spec => [](Read => \A s \in book : Seen(s))
<1>1. EInv => (Read => \A s \in book : Seen(s))
  <2> SUFFICES ASSUME EInv, Read, NEW s \in book
               PROVE  Seen(s)
    OBVIOUS
  <2>1. s \in Statements
    BY ExtractionAssumption DEF EInv, TypeInv
  <2>2. start \in Nat /\ start >= Lines /\ s.first \in 1..Lines
    BY <2>1 DEF EInv, ChunkInv, Read, Statements
  <2>3. s.first <= start
    BY <2>2, ExtractionAssumption
  <2> QED
    BY <2>1, <2>3 DEF EInv, ChunkInv
<1> QED
  BY <1>1, ExtractionInvariant, PTL

\* For any books, chunk sizes and numbers of agents, and whatever agents
\* overlook: what all agents of a chunk report is in targets.yaml.
THEOREM FoundByAllIsWritten == Spec => []FoundByAllWritten
<1>1. EInv => FoundByAllWritten
  <2> SUFFICES ASSUME EInv, pc = "done", Distinct, NEW c \in Chunks, NEW s \in book,
                      \A a \in 1..K : s \in found[c][a]
               PROVE  \E d \in 1..c : <<d, s>> \in written
    BY DEF FoundByAllWritten
  <2>1. s \in curated[c]
    BY DEF EInv, ListInv, Listed, FoundByAll
  <2>2. PICK d \in 1..c : s \in kept[d]
    BY <2>1 DEF EInv, ListInv
  <2>3. d \in Chunks
    BY ChunkNumbers DEF Chunks, EInv, ChunkInv
  <2>4. <<d, s>> \in written
    BY <2>2, <2>3 DEF EInv, ListInv
  <2> QED
    BY <2>4
<1> QED
  BY <1>1, ExtractionInvariant, PTL

LEMMA WrittenFromOneChunk ==
  ASSUME EInv, pc = "done", lapses = 0, Distinct, NEW s \in book,
         NEW c \in Chunks, NEW d \in Chunks, c < d, s \in kept[c], s \in kept[d]
  PROVE  FALSE
<1>1. /\ c \in Nat /\ d \in Nat /\ d # 1 /\ d - 1 \in Chunks /\ c <= d - 1
      /\ \A e \in Chunks : chunks[e] \in [first : 1..Lines, last : 1..Lines]
  BY ChunkNumbers DEF EInv, ChunkInv
<1>2. \A e \in Chunks : curated[e] = Labelled(e)
  <2>1. \A e \in Chunks : FoundByAll(e) = Labelled(e)
    <3>1. 1 \in 1..K
      BY ExtractionAssumption
    <3>2. \A e \in Chunks : \A a \in 1..K : found[e][a] = Labelled(e)
      BY DEF EInv, CareInv, Listed
    <3> QED
      BY <3>1, <3>2 DEF FoundByAll, Labelled
  <2> QED
    BY <2>1 DEF EInv, ListInv, Listed
<1>3. s \in Labelled(c) /\ s \in Labelled(d)
  BY <1>2 DEF EInv, ListInv
<1>4. /\ chunks[c].first <= s.first /\ s.first <= chunks[c].last
      /\ chunks[d].first <= s.first
      /\ chunks[c].last <= chunks[d - 1].last /\ chunks[d - 1].first <= chunks[d].first
  BY <1>1, <1>3 DEF Labelled, EInv, ChunkInv
<1>5. s.first \in Nat
  BY ExtractionAssumption DEF EInv, TypeInv, Statements
<1>6. /\ chunks[d - 1].first <= s.first /\ s.first <= chunks[d - 1].last
      /\ chunks[d].first <= chunks[d - 1].last
  BY <1>1, <1>4, <1>5
<1>7. s \in curated[d - 1] /\ s \in curated[d]
  BY <1>1, <1>2, <1>3, <1>6 DEF Labelled
<1>8. NeedsMerging(d)
  BY <1>6, <1>7 DEF NeedsMerging
<1> QED
  BY <1>1, <1>7, <1>8 DEF EInv, CareInv

\* For any sizes: where nothing is overlooked each statement is written from
\* exactly one chunk, however many chunks it is in.
THEOREM EachIsWrittenOnce == Spec => []EachOnce
<1>1. EInv => EachOnce
  <2> SUFFICES ASSUME EInv, pc = "done", lapses = 0, Distinct, NEW s \in book
               PROVE  /\ \E c \in Chunks :
                           <<c, s>> \in written /\ \A d \in Chunks : <<d, s>> \in written => d = c
                      /\ s.last - s.first <= Overlap => \E c \in Chunks : Whole(c, s)
    BY DEF EachOnce
  <2>1. PICK c \in Chunks : /\ chunks[c].first <= s.first /\ s.first <= chunks[c].last
                            /\ s.last - s.first <= Overlap => Whole(c, s)
    <3>1. s \in Statements /\ start \in Nat /\ start >= Lines
      BY ExtractionAssumption DEF EInv, TypeInv, ChunkInv
    <3>2. s.first <= start
      BY <3>1, ExtractionAssumption DEF Statements
    <3> QED
      BY <3>1, <3>2 DEF EInv, ChunkInv, Seen
  <2>2. s \in curated[c]
    <3>1. s \in FoundByAll(c)
      BY <2>1 DEF Labelled, FoundByAll, EInv, CareInv, Listed
    <3> QED
      BY <3>1 DEF EInv, ListInv, Listed
  <2>3. PICK d \in 1..c : s \in kept[d]
    BY <2>2 DEF EInv, ListInv
  <2>4. d \in Chunks /\ <<d, s>> \in written
    <3>1. d \in Chunks
      BY <2>3, ChunkNumbers DEF Chunks, EInv, ChunkInv
    <3> QED
      BY <2>3, <3>1 DEF EInv, ListInv
  <2>5. ASSUME NEW e \in Chunks, <<e, s>> \in written
        PROVE  e = d
    <3>1. s \in kept[e]
      BY <2>5 DEF EInv, ListInv
    <3>2. ~(e < d) /\ ~(d < e)
      BY <2>3, <2>4, <3>1, WrittenFromOneChunk
    <3> QED
      BY <2>4, <3>2, ChunkNumbers DEF EInv, ChunkInv
  <2> QED
    BY <2>1, <2>4, <2>5
<1> QED
  BY <1>1, ExtractionInvariant, PTL
---------------------------------------------------------------------------
(* The files of a run *)

\* Tasks are numbered up to max_id, traces have the names of agents, and a start has
\* been made where one is prepared.
FilesTyped ==
  /\ max_id \in 0..MaxTasks /\ starts \in 0..MaxStarts
  /\ stage \in {"down", "prune", "snapshot", "delete", "ready", "up"}
  /\ stage # "down" => starts # 0
  /\ DOMAIN dag \subseteq 1..max_id /\ pruned \subseteq 1..max_id
  /\ \A t \in DOMAIN dag : dag[t].attempts \in Nat
  /\ DOMAIN agents \subseteq Keys /\ DOMAIN traces \subseteq Keys
  /\ DOMAIN archive \subseteq Keys /\ DOMAIN events \subseteq Keys

\* While the pipeline is up, what was logged last is its own start.
SessionsInv ==
  /\ sessions \in Seq([type : {"start", "stop"}, start : Nat])
  /\ stage = "up" => sessions # <<>> /\ sessions[Len(sessions)] = Event("start")
  /\ \A j \in 2..Len(sessions) :
       sessions[j].type = "stop" /\ sessions[j - 1].type = "start" =>
         sessions[j].start = sessions[j - 1].start

\* All but the evaluation's trace are in the archive as well, which keeps them: what was
\* counted is seen in every scan.
TimelineInv ==
  /\ DOMAIN traces \subseteq DOMAIN archive \cup {Eval}
  /\ seen \subseteq DOMAIN archive \cup {Eval}
  /\ DOMAIN events \subseteq seen \cup {Eval}
  /\ \A k \in DOMAIN events \ {Eval} : events[k] \in {0, 1}

FilesInv == FilesTyped /\ IdsNotReused /\ SessionsInv /\ TimelineInv

LEMMA KeysNamed ==
  /\ Orchestrator \in Keys /\ Eval \in Keys
  /\ \A n \in 1..MaxStarts : Batch(n) \in Keys /\ MovedEval(n) \in Keys
  /\ \A t \in Ids : Analyzer(t) \in Keys /\ \A n \in 1..MaxAttempts : Attempt(t, n) \in Keys
<1>1. Orchestrator \in Keys /\ Eval \in Keys
  BY DEF Keys
<1>2. ASSUME NEW n \in 1..MaxStarts
      PROVE  Batch(n) \in Keys /\ MovedEval(n) \in Keys
  <2>. DEFINE B == {Batch(m) : m \in 1..MaxStarts}
              M == {MovedEval(m) : m \in 1..MaxStarts}
              R == {Orchestrator, Eval} \cup (UNION {Of(t) : t \in Ids})
  <2>1. Batch(n) \in B /\ MovedEval(n) \in M
    OBVIOUS
  <2>2. Keys = (R \cup B) \cup M
    BY DEF Keys
  <2>. HIDE DEF B, M, R
  <2>. QED
    BY <2>1, <2>2
<1>3. ASSUME NEW t \in Ids
      PROVE  Of(t) \subseteq Keys
  <2>1. UNION {Of(u) : u \in Ids} \subseteq Keys
    BY Zenon DEF Keys
  <2>2. \A x \in Of(t) : x \in UNION {Of(u) : u \in Ids}
    BY <1>3, Zenon
  <2>. QED
    BY <2>1, <2>2
<1>4. ASSUME NEW t \in Ids
      PROVE  Analyzer(t) \in Of(t) /\ \A n \in 1..MaxAttempts : Attempt(t, n) \in Of(t)
  BY DEF Of
<1>. QED
  BY <1>1, <1>2, <1>3, <1>4

\* The history of the logged sessions is as long as it was, or one longer.
LEMMA LogSession ==
  ASSUME FilesInv, NEW type \in {"start", "stop"}, starts \in Nat,
         sessions' = Append(sessions, [type |-> type, start |-> starts]), starts' = starts,
         type = "stop" => stage = "up",
         stage' = (IF type = "start" THEN "up" ELSE "down")
  PROVE  SessionsInv'
<1>. DEFINE e == [type |-> type, start |-> starts]
            n == Len(sessions)
<1>1. e \in [type : {"start", "stop"}, start : Nat] /\ e.type = type /\ e.start = starts
  OBVIOUS
<1>2. sessions \in Seq([type : {"start", "stop"}, start : Nat]) /\ n \in Nat
  BY DEF FilesInv, SessionsInv
<1>. HIDE DEF e
<1>3. sessions' = Append(sessions, e)
  BY DEF e
<1>4. /\ sessions' \in Seq([type : {"start", "stop"}, start : Nat])
      /\ Len(sessions') = n + 1 /\ sessions'[n + 1] = e
      /\ \A j \in 1..n : sessions'[j] = sessions[j]
  BY <1>1, <1>2, <1>3
<1>5. type = "stop" => n # 0 /\ sessions[n].start = starts
  BY <1>2 DEF FilesInv, SessionsInv, Event
<1>6. ASSUME NEW j \in 2..(n + 1), sessions'[j].type = "stop", sessions'[j - 1].type = "start"
      PROVE  sessions'[j].start = sessions'[j - 1].start
  <2>1. CASE j = n + 1
    BY <1>1, <1>2, <1>4, <1>5, <1>6, <2>1
  <2>2. CASE j # n + 1
    <3>1. j \in 2..n /\ j \in 1..n /\ j - 1 \in 1..n
      BY <1>2, <2>2
    <3>. QED
      BY <1>4, <1>6, <3>1 DEF FilesInv, SessionsInv
  <2>. QED
    BY <2>1, <2>2
<1>7. stage' = "up" => sessions' # <<>> /\ sessions'[Len(sessions')] = Event("start")'
  BY <1>2, <1>4 DEF e, Event
<1>. QED
  BY <1>4, <1>6, <1>7 DEF SessionsInv

\* A scan counts a trace it has not seen once, for the archive is read before
\* traces/ and what is in both is read there.
LEMMA ScanInv ==
  ASSUME FilesInv, Scan
  PROVE  FilesInv'
<1>. DEFINE new == {f \in ToScan : f[1] \notin seen}
            files(k) == {f \in new : f[1] = k}
<1>1. /\ events' = [k \in DOMAIN events \cup {f[1] : f \in new} |-> Events(k) + Cardinality(files(k))]
      /\ seen' = {f[1] : f \in ToScan}
      /\ UNCHANGED <<pipeline, evaluator, disk, history>>
  BY DEF Scan
<1>2. {f[1] : f \in ToScan} = DOMAIN archive \cup DOMAIN traces
  <2>1. {f[1] : f \in ToScan} \subseteq DOMAIN archive \cup DOMAIN traces
    BY DEF ToScan
  <2>2. ASSUME NEW k \in DOMAIN archive
        PROVE  k \in {f[1] : f \in ToScan}
    <3>1. <<k, "archive">> \in ToScan /\ <<k, "archive">>[1] = k
      BY DEF ToScan
    <3>. QED
      BY <3>1
  <2>3. ASSUME NEW k \in DOMAIN traces \ DOMAIN archive
        PROVE  k \in {f[1] : f \in ToScan}
    <3>1. <<k, "traces">> \in ToScan /\ <<k, "traces">>[1] = k
      BY DEF ToScan
    <3>. QED
      BY <3>1
  <2>. QED
    BY <2>1, <2>2, <2>3
<1>3. ASSUME NEW k, k \in seen
      PROVE  Cardinality(files(k)) = 0
  <2>1. files(k) = {}
    BY <1>3
  <2>. QED
    BY <2>1, FS_EmptySet
<1>4. ASSUME NEW k
      PROVE  Cardinality(files(k)) \in {0, 1}
  <2>1. \A f, g \in files(k) : f = g
    BY DEF ToScan
  <2>2. CASE files(k) = {}
    BY <2>2, FS_EmptySet
  <2>3. CASE files(k) # {}
    <3>1. PICK f : f \in files(k)
      BY <2>3
    <3>2. files(k) = {f}
      BY <2>1, <3>1
    <3>. QED
      BY <3>2, FS_Singleton
  <2>. QED
    BY <2>2, <2>3
<1>5. {f[1] : f \in new} \subseteq DOMAIN archive \cup DOMAIN traces
  BY <1>2
<1>. DEFINE card(k) == Cardinality(files(k))
<1>6. /\ DOMAIN events' = DOMAIN events \cup {f[1] : f \in new}
      /\ \A k \in DOMAIN events' : events'[k] = Events(k) + card(k)
      /\ \A k : card(k) \in {0, 1} /\ (k \in seen => card(k) = 0)
  BY <1>1, <1>3, <1>4
<1>. HIDE DEF card, files, new
<1>7. TimelineInv'
  <2>1. UNCHANGED <<traces, archive>>
    BY <1>1 DEF disk
  <2>2. seen' \subseteq DOMAIN archive \cup {Eval} /\ DOMAIN events' \subseteq seen' \cup {Eval}
    BY <1>1, <1>2, <1>5, <1>6 DEF FilesInv, TimelineInv
  <2>3. ASSUME NEW k \in DOMAIN events' \ {Eval}
        PROVE  events'[k] \in {0, 1}
    <3>1. CASE k \in DOMAIN events
      <4>1. k \in seen /\ events[k] \in {0, 1}
        BY <2>3, <3>1 DEF FilesInv, TimelineInv
      <4>2. Events(k) = events[k] /\ card(k) = 0
        BY <1>6, <3>1, <4>1 DEF Events
      <4>3. events'[k] = events[k] + 0
        BY <1>6, <4>2
      <4>. QED
        BY <4>1, <4>3
    <3>2. CASE k \notin DOMAIN events
      <4>1. Events(k) = 0 /\ card(k) \in {0, 1}
        BY <1>6, <3>2 DEF Events
      <4>2. events'[k] = 0 + card(k)
        BY <1>6, <4>1
      <4>. QED
        BY <4>1, <4>2
    <3>. QED
      BY <3>1, <3>2
  <2>. QED
    BY <2>1, <2>2, <2>3 DEF FilesInv, TimelineInv
<1>8. FilesTyped'
  <2>1. DOMAIN events' \subseteq Keys
    BY <1>5, <1>6 DEF FilesInv, FilesTyped
  <2>. QED
    BY <1>1, <2>1 DEF FilesInv, FilesTyped, pipeline, disk, history
<1>9. IdsNotReused' /\ SessionsInv'
  BY <1>1 DEF FilesInv, IdsNotReused, SessionsInv, Event, pipeline, disk, history
<1>. QED
  BY <1>7, <1>8, <1>9 DEF FilesInv

\* What the steps that leave the sessions, the timeline and the DAG's ids alone have to show.
LEMMA SameSessions ==
  ASSUME FilesInv, UNCHANGED <<sessions, starts>>, stage' = stage \/ stage' # "up"
  PROVE  SessionsInv'
BY DEF FilesInv, SessionsInv, Event

LEMMA SameTimeline ==
  ASSUME FilesInv, UNCHANGED <<traces, archive, events, seen>>
  PROVE  TimelineInv'
BY DEF FilesInv, TimelineInv

LEMMA PreparationInv ==
  ASSUME FilesInv, Preparation
  PROVE  FilesInv'
<1>. USE DEF FilesInv
<1>1. CASE Prune
  <2>. DEFINE ids == {t \in DOMAIN dag : dag[t].status \in Terminal}
  <2>1. /\ stage = "prune" /\ stage' = "snapshot"
        /\ dag' = Without(dag, ids) /\ pruned' = pruned \cup ids
        /\ UNCHANGED <<starts, max_id, agents, traces, archive, sessions, events, seen>>
    BY <1>1 DEF Prune, disk, progress
  <2>. HIDE DEF ids
  <2>2. ids \subseteq DOMAIN dag /\ DOMAIN dag' = DOMAIN dag \ ids
        /\ \A t \in DOMAIN dag' : dag'[t] = dag[t]
    BY <2>1 DEF Without, ids
  <2>3. FilesTyped' /\ IdsNotReused'
    BY <2>1, <2>2 DEF FilesTyped, IdsNotReused
  <2>. QED
    BY <2>1, <2>3, SameSessions, SameTimeline
<1>2. CASE Snapshot \/ Prepared
  <2>1. /\ stage \in {"snapshot", "delete"} /\ stage' \in {"delete", "ready"}
        /\ UNCHANGED <<starts, max_id, dag, pruned, agents, traces, archive, sessions, events, seen>>
    BY <1>2 DEF Snapshot, Prepared, disk, progress, history
  <2>2. FilesTyped' /\ IdsNotReused'
    BY <2>1 DEF FilesTyped, IdsNotReused
  <2>. QED
    BY <2>1, <2>2, SameSessions, SameTimeline
<1>3. ASSUME NEW k \in doomed, Delete(k)
      PROVE  FilesInv'
  <2>1. /\ stage = "delete"
        /\ traces' = Without(traces, {k})
        /\ UNCHANGED <<starts, stage, max_id, dag, pruned, agents, sessions, events, seen>>
    BY <1>3 DEF Delete, progress, history
  <2>2. archive' = archive \/ archive' = Put(archive, MovedEval(starts), traces[k])
    BY <1>3 DEF Delete
  <2>3. DOMAIN traces' \subseteq DOMAIN traces
    BY <2>1 DEF Without
  <2>4. /\ DOMAIN archive \subseteq DOMAIN archive'
        /\ DOMAIN archive' \subseteq DOMAIN archive \cup {MovedEval(starts)}
    BY <2>2 DEF Put
  <2>5. MovedEval(starts) \in Keys
    <3>1. starts \in 1..MaxStarts
      BY <2>1 DEF FilesTyped
    <3>. QED
      BY <3>1, KeysNamed
  <2>6. FilesTyped' /\ IdsNotReused'
    BY <2>1, <2>3, <2>4, <2>5 DEF FilesTyped, IdsNotReused
  <2>7. TimelineInv'
    BY <2>1, <2>3, <2>4 DEF TimelineInv
  <2>. QED
    BY <2>1, <2>6, <2>7, SameSessions
<1>. QED
  BY <1>1, <1>2, <1>3 DEF Preparation

LEMMA ResetKeepsTasks ==
  ASSUME FilesInv
  PROVE  /\ DOMAIN Reset = DOMAIN dag
         /\ \A t \in DOMAIN dag : Reset[t].attempts \in Nat
<1>1. DOMAIN Reset = DOMAIN dag
  BY DEF Reset
<1>2. ASSUME NEW t \in DOMAIN dag
      PROVE  Reset[t].attempts \in Nat
  <2>1. dag[t].attempts \in Nat
    BY DEF FilesInv, FilesTyped
  <2>2. CASE dag[t].status = "in_progress"
    <3>1. Reset[t] = [dag[t] EXCEPT !.status = "pending"]
      BY <2>2 DEF Reset
    <3>. QED
      BY <2>1, <3>1
  <2>3. CASE dag[t].status # "in_progress"
    BY <2>1, <2>3 DEF Reset
  <2>. QED
    BY <2>2, <2>3
<1>. QED
  BY <1>1, <1>2

LEMMA LifeInv ==
  ASSUME FilesInv, Life
  PROVE  FilesInv'
<1>. USE DEF FilesInv
<1>1. ASSUME NEW fresh \in BOOLEAN, Start(fresh)
      PROVE  FilesInv'
  <2>1. /\ stage = "down" /\ starts < MaxStarts
        /\ starts' = starts + 1
        /\ stage' \in {"prune", "ready"}
        /\ UNCHANGED <<max_id, dag, pruned, agents, traces, archive, sessions, events, seen>>
    BY <1>1 DEF Start, disk, progress, history
  <2>2. starts' \in 0..MaxStarts /\ starts' # 0
    BY <2>1, RunAssumption DEF FilesTyped
  <2>3. FilesTyped' /\ IdsNotReused'
    BY <2>1, <2>2 DEF FilesTyped, IdsNotReused
  <2>4. SessionsInv'
    BY <2>1 DEF SessionsInv
  <2>. QED
    BY <2>1, <2>3, <2>4, SameTimeline
<1>2. CASE Open
  <2>1. /\ stage = "ready" /\ stage' = "up"
        /\ sessions' = Append(sessions, [type |-> "start", start |-> starts])
        /\ dag' = Reset
        /\ UNCHANGED <<starts, max_id, pruned, traces, archive, events, seen>>
    BY <1>2 DEF Open, Event, progress, history
  <2>2. DOMAIN agents' = {Orchestrator}
    <3>1. DOMAIN agents' = DOMAIN <<>> \cup {Orchestrator}
      BY <1>2 DEF Open, Put
    <3>. QED
      BY <3>1
  <2>3. FilesTyped' /\ IdsNotReused'
    BY <2>1, <2>2, ResetKeepsTasks DEF FilesTyped, IdsNotReused, Keys
  <2>4. SessionsInv'
    BY <2>1, LogSession DEF FilesTyped
  <2>. QED
    BY <2>1, <2>3, <2>4, SameTimeline
<1>3. CASE Stop
  <2>1. /\ stage = "up" /\ stage' = "down"
        /\ sessions' = Append(sessions, [type |-> "stop", start |-> starts])
        /\ dag' = Reset /\ agents' = <<>>
        /\ UNCHANGED <<starts, max_id, pruned, traces, archive, events, seen>>
    BY <1>3 DEF Stop, Event, progress, history
  <2>2. FilesTyped' /\ IdsNotReused'
    BY <2>1, ResetKeepsTasks DEF FilesTyped, IdsNotReused
  <2>3. SessionsInv'
    BY <2>1, LogSession DEF FilesTyped
  <2>. QED
    BY <2>1, <2>2, <2>3, SameTimeline
<1>4. CASE Killed
  <2>1. /\ stage' = "down" /\ agents' = <<>>
        /\ UNCHANGED <<starts, max_id, dag, pruned, traces, archive, sessions, events, seen>>
    BY <1>4 DEF Killed, disk, progress
  <2>2. FilesTyped' /\ IdsNotReused'
    BY <2>1 DEF FilesTyped, IdsNotReused
  <2>. QED
    BY <2>1, <2>2, SameSessions, SameTimeline
<1>. QED
  BY <1>1, <1>2, <1>3, <1>4 DEF Life

\* Work adds agents that have a name, and tasks with ids that are new.
LEMMA TasksInv ==
  ASSUME FilesInv, UNCHANGED <<starts, stage, pruned, traces, archive, sessions, events, seen>>,
         DOMAIN agents' \subseteq Keys, max_id' \in 0..MaxTasks, max_id <= max_id',
         DOMAIN dag' \subseteq DOMAIN dag \cup {max_id'},
         DOMAIN dag' \subseteq DOMAIN dag \/ max_id' = max_id + 1,
         \A t \in DOMAIN dag' : dag'[t].attempts \in Nat
  PROVE  FilesInv'
<1>1. \A i \in 1..max_id : i \in 1..max_id'
  BY DEF FilesInv, FilesTyped
<1>2. DOMAIN dag' \subseteq 1..max_id'
  BY <1>1 DEF FilesInv, FilesTyped
<1>3. FilesTyped'
  BY <1>1, <1>2 DEF FilesInv, FilesTyped
<1>4. IdsNotReused'
  BY DEF FilesInv, FilesTyped, IdsNotReused
<1>. QED
  BY <1>3, <1>4, SameSessions, SameTimeline DEF FilesInv

LEMMA WorkInv ==
  ASSUME FilesInv, Work
  PROVE  FilesInv'
<1>0. /\ max_id \in 0..MaxTasks /\ max_id \in Nat /\ max_id + 1 # max_id
      /\ DOMAIN agents \subseteq Keys /\ DOMAIN dag \subseteq 1..max_id
      /\ \A t \in DOMAIN dag : dag[t].attempts \in Nat
      /\ 1..max_id \subseteq Ids
  BY RunAssumption DEF FilesInv, FilesTyped, Ids
<1>. HIDE DEF Ids
<1>1. CASE AddTask
  <2>1. /\ dag' = Put(dag, max_id + 1, [status |-> "pending", attempts |-> 0])
        /\ max_id' = max_id + 1 /\ max_id < MaxTasks
        /\ UNCHANGED <<starts, stage, pruned, agents, traces, archive, sessions, events, seen>>
    BY <1>1 DEF AddTask, disk, progress, history
  <2>2. max_id' \in 0..MaxTasks /\ max_id <= max_id'
    BY <1>0, <2>1, RunAssumption
  <2>3. DOMAIN dag' = DOMAIN dag \cup {max_id + 1}
        /\ \A t \in DOMAIN dag' : dag'[t] = IF t = max_id + 1 THEN [status |-> "pending", attempts |-> 0] ELSE dag[t]
    BY <2>1 DEF Put
  <2>4. \A t \in DOMAIN dag' : dag'[t].attempts \in Nat
    BY <1>0, <2>3
  <2>. QED
    BY <1>0, <2>1, <2>2, <2>3, <2>4, TasksInv
<1>2. CASE EvaluateMerge
  <2>1. /\ agents' = Put(agents, Batch(starts), 0) /\ stage = "up"
        /\ UNCHANGED <<starts, stage, dag, max_id, pruned, traces, archive, sessions, events, seen>>
    BY <1>2 DEF EvaluateMerge, disk, progress, history
  <2>2. Batch(starts) \in Keys
    <3>1. starts \in 1..MaxStarts
      BY <2>1 DEF FilesInv, FilesTyped
    <3>. QED
      BY <3>1, KeysNamed
  <2>3. DOMAIN agents' \subseteq Keys
    BY <1>0, <2>1, <2>2 DEF Put
  <2>. QED
    BY <1>0, <2>1, <2>3, TasksInv
<1>3. ASSUME NEW t \in Ids, Dispatch(t)
      PROVE  FilesInv'
  <2>1. /\ t \in DOMAIN dag /\ dag[t].attempts < MaxAttempts
        /\ dag' = [dag EXCEPT ![t].status = "in_progress"]
        /\ agents' = Put(agents, Attempt(t, dag[t].attempts + 1), 0)
        /\ UNCHANGED <<starts, stage, max_id, pruned, traces, archive, sessions, events, seen>>
    BY <1>3 DEF Dispatch, disk, progress, history
  <2>2. dag[t].attempts + 1 \in 1..MaxAttempts
    BY <1>0, <2>1, RunAssumption
  <2>3. Attempt(t, dag[t].attempts + 1) \in Keys
    BY <2>2, KeysNamed
  <2>4. DOMAIN agents' \subseteq Keys
    BY <1>0, <2>1, <2>3 DEF Put
  <2>5. DOMAIN dag' = DOMAIN dag /\ \A u \in DOMAIN dag : dag'[u].attempts = dag[u].attempts
    <3>1. DOMAIN dag' = DOMAIN dag /\ \A u \in DOMAIN dag : u # t => dag'[u] = dag[u]
      BY <2>1
    <3>2. dag'[t] = [dag[t] EXCEPT !.status = "in_progress"]
      BY <2>1
    <3>3. dag'[t].attempts = dag[t].attempts
      BY <3>2
    <3>. QED
      BY <3>1, <3>3
  <2>. QED
    BY <1>0, <2>1, <2>4, <2>5, TasksInv
<1>4. ASSUME NEW t \in Ids, NEW status \in {"completed", "failed"}, Result(t, status)
      PROVE  FilesInv'
  <2>. DEFINE rest == Without(agents, {Attempt(t, dag[t].attempts + 1)})
  <2>1. /\ t \in DOMAIN dag
        /\ dag' = [dag EXCEPT ![t] = [status |-> status, attempts |-> dag[t].attempts + 1]]
        /\ agents' = rest \/ agents' = Put(rest, Analyzer(t), 0)
        /\ UNCHANGED <<starts, stage, max_id, pruned, traces, archive, sessions, events, seen>>
    BY <1>4 DEF Result, disk, progress, history
  <2>2. DOMAIN rest \subseteq DOMAIN agents
    BY DEF Without
  <2>. HIDE DEF rest
  <2>3. Analyzer(t) \in Keys
    BY KeysNamed
  <2>4. DOMAIN agents' \subseteq Keys
    BY <1>0, <2>1, <2>2, <2>3 DEF Put
  <2>5. DOMAIN dag' = DOMAIN dag /\ \A u \in DOMAIN dag' : dag'[u].attempts \in Nat
    BY <1>0, <2>1
  <2>. QED
    BY <1>0, <2>1, <2>4, <2>5, TasksInv
<1>5. ASSUME NEW t \in Ids, NEW status \in {"pending", "deleted"}, Replan(t, status)
      PROVE  FilesInv'
  <2>1. /\ t \in DOMAIN dag
        /\ dag' = [dag EXCEPT ![t].status = status]
        /\ UNCHANGED <<starts, stage, max_id, pruned, agents, traces, archive, sessions, events, seen>>
    BY <1>5 DEF Replan, disk, progress, history
  <2>2. DOMAIN dag' = DOMAIN dag /\ \A u \in DOMAIN dag : dag'[u].attempts = dag[u].attempts
    <3>1. DOMAIN dag' = DOMAIN dag /\ \A u \in DOMAIN dag : u # t => dag'[u] = dag[u]
      BY <2>1
    <3>2. dag'[t] = [dag[t] EXCEPT !.status = status]
      BY <2>1
    <3>3. dag'[t].attempts = dag[t].attempts
      BY <3>2
    <3>. QED
      BY <3>1, <3>3
  <2>. QED
    BY <1>0, <2>1, <2>2, TasksInv
<1>6. ASSUME NEW k \in DOMAIN agents, Call(k)
      PROVE  FilesInv'
  <2>1. /\ agents' = [agents EXCEPT ![k] = @ + 1]
        /\ traces' = Put(traces, k, agents[k] + 1)
        /\ archive' = Put(archive, k, agents[k] + 1)
        /\ UNCHANGED <<starts, stage, dag, max_id, sessions, events, seen, pruned>>
    BY <1>6 DEF Call, Saved, progress
  <2>2. /\ DOMAIN traces' = DOMAIN traces \cup {k}
        /\ DOMAIN archive' = DOMAIN archive \cup {k}
        /\ DOMAIN agents' = DOMAIN agents
    BY <2>1 DEF Put
  <2>3. FilesTyped' /\ IdsNotReused'
    BY <1>0, <2>1, <2>2 DEF FilesInv, FilesTyped, IdsNotReused
  <2>4. TimelineInv'
    BY <2>1, <2>2 DEF FilesInv, TimelineInv
  <2>. QED
    BY <2>1, <2>3, <2>4, SameSessions DEF FilesInv
<1>. QED
  BY <1>1, <1>2, <1>3, <1>4, <1>5, <1>6 DEF Work

LEMMA EvaluationInv ==
  ASSUME FilesInv, Evaluation
  PROVE  FilesInv'
<1>. USE DEF FilesInv
<1>1. UNCHANGED <<starts, stage, dag, max_id, agents, pruned, archive, sessions, events, seen>>
      /\ (traces' = traces \/ traces' = Put(traces, Eval, evaluator[1] + 1))
  BY DEF Evaluation, Evaluate, EvalCall, EvalEnds, Saved, pipeline, disk, progress, history
<1>2. DOMAIN traces' \subseteq DOMAIN traces \cup {Eval}
  BY <1>1 DEF Put
<1>3. FilesTyped' /\ IdsNotReused'
  BY <1>1, <1>2 DEF FilesTyped, IdsNotReused, Keys
<1>4. TimelineInv'
  BY <1>1, <1>2 DEF TimelineInv
<1>. QED
  BY <1>1, <1>3, <1>4, SameSessions

\* The inductive invariant.
THEOREM FilesInvariant == RunSpec => []FilesInv
<1>1. RunInit => FilesInv
  <2>. SUFFICES ASSUME RunInit
                PROVE  FilesInv
    OBVIOUS
  <2>1. FilesTyped /\ IdsNotReused
    BY RunAssumption DEF RunInit, FilesTyped, IdsNotReused
  <2>2. SessionsInv /\ TimelineInv
    BY DEF RunInit, SessionsInv, TimelineInv
  <2>. QED
    BY <2>1, <2>2 DEF FilesInv
<1>2. FilesInv /\ [RunNext]_runVars => FilesInv'
  <2>. SUFFICES ASSUME FilesInv, [RunNext]_runVars
                PROVE  FilesInv'
    OBVIOUS
  <2>1. CASE Rescan
    <3>1. /\ UNCHANGED <<pipeline, disk, history>>
          /\ events' = <<>> /\ seen' = {}
      BY <2>1 DEF Rescan
    <3>2. FilesTyped' /\ IdsNotReused'
      BY <3>1 DEF FilesInv, FilesTyped, IdsNotReused, pipeline, disk, history
    <3>3. TimelineInv'
      BY <3>1 DEF FilesInv, TimelineInv, disk
    <3>. QED
      BY <3>1, <3>2, <3>3, SameSessions DEF FilesInv, pipeline, disk
  <2>2. CASE UNCHANGED runVars
    <3>1. FilesTyped' /\ IdsNotReused'
      BY <2>2 DEF FilesInv, FilesTyped, IdsNotReused, runVars, pipeline, disk, progress, history
    <3>. QED
      BY <2>2, <3>1, SameSessions, SameTimeline DEF FilesInv, runVars, pipeline, disk, progress
  <2>. QED
    BY <2>1, <2>2, PreparationInv, LifeInv, WorkInv, EvaluationInv, ScanInv DEF RunNext, Visualizer
<1>. QED
  BY <1>1, <1>2, PTL DEF RunSpec

\* Every trace file has the name of an agent that was made, every task an id up to
\* max_id (store.py, archive.py, core/tracker).
THEOREM FilesTypeCorrect == RunSpec => []RunTypeOK
<1>1. FilesInv => RunTypeOK
  BY DEF FilesInv, FilesTyped, RunTypeOK
<1>. QED
  BY <1>1, FilesInvariant, PTL

\* However often runs are pruned, killed and started again, no id is given to a second
\* task: "Preserve max_id so new task IDs don't collide" (archive.py).
THEOREM IdsNeverReused == RunSpec => []IdsNotReused
<1>1. FilesInv => IdsNotReused
  BY DEF FilesInv
<1>. QED
  BY <1>1, FilesInvariant, PTL

\* A session that the page shows as closed was closed by the process that opened it,
\* whatever was killed before (_log_session_event, _load_sessions).
THEOREM SessionsAlwaysOwn == RunSpec => []SessionsAreOwn
<1>1. FilesInv => SessionsAreOwn
  BY DEF FilesInv, SessionsInv, SessionsAreOwn, SessionsShown
<1>. QED
  BY <1>1, FilesInvariant, PTL

\* The timeline counts no trace twice, in any number of scans and through any number of
\* deletions and restarts (_compute_progress_data).
THEOREM TimelineAlwaysOnce == RunSpec => []TimelineOnce
<1>1. FilesInv => TimelineOnce
  BY DEF FilesInv, TimelineInv, TimelineOnce
<1>. QED
  BY <1>1, FilesInvariant, PTL

---------------------------------------------------------------------------
(* Sums over finite sets *)

\* What a function's values over a set add up to.
Total(f, S) == MapThenSumSet(LAMBDA k : f[k], S)

\* The function that computes it, over the subsets of S.
Picked(s) == CHOOSE x \in s : TRUE
Adds(g, f, S) ==
  g = [s \in SUBSET S |-> IF s = {} THEN 0 ELSE f[Picked(s)] + g[s \ {Picked(s)}]]
Adder(f, S) == CHOOSE g : Adds(g, f, S)

LEMMA TotalIsComputed ==
  ASSUME NEW f, NEW S
  PROVE  Total(f, S) = Adder(f, S)[S]
BY DEF Total, MapThenSumSet, MapThenFoldSet, Adds, Adder, Picked

\* A set of subsets of a finite set has a smallest one.
LEMMA HasMinimal ==
  ASSUME NEW S, IsFiniteSet(S), NEW T \in SUBSET SUBSET S, T # {}
  PROVE  \E U \in T : \A V \in T : V \subseteq U => V = U
<1>1. T \subseteq FiniteSubsetsOf(S)
  BY FS_FiniteSubsetsOfFinite
<1>2. PICK U \in T : \A V \in T : <<V, U>> \notin StrictSubsetOrdering(S)
  BY <1>1, FS_StrictSubsetOrderingWellFounded, WFMin
<1>3. ASSUME NEW V \in T, V \subseteq U
      PROVE  V = U
  <2>1. V \in SUBSET S /\ U \in SUBSET S
    OBVIOUS
  <2>2. V # U => <<V, U>> \in StrictSubsetOrdering(S)
    BY <1>3, <2>1 DEF StrictSubsetOrdering
  <2>. QED
    BY <1>2, <2>2
<1>. QED
  BY <1>3

LEMMA PickedIsIn ==
  ASSUME NEW s, s # {}
  PROVE  Picked(s) \in s
BY DEF Picked

\* What two of them compute for a set does not depend on what else they compute.
LEMMA AddersAgree ==
  ASSUME NEW f, NEW S, IsFiniteSet(S), NEW g, Adds(g, f, S), NEW R \in SUBSET S, NEW h, Adds(h, f, R)
  PROVE  \A s \in SUBSET R : g[s] = h[s]
<1>. DEFINE T == {s \in SUBSET R : g[s] # h[s]}
<1>. SUFFICES ASSUME T # {}
              PROVE  FALSE
  OBVIOUS
<1>1. T \in SUBSET SUBSET S
  OBVIOUS
<1>2. \E U \in T : \A V \in T : V \subseteq U => V = U
  <2>. HIDE DEF T
  <2>. QED
    BY <1>1, HasMinimal
<1>. PICK U \in T : \A V \in T : V \subseteq U => V = U
  BY <1>2
<1>3. U # {}
  BY DEF Adds
<1>4. Picked(U) \in U
  BY <1>3, PickedIsIn
<1>5. U \ {Picked(U)} \notin T
  BY <1>4
<1>6. g[U \ {Picked(U)}] = h[U \ {Picked(U)}]
  BY <1>5
<1>7. g[U] = f[Picked(U)] + g[U \ {Picked(U)}] /\ h[U] = f[Picked(U)] + h[U \ {Picked(U)}]
  BY <1>3 DEF Adds
<1>. QED
  BY <1>6, <1>7

LEMMA AdderAdds ==
  ASSUME NEW f, NEW S, IsFiniteSet(S)
  PROVE  \A R \in SUBSET S : Adds(Adder(f, R), f, R)
<1>. DEFINE T == {R \in SUBSET S : ~Adds(Adder(f, R), f, R)}
<1>. SUFFICES ASSUME T # {}
              PROVE  FALSE
  OBVIOUS
<1>1. \E U \in T : \A V \in T : V \subseteq U => V = U
  <2>1. T \in SUBSET SUBSET S
    OBVIOUS
  <2>. HIDE DEF T
  <2>. QED
    BY <2>1, HasMinimal
<1>. PICK U \in T : \A V \in T : V \subseteq U => V = U
  BY <1>1
<1>2. \A V \in SUBSET U : V # U => Adds(Adder(f, V), f, V)
  OBVIOUS
<1>. DEFINE Rest(s) == s \ {Picked(s)}
            h == [s \in SUBSET U |-> IF s = {} THEN 0 ELSE f[Picked(s)] + Adder(f, Rest(s))[Rest(s)]]
<1>3. ASSUME NEW V \in SUBSET U, V # U
      PROVE  h[V] = Adder(f, V)[V]
  <2>1. Adds(Adder(f, V), f, V)
    BY <1>2, <1>3
  <2>2. CASE V = {}
    BY <2>1, <2>2 DEF Adds
  <2>3. CASE V # {}
    <3>1. Picked(V) \in V
      BY <2>3, PickedIsIn
    <3>2. Rest(V) \in SUBSET V /\ Rest(V) \in SUBSET U /\ Rest(V) # U
      BY <3>1
    <3>3. Adder(f, V)[V] = f[Picked(V)] + Adder(f, V)[Rest(V)]
      BY <2>1, <2>3 DEF Adds
    <3>4. Adds(Adder(f, Rest(V)), f, Rest(V))
      BY <1>2, <3>2
    <3>5. IsFiniteSet(V)
      BY FS_Subset
    <3>6. Adder(f, V)[Rest(V)] = Adder(f, Rest(V))[Rest(V)]
      BY <2>1, <3>2, <3>4, <3>5, AddersAgree
    <3>7. h[V] = f[Picked(V)] + Adder(f, Rest(V))[Rest(V)]
      BY <2>3
    <3>. QED
      BY <3>3, <3>6, <3>7
  <2>. QED
    BY <2>2, <2>3
<1>4. ASSUME NEW s \in SUBSET U
      PROVE  h[s] = IF s = {} THEN 0 ELSE f[Picked(s)] + h[s \ {Picked(s)}]
  <2>1. CASE s = {}
    BY <2>1
  <2>2. CASE s # {}
    <3>1. Picked(s) \in s
      BY <2>2, PickedIsIn
    <3>2. Rest(s) \in SUBSET U /\ Rest(s) # U
      BY <3>1
    <3>3. h[Rest(s)] = Adder(f, Rest(s))[Rest(s)]
      BY <1>3, <3>2
    <3>4. h[s] = f[Picked(s)] + Adder(f, Rest(s))[Rest(s)]
      BY <2>2
    <3>. QED
      BY <2>2, <3>3, <3>4
  <2>. QED
    BY <2>1, <2>2
<1>5. h = [s \in SUBSET U |-> h[s]]
  OBVIOUS
<1>. HIDE DEF h
<1>6. Adds(h, f, U)
  BY <1>4, <1>5 DEF Adds
<1>7. Adds(Adder(f, U), f, U)
  BY <1>6 DEF Adder
<1>. QED
  BY <1>7

\* The total of a set is that of the rest and the value of the element that is picked.
LEMMA TotalByPick ==
  ASSUME NEW f, NEW S, IsFiniteSet(S)
  PROVE  /\ Total(f, {}) = 0
         /\ S # {} => Total(f, S) = f[Picked(S)] + Total(f, S \ {Picked(S)})
<1>1. \A R \in SUBSET S : Adds(Adder(f, R), f, R)
  BY AdderAdds
<1>2. Total(f, {}) = 0
  <2>1. Adds(Adder(f, {}), f, {})
    BY <1>1
  <2>. QED
    BY <2>1, TotalIsComputed DEF Adds
<1>3. ASSUME S # {}
      PROVE  Total(f, S) = f[Picked(S)] + Total(f, S \ {Picked(S)})
  <2>. DEFINE R == S \ {Picked(S)}
  <2>1. R \in SUBSET S
    OBVIOUS
  <2>2. Adds(Adder(f, S), f, S) /\ Adds(Adder(f, R), f, R)
    BY <1>1, <2>1
  <2>3. Adder(f, S)[S] = f[Picked(S)] + Adder(f, S)[R]
    BY <1>3, <2>2 DEF Adds
  <2>. HIDE DEF R
  <2>4. Adder(f, S)[R] = Adder(f, R)[R]
    BY <2>1, <2>2, AddersAgree
  <2>. QED
    BY <2>3, <2>4, TotalIsComputed DEF R
<1>. QED
  BY <1>2, <1>3

LEMMA TotalIsNumber ==
  ASSUME NEW f, NEW S, IsFiniteSet(S), \A k \in S : f[k] \in Int
  PROVE  Total(f, S) \in Int
<1>. DEFINE T == {R \in SUBSET S : Total(f, R) \notin Int}
<1>. SUFFICES ASSUME T # {}
              PROVE  FALSE
  OBVIOUS
<1>1. \E U \in T : \A V \in T : V \subseteq U => V = U
  <2>1. T \in SUBSET SUBSET S
    OBVIOUS
  <2>. HIDE DEF T
  <2>. QED
    BY <2>1, HasMinimal
<1>. PICK U \in T : \A V \in T : V \subseteq U => V = U
  BY <1>1
<1>2. IsFiniteSet(U)
  BY FS_Subset
<1>3. U # {}
  <2>1. Total(f, {}) = 0
    BY TotalByPick
  <2>2. {} \notin T
    BY <2>1
  <2>. QED
    BY <2>2
<1>4. Picked(U) \in U
  BY <1>3, PickedIsIn
<1>5. Total(f, U \ {Picked(U)}) \in Int
  BY <1>4
<1>. QED
  BY <1>2, <1>3, <1>4, <1>5, TotalByPick

\* In whatever order: the value of any element can be taken out.
LEMMA TotalWithout ==
  ASSUME NEW f, NEW S, IsFiniteSet(S), \A k \in S : f[k] \in Int, NEW x \in S
  PROVE  Total(f, S) = f[x] + Total(f, S \ {x})
<1>. DEFINE Wrong(R) == \E y \in R : Total(f, R) # f[y] + Total(f, R \ {y})
            T == {R \in SUBSET S : Wrong(R)}
<1>. SUFFICES ASSUME T # {}
              PROVE  FALSE
  OBVIOUS
<1>1. \E U \in T : \A V \in T : V \subseteq U => V = U
  <2>1. T \in SUBSET SUBSET S
    OBVIOUS
  <2>. HIDE DEF T
  <2>. QED
    BY <2>1, HasMinimal
<1>. PICK U \in T : \A V \in T : V \subseteq U => V = U
  BY <1>1
<1>2. PICK y \in U : Total(f, U) # f[y] + Total(f, U \ {y})
  OBVIOUS
<1>. DEFINE p == Picked(U)
            A == U \ {p}
            B == U \ {y}
            C == U \ {p, y}
<1>3. p \in U
  BY <1>2, PickedIsIn
<1>4. U \in SUBSET S /\ A \in SUBSET S /\ B \in SUBSET S /\ C \in SUBSET S
  OBVIOUS
<1>5. IsFiniteSet(U) /\ IsFiniteSet(A) /\ IsFiniteSet(B) /\ IsFiniteSet(C)
  BY <1>4, FS_Subset
<1>6. Total(f, U) = f[p] + Total(f, A)
  BY <1>2, <1>5, TotalByPick
<1>7. p # y
  BY <1>2, <1>6
<1>8. ~Wrong(A) /\ ~Wrong(B)
  <2>1. A \notin T /\ B \notin T
    BY <1>2, <1>3
  <2>. QED
    BY <1>4, <2>1
<1>9. A \ {y} = C /\ B \ {p} = C
  OBVIOUS
<1>10. Total(f, A) = f[y] + Total(f, C)
  BY <1>7, <1>8, <1>9
<1>11. Total(f, B) = f[p] + Total(f, C)
  BY <1>3, <1>7, <1>8, <1>9
<1>12. Total(f, C) \in Int /\ f[p] \in Int /\ f[y] \in Int
  BY <1>3, <1>4, <1>5, TotalIsNumber
<1>. HIDE DEF p, A, B, C, T, Wrong
<1>13. Total(f, U) # f[y] + Total(f, B)
  BY <1>2 DEF B
<1>. QED
  BY <1>6, <1>10, <1>11, <1>12, <1>13

\* Only the values of the elements count.
LEMMA TotalOfSame ==
  ASSUME NEW f, NEW g, NEW S, IsFiniteSet(S), \A k \in S : f[k] = g[k]
  PROVE  Total(f, S) = Total(g, S)
<1>. DEFINE T == {R \in SUBSET S : Total(f, R) # Total(g, R)}
<1>. SUFFICES ASSUME T # {}
              PROVE  FALSE
  OBVIOUS
<1>1. \E U \in T : \A V \in T : V \subseteq U => V = U
  <2>1. T \in SUBSET SUBSET S
    OBVIOUS
  <2>. HIDE DEF T
  <2>. QED
    BY <2>1, HasMinimal
<1>. PICK U \in T : \A V \in T : V \subseteq U => V = U
  BY <1>1
<1>2. IsFiniteSet(U)
  BY FS_Subset
<1>3. U # {}
  BY <1>2, TotalByPick
<1>4. Picked(U) \in U
  BY <1>3, PickedIsIn
<1>5. Total(f, U \ {Picked(U)}) = Total(g, U \ {Picked(U)})
  BY <1>4
<1>6. f[Picked(U)] = g[Picked(U)]
  BY <1>4
<1>. QED
  BY <1>2, <1>3, <1>5, <1>6, TotalByPick

LEMMA TotalOfBoth ==
  ASSUME NEW f, NEW A, NEW B, IsFiniteSet(A), IsFiniteSet(B), A \cap B = {},
         \A k \in A \cup B : f[k] \in Int
  PROVE  Total(f, A \cup B) = Total(f, A) + Total(f, B)
<1>. DEFINE T == {R \in SUBSET B : Total(f, A \cup R) # Total(f, A) + Total(f, R)}
<1>. SUFFICES ASSUME T # {}
              PROVE  FALSE
  OBVIOUS
<1>1. \E U \in T : \A V \in T : V \subseteq U => V = U
  <2>1. T \in SUBSET SUBSET B
    OBVIOUS
  <2>. HIDE DEF T
  <2>. QED
    BY <2>1, HasMinimal
<1>. PICK U \in T : \A V \in T : V \subseteq U => V = U
  BY <1>1
<1>2. IsFiniteSet(U) /\ IsFiniteSet(A \cup U)
  BY FS_Subset, FS_Union
<1>3. \A k \in A \cup U : f[k] \in Int
  OBVIOUS
<1>4. U # {}
  <2>1. Total(f, A) \in Int
    BY TotalIsNumber
  <2>2. Total(f, {}) = 0 /\ A \cup {} = A
    BY TotalByPick
  <2>3. Total(f, A \cup {}) = Total(f, A) + Total(f, {})
    BY <2>1, <2>2
  <2>4. {} \notin T
    BY <2>3
  <2>. QED
    BY <2>4
<1>. DEFINE x == Picked(U)
            R == U \ {x}
<1>5. x \in U
  BY <1>4, PickedIsIn
<1>. HIDE DEF x
<1>6. R \in SUBSET B /\ R \notin T
  BY <1>5
<1>7. Total(f, A \cup R) = Total(f, A) + Total(f, R)
  BY <1>6
<1>8. Total(f, U) = f[x] + Total(f, R)
  BY <1>2, <1>3, <1>5, TotalWithout
<1>9. Total(f, A \cup U) = f[x] + Total(f, A \cup R)
  <2>1. (A \cup U) \ {x} = A \cup R
    BY <1>5
  <2>2. Total(f, A \cup U) = f[x] + Total(f, (A \cup U) \ {x})
    BY <1>2, <1>3, <1>5, TotalWithout
  <2>. QED
    BY <2>1, <2>2
<1>10. Total(f, A) \in Int /\ Total(f, R) \in Int /\ f[x] \in Int
  <2>1. IsFiniteSet(R)
    BY <1>2, FS_Subset
  <2>. QED
    BY <1>3, <1>5, <2>1, TotalIsNumber
<1>11. Total(f, A \cup U) # Total(f, A) + Total(f, U)
  OBVIOUS
<1>. HIDE DEF R, T
<1>. QED
  BY <1>7, <1>8, <1>9, <1>10, <1>11

---------------------------------------------------------------------------
(* The statistics of a run *)

\* Statistics count what is in traces/ and not about to be deleted, and what was
\* snapshotted; a snapshot has the evaluations of merges among "other".
KeptFiles == IF stage = "delete" THEN DOMAIN traces \ doomed ELSE DOMAIN traces
KeptOf(c) == {k \in KeptFiles : Category(k) = c}
Column(c) == IF c = "merge_eval" THEN "other" ELSE c

CountsTyped ==
  /\ DOMAIN traces \subseteq Keys /\ IsFiniteSet(DOMAIN traces)
  /\ \A k \in DOMAIN traces : traces[k] \in Int
  /\ DOMAIN agents \subseteq Keys /\ \A k \in DOMAIN agents : agents[k] \in Int
  /\ evaluator # <<>> => evaluator[1] \in Int
  /\ DOMAIN snapshots = Categories /\ DOMAIN recorded = Categories
  /\ \A c \in Categories : snapshots[c] \in Int /\ recorded[c] \in Int

AllCounted ==
  ~disturbed => \A c \in Categories \ {"other"} : Usage(KeptOf(c)) + snapshots[Column(c)] = recorded[c]

UsageInv ==
  /\ CountsTyped /\ AllCounted
  /\ DOMAIN agents # {} => stage = "up"
  /\ stage = "delete" => doomed \subseteq DOMAIN traces
  /\ snapshots["merge_eval"] = 0

LEMMA Categorized ==
  ASSUME NEW k \in Keys
  PROVE  Category(k) \in Categories \ {"other"} /\ SnapshotCategory(k) = Column(Category(k))
<1>1. CASE k = Orchestrator
  BY <1>1 DEF Category, SnapshotCategory, Column, Categories, Orchestrator
<1>2. CASE k = Eval \/ \E n \in 1..MaxStarts : k = MovedEval(n)
  <2>1. k[1] = "eval"
    BY <1>2 DEF Eval, MovedEval
  <2>2. k # Orchestrator
    BY <2>1 DEF Orchestrator
  <2>. QED
    BY <2>1, <2>2 DEF Category, SnapshotCategory, Column, Categories
<1>3. CASE \E n \in 1..MaxStarts : k = Batch(n)
  <2>1. k[1] = "merge_batches"
    BY <1>3 DEF Batch
  <2>2. k # Orchestrator
    BY <2>1 DEF Orchestrator
  <2>. QED
    BY <2>1, <2>2 DEF Category, SnapshotCategory, Column, Categories
<1>4. CASE \E t \in Ids : k \in Of(t)
  <2>1. k[1] \in {"analyzer", "attempt"}
    BY <1>4 DEF Of, Analyzer, Attempt
  <2>2. k # Orchestrator
    BY <2>1 DEF Orchestrator
  <2>. QED
    BY <2>1, <2>2 DEF Category, SnapshotCategory, Column, Categories
<1>. QED
  BY <1>1, <1>2, <1>3, <1>4 DEF Keys

LEMMA UsageIsTotal ==
  ASSUME NEW S
  PROVE  Usage(S) = Total(traces, S)
BY DEF Usage, Total

\* The conjunct of UsageInv that counts, with the sums of a function.
LEMMA CountsAreTotals ==
  AllCounted <=>
    (~disturbed => \A c \in Categories \ {"other"} : Total(traces, KeptOf(c)) + snapshots[Column(c)] = recorded[c])
BY UsageIsTotal DEF AllCounted

LEMMA CountsAreTotalsNext ==
  AllCounted' <=>
    (~disturbed' => \A c \in Categories \ {"other"} : Total(traces', KeptOf(c)') + snapshots'[Column(c)] = recorded'[c])
<1>1. (AllCounted <=>
         (~disturbed => \A c \in Categories \ {"other"} :
            Total(traces, KeptOf(c)) + snapshots[Column(c)] = recorded[c]))'
  BY CountsAreTotals, PTL
<1>. QED
  BY <1>1

\* Steps that neither move nor count anything.
LEMMA SameCounts ==
  ASSUME UsageInv, UNCHANGED <<traces, snapshots, recorded>>, ~disturbed' => ~disturbed,
         ~disturbed' => KeptFiles' = KeptFiles
  PROVE  AllCounted'
<1>1. ASSUME ~disturbed', NEW c \in Categories \ {"other"}
      PROVE  Total(traces', KeptOf(c)') + snapshots'[Column(c)] = recorded'[c]
  <2>1. KeptOf(c)' = KeptOf(c)
    BY <1>1 DEF KeptOf
  <2>2. Total(traces, KeptOf(c)) + snapshots[Column(c)] = recorded[c]
    BY <1>1, CountsAreTotals DEF UsageInv
  <2>. QED
    BY <2>1, <2>2
<1>. QED
  BY <1>1, CountsAreTotalsNext

\* A save: its trace counts anew, and the difference is recorded.
LEMMA SavedCounts ==
  ASSUME UsageInv, NEW k \in Keys, NEW n \in Int, Saved(k, n), UNCHANGED <<stage, snapshots>>,
         ~disturbed' => ~disturbed /\ stage # "delete"
  PROVE  /\ AllCounted'
         /\ DOMAIN traces' = DOMAIN traces \cup {k} /\ IsFiniteSet(DOMAIN traces')
         /\ \A x \in DOMAIN traces' : traces'[x] \in Int
         /\ DOMAIN recorded' = Categories /\ \A c \in Categories : recorded'[c] \in Int
<1>1. /\ DOMAIN traces' = DOMAIN traces \cup {k}
      /\ \A x \in DOMAIN traces' : traces'[x] = IF x = k THEN n ELSE traces[x]
  BY DEF Saved, Put
<1>2. IsFiniteSet(DOMAIN traces) /\ IsFiniteSet(DOMAIN traces')
  <2>1. IsFiniteSet(DOMAIN traces)
    BY DEF UsageInv, CountsTyped
  <2>2. IsFiniteSet(DOMAIN traces \cup {k})
    BY <2>1, FS_AddElement
  <2>. QED
    BY <1>1, <2>1, <2>2
<1>3. \A x \in DOMAIN traces' : traces'[x] \in Int
  BY <1>1 DEF UsageInv, CountsTyped
<1>4. Category(k) \in Categories \ {"other"}
  BY Categorized
<1>5. Count(k) \in Int
  BY DEF Count, UsageInv, CountsTyped
<1>6. /\ DOMAIN recorded' = Categories
      /\ \A c \in Categories :
           recorded'[c] = IF c = Category(k) THEN (recorded[c] + n) - Count(k) ELSE recorded[c]
  BY <1>4 DEF Saved, UsageInv, CountsTyped
<1>7. \A c \in Categories : recorded'[c] \in Int
  BY <1>5, <1>6 DEF UsageInv, CountsTyped
<1>8. ASSUME ~disturbed', NEW c \in Categories \ {"other"}
      PROVE  Total(traces', KeptOf(c)') + snapshots'[Column(c)] = recorded'[c]
  <2>1. KeptOf(c) = {x \in DOMAIN traces : Category(x) = c} /\ KeptOf(c)' = {x \in DOMAIN traces' : Category(x) = c}
    BY <1>8 DEF KeptOf, KeptFiles
  <2>2. Total(traces, KeptOf(c)) + snapshots[Column(c)] = recorded[c]
    BY <1>8, CountsAreTotals DEF UsageInv
  <2>3. IsFiniteSet(KeptOf(c)) /\ IsFiniteSet(KeptOf(c)')
    BY <1>2, <2>1, FS_Subset
  <2>4. \A x \in KeptOf(c) : traces[x] \in Int
    BY <2>1 DEF UsageInv, CountsTyped
  <2>5. snapshots[Column(c)] \in Int /\ recorded[c] \in Int
    BY DEF UsageInv, CountsTyped, Column, Categories
  <2>6. CASE c # Category(k)
    <3>1. KeptOf(c)' = KeptOf(c)
      BY <1>1, <2>1, <2>6
    <3>2. \A x \in KeptOf(c) : traces'[x] = traces[x]
      BY <1>1, <2>1, <2>6
    <3>3. Total(traces', KeptOf(c)) = Total(traces, KeptOf(c))
      BY <2>3, <3>2, TotalOfSame
    <3>. QED
      BY <1>6, <2>2, <2>6, <3>1, <3>3
  <2>7. CASE c = Category(k)
    <3>. DEFINE R == KeptOf(c) \ {k}
    <3>1. KeptOf(c)' = R \cup {k} /\ k \in KeptOf(c)' /\ KeptOf(c)' \ {k} = R
      BY <1>1, <2>1, <2>7
    <3>2. IsFiniteSet(R)
      BY <2>3, FS_Subset
    <3>3. \A x \in R : traces'[x] = traces[x]
      BY <1>1, <2>1
    <3>. HIDE DEF R
    <3>4. Total(traces', R) = Total(traces, R)
      BY <3>2, <3>3, TotalOfSame
    <3>5. Total(traces', KeptOf(c)') = n + Total(traces', R)
      <4>1. traces'[k] = n
        BY <1>1
      <4>2. \A x \in KeptOf(c)' : traces'[x] \in Int
        BY <1>3, <2>1
      <4>. QED
        BY <2>3, <3>1, <4>1, <4>2, TotalWithout
    <3>6. Total(traces, KeptOf(c)) = Count(k) + Total(traces, R) /\ Total(traces, R) \in Int
      <4>1. \A x \in R : traces[x] \in Int
        BY <2>4 DEF R
      <4>2. Total(traces, R) \in Int
        BY <3>2, <4>1, TotalIsNumber
      <4>3. CASE k \in DOMAIN traces
        <5>1. k \in KeptOf(c) /\ Count(k) = traces[k]
          BY <2>1, <2>7, <4>3 DEF Count
        <5>. QED
          BY <2>3, <2>4, <4>2, <5>1, TotalWithout DEF R
      <4>4. CASE k \notin DOMAIN traces
        <5>1. R = KeptOf(c) /\ Count(k) = 0
          BY <2>1, <4>4 DEF R, Count
        <5>. QED
          BY <4>2, <5>1
      <4>. QED
        BY <4>3, <4>4
    <3>7. recorded'[c] = (recorded[c] + n) - Count(k)
      BY <1>6, <2>7
    <3>. QED
      BY <1>5, <2>2, <2>5, <3>4, <3>5, <3>6, <3>7
  <2>. QED
    BY <2>6, <2>7
<1>9. AllCounted'
  BY <1>8, CountsAreTotalsNext
<1>. QED
  BY <1>1, <1>2, <1>3, <1>6, <1>7, <1>9

\* A snapshot counts what the deletions after it will take.
LEMMA SnapshotCounts ==
  ASSUME UsageInv, Snapshot
  PROVE  UsageInv'
<1>. DEFINE F == Found(doomed)
            Of2(c) == {k \in F : SnapshotCategory(k) = c}
<1>1. /\ stage = "snapshot" /\ stage' = "delete" /\ doomed' = F
      /\ \A c \in Categories : snapshots'[c] = snapshots[c] + Usage(Of2(c))
      /\ DOMAIN snapshots' = Categories
      /\ UNCHANGED <<traces, agents, evaluator, recorded, disturbed>>
  BY DEF Snapshot, history
<1>2. F \subseteq DOMAIN traces
  BY DEF Found
<1>. HIDE DEF F
<1>3. \A c \in Categories : snapshots'[c] = snapshots[c] + Total(traces, Of2(c))
  <2>. HIDE DEF Of2
  <2>. QED
    BY <1>1, UsageIsTotal
<1>4. IsFiniteSet(F) /\ IsFiniteSet(DOMAIN traces) /\ \A c : IsFiniteSet(Of2(c))
  BY <1>2, FS_Subset DEF UsageInv, CountsTyped
<1>5. \A k \in DOMAIN traces : traces[k] \in Int
  BY DEF UsageInv, CountsTyped
<1>6. \A c : Total(traces, Of2(c)) \in Int
  BY <1>2, <1>4, <1>5, TotalIsNumber
<1>7. CountsTyped'
  <2>. HIDE DEF Of2
  <2>1. \A c \in Categories : snapshots'[c] \in Int
    BY <1>3, <1>6 DEF UsageInv, CountsTyped
  <2>. QED
    BY <1>1, <2>1 DEF UsageInv, CountsTyped
<1>8. snapshots'["merge_eval"] = 0
  <2>1. \A k \in F : SnapshotCategory(k) # "merge_eval"
    BY <1>2, Categorized DEF UsageInv, CountsTyped, Column
  <2>2. Of2("merge_eval") = {}
    BY <2>1
  <2>3. Total(traces, {}) = 0
    BY TotalByPick, FS_EmptySet
  <2>. HIDE DEF Of2
  <2>. QED
    BY <1>3, <2>2, <2>3 DEF UsageInv, Categories
<1>9. ASSUME ~disturbed', NEW c \in Categories \ {"other"}
      PROVE  Total(traces', KeptOf(c)') + snapshots'[Column(c)] = recorded'[c]
  <2>. DEFINE Gone == {k \in F : Category(k) = c}
  <2>1. KeptOf(c) = {k \in DOMAIN traces : Category(k) = c} /\ KeptOf(c)' = {k \in DOMAIN traces \ F : Category(k) = c}
    BY <1>1 DEF KeptOf, KeptFiles
  <2>2. Of2(Column(c)) = Gone
    <3>1. ASSUME NEW k \in F
          PROVE  SnapshotCategory(k) = Column(c) <=> Category(k) = c
      <4>1. Category(k) \in Categories \ {"other"} /\ SnapshotCategory(k) = Column(Category(k))
        BY <1>2, Categorized DEF UsageInv, CountsTyped
      <4>. QED
        BY <4>1 DEF Column
    <3>. QED
      BY <3>1
  <2>3. KeptOf(c) = KeptOf(c)' \cup Gone /\ KeptOf(c)' \cap Gone = {}
    BY <1>2, <2>1
  <2>4. IsFiniteSet(KeptOf(c)') /\ IsFiniteSet(Gone)
    BY <1>4, <2>1, FS_Subset
  <2>5. \A k \in KeptOf(c)' \cup Gone : traces[k] \in Int
    BY <1>2, <1>5, <2>1
  <2>. DEFINE K1 == KeptOf(c)'
  <2>. HIDE DEF Gone, K1
  <2>6. Total(traces, KeptOf(c)) = Total(traces, K1) + Total(traces, Gone)
    BY <2>3, <2>4, <2>5, TotalOfBoth DEF K1
  <2>7. Total(traces, K1) \in Int /\ Total(traces, Gone) \in Int
    BY <2>4, <2>5, TotalIsNumber DEF K1
  <2>8. Total(traces, KeptOf(c)) + snapshots[Column(c)] = recorded[c]
    BY <1>1, <1>9, CountsAreTotals DEF UsageInv
  <2>9. snapshots'[Column(c)] = snapshots[Column(c)] + Total(traces, Gone) /\ snapshots[Column(c)] \in Int
    <3>1. Column(c) \in Categories
      BY DEF Column, Categories
    <3>. HIDE DEF Of2
    <3>. QED
      BY <1>3, <2>2, <3>1 DEF UsageInv, CountsTyped
  <2>10. Total(traces', K1) = Total(traces, K1) /\ recorded'[c] = recorded[c]
    BY <1>1
  <2>. QED
    BY <2>6, <2>7, <2>8, <2>9, <2>10 DEF K1
<1>10. AllCounted'
  BY <1>9, CountsAreTotalsNext
<1>. QED
  BY <1>1, <1>2, <1>7, <1>8, <1>10 DEF UsageInv

\* What is left to show of steps that leave the counts alone.
LEMMA OtherCounts ==
  ASSUME UsageInv, FilesTyped', UNCHANGED <<traces, snapshots, recorded>>, disturbed' = disturbed,
         KeptFiles' = KeptFiles, stage' = "delete" => doomed' \subseteq DOMAIN traces,
         \A k \in DOMAIN agents' : agents'[k] \in Int, DOMAIN agents' # {} => stage' = "up",
         evaluator' # <<>> => evaluator'[1] \in Int
  PROVE  UsageInv'
<1>1. AllCounted'
  BY SameCounts
<1>2. CountsTyped'
  BY DEF UsageInv, CountsTyped, FilesTyped
<1>. QED
  BY <1>1, <1>2 DEF UsageInv

LEMMA PreparationCounts ==
  ASSUME UsageInv, FilesTyped', Preparation
  PROVE  UsageInv'
<1>0. /\ \A k \in DOMAIN agents : agents[k] \in Int
      /\ DOMAIN agents # {} => stage = "up"
      /\ evaluator # <<>> => evaluator[1] \in Int
  BY DEF UsageInv, CountsTyped
<1>1. CASE Prune
  <2>1. /\ UNCHANGED <<traces, snapshots, recorded, disturbed, agents, evaluator>>
        /\ stage = "prune" /\ stage' = "snapshot"
    BY <1>1 DEF Prune, disk
  <2>2. KeptFiles' = KeptFiles
    BY <2>1 DEF KeptFiles
  <2>. QED
    BY <1>0, <2>1, <2>2, OtherCounts
<1>2. CASE Snapshot
  BY <1>2, SnapshotCounts
<1>3. ASSUME NEW k \in doomed, Delete(k)
      PROVE  UsageInv'
  <2>1. /\ stage = "delete" /\ stage' = stage /\ doomed' = doomed \ {k}
        /\ DOMAIN traces' = DOMAIN traces \ {k} /\ \A x \in DOMAIN traces' : traces'[x] = traces[x]
        /\ UNCHANGED <<agents, evaluator, snapshots, recorded, disturbed>>
    BY <1>3 DEF Delete, Without, history
  <2>2. doomed \subseteq DOMAIN traces /\ KeptFiles' = KeptFiles /\ KeptFiles \subseteq DOMAIN traces'
    BY <2>1 DEF UsageInv, KeptFiles
  <2>3. IsFiniteSet(DOMAIN traces) /\ IsFiniteSet(DOMAIN traces')
    <3>1. IsFiniteSet(DOMAIN traces)
      BY DEF UsageInv, CountsTyped
    <3>. QED
      BY <2>1, <3>1, FS_RemoveElement
  <2>4. CountsTyped'
    BY <2>1, <2>3 DEF UsageInv, CountsTyped
  <2>5. ASSUME ~disturbed', NEW c \in Categories \ {"other"}
        PROVE  Total(traces', KeptOf(c)') + snapshots'[Column(c)] = recorded'[c]
    <3>1. KeptOf(c)' = KeptOf(c) /\ KeptOf(c) \subseteq DOMAIN traces'
      BY <2>2 DEF KeptOf
    <3>2. IsFiniteSet(KeptOf(c)) /\ \A x \in KeptOf(c) : traces'[x] = traces[x]
      BY <2>1, <2>3, <3>1, FS_Subset
    <3>3. Total(traces', KeptOf(c)) = Total(traces, KeptOf(c))
      BY <3>2, TotalOfSame
    <3>4. Total(traces, KeptOf(c)) + snapshots[Column(c)] = recorded[c]
      BY <2>1, <2>5, CountsAreTotals DEF UsageInv
    <3>. QED
      BY <2>1, <3>1, <3>3, <3>4
  <2>6. AllCounted'
    BY <2>5, CountsAreTotalsNext
  <2>. QED
    BY <2>1, <2>2, <2>4, <2>6 DEF UsageInv
<1>4. CASE Prepared
  <2>1. /\ UNCHANGED <<traces, snapshots, recorded, disturbed, agents, evaluator>>
        /\ stage = "delete" /\ stage' = "ready" /\ doomed = {}
    BY <1>4 DEF Prepared, disk, history
  <2>2. KeptFiles' = KeptFiles
    BY <2>1 DEF KeptFiles
  <2>. QED
    BY <1>0, <2>1, <2>2, OtherCounts
<1>. QED
  BY <1>1, <1>2, <1>3, <1>4 DEF Preparation

LEMMA LifeCounts ==
  ASSUME UsageInv, FilesTyped', Life
  PROVE  UsageInv'
<1>0. /\ \A k \in DOMAIN agents : agents[k] \in Int
      /\ DOMAIN agents # {} => stage = "up"
      /\ evaluator # <<>> => evaluator[1] \in Int
  BY DEF UsageInv, CountsTyped
<1>1. ASSUME NEW fresh \in BOOLEAN, Start(fresh)
      PROVE  UsageInv'
  <2>1. /\ UNCHANGED <<traces, snapshots, recorded, disturbed, agents, evaluator>>
        /\ stage = "down" /\ stage' \in {"prune", "ready"}
    BY <1>1 DEF Start, disk, history
  <2>2. KeptFiles' = KeptFiles
    BY <2>1 DEF KeptFiles
  <2>. QED
    BY <1>0, <2>1, <2>2, OtherCounts
<1>2. CASE Open
  <2>1. /\ UNCHANGED <<traces, snapshots, recorded, disturbed, evaluator>>
        /\ stage = "ready" /\ stage' = "up"
    BY <1>2 DEF Open, history
  <2>2. \A k \in DOMAIN agents' : agents'[k] \in Int
    <3>. DEFINE n == IF Orchestrator \in DOMAIN traces THEN traces[Orchestrator] ELSE 0
    <3>1. n \in Int
      BY DEF UsageInv, CountsTyped
    <3>2. agents' = Put(<<>>, Orchestrator, n)
      BY <1>2 DEF Open
    <3>3. DOMAIN agents' = {Orchestrator} /\ agents'[Orchestrator] = n
      BY <3>2 DEF Put
    <3>. QED
      BY <3>1, <3>3
  <2>3. KeptFiles' = KeptFiles
    BY <2>1 DEF KeptFiles
  <2>. QED
    BY <1>0, <2>1, <2>2, <2>3, OtherCounts
<1>3. CASE Stop
  <2>1. /\ UNCHANGED <<traces, snapshots, recorded, disturbed, evaluator>>
        /\ stage = "up" /\ stage' = "down" /\ agents' = <<>>
    BY <1>3 DEF Stop, history
  <2>2. KeptFiles' = KeptFiles
    BY <2>1 DEF KeptFiles
  <2>. QED
    BY <1>0, <2>1, <2>2, OtherCounts
<1>4. CASE Killed
  <2>1. /\ UNCHANGED <<traces, snapshots, recorded, evaluator>>
        /\ stage' = "down" /\ agents' = <<>>
        /\ disturbed' = (disturbed \/ stage \in {"snapshot", "delete"})
    BY <1>4 DEF Killed, disk
  <2>2. AllCounted'
    <3>1. CASE stage = "delete"
      BY <2>1, <3>1 DEF AllCounted
    <3>2. CASE stage # "delete"
      <4>1. KeptFiles' = KeptFiles
        BY <2>1, <3>2 DEF KeptFiles
      <4>2. ~disturbed' => ~disturbed
        BY <2>1
      <4>. QED
        BY <2>1, <4>1, <4>2, SameCounts
    <3>. QED
      BY <3>1, <3>2
  <2>3. CountsTyped'
    BY <2>1 DEF UsageInv, CountsTyped, FilesTyped
  <2>. QED
    BY <2>1, <2>2, <2>3 DEF UsageInv
<1>. QED
  BY <1>1, <1>2, <1>3, <1>4 DEF Life

LEMMA WorkCounts ==
  ASSUME UsageInv, FilesTyped, FilesTyped', Work
  PROVE  UsageInv'
<1>0. /\ \A k \in DOMAIN agents : agents[k] \in Int
      /\ DOMAIN agents # {} => stage = "up"
      /\ evaluator # <<>> => evaluator[1] \in Int
      /\ DOMAIN agents \subseteq Keys
      /\ stage = "delete" => doomed \subseteq DOMAIN traces
  BY DEF UsageInv, CountsTyped
<1>1. ASSUME NEW k \in DOMAIN agents, Call(k)
      PROVE  UsageInv'
  <2>1. /\ agents' = [agents EXCEPT ![k] = @ + 1] /\ Saved(k, agents[k] + 1)
        /\ stage = "up" /\ UNCHANGED <<stage, doomed, evaluator, snapshots, disturbed>>
    BY <1>0, <1>1 DEF Call
  <2>2. k \in Keys /\ agents[k] + 1 \in Int
    BY <1>0
  <2>3. /\ AllCounted'
        /\ DOMAIN traces' = DOMAIN traces \cup {k} /\ IsFiniteSet(DOMAIN traces')
        /\ \A x \in DOMAIN traces' : traces'[x] \in Int
        /\ DOMAIN recorded' = Categories /\ \A c \in Categories : recorded'[c] \in Int
    BY <2>1, <2>2, SavedCounts
  <2>4. \A x \in DOMAIN agents' : agents'[x] \in Int
    BY <1>0, <2>1
  <2>5. CountsTyped'
    BY <2>1, <2>3, <2>4 DEF UsageInv, CountsTyped, FilesTyped
  <2>. QED
    BY <2>1, <2>3, <2>5 DEF UsageInv
<1>2. ASSUME Work, \A k \in DOMAIN agents : ~Call(k)
      PROVE  UsageInv'
  <2>1. /\ UNCHANGED <<traces, snapshots, recorded, disturbed, stage, doomed, evaluator>>
        /\ stage = "up"
    BY <1>2 DEF Work, AddTask, EvaluateMerge, Dispatch, Result, Replan, disk, history
  <2>2. KeptFiles' = KeptFiles
    BY <2>1 DEF KeptFiles
  <2>3. \A k \in DOMAIN agents' : agents'[k] \in Int
    <3>1. CASE UNCHANGED agents
      BY <1>0, <3>1
    <3>2. CASE EvaluateMerge
      BY <1>0, <3>2 DEF EvaluateMerge, Put
    <3>3. ASSUME NEW t \in Ids, Dispatch(t)
          PROVE  \A k \in DOMAIN agents' : agents'[k] \in Int
      BY <1>0, <3>3 DEF Dispatch, Put
    <3>4. ASSUME NEW t \in Ids, NEW status, Result(t, status)
          PROVE  \A k \in DOMAIN agents' : agents'[k] \in Int
      <4>. DEFINE rest == Without(agents, {Attempt(t, dag[t].attempts + 1)})
      <4>1. \A k \in DOMAIN rest : rest[k] \in Int
        BY <1>0 DEF Without
      <4>2. agents' = rest \/ agents' = Put(rest, Analyzer(t), 0)
        BY <3>4 DEF Result
      <4>. HIDE DEF rest
      <4>. QED
        BY <4>1, <4>2 DEF Put
    <3>5. CASE AddTask \/ \E t \in Ids : \E status \in {"pending", "deleted"} : Replan(t, status)
      BY <1>0, <3>5 DEF AddTask, Replan
    <3>. QED
      BY <1>2, <3>1, <3>2, <3>3, <3>4, <3>5 DEF Work
  <2>. QED
    BY <1>0, <2>1, <2>2, <2>3, OtherCounts
<1>. QED
  BY <1>1, <1>2

LEMMA EvaluationCounts ==
  ASSUME UsageInv, FilesTyped, FilesTyped', Evaluation
  PROVE  UsageInv'
<1>0. /\ \A k \in DOMAIN agents : agents[k] \in Int
      /\ DOMAIN agents # {} => stage = "up"
      /\ evaluator # <<>> => evaluator[1] \in Int
      /\ stage = "delete" => doomed \subseteq DOMAIN traces
  BY DEF UsageInv, CountsTyped
<1>1. CASE Evaluate \/ EvalEnds
  <2>1. /\ UNCHANGED <<traces, snapshots, recorded, disturbed, stage, doomed, agents>>
        /\ evaluator' \in {<<>>, <<0>>}
    BY <1>1 DEF Evaluate, EvalEnds, disk, history, pipeline
  <2>2. KeptFiles' = KeptFiles
    BY <2>1 DEF KeptFiles
  <2>3. evaluator' # <<>> => evaluator'[1] \in Int
    BY <2>1
  <2>. QED
    BY <1>0, <2>1, <2>2, <2>3, OtherCounts
<1>2. CASE EvalCall
  <2>1. /\ evaluator # <<>> /\ evaluator' = <<evaluator[1] + 1>> /\ Saved(Eval, evaluator[1] + 1)
        /\ ~disturbed' => ~disturbed /\ stage # "delete"
        /\ UNCHANGED <<stage, doomed, agents, snapshots>>
    BY <1>2 DEF EvalCall, pipeline
  <2>2. Eval \in Keys /\ evaluator[1] + 1 \in Int
    BY <1>0, <2>1, KeysNamed
  <2>3. /\ AllCounted'
        /\ DOMAIN traces' = DOMAIN traces \cup {Eval} /\ IsFiniteSet(DOMAIN traces')
        /\ \A x \in DOMAIN traces' : traces'[x] \in Int
        /\ DOMAIN recorded' = Categories /\ \A c \in Categories : recorded'[c] \in Int
    BY <2>1, <2>2, SavedCounts
  <2>4. evaluator'[1] \in Int
    BY <2>1, <2>2
  <2>5. CountsTyped'
    BY <2>1, <2>3, <2>4 DEF UsageInv, CountsTyped, FilesTyped
  <2>. QED
    BY <1>0, <2>1, <2>3, <2>5 DEF UsageInv
<1>. QED
  BY <1>1, <1>2 DEF Evaluation


\* The statistics' inductive invariant, beside that of the files.
LEMMA UsageStep ==
  ASSUME UsageInv, FilesInv, FilesInv', [RunNext]_runVars
  PROVE  UsageInv'
<1>0. FilesTyped /\ FilesTyped'
  BY DEF FilesInv
<1>1. CASE Visualizer \/ UNCHANGED runVars
  <2>1. UNCHANGED <<traces, snapshots, recorded, disturbed, stage, doomed, agents, evaluator>>
    BY <1>1 DEF Visualizer, Scan, Rescan, runVars, pipeline, disk, history
  <2>2. KeptFiles' = KeptFiles
    BY <2>1 DEF KeptFiles
  <2>. QED
    BY <1>0, <2>1, <2>2, OtherCounts DEF UsageInv, CountsTyped
<1>. QED
  BY <1>0, <1>1, PreparationCounts, LifeCounts, WorkCounts, EvaluationCounts DEF RunNext

\* prepare_fresh_run() and _load_run_data(): whatever is pruned, deleted, moved and called
\* in whatever number of starts, the page adds up to the calls on record, unless a
\* preparation was killed midway or met an evaluation.
THEOREM StatisticsAlwaysCount == RunSpec => []UsageCounted
<1>1. RunInit => UsageInv
  <2>. SUFFICES ASSUME RunInit
                PROVE  UsageInv
    OBVIOUS
  <2>1. /\ traces = <<>> /\ agents = <<>> /\ evaluator = <<>> /\ stage = "down"
        /\ snapshots = [c \in Categories |-> 0] /\ recorded = [c \in Categories |-> 0]
    BY DEF RunInit
  <2>2. CountsTyped
    BY <2>1, FS_EmptySet DEF CountsTyped
  <2>3. ASSUME NEW c \in Categories \ {"other"}
        PROVE  Total(traces, KeptOf(c)) + snapshots[Column(c)] = recorded[c]
    <3>1. KeptOf(c) = {}
      BY <2>1 DEF KeptOf, KeptFiles
    <3>2. Total(traces, {}) = 0
      BY TotalByPick, FS_EmptySet
    <3>3. snapshots[Column(c)] = 0 /\ recorded[c] = 0
      BY <2>1 DEF Column, Categories
    <3>. QED
      BY <3>1, <3>2, <3>3
  <2>4. AllCounted
    BY <2>3, CountsAreTotals
  <2>. QED
    BY <2>1, <2>2, <2>4 DEF UsageInv, Categories
<1>2. FilesInv /\ FilesInv' /\ UsageInv /\ [RunNext]_runVars => UsageInv'
  BY UsageStep
<1>3. UsageInv => UsageCounted
  <2>. SUFFICES ASSUME UsageInv, ~disturbed, stage \in {"down", "ready", "up"}
                PROVE  /\ \A c \in Categories \ {"merge_eval", "other"} : Shown(c) = recorded[c]
                       /\ Shown("merge_eval") + Shown("other") = recorded["merge_eval"]
    BY DEF UsageCounted
  <2>1. \A c : Shown(c) = Total(traces, KeptOf(c)) + snapshots[c]
    BY UsageIsTotal DEF Shown, KeptOf, KeptFiles
  <2>2. \A c \in Categories \ {"other"} : Total(traces, KeptOf(c)) + snapshots[Column(c)] = recorded[c]
    BY CountsAreTotals DEF UsageInv
  <2>3. KeptOf("other") = {}
    BY Categorized DEF KeptOf, KeptFiles, UsageInv, CountsTyped
  <2>4. Total(traces, KeptOf("other")) = 0
    BY <2>3, TotalByPick, FS_EmptySet
  <2>5. Total(traces, KeptOf("merge_eval")) \in Int
    <3>1. KeptOf("merge_eval") \subseteq DOMAIN traces /\ IsFiniteSet(DOMAIN traces)
          /\ \A k \in DOMAIN traces : traces[k] \in Int
      BY DEF KeptOf, KeptFiles, UsageInv, CountsTyped
    <3>2. IsFiniteSet(KeptOf("merge_eval"))
      BY <3>1, FS_Subset
    <3>. QED
      BY <3>1, <3>2, TotalIsNumber
  <2>6. snapshots["merge_eval"] = 0 /\ snapshots["other"] \in Int
    BY DEF UsageInv, CountsTyped, Categories
  <2>7. Shown("merge_eval") + Shown("other") = recorded["merge_eval"]
    <3>1. Total(traces, KeptOf("merge_eval")) + snapshots["other"] = recorded["merge_eval"]
      BY <2>2 DEF Column, Categories
    <3>. QED
      BY <2>1, <2>4, <2>5, <2>6, <3>1
  <2>. QED
    BY <2>1, <2>2, <2>7 DEF Column
<1>. QED
  BY <1>1, <1>2, <1>3, FilesInvariant, PTL DEF RunSpec
=============================================================================
