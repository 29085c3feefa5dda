-------------------------- MODULE EvaluationProofs --------------------------
(***************************************************************************)
(* Proofs about Evaluation, for any targets, declarations, axioms,         *)
(* rubrics, graphs without cycles, lists of targets asked for, slots,      *)
(* retries and progress batches: every target gets its result, what passes *)
(* has earned it, an inherited failure has a root, and the goals of a list *)
(* in order get their own verdicts.                                        *)
(***************************************************************************)
EXTENDS Evaluation, FiniteSetTheorems, SequenceTheorems, TLAPS

\* The list of targets asked for is in the order of their indices.
InOrder == \A i, j \in Positions : i < j => asked[i] <= asked[j]

Assessments ==
  [at : Places, decl : Decls \cup {None, Nameless}, retries : 0..MaxRetries, checked : BOOLEAN,
   votes : [Rubrics -> {None, "pass", "fail"}], issues : SUBSET Axioms, only : BOOLEAN]

\* An assessment has a declaration to work on, and then one Lean has resolved, or without
\* a name.
Fit(t) ==
  /\ t.at \in {"waiting", "matching"} => t.retries = 0
  /\ t.at = "checking" => t.retries < MaxRetries
  /\ t.at \in {"checking", "matched", "judging"} => t.decl # None
  /\ t.at \in {"matched", "judging"} => t.checked \/ t.decl = Nameless

WorkInv == \A i \in Positions : Fit(task[i])

\* A result that passes, or has verdicts on axioms, is of a declaration Lean resolved, or
\* of one without a name.
Earned(e) ==
  /\ ~e.inherited
  /\ e.passed \/ e.issues # {} => e.decl # None /\ (e.checked \/ e.decl = Nameless)
  /\ e.passed => \A r \in Rubrics : e.votes[r] = "pass"

\* Results are of different assessments, all of which are over.
FinishedInv ==
  /\ \A k \in DOMAIN finished : Earned(finished[k])
  /\ \E p \in Injection(DOMAIN finished, Positions) :
       \A k \in DOMAIN finished : task[p[k]].at = "finished" /\ finished[k].idx = asked[p[k]]

\* Nothing is returned before the end; then the results of a list in order are at their
\* targets' positions.
ReturnedInv ==
  /\ phase \in {"gate", "assessing"} => results = <<>> /\ final = <<>>
  /\ HasEnded /\ InOrder => DOMAIN results = Positions /\ \A k \in Positions : results[k].idx = asked[k]

\* When all results of a book are handed over, the progress report has them.
ReportInv ==
  /\ phase = "gate" => collected = 0
  /\ phase = "assessing" /\ caller = "book" /\ collected = Len(asked) => report = SubSeq(finished, 1, collected)

EvalInv ==
  /\ TypeOK /\ WorkInv /\ FinishedInv /\ ReturnedInv
  /\ EveryTargetReported /\ PassedIsEarned /\ RootRemains /\ OwnVerdictInOrder
---------------------------------------------------------------------------
(* Maxima, and the sorting of results *)

\* Sets of positions have a last element, and a stretch of n positions has n.
LEMMA HasLast ==
  ASSUME NEW n \in Nat, NEW S \in SUBSET (1..n), S # {}
  PROVE  \E k \in S : \A j \in S : j <= k
<1>. DEFINE Above(k) == {j \in 1..n : k < j}
            T == {Above(k) : k \in S}
<1>1. T \subseteq FiniteSubsetsOf(1..n) /\ T # {}
  <2>1. IsFiniteSet(1..n)
    BY FS_Interval
  <2>2. FiniteSubsetsOf(1..n) = SUBSET (1..n)
    BY <2>1, FS_FiniteSubsetsOfFinite
  <2>3. PICK k \in S : TRUE
    OBVIOUS
  <2>4. Above(k) \in T
    BY <2>3
  <2>5. \A j : Above(j) \subseteq 1..n
    OBVIOUS
  <2>6. T \subseteq SUBSET (1..n)
    BY <2>5
  <2>. QED
    BY <2>2, <2>4, <2>6
<1>2. PICK U \in T : \A V \in T : <<V, U>> \notin StrictSubsetOrdering(1..n)
  BY <1>1, FS_StrictSubsetOrderingWellFounded, WFMin
<1>3. PICK k \in S : U = Above(k)
  BY <1>2
<1>4. ASSUME NEW j \in S, ~(j <= k)
      PROVE  FALSE
  <2>1. Above(j) \in T /\ Above(j) \subseteq Above(k) /\ j \in Above(k) /\ j \notin Above(j)
    BY <1>4
  <2>2. <<Above(j), Above(k)>> \in StrictSubsetOrdering(1..n)
    BY <2>1 DEF StrictSubsetOrdering
  <2>. QED
    BY <1>2, <1>3, <2>1, <2>2
<1>. QED
  BY <1>4

LEMMA Stretch ==
  ASSUME NEW n \in Nat
  PROVE  IsFiniteSet(1..n) /\ Cardinality(1..n) = n
BY FS_Interval

\* The results no later than one, which its rank counts.
UpTo(s, j) == {m \in DOMAIN s : s[m].idx < s[j].idx \/ (s[m].idx = s[j].idx /\ m <= j)}

\* Sorting permutes: each position gets the result of the rank that is its number.
LEMMA SortedPermutes ==
  ASSUME NEW s \in Seq(Results)
  PROVE  \E q \in Bijection(DOMAIN s, DOMAIN s) :
           /\ DOMAIN Sorted(s) = DOMAIN s
           /\ \A k \in DOMAIN s : Sorted(s)[k] = s[q[k]] /\ Cardinality(UpTo(s, q[k])) = k
<1>. DEFINE n == Len(s)
            r == [j \in DOMAIN s |-> Cardinality(UpTo(s, j))]
<1>1. /\ n \in Nat /\ DOMAIN s = 1..n
      /\ \A j \in DOMAIN s : s[j].idx \in Nat
      /\ IsFiniteSet(DOMAIN s) /\ Cardinality(DOMAIN s) = n
  <2>1. n \in Nat /\ DOMAIN s = 1..n /\ \A j \in DOMAIN s : s[j] \in Results
    OBVIOUS
  <2>2. \A e \in Results : e.idx \in Nat
    BY EvaluationAssumption DEF Results
  <2>. QED
    BY <2>1, <2>2, Stretch
<1>2. ASSUME NEW j \in DOMAIN s
      PROVE  /\ UpTo(s, j) \in SUBSET DOMAIN s /\ j \in UpTo(s, j)
             /\ IsFiniteSet(UpTo(s, j)) /\ Cardinality(UpTo(s, j)) \in 1..n
  <2>1. UpTo(s, j) \in SUBSET DOMAIN s /\ j \in UpTo(s, j)
    BY <1>1 DEF UpTo
  <2>2. IsFiniteSet(UpTo(s, j)) /\ Cardinality(UpTo(s, j)) <= n
    BY <1>1, <2>1, FS_Subset
  <2>3. Cardinality(UpTo(s, j)) \in Nat /\ Cardinality(UpTo(s, j)) # 0
    BY <2>1, <2>2, FS_CardinalityType, FS_EmptySet
  <2>. QED
    BY <1>1, <2>1, <2>2, <2>3
<1>3. ASSUME NEW i \in DOMAIN s, NEW j \in DOMAIN s, i # j
      PROVE  Cardinality(UpTo(s, i)) # Cardinality(UpTo(s, j))
  <2>1. (UpTo(s, i) \subseteq UpTo(s, j) /\ j \notin UpTo(s, i)) \/ (UpTo(s, j) \subseteq UpTo(s, i) /\ i \notin UpTo(s, j))
    BY <1>1, <1>3 DEF UpTo
  <2>2. UpTo(s, i) # UpTo(s, j)
    BY <1>2, <2>1
  <2>3. CASE UpTo(s, i) \subseteq UpTo(s, j)
    BY <1>2, <2>2, <2>3, FS_Subset
  <2>4. CASE UpTo(s, j) \subseteq UpTo(s, i)
    BY <1>2, <2>2, <2>4, FS_Subset
  <2>. QED
    BY <2>1, <2>3, <2>4
<1>4. r \in Injection(DOMAIN s, DOMAIN s)
  BY <1>1, <1>2, <1>3 DEF Injection, IsInjective
<1>5. r \in Surjection(DOMAIN s, DOMAIN s)
  BY <1>1, <1>4, FS_Injection
<1>. DEFINE q == [k \in DOMAIN s |-> CHOOSE j \in DOMAIN s : Rank(s, j) = k]
<1>6. \A j \in DOMAIN s : Rank(s, j) = Cardinality(UpTo(s, j))
  BY DEF Rank, UpTo
<1>7. ASSUME NEW k \in DOMAIN s
      PROVE  q[k] \in DOMAIN s /\ Cardinality(UpTo(s, q[k])) = k
  <2>1. \E j \in DOMAIN s : Rank(s, j) = k
    BY <1>5, <1>6 DEF Surjection
  <2>. QED
    BY <1>6, <2>1
<1>8. q \in Injection(DOMAIN s, DOMAIN s)
  BY <1>7 DEF Injection, IsInjective
<1>9. q \in Bijection(DOMAIN s, DOMAIN s)
  BY <1>1, <1>8, FS_Injection DEF Bijection
<1>10. DOMAIN Sorted(s) = DOMAIN s /\ \A k \in DOMAIN s : Sorted(s)[k] = s[q[k]]
  BY DEF Sorted
<1>. HIDE DEF q
<1>. QED
  BY <1>7, <1>9, <1>10
\* A bijection keeps the number of what is mapped into a set.
LEMMA Preimage ==
  ASSUME NEW S, IsFiniteSet(S), NEW T, NEW b \in Bijection(S, T), NEW U \in SUBSET T
  PROVE  Cardinality({k \in S : b[k] \in U}) = Cardinality(U)
<1>. DEFINE V == {k \in S : b[k] \in U}
            c == [k \in V |-> b[k]]
<1>1. IsFiniteSet(V)
  BY FS_Subset
<1>2. c \in Injection(V, U) /\ c \in Surjection(V, U)
  BY DEF Bijection, Injection, Surjection, IsInjective
<1>. HIDE DEF c
<1>3. ExistsBijection(V, U)
  BY <1>2 DEF ExistsBijection, Bijection
<1>. HIDE DEF V
<1>4. Cardinality(V) = Cardinality(U)
  BY <1>1, <1>3, FS_Bijection
<1>. QED
  BY <1>4 DEF V

\* Sorted results of a list in order are at their targets' positions.
LEMMA SortedInOrder ==
  ASSUME asked \in Seq(Nat), InOrder, NEW s \in Seq(Results), DOMAIN s = Positions,
         NEW b \in Bijection(Positions, Positions), \A k \in Positions : s[k].idx = asked[b[k]],
         NEW k \in Positions
  PROVE  Sorted(s)[k].idx = asked[k]
<1>1. PICK q \in Bijection(Positions, Positions) :
        \A m \in Positions : Sorted(s)[m] = s[q[m]] /\ Cardinality(UpTo(s, q[m])) = m
  BY SortedPermutes
<1>. DEFINE v == s[q[k]].idx
            Less == {i \in Positions : asked[i] < v}
            Most == {i \in Positions : asked[i] <= v}
<1>2. /\ q[k] \in Positions /\ v \in Nat
      /\ \A m \in Positions : b[m] \in Positions /\ asked[m] \in Nat
      /\ k \in Nat /\ Positions = 1..Len(asked) /\ Len(asked) \in Nat
  <2>1. q[k] \in Positions /\ \A m \in Positions : b[m] \in Positions
    BY DEF Bijection, Injection
  <2>2. \A m \in Positions : asked[m] \in Nat
    BY DEF Positions
  <2>3. v = asked[b[q[k]]]
    BY <2>1
  <2>4. k \in Nat /\ Positions = 1..Len(asked) /\ Len(asked) \in Nat
    BY DEF Positions
  <2>. QED
    BY <2>1, <2>2, <2>3, <2>4
<1>3. IsFiniteSet(Positions)
  BY <1>2, Stretch
<1>4. Cardinality({m \in Positions : b[m] \in Less}) = Cardinality(Less)
      /\ Cardinality({m \in Positions : b[m] \in Most}) = Cardinality(Most)
  <2>1. Less \in SUBSET Positions /\ Most \in SUBSET Positions
    OBVIOUS
  <2>. HIDE DEF Less, Most
  <2>. QED
    BY <1>3, <2>1, Preimage
<1>5. /\ {m \in Positions : b[m] \in Less} \subseteq UpTo(s, q[k])
      /\ q[k] \notin {m \in Positions : b[m] \in Less} /\ q[k] \in UpTo(s, q[k])
      /\ UpTo(s, q[k]) \subseteq {m \in Positions : b[m] \in Most}
  <2>1. \A m \in Positions : s[m].idx = asked[b[m]] /\ asked[b[m]] \in Nat /\ b[m] \in Positions
    BY <1>2
  <2>2. \A m \in Positions : (b[m] \in Less <=> s[m].idx < v) /\ (b[m] \in Most <=> s[m].idx <= v)
    BY <2>1
  <2>. HIDE DEF Less, Most
  <2>3. \A m \in Positions : m \in UpTo(s, q[k]) <=> s[m].idx < v \/ (s[m].idx = v /\ m <= q[k])
    BY DEF UpTo
  <2>4. UpTo(s, q[k]) \subseteq Positions
    BY DEF UpTo
  <2>5. \A m \in Positions : m \in Nat /\ s[m].idx \in Nat
    <3>1. \A m \in 1..Len(asked) : m \in Nat
      BY <1>2
    <3>. QED
      BY <1>2, <2>1, <3>1
  <2>. HIDE DEF v
  <2>6. v = s[q[k]].idx /\ v \in Nat
    BY <1>2 DEF v
  <2>7. q[k] \in UpTo(s, q[k]) /\ ~(b[q[k]] \in Less)
    BY <1>2, <2>2, <2>3, <2>5, <2>6
  <2>8. \A m \in Positions : b[m] \in Less => m \in UpTo(s, q[k])
    BY <2>2, <2>3
  <2>9. \A m \in UpTo(s, q[k]) : b[m] \in Most
    BY <2>2, <2>3, <2>4, <2>5, <2>6
  <2>. QED
    BY <2>4, <2>7, <2>8, <2>9
<1>6. IsFiniteSet(UpTo(s, q[k])) /\ IsFiniteSet({m \in Positions : b[m] \in Most})
      /\ IsFiniteSet({m \in Positions : b[m] \in Less}) /\ IsFiniteSet(Less) /\ IsFiniteSet(Most)
  <2>1. UpTo(s, q[k]) \in SUBSET Positions
    BY DEF UpTo
  <2>. QED
    BY <1>3, <2>1, FS_Subset
<1>7. Cardinality(UpTo(s, q[k])) = k
  BY <1>1
<1>8. Cardinality(Less) \in Nat /\ Cardinality(Most) \in Nat
  BY <1>6, FS_CardinalityType
<1>9. Cardinality(Less) < k
  <2>. DEFINE L == {m \in Positions : b[m] \in Less}
  <2>1. Cardinality(L) <= Cardinality(UpTo(s, q[k])) /\ Cardinality(L) # Cardinality(UpTo(s, q[k]))
    BY <1>5, <1>6, FS_Subset
  <2>. QED
    BY <1>2, <1>4, <1>7, <1>8, <2>1
<1>10. k <= Cardinality(Most)
  BY <1>4, <1>5, <1>6, <1>7, FS_Subset
<1>. HIDE DEF v
<1>11. CASE asked[k] < v
  <2>1. 1..k \in SUBSET Less
    BY <1>2, <1>11 DEF InOrder
  <2>2. Cardinality(1..k) <= Cardinality(Less)
    BY <1>6, <2>1, FS_Subset
  <2>. QED
    BY <1>2, <1>8, <1>9, <2>2, Stretch
<1>12. CASE asked[k] > v
  <2>1. Most \in SUBSET (1..(k - 1)) /\ k - 1 \in Nat
    BY <1>2, <1>12 DEF InOrder
  <2>2. IsFiniteSet(1..(k - 1)) /\ Cardinality(1..(k - 1)) = k - 1
    BY <2>1, Stretch
  <2>3. Cardinality(Most) <= k - 1
    BY <2>1, <2>2, FS_Subset
  <2>. QED
    BY <1>2, <1>8, <1>10, <2>3
<1>. QED
  BY <1>1, <1>2, <1>11, <1>12 DEF v
---------------------------------------------------------------------------
(* Failures that are inherited *)

\* What the report has on a declaration is an entry of it.
LEMMA DetailIsAnEntry ==
  ASSUME NEW entries \in Seq(Results), NEW d \in Named(entries)
  PROVE  \E m \in DOMAIN entries : entries[m].decl = d /\ DetailOf(entries, d) = entries[m]
<1>. DEFINE named == {k \in DOMAIN entries : entries[k].decl = d}
            Later(j, k) == \/ entries[j].passed /\ ~entries[k].passed
                           \/ entries[j].passed = entries[k].passed /\ j > k
            good == {k \in named : entries[k].passed}
            n == Len(entries)
<1>1. n \in Nat /\ DOMAIN entries = 1..n /\ named # {} /\ \A k \in DOMAIN entries : entries[k].passed \in BOOLEAN
  <2>1. n \in Nat /\ DOMAIN entries = 1..n /\ \A k \in DOMAIN entries : entries[k] \in Results
    OBVIOUS
  <2>2. named # {}
    BY DEF Named
  <2>3. \A e \in Results : e.passed \in BOOLEAN
    BY DEF Results
  <2>. QED
    BY <2>1, <2>2, <2>3
<1>2. \E k \in named : \A j \in named : j = k \/ Later(k, j)
  <2>1. CASE good # {}
    <3>1. PICK k \in good : \A j \in good : j <= k
      BY <1>1, <2>1, HasLast
    <3>2. \A j \in named : j = k \/ Later(k, j)
      BY <1>1, <3>1
    <3>. QED
      BY <3>1, <3>2
  <2>2. CASE good = {}
    <3>1. PICK k \in named : \A j \in named : j <= k
      BY <1>1, HasLast
    <3>2. \A j \in named : j = k \/ Later(k, j)
      BY <1>1, <2>2, <3>1
    <3>. QED
      BY <3>2
  <2>. QED
    BY <2>1, <2>2
<1>3. DetailOf(entries, d) = entries[CHOOSE k \in named : \A j \in named : j = k \/ Later(k, j)]
  BY DEF DetailOf
<1>. HIDE DEF Later
<1>. QED
  BY <1>2, <1>3

\* Along the dependencies of a declaration one comes to an entry that inherits nothing.
LEMMA RootOfInherited ==
  ASSUME NEW entries \in Seq(Results), NEW G \in Graphs \cup {NoGraph}, NEW k \in DOMAIN entries,
         Inherits(entries, entries[k], G), NEW a \in entries[k].issues
  PROVE  \E j \in DOMAIN entries : /\ <<entries[k].decl, entries[j].decl>> \in G.uses
                                   /\ a \in entries[j].issues /\ ~Inherits(entries, entries[j], G)
<1>. DEFINE n == Len(entries)
            C == {j \in 1..n : <<entries[k].decl, entries[j].decl>> \in G.uses /\ a \in entries[j].issues}
            Below(j) == {m \in 1..n : <<entries[j].decl, entries[m].decl>> \in G.uses}
            T == {Below(j) : j \in C}
<1>1. n \in Nat /\ DOMAIN entries = 1..n
  OBVIOUS
<1>2. /\ \A d, e, f : <<d, e>> \in G.uses /\ <<e, f>> \in G.uses => <<d, f>> \in G.uses
      /\ \A d : <<d, d>> \notin G.uses
  <2>1. CASE G = NoGraph
    BY <2>1 DEF NoGraph
  <2>2. CASE G \in Graphs
    <3>1. G.uses \subseteq Decls \X Decls
      BY <2>2, EvaluationAssumption
    <3>2. \A d, e : <<d, e>> \in G.uses => d \in Decls /\ e \in Decls
      BY <3>1
    <3>. QED
      BY <2>2, <3>2, EvaluationAssumption
  <2>. QED
    BY <2>1, <2>2
<1>3. ASSUME NEW j \in DOMAIN entries, Inherits(entries, entries[j], G), a \in entries[j].issues
      PROVE  \E m \in DOMAIN entries : <<entries[j].decl, entries[m].decl>> \in G.uses /\ a \in entries[m].issues
  <2>1. PICK d \in Named(entries) : <<entries[j].decl, d>> \in G.uses /\ a \in DetailOf(entries, d).issues
    BY <1>3 DEF Inherits
  <2>. QED
    BY <2>1, DetailIsAnEntry
<1>4. C # {}
  BY <1>1, <1>3
<1>5. T \subseteq FiniteSubsetsOf(1..n) /\ T # {}
  <2>1. FiniteSubsetsOf(1..n) = SUBSET (1..n)
    BY <1>1, Stretch, FS_FiniteSubsetsOfFinite
  <2>2. PICK j \in C : TRUE
    BY <1>4
  <2>3. Below(j) \in T
    BY <2>2
  <2>4. \A i : Below(i) \subseteq 1..n
    OBVIOUS
  <2>5. T \subseteq SUBSET (1..n)
    BY <2>4
  <2>. QED
    BY <2>1, <2>3, <2>5
<1>6. PICK U \in T : \A V \in T : <<V, U>> \notin StrictSubsetOrdering(1..n)
  BY <1>5, FS_StrictSubsetOrderingWellFounded, WFMin
<1>7. PICK j \in C : U = Below(j)
  BY <1>6
<1>8. ASSUME Inherits(entries, entries[j], G)
      PROVE  FALSE
  <2>1. PICK m \in DOMAIN entries : <<entries[j].decl, entries[m].decl>> \in G.uses /\ a \in entries[m].issues
    BY <1>1, <1>3, <1>7, <1>8
  <2>2. m \in C
    BY <1>1, <1>2, <1>7, <2>1
  <2>3. Below(m) \subseteq Below(j) /\ m \in Below(j) /\ m \notin Below(m)
    BY <1>1, <1>2, <2>1
  <2>4. <<Below(m), Below(j)>> \in StrictSubsetOrdering(1..n)
    BY <2>3 DEF StrictSubsetOrdering
  <2>5. Below(m) \in T
    BY <2>2
  <2>. QED
    BY <1>6, <1>7, <2>4, <2>5
<1>. QED
  BY <1>1, <1>7, <1>8

\* What annotating adds has a root, and what it leaves is as it was.
LEMMA AnnotatedHasRoots ==
  ASSUME NEW list \in Seq(Results), NEW G \in Graphs \cup {NoGraph}, \A k \in DOMAIN list : Earned(list[k])
  PROVE  /\ Annotated(list, G) \in Seq(Results)
         /\ \A k \in DOMAIN Annotated(list, G) : LET e == Annotated(list, G)[k] IN
              e.passed => /\ e.decl # None
                          /\ e.checked \/ (e.decl = Nameless /\ ~e.inherited)
                          /\ e.inherited \/ \A r \in Rubrics : e.votes[r] = "pass"
         /\ \A k \in DOMAIN Annotated(list, G) : Annotated(list, G)[k].inherited =>
              \A a \in Annotated(list, G)[k].issues :
                \E j \in DOMAIN Annotated(list, G) :
                  /\ <<Annotated(list, G)[k].decl, Annotated(list, G)[j].decl>> \in G.uses
                  /\ a \in Annotated(list, G)[j].issues /\ ~Annotated(list, G)[j].inherited
<1>. DEFINE new == Annotated(list, G)
<1>1. \A e \in Results :
        /\ [e EXCEPT !.passed = TRUE, !.inherited = TRUE] \in Results
        /\ LET f == [e EXCEPT !.passed = TRUE, !.inherited = TRUE] IN
             /\ f.passed = TRUE /\ f.inherited = TRUE /\ f.decl = e.decl /\ f.issues = e.issues
             /\ f.checked = e.checked /\ f.votes = e.votes
  BY DEF Results
<1>2. /\ DOMAIN new = DOMAIN list /\ DOMAIN list = 1..Len(list) /\ Len(list) \in Nat
      /\ \A k \in DOMAIN list : list[k] \in Results /\ ~list[k].inherited
      /\ \A k \in DOMAIN list : new[k] = IF Inherits(list, list[k], G)
                                         THEN [list[k] EXCEPT !.passed = TRUE, !.inherited = TRUE] ELSE list[k]
  BY DEF Annotated, Earned
<1>3. new \in Seq(Results)
  <2>1. \A k \in 1..Len(list) : new[k] \in Results
    BY <1>1, <1>2
  <2>2. new = [k \in 1..Len(list) |-> new[k]]
    BY <1>2 DEF Annotated
  <2>. HIDE DEF new
  <2>3. new \in [1..Len(list) -> Results] /\ Len(list) \in Nat
    BY <2>1, <2>2
  <2>. QED
    BY <2>3
<1>. HIDE DEF new
<1>4. ASSUME NEW k \in DOMAIN list
      PROVE  /\ new[k].decl = list[k].decl /\ new[k].issues = list[k].issues
             /\ new[k].checked = list[k].checked /\ new[k].votes = list[k].votes
             /\ new[k].inherited <=> Inherits(list, list[k], G)
             /\ new[k].passed => new[k].inherited \/ list[k].passed
  <2>1. CASE Inherits(list, list[k], G)
    <3>1. new[k] = [list[k] EXCEPT !.passed = TRUE, !.inherited = TRUE] /\ list[k] \in Results
      BY <1>2, <2>1
    <3>. QED
      BY <1>1, <2>1, <3>1
  <2>2. CASE ~Inherits(list, list[k], G)
    <3>1. new[k] = list[k] /\ ~list[k].inherited
      BY <1>2, <2>2
    <3>. QED
      BY <2>2, <3>1
  <2>. QED
    BY <2>1, <2>2
<1>5. ASSUME NEW k \in DOMAIN new, new[k].passed
      PROVE  /\ new[k].decl # None
             /\ new[k].checked \/ (new[k].decl = Nameless /\ ~new[k].inherited)
             /\ new[k].inherited \/ \A r \in Rubrics : new[k].votes[r] = "pass"
  <2>1. Inherits(list, list[k], G) => list[k].issues # {} /\ list[k].decl # Nameless
    <3>1. \A d, e : <<d, e>> \in G.uses => d # Nameless
      BY EvaluationAssumption, NamesAssumption DEF NoGraph
    <3>. QED
      BY <3>1 DEF Inherits, AxiomsOnly
  <2>2. k \in DOMAIN list /\ Earned(list[k])
    BY <1>2
  <2>3. list[k].passed \/ list[k].issues # {}
    BY <1>4, <1>5, <2>1, <2>2
  <2>4. (list[k].checked \/ list[k].decl = Nameless) /\ list[k].decl # None /\ (list[k].passed => \A r \in Rubrics : list[k].votes[r] = "pass")
    BY <2>2, <2>3 DEF Earned
  <2>. QED
    BY <1>4, <1>5, <2>1, <2>2, <2>4
<1>6. ASSUME NEW k \in DOMAIN new, new[k].inherited, NEW a \in new[k].issues
      PROVE  \E j \in DOMAIN new : <<new[k].decl, new[j].decl>> \in G.uses /\ a \in new[j].issues /\ ~new[j].inherited
  <2>1. PICK j \in DOMAIN list : /\ <<list[k].decl, list[j].decl>> \in G.uses
                                 /\ a \in list[j].issues /\ ~Inherits(list, list[j], G)
    <3>1. k \in DOMAIN list /\ Inherits(list, list[k], G) /\ a \in list[k].issues
      BY <1>2, <1>4, <1>6
    <3>. QED
      BY <3>1, RootOfInherited
  <2>. QED
    BY <1>2, <1>4, <2>1
<1>. QED
  BY <1>3, <1>5, <1>6 DEF new
---------------------------------------------------------------------------
(* The steps of an assessment *)

\* What a step leaves that has no part in results and goals.
LEMMA SameOutcome ==
  ASSUME EvalInv, UNCHANGED <<asked, results, final, graph, goals>>,
         phase' \in {"gate", "assessing"} => phase \in {"gate", "assessing"}, HasEnded' => HasEnded,
         phase' = "raised" => UNCHANGED <<caller, phase, finished, report>>
  PROVE  ReturnedInv' /\ EveryTargetReported' /\ PassedIsEarned' /\ RootRemains' /\ OwnVerdictInOrder'
<1>. USE DEF EvalInv
<1>1. Positions' = Positions /\ InOrder' = InOrder
  BY DEF Positions, InOrder
<1>2. ReturnedInv'
  BY <1>1 DEF ReturnedInv
<1>3. EveryTargetReported'
  BY <1>1 DEF EveryTargetReported, Reported
<1>4. PassedIsEarned' /\ RootRemains'
  BY DEF PassedIsEarned, RootRemains
<1>5. OwnVerdictInOrder'
  BY <1>1 DEF OwnVerdictInOrder, OwnVerdict, InOrder
<1>. QED
  BY <1>2, <1>3, <1>4, <1>5

LEMMA SameFinished ==
  ASSUME EvalInv, UNCHANGED <<asked, task, finished>>
  PROVE  WorkInv' /\ FinishedInv'
BY DEF EvalInv, WorkInv, FinishedInv, Positions

\* An assessment goes on.
LEMMA GotoStep ==
  ASSUME EvalInv, phase = "assessing", NEW i \in Positions, task[i].at # "finished",
         NEW next \in Assessments, Fit(next), Goto(i, next), free' \in Nat,
         UNCHANGED <<caller, asked, phase, built, graph, finished, collected, results, final, report, latest, goals>>
  PROVE  EvalInv'
<1>1. Positions' = Positions /\ HasEnded' = HasEnded
  BY DEF Positions, HasEnded
<1>2. task \in [Positions -> Assessments] /\ task' = [task EXCEPT ![i] = next]
  BY DEF EvalInv, TypeOK, Assessments, Goto
<1>3. task' \in [Positions -> Assessments] /\ \A j \in Positions : task'[j] = IF j = i THEN next ELSE task[j]
  BY <1>2
<1>4. TypeOK'
  BY <1>1, <1>3 DEF EvalInv, TypeOK, Assessments
<1>5. WorkInv'
  BY <1>1, <1>3 DEF EvalInv, WorkInv
<1>6. FinishedInv'
  <2>1. PICK p \in Injection(DOMAIN finished, Positions) :
          \A k \in DOMAIN finished : task[p[k]].at = "finished" /\ finished[k].idx = asked[p[k]]
    BY DEF EvalInv, FinishedInv
  <2>2. \A k \in DOMAIN finished : p[k] \in Positions
    BY DEF Injection
  <2>3. \A k \in DOMAIN finished : task'[p[k]].at = "finished" /\ finished'[k].idx = asked'[p[k]]
    BY <1>3, <2>1, <2>2
  <2>4. \A k \in DOMAIN finished' : Earned(finished'[k])
    BY DEF EvalInv, FinishedInv
  <2>. QED
    BY <1>1, <2>3, <2>4 DEF FinishedInv
<1>7. ReturnedInv' /\ EveryTargetReported' /\ PassedIsEarned' /\ RootRemains' /\ OwnVerdictInOrder'
  BY <1>1, SameOutcome
<1>. QED
  BY <1>4, <1>5, <1>6, <1>7 DEF EvalInv

\* An assessment ends with a result.
LEMMA FinishStep ==
  ASSUME EvalInv, phase = "assessing", NEW i \in Positions, task[i].at # "finished",
         NEW result \in Results, Earned(result), result.idx = asked[i], Finish(i, result)
  PROVE  EvalInv'
<1>. DEFINE next == [task[i] EXCEPT !.at = "finished", !.decl = None, !.retries = 0, !.checked = FALSE,
                                    !.votes = NoVotes, !.issues = {}, !.only = FALSE]
            n == Len(finished)
<1>1. /\ Positions' = Positions /\ HasEnded' = HasEnded
      /\ finished' = Append(finished, result) /\ free' = free + 1
      /\ UNCHANGED <<caller, asked, phase, built, graph, collected, results, final, report, latest, goals>>
  BY DEF Finish, Positions, HasEnded
<1>2. task \in [Positions -> Assessments] /\ task' = [task EXCEPT ![i] = next]
  BY DEF EvalInv, TypeOK, Assessments, Goto, Finish
<1>3. next \in Assessments /\ next.at = "finished" /\ Fit(next)
  <2>1. NoVotes \in [Rubrics -> {None, "pass", "fail"}] /\ 0 \in 0..MaxRetries
    BY EvaluationAssumption DEF NoVotes
  <2>2. task[i] \in Assessments
    BY <1>2
  <2>3. next \in Assessments
    BY <2>1, <2>2 DEF Assessments, Places
  <2>4. next.at = "finished"
    BY <2>2 DEF Assessments
  <2>. QED
    BY <2>3, <2>4 DEF Fit
<1>. HIDE DEF next
<1>4. task' \in [Positions -> Assessments] /\ \A j \in Positions : task'[j] = IF j = i THEN next ELSE task[j]
  BY <1>2, <1>3
<1>5. /\ finished \in Seq(Results) /\ n \in Nat /\ DOMAIN finished = 1..n
      /\ finished' \in Seq(Results) /\ Len(finished') = n + 1 /\ DOMAIN finished' = 1..(n + 1)
      /\ finished'[n + 1] = result /\ \A k \in 1..n : finished'[k] = finished[k]
  BY <1>1 DEF EvalInv, TypeOK
<1>6. TypeOK'
  BY <1>1, <1>4, <1>5 DEF EvalInv, TypeOK, Assessments
<1>7. WorkInv'
  BY <1>1, <1>3, <1>4 DEF EvalInv, WorkInv
<1>8. FinishedInv'
  <2>1. PICK p \in Injection(1..n, Positions) :
          \A k \in 1..n : task[p[k]].at = "finished" /\ finished[k].idx = asked[p[k]]
    BY <1>5 DEF EvalInv, FinishedInv
  <2>2. \A k \in 1..n : p[k] \in Positions /\ p[k] # i
    BY <2>1 DEF Injection
  <2>. DEFINE q == [k \in 1..(n + 1) |-> IF k = n + 1 THEN i ELSE p[k]]
  <2>3. q \in Injection(1..(n + 1), Positions)
    BY <1>5, <2>2 DEF Injection, IsInjective
  <2>4. \A k \in 1..(n + 1) : task'[q[k]].at = "finished" /\ finished'[k].idx = asked'[q[k]]
    BY <1>1, <1>3, <1>4, <1>5, <2>1, <2>2
  <2>5. \A k \in 1..(n + 1) : Earned(finished'[k])
    BY <1>5 DEF EvalInv, FinishedInv
  <2>. HIDE DEF q
  <2>. QED
    BY <1>1, <1>5, <2>3, <2>4, <2>5 DEF FinishedInv
<1>9. ReturnedInv' /\ EveryTargetReported' /\ PassedIsEarned' /\ RootRemains' /\ OwnVerdictInOrder'
  BY <1>1, SameOutcome
<1>. QED
  BY <1>6, <1>7, <1>8, <1>9 DEF EvalInv
LEMMA UnjudgedIsResult ==
  ASSUME asked \in Seq(Goals), NEW i \in Positions, NEW d \in Decls \cup {None, Nameless},
         NEW reason \in {"gate", "not_found", "no_name", "not_built", "error"}
  PROVE  /\ Unjudged(i, reason, d) \in Results /\ Earned(Unjudged(i, reason, d))
         /\ Unjudged(i, reason, d).idx = asked[i] /\ ~Unjudged(i, reason, d).inherited
         /\ ~Unjudged(i, reason, d).passed
<1>1. asked[i] \in Goals
  BY DEF Positions
<1>. QED
  BY <1>1 DEF Unjudged, Results, Earned, NoVotes

LEMMA Asking ==
  ASSUME TypeOK
  PROVE  asked \in Seq(Goals) /\ asked \in Seq(Nat) /\ Len(asked) \in Nat /\ Positions = 1..Len(asked)
<1>1. asked \in Seq(Goals)
  BY EvaluationAssumption DEF TypeOK
<1>2. Len(asked) \in Nat /\ asked \in [1..Len(asked) -> Goals]
  BY <1>1
<1>3. asked \in [1..Len(asked) -> Nat]
  BY <1>2, EvaluationAssumption
<1>4. asked \in Seq(Nat)
  BY <1>2, <1>3
<1>. QED
  BY <1>1, <1>2, <1>4 DEF Positions

\* Every step of an assessment.
LEMMA AssessOneStep ==
  ASSUME EvalInv, NEW i \in Positions, AssessOne(i)
  PROVE  EvalInv'
<1>. DEFINE t == task[i]
            rest == <<caller, asked, phase, built, graph, finished, collected, results, final, report, latest, goals>>
<1>1. /\ t \in Assessments /\ Fit(t) /\ free \in Nat /\ asked \in Seq(Goals)
      /\ MaxRetries \in Nat \ {0}
  BY Asking, EvaluationAssumption DEF EvalInv, TypeOK, WorkInv, Assessments
<1>2. OnlyTask => free' \in Nat /\ UNCHANGED rest
  BY <1>1 DEF OnlyTask
<1>3. CASE Enter(i)
  <2>. DEFINE next == [t EXCEPT !.at = "matching"]
  <2>1. phase = "assessing" /\ t.at = "waiting" /\ Goto(i, next) /\ free' \in Nat /\ UNCHANGED rest
    BY <1>1, <1>3 DEF Enter, At
  <2>2. next \in Assessments /\ Fit(next)
    BY <1>1, <2>1 DEF Assessments, Fit, Places
  <2>. HIDE DEF next
  <2>. QED
    BY <2>1, <2>2, GotoStep
<1>4. CASE Match(i)
  <2>1. phase = "assessing" /\ t.at = "matching" /\ OnlyTask
    BY <1>4 DEF Match, At
  <2>2. ASSUME NEW d \in Decls, Goto(i, [t EXCEPT !.at = "checking", !.decl = d])
        PROVE  EvalInv'
    <3>. DEFINE next == [t EXCEPT !.at = "checking", !.decl = d]
    <3>1. next \in Assessments /\ Fit(next)
      <4>1. d # None
        BY NamesAssumption
      <4>2. next \in Assessments /\ next.at = "checking" /\ next.decl = d /\ next.retries = t.retries
        BY <1>1 DEF Assessments, Places
      <4>3. next.retries = 0 /\ 0 < MaxRetries
        BY <1>1, <2>1, <4>2 DEF Fit
      <4>. QED
        BY <4>1, <4>2, <4>3 DEF Fit
    <3>2. Goto(i, next)
      BY <2>2
    <3>. HIDE DEF next
    <3>. QED
      BY <1>2, <2>1, <3>1, <3>2, GotoStep
  <2>3. ASSUME Goto(i, [t EXCEPT !.at = "matched", !.decl = Nameless])
        PROVE  EvalInv'
    <3>. DEFINE next == [t EXCEPT !.at = "matched", !.decl = Nameless]
    <3>1. next \in Assessments /\ next.at = "matched" /\ next.decl = Nameless
      BY <1>1 DEF Assessments, Places
    <3>2. Fit(next)
      BY <3>1 DEF Fit, Nameless, None
    <3>3. Goto(i, next)
      BY <2>3
    <3>. HIDE DEF next
    <3>. QED
      BY <1>2, <2>1, <3>1, <3>2, <3>3, GotoStep
  <2>. QED
    BY <1>4, <2>2, <2>3 DEF Match
<1>5. CASE NoMatch(i)
  <2>1. phase = "assessing" /\ t.at # "finished"
    BY <1>5 DEF NoMatch, At
  <2>2. PICK reason \in {"not_found", "no_name"} : Finish(i, Unjudged(i, reason, None))
    BY <1>5 DEF NoMatch
  <2>. QED
    BY <1>1, <2>1, <2>2, UnjudgedIsResult, FinishStep
<1>6. CASE Resolve(i)
  <2>. DEFINE next == [t EXCEPT !.at = "matched", !.checked = TRUE]
  <2>1. phase = "assessing" /\ t.at = "checking" /\ Goto(i, next) /\ OnlyTask
    BY <1>6 DEF Resolve, At
  <2>2. next \in Assessments /\ Fit(next)
    BY <1>1, <2>1 DEF Assessments, Fit, Places
  <2>. HIDE DEF next
  <2>. QED
    BY <1>2, <2>1, <2>2, GotoStep
<1>7. CASE Unresolved(i)
  <2>. DEFINE next == [t EXCEPT !.at = "correcting", !.retries = @ + 1]
  <2>1. phase = "assessing" /\ t.at = "checking" /\ Goto(i, next) /\ OnlyTask
    BY <1>7 DEF Unresolved, At
  <2>2. next \in Assessments /\ Fit(next)
    <3>1. t.retries + 1 \in 0..MaxRetries
      BY <1>1, <2>1 DEF Assessments, Fit
    <3>. QED
      BY <1>1, <3>1 DEF Assessments, Fit, Places
  <2>. HIDE DEF next
  <2>. QED
    BY <1>2, <2>1, <2>2, GotoStep
<1>8. CASE Correct(i)
  <2>1. phase = "assessing" /\ t.at = "correcting"
    BY <1>8 DEF Correct, At
  <2>2. PICK d \in Decls \cup {Nameless} :
          IF t.retries < MaxRetries
          THEN Goto(i, [t EXCEPT !.at = "checking", !.decl = d]) /\ OnlyTask
          ELSE Finish(i, Unjudged(i, "not_built", d))
    BY <1>8 DEF Correct
  <2>3. CASE t.retries < MaxRetries
    <3>. DEFINE next == [t EXCEPT !.at = "checking", !.decl = d]
    <3>1. next \in Assessments /\ Fit(next)
      <4>1. d # None
        BY NamesAssumption DEF Nameless, None
      <4>2. next \in Assessments /\ next.at = "checking" /\ next.decl = d /\ next.retries = t.retries
        BY <1>1 DEF Assessments, Places
      <4>. QED
        BY <2>3, <4>1, <4>2 DEF Fit
    <3>2. Goto(i, next) /\ OnlyTask
      BY <2>2, <2>3
    <3>. HIDE DEF next
    <3>. QED
      BY <1>2, <2>1, <3>1, <3>2, GotoStep
  <2>4. CASE ~(t.retries < MaxRetries)
    <3>1. Finish(i, Unjudged(i, "not_built", d))
      BY <2>2, <2>4
    <3>. QED
      BY <1>1, <2>1, <3>1, UnjudgedIsResult, FinishStep
  <2>. QED
    BY <2>3, <2>4
<1>9. CASE BeginJudging(i)
  <2>. DEFINE next == [t EXCEPT !.at = "judging"]
  <2>1. phase = "assessing" /\ t.at = "matched" /\ Goto(i, next) /\ OnlyTask
    BY <1>9 DEF BeginJudging, At
  <2>2. next \in Assessments /\ Fit(next)
    BY <1>1, <2>1 DEF Assessments, Fit, Places
  <2>. HIDE DEF next
  <2>. QED
    BY <1>2, <2>1, <2>2, GotoStep
<1>10. ASSUME NEW r \in Rubrics, Vote(i, r)
       PROVE  EvalInv'
  <2>1. phase = "assessing" /\ t.at = "judging" /\ OnlyTask
    BY <1>10 DEF Vote, At
  <2>2. PICK v \in {"pass", "fail"}, issues \in SUBSET Axioms, only \in BOOLEAN :
          Goto(i, [t EXCEPT !.votes[r] = v,
                            !.issues = IF r = ProofIntegrity THEN issues ELSE @,
                            !.only = IF r = ProofIntegrity THEN only ELSE @])
    BY <1>10 DEF Vote
  <2>. DEFINE next == [t EXCEPT !.votes[r] = v,
                                !.issues = IF r = ProofIntegrity THEN issues ELSE @,
                                !.only = IF r = ProofIntegrity THEN only ELSE @]
  <2>3. next \in Assessments /\ Fit(next)
    BY <1>1, <2>1 DEF Assessments, Fit
  <2>4. Goto(i, next)
    BY <2>2
  <2>. HIDE DEF next
  <2>. QED
    BY <1>2, <2>1, <2>3, <2>4, GotoStep
<1>11. CASE Conclude(i)
  <2>. DEFINE result == [idx |-> asked[i], reason |-> "judged", decl |-> t.decl,
                passed |-> \A r \in Rubrics : t.votes[r] = "pass", checked |-> t.checked,
                votes |-> t.votes, issues |-> t.issues, only |-> t.only,
                inherited |-> FALSE]
  <2>1. phase = "assessing" /\ t.at = "judging" /\ Finish(i, result)
    BY <1>11 DEF Conclude, At
  <2>2. asked[i] \in Goals /\ (\A r \in Rubrics : t.votes[r] = "pass") \in BOOLEAN
    BY <1>1 DEF Positions
  <2>3. result \in Results
    BY <1>1, <2>2 DEF Assessments, Results
  <2>4. Earned(result) /\ result.idx = asked[i]
    BY <1>1, <2>1 DEF Earned, Fit
  <2>. HIDE DEF result
  <2>. QED
    BY <2>1, <2>3, <2>4, FinishStep
<1>12. CASE Fail(i)
  <2>1. phase = "assessing" /\ t.at # "finished" /\ Finish(i, Unjudged(i, "error", None))
    BY <1>12 DEF Fail, At
  <2>. QED
    BY <1>1, <2>1, UnjudgedIsResult, FinishStep
<1>13. CASE NotBuilt(i)
  <2>1. phase = "assessing" /\ t.at = "matched" /\ Finish(i, Unjudged(i, "not_built", t.decl))
    BY <1>13 DEF NotBuilt, At
  <2>2. t.decl \in Decls \cup {None, Nameless}
    BY <1>1 DEF Assessments
  <2>. QED
    BY <1>1, <2>1, <2>2, UnjudgedIsResult, FinishStep
<1>. QED
  BY <1>3, <1>4, <1>5, <1>6, <1>7, <1>8, <1>9, <1>10, <1>11, <1>12, <1>13 DEF AssessOne
---------------------------------------------------------------------------
(* The steps of an evaluation *)

LEMMA GateStep ==
  ASSUME EvalInv, GatePasses \/ GateFails \/ GraphDone \/ Collect \/ Publish \/ Stop
  PROVE  EvalInv'
<1>. DEFINE failing == [i \in Positions |-> Unjudged(i, "gate", None)]
            n == Len(asked)
<1>0. /\ TypeOK /\ asked \in Seq(Goals) /\ n \in Nat /\ Positions = 1..n
      /\ HasEnded <=> phase \in {"done", "written", "unlinked", "over"}
  BY Asking DEF EvalInv, HasEnded
<1>1. CASE GatePasses
  <2>1. /\ phase = "gate" /\ phase' = "assessing"
        /\ UNCHANGED <<caller, asked, built, graph, free, task, finished, collected, results, final, latest, goals>>
        /\ report' = <<>> \/ report' = report
    BY <1>1 DEF GatePasses, Written
  <2>2. report' \in Seq(Results)
    <3>1. <<>> \in Seq(Results) /\ report \in Seq(Results)
      BY <1>0 DEF TypeOK
    <3>. QED
      BY <2>1, <3>1
  <2>3. TypeOK'
    BY <1>0, <2>1, <2>2 DEF TypeOK, Positions
  <2>4. ~HasEnded'
    BY <2>1 DEF HasEnded
  <2>. QED
    BY <2>1, <2>3, <2>4, SameOutcome, SameFinished DEF EvalInv
<1>2. CASE GateFails
  <2>1. /\ phase = "gate" /\ phase' = "done" /\ results' = failing /\ final' = failing
        /\ UNCHANGED <<caller, asked, built, graph, free, task, finished, collected, latest, goals>>
        /\ report' = failing \/ report' = report
    BY <1>2 DEF GateFails, Written
  <2>2. \A i \in Positions : /\ failing[i] \in Results /\ failing[i].idx = asked[i]
                             /\ ~failing[i].inherited /\ ~failing[i].passed
    BY <1>0, UnjudgedIsResult
  <2>3. DOMAIN failing = Positions /\ failing \in [Positions -> Results]
    BY <2>2
  <2>. HIDE DEF failing
  <2>4. failing \in Seq(Results) /\ Len(failing) = n
    BY <1>0, <2>3
  <2>5. TypeOK'
    BY <1>0, <2>1, <2>4 DEF TypeOK, Positions
  <2>6. Positions' = Positions
    BY <2>1 DEF Positions
  <2>7. ReturnedInv'
    BY <2>1, <2>2, <2>3, <2>6 DEF ReturnedInv
  <2>8. EveryTargetReported'
    <3>1. \A g : {k \in DOMAIN failing : failing[k].idx = g} = {k \in Positions : asked[k] = g}
      BY <2>2, <2>3
    <3>. QED
      BY <2>1, <2>4, <2>6, <3>1 DEF EveryTargetReported, Reported
  <2>9. PassedIsEarned' /\ RootRemains'
    BY <2>1, <2>2, <2>3 DEF PassedIsEarned, RootRemains
  <2>10. OwnVerdictInOrder'
    BY <2>1, <2>6 DEF EvalInv, OwnVerdictInOrder, OwnVerdict
  <2>. QED
    BY <2>1, <2>5, <2>7, <2>8, <2>9, <2>10, SameFinished DEF EvalInv
<1>3. CASE GraphDone
  <2>1. /\ phase = "assessing" /\ built' = TRUE /\ graph' \in Graphs \cup {NoGraph}
        /\ UNCHANGED <<caller, asked, phase, free, task, finished, collected, results, final, report, latest, goals>>
    BY <1>3 DEF GraphDone
  <2>2. TypeOK'
    BY <1>0, <2>1 DEF TypeOK, Positions
  <2>3. final = <<>> /\ final' = <<>> /\ ~HasEnded'
    BY <2>1 DEF EvalInv, ReturnedInv, HasEnded
  <2>4. PassedIsEarned' /\ RootRemains'
    BY <2>3 DEF PassedIsEarned, RootRemains
  <2>5. ReturnedInv' /\ EveryTargetReported'
    BY <2>1, <2>3 DEF EvalInv, ReturnedInv, EveryTargetReported, Reported, Positions
  <2>6. OwnVerdictInOrder'
    BY <2>1 DEF EvalInv, OwnVerdictInOrder, OwnVerdict, Positions
  <2>. QED
    BY <2>1, <2>2, <2>4, <2>5, <2>6, SameFinished DEF EvalInv
<1>4. CASE Collect
  <2>1. /\ phase = "assessing" /\ collected < Len(finished) /\ collected' = collected + 1
        /\ UNCHANGED <<caller, asked, phase, built, graph, free, task, finished, results, final, latest, goals>>
        /\ report' = SubSeq(finished, 1, collected') \/ report' = report
    BY <1>4 DEF Collect, Written
  <2>2. finished \in Seq(Results) /\ collected \in 0..Len(finished) /\ Len(finished) \in Nat
    BY <1>0 DEF TypeOK
  <2>3. collected' \in 1..Len(finished)
    BY <2>1, <2>2
  <2>4. SubSeq(finished, 1, collected') \in Seq(Results)
    BY <2>2, <2>3, SubSeqProperties
  <2>5. report' \in Seq(Results) /\ collected' \in 0..Len(finished')
    <3>1. report \in Seq(Results)
      BY <1>0 DEF TypeOK
    <3>2. report' \in Seq(Results)
      BY <2>1, <2>4, <3>1
    <3>. QED
      BY <2>1, <2>2, <2>3, <3>2
  <2>6. TypeOK'
    BY <1>0, <2>1, <2>5 DEF TypeOK, Positions
  <2>7. HasEnded' = HasEnded
    BY <2>1 DEF HasEnded
  <2>. QED
    BY <2>1, <2>6, <2>7, SameOutcome, SameFinished DEF EvalInv
<1>5. CASE Publish
  <2>1. /\ phase \in {"done", "written", "unlinked"} /\ phase' \in {"written", "unlinked", "over"}
        /\ report' \in {report, final} /\ latest' \in {latest, TRUE, FALSE}
        /\ UNCHANGED <<caller, asked, built, graph, free, task, finished, collected, results, final, goals>>
    BY <1>5 DEF Publish, Step
  <2>2. report' \in Seq(Results) /\ latest' \in BOOLEAN
    BY <1>0, <2>1 DEF TypeOK
  <2>3. phase' \in {"gate", "assessing", "done", "raised", "written", "unlinked", "over", "stopped"}
    BY <2>1
  <2>4. TypeOK'
    BY <1>0, <2>1, <2>2, <2>3 DEF TypeOK, Positions
  <2>5. HasEnded
    BY <2>1 DEF HasEnded
  <2>. QED
    BY <2>1, <2>4, <2>5, SameOutcome, SameFinished DEF EvalInv
<1>6. CASE Stop
  <2>1. /\ phase' = "stopped"
        /\ UNCHANGED <<caller, asked, built, graph, free, task, finished, collected, results, final, report, latest, goals>>
    BY <1>6 DEF Stop
  <2>2. TypeOK'
    BY <1>0, <2>1 DEF TypeOK, Positions
  <2>3. ~HasEnded'
    BY <2>1 DEF HasEnded
  <2>. QED
    BY <2>1, <2>2, <2>3, SameOutcome, SameFinished DEF EvalInv
<1>. QED
  BY <1>1, <1>2, <1>3, <1>4, <1>5, <1>6
\* The assessments are all over when all their results are handed over, and each result is
\* that of one of them.
LEMMA AllAssessed ==
  ASSUME EvalInv, collected = Len(asked)
  PROVE  /\ finished \in Seq(Results) /\ DOMAIN finished = Positions /\ SubSeq(finished, 1, collected) = finished
         /\ \E b \in Bijection(Positions, Positions) : \A k \in Positions : finished[k].idx = asked[b[k]]
<1>. DEFINE n == Len(asked)
            m == Len(finished)
<1>1. /\ finished \in Seq(Results) /\ n \in Nat /\ Positions = 1..n /\ m \in Nat /\ DOMAIN finished = 1..m /\ n <= m
  BY Asking DEF EvalInv, TypeOK
<1>2. PICK p \in Injection(1..m, 1..n) : \A k \in 1..m : finished[k].idx = asked[p[k]]
  BY <1>1 DEF EvalInv, FinishedInv
<1>3. /\ IsFiniteSet(1..n) /\ Cardinality(1..n) = n /\ IsFiniteSet(1..m) /\ Cardinality(1..m) = m
  BY <1>1, Stretch
<1>4. m <= n
  BY <1>3, FS_Injection
<1>5. m = n
  BY <1>1, <1>4
<1>6. p \in Surjection(1..m, 1..n)
  BY <1>3, <1>5, FS_Injection
<1>7. p \in Bijection(1..n, 1..n)
  BY <1>5, <1>6 DEF Bijection
<1>8. SubSeq(finished, 1, n) = finished
  BY <1>1, <1>5
<1>. QED
  BY <1>1, <1>2, <1>5, <1>7, <1>8

\* Results of the assessments, each of one of them, report every target.
LEMMA AllReported ==
  ASSUME asked \in Seq(Goals), NEW list \in Seq(Results), DOMAIN list = Positions,
         NEW c \in Bijection(Positions, Positions), \A k \in Positions : list[k].idx = asked[c[k]]
  PROVE  Reported(list)
<1>1. Len(list) = Len(asked) /\ Len(asked) \in Nat /\ Positions = 1..Len(asked) /\ IsFiniteSet(Positions)
  <2>1. Len(asked) \in Nat /\ Len(list) \in Nat /\ 1..Len(list) = 1..Len(asked) /\ Positions = 1..Len(asked)
    BY DEF Positions
  <2>2. Len(list) = Len(asked)
    BY <2>1, Stretch
  <2>. QED
    BY <2>1, <2>2, Stretch
<1>2. ASSUME NEW g
      PROVE  Cardinality({k \in Positions : list[k].idx = g}) = Cardinality({k \in Positions : asked[k] = g})
  <2>. DEFINE U == {k \in Positions : asked[k] = g}
  <2>1. \A k \in Positions : c[k] \in Positions
    BY DEF Bijection, Injection
  <2>2. {k \in Positions : list[k].idx = g} = {k \in Positions : c[k] \in U}
    BY <2>1
  <2>3. U \in SUBSET Positions
    OBVIOUS
  <2>. HIDE DEF U
  <2>4. Cardinality({k \in Positions : c[k] \in U}) = Cardinality(U)
    <3>1. IsFiniteSet(Positions)
      BY <1>1
    <3>. HIDE DEF Positions
    <3>. QED
      BY ONLY <2>3, <3>1, c \in Bijection(Positions, Positions), Preimage
  <2>. QED
    BY <2>2, <2>4 DEF U
<1>. QED
  BY <1>1, <1>2 DEF Reported

\* The end of the assessments.
LEMMA FinalizeStep ==
  ASSUME EvalInv, Finalize
  PROVE  EvalInv'
<1>. DEFINE s == finished
            list == Sorted(s)
<1>1. /\ phase = "assessing" /\ collected = Len(asked)
      /\ phase' = "done" /\ results' = Sorted(SubSeq(finished, 1, collected))
      /\ final' = Annotated(Sorted(SubSeq(finished, 1, collected)), graph)
      /\ UNCHANGED <<caller, asked, built, graph, free, task, finished, collected, report, latest, goals>>
  BY DEF Finalize, Returned
<1>2. /\ s \in Seq(Results) /\ DOMAIN s = Positions /\ SubSeq(finished, 1, collected) = s
  BY <1>1, AllAssessed
<1>3. PICK b \in Bijection(Positions, Positions) : \A k \in Positions : s[k].idx = asked[b[k]]
  BY <1>1, AllAssessed
<1>4. PICK q \in Bijection(Positions, Positions) :
        DOMAIN list = Positions /\ \A k \in Positions : list[k] = s[q[k]]
  BY <1>2, SortedPermutes
<1>5. TypeOK /\ graph \in Graphs \cup {NoGraph} /\ Positions = 1..Len(asked) /\ Len(asked) \in Nat /\ asked \in Seq(Nat)
  BY Asking DEF EvalInv, TypeOK
<1>6. results' = list /\ final' = Annotated(list, graph) /\ Positions' = Positions /\ HasEnded'
  BY <1>1, <1>2 DEF HasEnded, Positions
<1>7. \A k \in Positions : q[k] \in Positions /\ b[q[k]] \in Positions /\ list[k].idx = asked[b[q[k]]]
      /\ list[k] \in Results /\ Earned(list[k])
  <2>1. \A k \in Positions : q[k] \in Positions /\ b[k] \in Positions
    BY DEF Bijection, Injection
  <2>2. \A k \in Positions : s[k] \in Results /\ Earned(s[k])
    <3>1. \A k \in DOMAIN finished : finished[k] \in Results
      <4>1. finished \in Seq(Results)
        BY <1>2
      <4>. QED
        BY <4>1
    <3>2. \A k \in DOMAIN finished : Earned(finished[k])
      BY DEF EvalInv, FinishedInv
    <3>. QED
      BY <1>2, <3>1, <3>2
  <2>. QED
    BY <1>3, <1>4, <2>1, <2>2
<1>8. list \in Seq(Results) /\ Len(list) = Len(asked)
  <2>1. list = [k \in DOMAIN s |-> list[k]]
    BY DEF Sorted
  <2>. HIDE DEF list
  <2>2. list \in [1..Len(asked) -> Results]
    BY <1>2, <1>5, <1>7, <2>1
  <2>. QED
    BY <1>5, <2>2
<1>9. InOrder => \A k \in Positions : list[k].idx = asked[k]
  BY <1>2, <1>3, <1>5, SortedInOrder
<1>. HIDE DEF list
<1>10. /\ Annotated(list, graph) \in Seq(Results) /\ PassedIsEarned' /\ RootRemains'
  <2>1. \A k \in DOMAIN list : Earned(list[k])
    BY <1>4, <1>7
  <2>2. Annotated(list, graph) \in Seq(Results)
    BY <1>5, <1>8, <2>1, AnnotatedHasRoots
  <2>3. PassedIsEarned'
    BY <1>5, <1>6, <1>8, <2>1, AnnotatedHasRoots DEF PassedIsEarned
  <2>4. RootRemains'
    <3>1. graph' = graph
      BY <1>1
    <3>. DEFINE new == Annotated(list, graph)
    <3>2. \A k \in DOMAIN new : new[k].inherited =>
            \A a \in new[k].issues :
              \E j \in DOMAIN new : <<new[k].decl, new[j].decl>> \in graph.uses /\ a \in new[j].issues /\ ~new[j].inherited
      BY <1>5, <1>8, <2>1, AnnotatedHasRoots
    <3>3. final' = new
      BY <1>6
    <3>. HIDE DEF new
    <3>. QED
      BY <3>1, <3>2, <3>3 DEF RootRemains
  <2>. QED
    BY <2>2, <2>3, <2>4
<1>11. TypeOK'
  BY <1>1, <1>5, <1>6, <1>8, <1>10 DEF TypeOK, Positions
<1>12. EveryTargetReported'
  <2>. DEFINE c == [k \in Positions |-> b[q[k]]]
  <2>1. c \in Bijection(Positions, Positions)
    <3>1. c \in Injection(Positions, Positions)
      BY <1>7 DEF Bijection, Injection, IsInjective
    <3>. QED
      BY <1>5, <3>1, Stretch, FS_Injection DEF Bijection
  <2>2. \A k \in Positions : list[k].idx = asked[c[k]]
    BY <1>7
  <2>3. asked \in Seq(Goals) /\ DOMAIN list = Positions
    BY <1>4, <1>5, Asking
  <2>. HIDE DEF c
  <2>4. Reported(list)
    BY <1>8, <2>1, <2>2, <2>3, AllReported
  <2>5. asked' = asked /\ phase' = "done"
    BY <1>1
  <2>. QED
    BY <1>6, <2>4, <2>5 DEF EveryTargetReported, Reported
<1>13. ReturnedInv'
  BY <1>1, <1>4, <1>6, <1>9 DEF ReturnedInv, InOrder
<1>14. OwnVerdictInOrder'
  BY <1>1, <1>6 DEF EvalInv, OwnVerdictInOrder, OwnVerdict
<1>. QED
  BY <1>1, <1>10, <1>11, <1>12, <1>13, <1>14, SameFinished DEF EvalInv

\* The annotation fails: a book's progress report has all results.
LEMMA RaiseStep ==
  ASSUME EvalInv, ReportInv, FinalizeRaises
  PROVE  EvalInv'
<1>1. /\ phase = "assessing" /\ collected = Len(asked) /\ phase' = "raised"
      /\ \E k \in DOMAIN finished : Breaks(finished[k], graph)
      /\ UNCHANGED <<caller, asked, built, graph, free, task, finished, collected, results, final, report, latest, goals>>
  BY DEF FinalizeRaises
<1>2. TypeOK' /\ ~HasEnded' /\ Positions' = Positions
  BY <1>1 DEF EvalInv, TypeOK, HasEnded, Positions
<1>3. Reported(finished)
  BY <1>1, AllAssessed, AllReported, Asking DEF EvalInv
<1>4. caller = "book" => report = finished
  BY <1>1, AllAssessed DEF ReportInv
<1>5. EveryTargetReported'
  BY <1>1, <1>2, <1>3, <1>4 DEF EveryTargetReported, Reported
<1>6. ReturnedInv' /\ PassedIsEarned' /\ RootRemains'
  BY <1>1, <1>2 DEF EvalInv, ReturnedInv, PassedIsEarned, RootRemains
<1>7. OwnVerdictInOrder'
  BY <1>1, <1>2 DEF EvalInv, OwnVerdictInOrder, OwnVerdict
<1>. QED
  BY <1>1, <1>2, <1>5, <1>6, <1>7, SameFinished DEF EvalInv

\* A goal gets its status from a result whose owner it is.
LEMMA UpdateOwn ==
  ASSUME NEW list \in Seq(Results), NEW owner, NEW uncovered, Update(list, owner, uncovered),
         goals \in [Goals -> [status : {"pending", "completed", "failed"}, about : SUBSET Goals]]
  PROVE  /\ goals' \in [Goals -> [status : {"pending", "completed", "failed"}, about : SUBSET Goals]]
         /\ OwnVerdict /\ (\A k \in DOMAIN list : owner[k] = list[k].idx) => OwnVerdict'
<1>. DEFINE K(g) == {k \in DOMAIN list : owner[k] = g}
            last(g) == CHOOSE k \in K(g) : \A j \in K(g) : j <= k
<1>1. goals' = [g \in Goals |-> IF K(g) = {} THEN goals[g]
                  ELSE [status |-> StatusOf(list[last(g)], last(g) \in uncovered), about |-> {list[last(g)].idx}]]
  BY DEF Update
<1>2. ASSUME NEW g \in Goals, K(g) # {}
      PROVE  last(g) \in DOMAIN list /\ owner[last(g)] = g /\ list[last(g)] \in Results
  <2>1. Len(list) \in Nat /\ K(g) \in SUBSET (1..Len(list))
    OBVIOUS
  <2>2. \E k \in K(g) : \A j \in K(g) : j <= k
    BY <1>2, <2>1, HasLast
  <2>3. last(g) \in K(g)
    BY <2>2
  <2>. QED
    BY <2>3
<1>. HIDE DEF last
<1>3. ASSUME NEW g \in Goals
      PROVE  /\ goals'[g] \in [status : {"pending", "completed", "failed"}, about : SUBSET Goals]
             /\ OwnVerdict /\ (\A k \in DOMAIN list : owner[k] = list[k].idx) => goals'[g].about \subseteq {g}
  <2>1. CASE K(g) = {}
    <3>1. goals'[g] = goals[g]
      BY <1>1, <2>1
    <3>. QED
      BY <3>1 DEF OwnVerdict
  <2>2. CASE K(g) # {}
    <3>1. goals'[g] = [status |-> StatusOf(list[last(g)], last(g) \in uncovered), about |-> {list[last(g)].idx}]
      BY <1>1, <2>2
    <3>2. list[last(g)].idx \in Goals
      BY <1>2, <2>2 DEF Results
    <3>3. StatusOf(list[last(g)], last(g) \in uncovered) \in {"pending", "completed", "failed"}
      BY DEF StatusOf
    <3>. QED
      BY <1>2, <2>2, <3>1, <3>2, <3>3
  <2>. QED
    BY <2>1, <2>2
<1>4. DOMAIN goals' = Goals /\ goals' = [g \in Goals |-> goals'[g]]
  BY <1>1
<1>. QED
  BY <1>3, <1>4 DEF OwnVerdict

\* The statuses a merge's evaluation gives, and those that are copied from the report.
LEMMA VerdictStep ==
  ASSUME EvalInv, RecordVerdicts \/ Transfer
  PROVE  EvalInv'
<1>. DEFINE goalTypes == [Goals -> [status : {"pending", "completed", "failed"}, about : SUBSET Goals]]
<1>1. TypeOK /\ goals \in goalTypes /\ results \in Seq(Results) /\ report \in Seq(Results)
  BY DEF EvalInv, TypeOK
<1>2. CASE RecordVerdicts
  <2>1. /\ phase = "done" /\ phase' = "over"
        /\ Update(results, asked, {k \in DOMAIN results : results[k].reason = "not_found"})
        /\ UNCHANGED <<caller, asked, built, graph, free, task, finished, collected, results, final, report, latest>>
    BY <1>2 DEF RecordVerdicts
  <2>2. goals' \in goalTypes
    BY <1>1, <2>1, UpdateOwn
  <2>3. TypeOK'
    BY <1>1, <2>1, <2>2 DEF TypeOK, Positions
  <2>4. HasEnded /\ HasEnded' /\ Positions' = Positions /\ InOrder' = InOrder
    BY <2>1 DEF HasEnded, Positions, InOrder
  <2>5. ReturnedInv' /\ EveryTargetReported' /\ PassedIsEarned' /\ RootRemains'
    BY <2>1, <2>4 DEF EvalInv, ReturnedInv, EveryTargetReported, Reported, PassedIsEarned, RootRemains
  <2>6. ASSUME InOrder
        PROVE  OwnVerdict'
    <3>1. \A k \in DOMAIN results : asked[k] = results[k].idx
      BY <2>4, <2>6 DEF EvalInv, ReturnedInv
    <3>2. OwnVerdict
      BY <2>6 DEF EvalInv, OwnVerdictInOrder, InOrder
    <3>. QED
      BY <1>1, <2>1, <3>1, <3>2, UpdateOwn
  <2>7. OwnVerdictInOrder'
    BY <2>4, <2>6 DEF OwnVerdictInOrder, InOrder
  <2>. QED
    BY <2>1, <2>3, <2>5, <2>7, SameFinished DEF EvalInv
<1>3. CASE Transfer
  <2>. DEFINE owner == [k \in DOMAIN report |-> report[k].idx]
  <2>1. /\ Update(report, owner, {k \in DOMAIN report : report[k].decl \in {None, Nameless}})
        /\ UNCHANGED <<caller, asked, phase, built, graph, free, task, finished, collected, results, final, report, latest>>
    BY <1>3 DEF Transfer
  <2>2. \A k \in DOMAIN report : owner[k] = report[k].idx
    OBVIOUS
  <2>. HIDE DEF owner
  <2>3. goals' \in goalTypes /\ (OwnVerdict => OwnVerdict')
    BY <1>1, <2>1, <2>2, UpdateOwn
  <2>4. TypeOK'
    BY <1>1, <2>1, <2>3 DEF TypeOK, Positions
  <2>5. HasEnded' = HasEnded /\ Positions' = Positions
    BY <2>1 DEF HasEnded, Positions
  <2>6. ReturnedInv' /\ EveryTargetReported' /\ PassedIsEarned' /\ RootRemains'
    BY <2>1, <2>5 DEF EvalInv, ReturnedInv, EveryTargetReported, Reported, PassedIsEarned, RootRemains, InOrder
  <2>7. OwnVerdictInOrder'
    BY <2>1, <2>3, <2>5 DEF EvalInv, OwnVerdictInOrder
  <2>. QED
    BY <2>1, <2>4, <2>6, <2>7, SameFinished DEF EvalInv
<1>. QED
  BY <1>2, <1>3

\* Nothing but the last result's turn makes the results complete, and it writes them.
LEMMA ReportStep ==
  ASSUME EvalInv, ReportInv, [Next]_vars
  PROVE  ReportInv'
<1>1. /\ finished \in Seq(Results) /\ collected \in 0..Len(finished) /\ Len(finished) \in Nat
      /\ asked \in Seq(Goals) /\ asked # <<>> /\ Len(asked) \in Nat \ {0}
  <2>1. TypeOK /\ asked \in Seq(Goals)
    BY Asking DEF EvalInv
  <2>2. asked # <<>>
    BY <2>1, EvaluationAssumption DEF TypeOK
  <2>. QED
    BY <2>1, <2>2 DEF TypeOK
<1>2. CASE UNCHANGED <<caller, asked, phase, finished, collected, report>>
  BY <1>2 DEF ReportInv
<1>3. CASE phase' \notin {"gate", "assessing"}
  BY <1>3 DEF ReportInv
<1>4. CASE GatePasses
  BY <1>1, <1>4 DEF GatePasses, ReportInv
<1>5. CASE Collect
  <2>1. /\ phase' = "assessing" /\ caller' = caller /\ asked' = asked /\ finished' = finished
        /\ collected' = Len(asked) /\ caller = "book" => report' = SubSeq(finished, 1, collected')
    BY <1>5 DEF Collect, Written
  <2>. QED
    BY <2>1 DEF ReportInv
<1>6. ASSUME NEW i \in Positions, NEW result, Finish(i, result)
      PROVE  ReportInv'
  <2>1. UNCHANGED <<caller, asked, phase, collected, report>> /\ finished' = Append(finished, result)
    BY <1>6 DEF Finish
  <2>2. SubSeq(Append(finished, result), 1, collected) = SubSeq(finished, 1, collected)
    <3>. DEFINE T == Results \cup {result}
    <3>1. finished \in Seq(T) /\ result \in T
      BY <1>1
    <3>. HIDE DEF T
    <3>. QED
      BY <1>1, <3>1
  <2>. QED
    BY <2>1, <2>2 DEF ReportInv
<1>7. ASSUME NEW i \in Positions, AssessOne(i)
      PROVE  ReportInv'
  <2>1. CASE Enter(i) \/ OnlyTask
    <3>1. UNCHANGED <<caller, asked, phase, finished, collected, report>>
      BY <2>1 DEF Enter, OnlyTask
    <3>. QED
      BY <1>2, <3>1
  <2>2. Enter(i) \/ OnlyTask \/ \E result : Finish(i, result)
    <3>1. Correct(i) => OnlyTask \/ \E result : Finish(i, result)
      BY DEF Correct
    <3>2. (\E r \in Rubrics : Vote(i, r)) => OnlyTask
      BY DEF Vote
    <3>3. Match(i) \/ Resolve(i) \/ Unresolved(i) \/ BeginJudging(i) => OnlyTask
      BY DEF Match, Resolve, Unresolved, BeginJudging
    <3>4. NoMatch(i) \/ NotBuilt(i) \/ Conclude(i) \/ Fail(i) => \E result : Finish(i, result)
      BY DEF NoMatch, NotBuilt, Conclude, Fail
    <3>. QED
      BY <1>7, <3>1, <3>2, <3>3, <3>4 DEF AssessOne
  <2>. QED
    BY <1>6, <2>1, <2>2
<1>8. CASE GraphDone \/ Transfer
  <2>1. UNCHANGED <<caller, asked, phase, finished, collected, report>>
    BY <1>8 DEF GraphDone, Transfer
  <2>. QED
    BY <1>2, <2>1
<1>9. CASE GateFails \/ Finalize \/ FinalizeRaises \/ Publish \/ RecordVerdicts \/ Stop
  <2>1. phase' \notin {"gate", "assessing"}
    BY <1>9 DEF GateFails, Finalize, Returned, FinalizeRaises, Publish, Step, RecordVerdicts, Stop
  <2>. QED
    BY <1>3, <2>1
<1>10. CASE UNCHANGED vars
  BY <1>2, <1>10 DEF vars
<1>. QED
  BY <1>4, <1>5, <1>7, <1>8, <1>9, <1>10 DEF Next, Assess

---------------------------------------------------------------------------
(* The theorems *)

\* The inductive invariant.
THEOREM EvaluationInvariant == Spec => [](EvalInv /\ ReportInv)
<1>1. Init => EvalInv /\ ReportInv
  <2>. SUFFICES ASSUME Init
                PROVE  EvalInv /\ ReportInv
    OBVIOUS
  <2>1. PICK e \in Evaluations : caller = e.caller /\ asked = e.asked
    BY DEF Init
  <2>2. e \in [caller : {"book", "merge"}, asked : Seq(Goals) \ {<<>>}] /\ e = [caller |-> caller, asked |-> asked]
    BY <2>1, EvaluationAssumption
  <2>. DEFINE t == [at |-> "waiting", decl |-> None, retries |-> 0, checked |-> FALSE,
                    votes |-> NoVotes, issues |-> {}, only |-> FALSE]
  <2>3. t \in Assessments /\ Fit(t)
    BY EvaluationAssumption DEF Assessments, Places, NoVotes, Fit
  <2>. HIDE DEF t
  <2>4. task = [i \in Positions |-> t] /\ task \in [Positions -> Assessments] /\ \A i \in Positions : task[i] = t
    BY <2>3 DEF Init, t
  <2>5. /\ phase = "gate" /\ built = FALSE /\ graph = NoGraph /\ finished = <<>> /\ collected = 0
        /\ results = <<>> /\ final = <<>> /\ report = <<>>
        /\ goals = [g \in Goals |-> [status |-> "pending", about |-> {}]]
        /\ latest \in BOOLEAN /\ free \in Nat
    BY EvaluationAssumption DEF Init
  <2>6. TypeOK
    <3>1. <<>> \in Seq(Results) /\ Len(<<>>) = 0
      OBVIOUS
    <3>2. [caller |-> caller, asked |-> asked] \in Evaluations
      BY <2>1, <2>2
    <3>3. goals \in [Goals -> [status : {"pending", "completed", "failed"}, about : SUBSET Goals]]
      BY <2>5
    <3>4. task \in [Positions -> [at : Places, decl : Decls \cup {None, Nameless}, retries : 0..MaxRetries, checked : BOOLEAN,
                                  votes : [Rubrics -> {None, "pass", "fail"}], issues : SUBSET Axioms, only : BOOLEAN]]
      BY <2>4 DEF Assessments
    <3>5. collected \in 0..Len(finished)
      BY <2>5, <3>1
    <3>. QED
      BY <2>5, <3>1, <3>2, <3>3, <3>4, <3>5 DEF TypeOK
  <2>7. WorkInv
    BY <2>3, <2>4 DEF WorkInv
  <2>8. FinishedInv
    <3>. DEFINE p == [k \in {} |-> 1]
    <3>1. p \in Injection({}, Positions)
      BY DEF Injection, IsInjective
    <3>2. DOMAIN finished = {}
      BY <2>5
    <3>. QED
      BY <3>1, <3>2 DEF FinishedInv
  <2>9. ReturnedInv /\ EveryTargetReported /\ PassedIsEarned /\ RootRemains /\ OwnVerdictInOrder
    BY <2>5 DEF ReturnedInv, HasEnded, EveryTargetReported, PassedIsEarned, RootRemains, OwnVerdictInOrder, OwnVerdict
  <2>10. ReportInv
    BY <2>5 DEF ReportInv
  <2>. QED
    BY <2>6, <2>7, <2>8, <2>9, <2>10 DEF EvalInv
<1>2. EvalInv /\ ReportInv /\ [Next]_vars => EvalInv' /\ ReportInv'
  <2>. SUFFICES ASSUME EvalInv, ReportInv, [Next]_vars
                PROVE  EvalInv'
    BY ReportStep
  <2>1. CASE UNCHANGED vars
    <3>1. TypeOK' /\ HasEnded' = HasEnded
      BY <2>1 DEF EvalInv, TypeOK, vars, Positions, HasEnded
    <3>. QED
      BY <2>1, <3>1, SameOutcome, SameFinished DEF EvalInv, vars
  <2>2. CASE \E i \in Positions : AssessOne(i)
    BY <2>2, AssessOneStep
  <2>3. CASE GatePasses \/ GateFails \/ GraphDone \/ Collect \/ Publish \/ Stop
    BY <2>3, GateStep
  <2>4. CASE Finalize
    BY <2>4, FinalizeStep
  <2>5. CASE RecordVerdicts \/ Transfer
    BY <2>5, VerdictStep
  <2>6. CASE FinalizeRaises
    BY <2>6, RaiseStep
  <2>. QED
    BY <2>1, <2>2, <2>3, <2>4, <2>5, <2>6 DEF Next, Assess
<1>. QED
  BY <1>1, <1>2, PTL DEF Spec

\* Assessments, results, report and goals keep their types.
THEOREM EvaluationTypeCorrect == Spec => []TypeOK
<1>1. EvalInv => TypeOK
  BY DEF EvalInv
<1>. QED
  BY <1>1, EvaluationInvariant, PTL

\* Every target asked for has its result, once for each time it was asked for, or an
\* entry's failure on axioms of a declaration without a node ended it all, and a book's
\* progress report has them (assess_targets()).
THEOREM EveryTargetAlwaysReported == Spec => []EveryTargetReported
<1>1. EvalInv => EveryTargetReported
  BY DEF EvalInv
<1>. QED
  BY <1>1, EvaluationInvariant, PTL

\* What passes has a declaration that was resolved or has an empty name, and the judges'
\* votes or, if it was resolved, an inherited failure (match_statement(), the graders).
THEOREM PassedAlwaysEarned == Spec => []PassedIsEarned
<1>1. EvalInv => PassedIsEarned
  BY DEF EvalInv
<1>. QED
  BY <1>1, EvaluationInvariant, PTL

\* A failure that is inherited has a root, whatever the graph without cycles
\* (_annotate_inherited_failures()).
THEOREM RootAlwaysRemains == Spec => []RootRemains
<1>1. EvalInv => RootRemains
  BY DEF EvalInv
<1>. QED
  BY <1>1, EvaluationInvariant, PTL

\* Goals asked for in order get the status of their own results, in whatever order the
\* assessments end (assess_targets(), _update_tracker()).
THEOREM OwnVerdictsInOrder == Spec => []OwnVerdictInOrder
<1>1. EvalInv => OwnVerdictInOrder
  BY DEF EvalInv
<1>. QED
  BY <1>1, EvaluationInvariant, PTL
=============================================================================
