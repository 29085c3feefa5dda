---------------------------- MODULE AgentProofs ----------------------------
(***************************************************************************)
(* Theorems about agents and the merge queue they hand their work in to:   *)
(* about MergeQueue for every set of agents, every batch size, every world *)
(* and every budget of mishaps; about AgentLoop for every limit of turns,  *)
(* calls, messages and processes, and any answer of the language model.    *)
(***************************************************************************)
EXTENDS MergeQueue, AgentLoop, FiniteSetTheorems, SequenceTheorems, TLAPS

(* The merge queue *)


Outcomes == {"none", "pending", "merged", "rejected", "lost"}

QInv == TypeOK /\ LandingInv

(* The values of the variables of a batch that has ended. *)
LEMMA EndType ==
  ASSUME EndBatch
  PROVE  /\ pc' = "idle"
         /\ batch' \in Seq(Requests) /\ Len(batch') = 0
         /\ todo' \in Seq(Requests) /\ kept' \in Seq(Requests) /\ rest' \in Seq(Requests)
         /\ ref' \subseteq Requests /\ pre' \subseteq Requests
         /\ staging' \subseteq Requests /\ merged' \subseteq Requests
BY DEF EndBatch

(* set_result() keeps futures futures. *)
LEMMA ResolvedType ==
  ASSUME TypeOK, NEW reqs, NEW verdict \in Outcomes
  PROVE  Resolved(reqs, verdict) \in [Requests -> Outcomes]
BY DEF Resolved, TypeOK, Outcomes

(* An exception leaves the queue idle and well typed, and does not touch main. *)
LEMMA ThrowSafe ==
  ASSUME QInv, NEW out \in [Requests -> Outcomes], Throw(out),
         UNCHANGED <<world, worktrees, queue>>, mishaps' \in 0..MaxMishaps
  PROVE  QInv'
<1>1. outcome' \in [Requests -> Outcomes]
  BY DEF Throw, Outcomes
<1>2. TypeOK'
  BY <1>1, EndType, QueueAssumption DEF QInv, TypeOK, Throw, worktrees, States, Outcomes
<1>3. LandingInv'
  BY EndType DEF QInv, LandingInv, Throw, Builds
<1> QED BY <1>2, <1>3 DEF QInv

(* What is left to show of a step that resolves futures: the case that no     *)
(* future of them is done.                                                    *)
LEMMA ResolveSafe ==
  ASSUME QInv, NEW reqs, NEW verdict \in Outcomes, Raises(reqs),
         Throw(Resolved(reqs, verdict)), UNCHANGED queue,
         UNCHANGED <<world, worktrees>>, mishaps' \in 0..MaxMishaps
  PROVE  QInv'
<1>1. Resolved(reqs, verdict) \in [Requests -> Outcomes]
  BY ResolvedType DEF QInv
<1> QED BY <1>1, ThrowSafe

(* A mishap stays within the budget. *)
LEMMA MishapType ==
  ASSUME TypeOK, NEW kind, Mishap(kind) \/ UNCHANGED mishaps
  PROVE  mishaps' \in 0..MaxMishaps
BY QueueAssumption DEF TypeOK, Mishap

---------------------------------------------------------------------------
(* The agents. *)
LEMMA AgentSafe ==
  ASSUME QInv, NEW a \in Agents, Work(a) \/ Submit(a) \/ Abandon(a)
  PROVE  QInv'
<1>1. CASE Work(a)
  <2>1. TypeOK'
    BY <1>1 DEF QInv, TypeOK, Work, Requests, batchVars
  <2>2. LandingInv'
    BY <1>1 DEF QInv, LandingInv, Work, Builds, batchVars
  <2> QED BY <2>1, <2>2 DEF QInv
<1>2. CASE Submit(a)
  <2>1. PICK r \in work[a] : outcome' = [outcome EXCEPT ![r] = "pending"] /\ queue' = Append(queue, r)
    BY <1>2 DEF Submit
  <2>2. r \in Requests
    BY DEF QInv, TypeOK
  <2>3. TypeOK'
    BY <1>2, <2>1, <2>2 DEF QInv, TypeOK, Submit, worktrees, batchVars
  <2>4. LandingInv'
    BY <1>2 DEF QInv, LandingInv, Submit, Builds, batchVars
  <2> QED BY <2>3, <2>4 DEF QInv
<1>3. CASE Abandon(a)
  <2>1. TypeOK'
    BY <1>3, MishapType DEF QInv, TypeOK, Abandon, batchVars
  <2>2. LandingInv'
    BY <1>3 DEF QInv, LandingInv, Abandon, Builds, batchVars
  <2> QED BY <2>1, <2>2 DEF QInv
<1> QED BY <1>1, <1>2, <1>3

---------------------------------------------------------------------------
(* Collecting, rebasing and staging. *)
LEMMA CollectSafe ==
  ASSUME QInv, Collect
  PROVE  QInv'
<1> DEFINE n == Smaller(BatchSize, Len(queue))
<1>1. /\ batch' = SubSeq(queue, 1, n)
      /\ queue' = SubSeq(queue, n + 1, Len(queue))
  BY DEF Collect
<1>2. queue \in Seq(Requests) /\ Len(queue) \in Nat
  BY DEF QInv, TypeOK
<1>3. n \in Nat /\ n <= BatchSize /\ n <= Len(queue)
  BY <1>2, QueueAssumption DEF Smaller
<1>4. \A i \in 1..Len(queue) : queue[i] \in Requests
  BY <1>2
<1>5. batch' \in Seq(Requests) /\ Len(batch') = n
  BY <1>1, <1>2, <1>3, <1>4
<1>6. queue' \in Seq(Requests)
  BY <1>1, <1>2, <1>3, <1>4
<1>7. TypeOK'
  BY <1>3, <1>5, <1>6 DEF QInv, TypeOK, Collect, worktrees, States
<1>8. LandingInv'
  BY DEF QInv, LandingInv, Collect, Builds
<1> QED BY <1>7, <1>8 DEF QInv

LEMMA RebaseSafe ==
  ASSUME QInv, RebaseOk \/ RebaseFail \/ StartStaging
  PROVE  QInv'
<1>1. CASE RebaseOk
  <2>1. Head(todo) \in Requests /\ Tail(todo) \in Seq(Requests)
    BY <1>1 DEF RebaseOk, QInv, TypeOK
  <2>2. TypeOK'
    BY <1>1, <2>1 DEF QInv, TypeOK, RebaseOk, Requests
  <2>3. LandingInv'
    BY <1>1 DEF QInv, LandingInv, RebaseOk, Builds
  <2> QED BY <2>2, <2>3 DEF QInv
<1>2. CASE RebaseFail
  <2>1. mishaps' \in 0..MaxMishaps
    BY <1>2, MishapType DEF RebaseFail, QInv
  <2>2. CASE Raises(<<Head(todo)>>)
    BY <1>2, <2>1, <2>2, ResolveSafe DEF RebaseFail, Resolve, Outcomes
  <2>3. CASE ~Raises(<<Head(todo)>>)
    <3>1. outcome' \in [Requests -> Outcomes]
      BY <1>2, <2>3, ResolvedType DEF RebaseFail, Resolve, QInv, Outcomes
    <3>2. Tail(todo) \in Seq(Requests)
      BY <1>2 DEF RebaseFail, QInv, TypeOK
    <3>3. TypeOK'
      BY <1>2, <2>1, <2>3, <3>1, <3>2 DEF QInv, TypeOK, RebaseFail, Resolve, worktrees, Outcomes
    <3>4. LandingInv'
      BY <1>2, <2>3 DEF QInv, LandingInv, RebaseFail, Resolve, Builds
    <3> QED BY <3>3, <3>4 DEF QInv
  <2> QED BY <2>2, <2>3
<1>3. CASE StartStaging
  <2>1. TypeOK'
    BY <1>3 DEF QInv, TypeOK, StartStaging, worktrees, States
  <2>2. LandingInv'
    BY <1>3 DEF QInv, LandingInv, StartStaging, Builds
  <2> QED BY <2>1, <2>2 DEF QInv
<1> QED BY <1>1, <1>2, <1>3

(* A pick adds changes to staging and takes none out. *)
LEMMA PickType ==
  ASSUME TypeOK, todo # <<>>
  PROVE  /\ Head(todo) \in Requests /\ Tail(todo) \in Seq(Requests)
         /\ Commits(Head(todo)[1]) \subseteq Requests
<1>1. Head(todo) \in Requests /\ Tail(todo) \in Seq(Requests)
  BY DEF TypeOK
<1> QED BY <1>1 DEF TypeOK, Commits, Requests

LEMMA StageSafe ==
  ASSUME QInv, StageOk \/ StageDefer \/ BuildBatch
  PROVE  QInv'
<1>1. CASE StageOk
  <2>1. TypeOK'
    BY <1>1, PickType DEF QInv, TypeOK, StageOk, worktrees
  <2>2. LandingInv'
    BY <1>1 DEF QInv, LandingInv, StageOk, Builds
  <2> QED BY <2>1, <2>2 DEF QInv
<1>2. CASE StageDefer
  <2>1. mishaps' \in 0..MaxMishaps
    BY <1>2, MishapType DEF StageDefer, QInv
  <2>2. TypeOK'
    BY <1>2, <2>1, PickType DEF QInv, TypeOK, StageDefer, worktrees
  <2>3. LandingInv'
    BY <1>2 DEF QInv, LandingInv, StageDefer, Builds
  <2> QED BY <2>2, <2>3 DEF QInv
<1>3. CASE BuildBatch
  <2>1. TypeOK'
    BY <1>3 DEF QInv, TypeOK, BuildBatch, worktrees, batchVars, States
  <2>2. LandingInv'
    BY <1>3 DEF QInv, LandingInv, BuildBatch, Builds, batchVars
  <2> QED BY <2>1, <2>2 DEF QInv
<1> QED BY <1>1, <1>2, <1>3

---------------------------------------------------------------------------
(* Landing.  Land is the step that moves main: staging contains main and has  *)
(* been built, so the new main is staging.                                    *)
LEMMA LandSafe ==
  ASSUME QInv, Land \/ LandFail \/ Report \/ Finish
  PROVE  QInv'
<1>1. CASE Land
  <2>1. TypeOK'
    BY <1>1 DEF QInv, TypeOK, Land, worktrees, batchVars, States
  <2>2. main' = staging
    BY <1>1 DEF Land, QInv, LandingInv
  <2>3. Builds(main)'
    BY <1>1, <2>2 DEF Land, QInv, LandingInv, Builds
  <2>4. LandingInv'
    BY <1>1, <2>3 DEF LandingInv, Land, batchVars
  <2> QED BY <2>1, <2>4 DEF QInv
<1>2. CASE LandFail
  <2>1. mishaps' \in 0..MaxMishaps
    BY <1>2, MishapType DEF LandFail, QInv
  <2>2. CASE Raises(kept)
    BY <1>2, <2>1, <2>2, ResolveSafe DEF LandFail, Resolve, Outcomes
  <2>3. CASE ~Raises(kept)
    <3>1. outcome' \in [Requests -> Outcomes]
      BY <1>2, <2>3, ResolvedType DEF LandFail, Resolve, QInv, Outcomes
    <3>2. TypeOK'
      BY <1>2, <2>1, <2>3, <3>1
      DEF QInv, TypeOK, LandFail, Resolve, NextHalf, worktrees, Outcomes, States
    <3>3. LandingInv'
      BY <1>2, <2>3 DEF QInv, LandingInv, LandFail, Resolve, NextHalf, Builds
    <3> QED BY <3>2, <3>3 DEF QInv
  <2> QED BY <2>2, <2>3
<1>3. CASE Report
  <2>1. mishaps' \in 0..MaxMishaps
    BY <1>3 DEF Report, QInv, TypeOK
  <2>2. CASE Raises(kept)
    BY <1>3, <2>1, <2>2, ResolveSafe DEF Report, Resolve, Outcomes
  <2>3. CASE ~Raises(kept)
    <3>1. outcome' \in [Requests -> Outcomes]
      BY <1>3, <2>3, ResolvedType DEF Report, Resolve, QInv, Outcomes
    <3>2. ToSet(kept) \subseteq Requests
      BY DEF QInv, TypeOK, ToSet
    <3>3. TypeOK'
      BY <1>3, <2>1, <2>3, <3>1, <3>2
      DEF QInv, TypeOK, Report, Resolve, NextHalf, worktrees, Outcomes, States
    <3>4. LandingInv'
      BY <1>3, <2>3 DEF QInv, LandingInv, Report, Resolve, NextHalf, Builds
    <3> QED BY <3>3, <3>4 DEF QInv
  <2> QED BY <2>2, <2>3
<1>4. CASE Finish
  <2>1. evaluated' \subseteq Requests
    BY <1>4 DEF Finish, QInv, TypeOK
  <2>2. TypeOK'
    BY <1>4, <2>1, EndType, QueueAssumption DEF QInv, TypeOK, Finish, worktrees, States
  <2>3. LandingInv'
    BY <1>4, EndType DEF QInv, LandingInv, Finish, Builds
  <2> QED BY <2>2, <2>3 DEF QInv
<1> QED BY <1>1, <1>2, <1>3, <1>4

---------------------------------------------------------------------------
(* Bisection. *)
LEMMA HalvesType ==
  ASSUME NEW s \in Seq(Requests)
  PROVE  LeftHalf(s) \in Seq(Requests) /\ RightHalf(s) \in Seq(Requests)
<1> DEFINE h == Len(s) \div 2
<1>1. Len(s) \in Nat /\ h \in Nat /\ h <= Len(s)
  OBVIOUS
<1>2. \A i \in 1..Len(s) : s[i] \in Requests
  OBVIOUS
<1> QED BY <1>1, <1>2 DEF LeftHalf, RightHalf

LEMMA RemoveAtType ==
  ASSUME NEW s \in Seq(Requests), NEW i \in 1..Len(s)
  PROVE  RemoveAt(s, i) \in Seq(Requests)
<1>1. SubSeq(s, 1, i - 1) \in Seq(Requests)
  OBVIOUS
<1>2. SubSeq(s, i + 1, Len(s)) \in Seq(Requests)
  OBVIOUS
<1> QED BY <1>1, <1>2 DEF RemoveAt

(* Deferring the right half appends it to the queue. *)
LEMMA DeferType ==
  ASSUME QInv
  PROVE  queue \o rest \in Seq(Requests)
<1>1. queue \in Seq(Requests) /\ rest \in Seq(Requests)
  BY DEF QInv, TypeOK
<1> QED BY <1>1

LEMMA BisectSafe ==
  ASSUME QInv, Culprit \/ BisectNobody \/ Split \/ RetestOk \/ RetestFail \/ RetestBuild
  PROVE  QInv'
<1>1. CASE Culprit
  <2>1. mishaps' \in 0..MaxMishaps
    BY <1>1 DEF Culprit, QInv, TypeOK
  <2>2. CASE Raises(kept)
    BY <1>1, <2>1, <2>2, ResolveSafe DEF Culprit, Resolve, Outcomes
  <2>3. CASE ~Raises(kept)
    <3>1. outcome' \in [Requests -> Outcomes]
      BY <1>1, <2>3, ResolvedType DEF Culprit, Resolve, QInv, Outcomes
    <3>2. TypeOK'
      BY <1>1, <2>1, <2>3, <3>1
      DEF QInv, TypeOK, Culprit, Resolve, worktrees, batchVars, Outcomes, States
    <3>3. LandingInv'
      BY <1>1, <2>3 DEF QInv, LandingInv, Culprit, Resolve, batchVars, Builds
    <3> QED BY <3>2, <3>3 DEF QInv
  <2> QED BY <2>2, <2>3
<1>2. CASE BisectNobody
  <2>1. outcome \in [Requests -> Outcomes] /\ mishaps' \in 0..MaxMishaps
    BY <1>2 DEF BisectNobody, QInv, TypeOK, Outcomes
  <2> QED BY <1>2, <2>1, ThrowSafe DEF BisectNobody
<1>3. CASE Split
  <2>1. kept' \in Seq(Requests) /\ rest' \in Seq(Requests) /\ todo' = kept'
    BY <1>3, HalvesType DEF Split, QInv, TypeOK
  <2>2. TypeOK'
    BY <1>3, <2>1 DEF QInv, TypeOK, Split, worktrees, States
  <2>3. LandingInv'
    BY <1>3, <2>1 DEF QInv, LandingInv, Split, Builds
  <2> QED BY <2>2, <2>3 DEF QInv
<1>4. CASE RetestOk
  <2>1. TypeOK'
    BY <1>4, PickType DEF QInv, TypeOK, RetestOk, worktrees
  <2>2. Len(Tail(todo)) <= Len(todo)
    BY <1>4 DEF RetestOk, QInv, TypeOK
  <2>3. Len(todo') <= Len(kept')
    BY <1>4, <2>2 DEF RetestOk, QInv, TypeOK, LandingInv
  <2>4. LandingInv'
    BY <1>4, <2>3 DEF QInv, LandingInv, RetestOk, Builds
  <2> QED BY <2>1, <2>4 DEF QInv
<1>5. CASE RetestFail
  <2>1. mishaps' \in 0..MaxMishaps
    BY <1>5, MishapType DEF RetestFail, QInv
  <2>2. CASE Raises(<<Head(todo)>>)
    BY <1>5, <2>1, <2>2, ResolveSafe DEF RetestFail, Resolve, Outcomes
  <2>3. CASE ~Raises(<<Head(todo)>>)
    <3>1. outcome' \in [Requests -> Outcomes]
      BY <1>5, <2>3, ResolvedType DEF RetestFail, Resolve, QInv, Outcomes
    <3>2. Len(kept) - Len(todo) + 1 \in 1..Len(kept)
      BY <1>5 DEF RetestFail, QInv, TypeOK, LandingInv
    <3>3. kept' \in Seq(Requests)
      BY <1>5, <2>3, <3>2, RemoveAtType DEF RetestFail, Resolve, QInv, TypeOK
    <3>4. queue' \in Seq(Requests) /\ rest' \in Seq(Requests) /\ todo' \in Seq(Requests)
      <4>1. queue' = queue \o rest /\ rest' = <<>> /\ todo' = <<>>
        BY <1>5, <2>3 DEF RetestFail, Resolve, DeferRight
      <4> QED BY <4>1, DeferType
    <3>5. pc' = "bisect"
      BY <1>5, <2>3 DEF RetestFail, Resolve, DeferRight
    <3>6. TypeOK'
      BY <1>5, <2>1, <2>3, <3>1, <3>3, <3>4, <3>5
      DEF QInv, TypeOK, RetestFail, Resolve, worktrees, Outcomes, States
    <3>7. LandingInv'
      BY <1>5, <2>3, <3>5 DEF QInv, LandingInv, RetestFail, Resolve, Builds
    <3> QED BY <3>6, <3>7 DEF QInv
  <2> QED BY <2>2, <2>3
<1>6. CASE RetestBuild
  <2>1. TypeOK'
    BY <1>6, DeferType DEF QInv, TypeOK, RetestBuild, DeferRight, worktrees, States
  <2>2. LandingInv'
    BY <1>6 DEF QInv, LandingInv, RetestBuild, DeferRight, Builds
  <2> QED BY <2>1, <2>2 DEF QInv
<1> QED BY <1>1, <1>2, <1>3, <1>4, <1>5, <1>6

---------------------------------------------------------------------------
(* Failures. *)
LEMMA FailureSafe ==
  ASSUME QInv, Raise \/ Crash
  PROVE  QInv'
<1>1. CASE Raise
  <2>1. outcome \in [Requests -> Outcomes] /\ mishaps' \in 0..MaxMishaps
    BY <1>1, MishapType DEF Raise, QInv, TypeOK, Outcomes
  <2> QED BY <1>1, <2>1, ThrowSafe DEF Raise
<1>2. CASE Crash
  <2>1. mishaps' \in 0..MaxMishaps
    BY <1>2, MishapType DEF Crash, QInv
  <2>2. TypeOK'
    BY <1>2, <2>1, EndType, QueueAssumption DEF QInv, TypeOK, Crash, States
  <2>3. LandingInv'
    BY <1>2, EndType DEF QInv, LandingInv, Crash, Builds
  <2> QED BY <2>2, <2>3 DEF QInv
<1> QED BY <1>1, <1>2

---------------------------------------------------------------------------
LEMMA InitSafe == Init => QInv
<1> SUFFICES ASSUME Init PROVE QInv
  OBVIOUS
<1>1. TypeOK
  BY QueueAssumption DEF Init, TypeOK, States
<1>2. LandingInv
  BY QueueAssumption DEF Init, LandingInv, Builds
<1> QED BY <1>1, <1>2 DEF QInv

LEMMA NextSafe == QInv /\ [Next]_vars => QInv'
<1> SUFFICES ASSUME QInv, [Next]_vars PROVE QInv'
  OBVIOUS
<1>1. CASE UNCHANGED vars
  <2>1. TypeOK'
    BY <1>1 DEF QInv, TypeOK, vars, worktrees, batchVars
  <2>2. LandingInv'
    BY <1>1 DEF QInv, LandingInv, Builds, vars, worktrees, batchVars
  <2> QED BY <2>1, <2>2 DEF QInv
<1>2. CASE QueueStep
  BY <1>2, CollectSafe, RebaseSafe, StageSafe, LandSafe, BisectSafe DEF QueueStep
<1>3. CASE Poll
  BY <1>1, <1>3 DEF Poll
<1> QED BY <1>1, <1>2, <1>3, AgentSafe, FailureSafe DEF Next

(* The strengthened invariant: TypeOK with what each phase knows of ref and   *)
(* staging (LandingInv).                                                      *)
THEOREM LandingInvariant == Spec => [](TypeOK /\ LandingInv)
<1>1. Spec => []QInv
  BY InitSafe, NextSafe, PTL DEF Spec
<1> QED BY <1>1 DEF QInv

(* Every variable keeps its type: merge_queue.py's batches are never longer   *)
(* than batch_size, and every list is one of requests.                        *)
THEOREM QueueTypeCorrect == Spec => []TypeOK
BY LandingInvariant, PTL

(* Every main there ever is builds, in every world, for any number of agents, *)
(* submissions and mishaps: merge_to_main is only called with a staging tree  *)
(* that was built on top of the main it is merged into.                       *)
THEOREM MainAlwaysBuilds == Spec => []MainBuilds
<1>1. LandingInv => MainBuilds
  BY DEF LandingInv, MainBuilds
<1> QED BY <1>1, LandingInvariant, PTL
---------------------------------------------------------------------------
(* Merged work is in main.                                                   *)

\* What an agent has in its worktree and what the queue's lists know of it.
Mine(r) == r \in work[r[1]]

\* Worktrees hold their agent's own change on a main there has been, and the
\* lists hold what was submitted.
WorktreesInv ==
  /\ \A a \in Agents : base[a] \subseteq main /\ \A r \in work[a] : r[1] = a
  /\ \A r \in ToSet(queue) \cup ToSet(todo) \cup ToSet(kept) \cup ToSet(rest) : outcome[r] # "none"

\* What is kept has been picked, unless its agent has left it: that is the case
\* of the whole list, except in a retest, where todo is still to be picked.
PickedInv ==
  /\ \A r \in ToSet(kept) : Mine(r) =>
       /\ pc \in {"stage", "land"} => r \in staging
       /\ pc = "retest" => r \in staging \cup ToSet(todo)
       /\ pc = "report" => r \in main

MergedInv == WorktreesInv /\ PickedInv /\ MergedIsInMain

(* What the operations on lists keep of their elements.                      *)
LEMMA ToSetAppend ==
  ASSUME NEW s \in Seq(Requests), NEW r \in Requests
  PROVE  ToSet(Append(s, r)) = ToSet(s) \cup {r}
<1>. DEFINE u == Append(s, r)
<1>1. /\ \A i \in DOMAIN s : i \in DOMAIN u /\ u[i] = s[i]
      /\ Len(s) + 1 \in DOMAIN u /\ u[Len(s) + 1] = r
      /\ \A i \in DOMAIN u : i \in DOMAIN s \/ i = Len(s) + 1
  OBVIOUS
<1>. HIDE DEF u
<1>2. ToSet(s) \cup {r} \subseteq ToSet(u)
  BY <1>1 DEF ToSet
<1>3. ToSet(u) \subseteq ToSet(s) \cup {r}
  BY <1>1 DEF ToSet
<1>. QED
  BY <1>2, <1>3 DEF u

LEMMA ToSetTail ==
  ASSUME NEW s \in Seq(Requests), s # <<>>
  PROVE  ToSet(s) = {Head(s)} \cup ToSet(Tail(s))
<1>. DEFINE u == Tail(s)
<1>1. /\ Len(s) \in Nat \ {0} /\ DOMAIN s = 1..Len(s) /\ s[1] = Head(s)
      /\ DOMAIN u = 1..(Len(s) - 1)
      /\ \A i \in DOMAIN u : u[i] = s[i + 1]
  OBVIOUS
<1>. HIDE DEF u
<1>2. {Head(s)} \cup ToSet(u) \subseteq ToSet(s)
  BY <1>1 DEF ToSet
<1>3. \A i \in DOMAIN s : i = 1 \/ (i - 1 \in DOMAIN u /\ u[i - 1] = s[i])
  <2>. SUFFICES ASSUME NEW i \in DOMAIN s, i # 1
                PROVE  i - 1 \in DOMAIN u /\ u[i - 1] = s[i]
    OBVIOUS
  <2>1. i - 1 \in 1..(Len(s) - 1) /\ (i - 1) + 1 = i
    BY <1>1
  <2>. QED
    BY <1>1, <2>1
<1>4. ToSet(s) \subseteq {Head(s)} \cup ToSet(u)
  BY <1>1, <1>3 DEF ToSet
<1>. QED
  BY <1>2, <1>4 DEF u

LEMMA ToSetConcat ==
  ASSUME NEW s \in Seq(Requests), NEW t \in Seq(Requests)
  PROVE  ToSet(s \o t) \subseteq ToSet(s) \cup ToSet(t)
<1>. DEFINE u == s \o t
<1>1. \A i \in DOMAIN u :
        \/ i \in DOMAIN s /\ u[i] = s[i]
        \/ i - Len(s) \in DOMAIN t /\ u[i] = t[i - Len(s)]
  OBVIOUS
<1>. HIDE DEF u
<1>2. ToSet(u) \subseteq ToSet(s) \cup ToSet(t)
  BY <1>1 DEF ToSet
<1>. QED
  BY <1>2 DEF u

LEMMA ToSetSubSeq ==
  ASSUME NEW s \in Seq(Requests), NEW m \in Nat \ {0}, NEW n \in Nat, n <= Len(s)
  PROVE  ToSet(SubSeq(s, m, n)) \subseteq ToSet(s)
<1>. DEFINE u == SubSeq(s, m, n)
<1>1. \A i \in DOMAIN u : i + m - 1 \in DOMAIN s /\ u[i] = s[i + m - 1]
  OBVIOUS
<1>. HIDE DEF u
<1>2. ToSet(u) \subseteq ToSet(s)
  BY <1>1 DEF ToSet
<1>. QED
  BY <1>2 DEF u

LEMMA ToSetHalves ==
  ASSUME NEW s \in Seq(Requests)
  PROVE  ToSet(LeftHalf(s)) \subseteq ToSet(s) /\ ToSet(RightHalf(s)) \subseteq ToSet(s)
<1>. DEFINE h == Len(s) \div 2
<1>1. Len(s) \in Nat /\ h \in Nat /\ h <= Len(s)
  OBVIOUS
<1>. HIDE DEF h
<1>2. ToSet(SubSeq(s, 1, h)) \subseteq ToSet(s)
  BY <1>1, ToSetSubSeq
<1>3. ToSet(SubSeq(s, h + 1, Len(s))) \subseteq ToSet(s)
  BY <1>1, ToSetSubSeq
<1>. QED
  BY <1>2, <1>3 DEF LeftHalf, RightHalf, h

LEMMA ToSetRemoveAt ==
  ASSUME NEW s \in Seq(Requests), NEW i \in 1..Len(s)
  PROVE  ToSet(RemoveAt(s, i)) \subseteq ToSet(s)
<1>1. i \in Nat \ {0} /\ i - 1 \in Nat /\ i - 1 <= Len(s) /\ Len(s) \in Nat
  OBVIOUS
<1>. DEFINE p == SubSeq(s, 1, i - 1)
            q == SubSeq(s, i + 1, Len(s))
<1>2. p \in Seq(Requests) /\ q \in Seq(Requests)
  OBVIOUS
<1>3. ToSet(p) \subseteq ToSet(s)
  BY <1>1, ToSetSubSeq
<1>4. ToSet(q) \subseteq ToSet(s)
  BY <1>1, ToSetSubSeq
<1>. HIDE DEF p, q
<1>5. ToSet(p \o q) \subseteq ToSet(p) \cup ToSet(q)
  BY <1>2, ToSetConcat
<1>. QED
  BY <1>3, <1>4, <1>5 DEF RemoveAt, p, q

LEMMA ToSetEmpty == ToSet(<<>>) = {}
BY DEF ToSet

---------------------------------------------------------------------------
Lists == ToSet(queue) \cup ToSet(todo) \cup ToSet(kept) \cup ToSet(rest)

\* Futures end, and "merged" is told of what is in main only.
FuturesEnd(out) ==
  \A r \in Requests :
    \/ out[r] = outcome[r]
    \/ out[r] \in {"rejected", "lost"}
    \/ out[r] = "merged" /\ (Mine(r) => r \in main)

\* What is left to show of a step that leaves the worktrees alone.
LEMMA QueueKeepsMerged ==
  ASSUME QInv, MergedInv, work' = work, \A a \in Agents : base'[a] \subseteq main',
         main \subseteq main', Lists' \subseteq Lists, FuturesEnd(outcome'), PickedInv'
  PROVE  MergedInv'
<1>1. \A a \in Agents : work[a] \subseteq Requests
  BY DEF QInv, TypeOK
<1>2. Lists \subseteq Requests
  BY DEF QInv, TypeOK, Lists, ToSet
<1>3. WorktreesInv'
  BY <1>2 DEF MergedInv, WorktreesInv, FuturesEnd, Lists
<1>4. \A a \in Agents : \A r \in work[a] : outcome'[r] = "merged" => r \in main
  BY <1>1 DEF MergedInv, WorktreesInv, MergedIsInMain, FuturesEnd, Mine
<1>. QED
  BY <1>3, <1>4 DEF MergedInv, MergedIsInMain

LEMMA ResolvedFutures ==
  ASSUME NEW reqs, NEW verdict, NEW r \in Requests
  PROVE  Resolved(reqs, verdict)[r] = outcome[r]
           \/ (r \in ToSet(reqs) /\ Resolved(reqs, verdict)[r] = verdict)
BY DEF Resolved, ToSet

\* An exception ends the batch, whichever futures were resolved before it.
LEMMA ThrowKeepsMerged ==
  ASSUME QInv, MergedInv, NEW out, FuturesEnd(out), Throw(out), UNCHANGED <<worktrees, queue>>
  PROVE  MergedInv'
<1>1. FuturesEnd(outcome')
  BY DEF Throw, FuturesEnd
<1>2. Lists' \subseteq Lists /\ PickedInv'
  BY ToSetEmpty DEF Throw, EndBatch, Lists, PickedInv
<1>3. work' = work /\ base' = base /\ main' = main
  BY DEF Throw, worktrees
<1>. QED
  BY <1>1, <1>2, <1>3, QueueKeepsMerged DEF MergedInv, WorktreesInv

LEMMA AgentKeepsMerged ==
  ASSUME QInv, MergedInv, NEW a \in Agents, Work(a) \/ Submit(a) \/ Abandon(a)
  PROVE  MergedInv'
<1>. USE DEF MergedInv, WorktreesInv, PickedInv, MergedIsInMain, Mine
<1>0. /\ work \in [Agents -> SUBSET Requests] /\ base \in [Agents -> SUBSET Requests]
      /\ outcome \in [Requests -> Outcomes] /\ queue \in Seq(Requests)
  BY DEF QInv, TypeOK, Outcomes
<1>1. CASE Work(a)
  <2>1. PICK n \in 1..MaxSubmits[a] :
          outcome[<<a, n>>] = "none" /\ work' = [work EXCEPT ![a] = {<<a, n>>}]
    BY <1>1 DEF Work
  <2>2. base' = [base EXCEPT ![a] = main]
        /\ UNCHANGED <<queue, outcome, main, pc, todo, kept, rest, staging>>
    BY <1>1 DEF Work, batchVars
  <2>3. \A r : Mine(r)' => Mine(r) \/ r = <<a, n>>
    BY <1>0, <2>1
  <2>4. <<a, n>> \notin ToSet(kept)
    BY <2>1
  <2>5. WorktreesInv'
    BY <1>0, <2>1, <2>2
  <2>6. MergedIsInMain'
    BY <1>0, <2>1, <2>2
  <2>7. PickedInv'
    BY <2>2, <2>3, <2>4
  <2>. QED
    BY <2>5, <2>6, <2>7
<1>2. CASE Submit(a)
  <2>1. PICK r \in work[a] : outcome' = [outcome EXCEPT ![r] = "pending"] /\ queue' = Append(queue, r)
    BY <1>2 DEF Submit
  <2>2. r \in Requests
    BY <1>0
  <2>3. UNCHANGED <<work, base, main, pc, todo, kept, rest, staging>>
    BY <1>2 DEF Submit, worktrees, batchVars
  <2>4. ToSet(queue') = ToSet(queue) \cup {r}
    BY <1>0, <2>1, <2>2, ToSetAppend
  <2>5. WorktreesInv'
    BY <1>0, <2>1, <2>2, <2>3, <2>4
  <2>6. MergedIsInMain'
    BY <1>0, <2>1, <2>2, <2>3
  <2>. QED
    BY <2>3, <2>5, <2>6
<1>3. CASE Abandon(a)
  <2>1. work' = [work EXCEPT ![a] = {}] /\ base' = [base EXCEPT ![a] = main]
        /\ UNCHANGED <<queue, outcome, main, pc, todo, kept, rest, staging>>
    BY <1>3 DEF Abandon, batchVars
  <2>2. \A r : Mine(r)' => Mine(r)
    BY <1>0, <2>1
  <2>. QED
    BY <1>0, <2>1, <2>2
<1>. QED
  BY <1>1, <1>2, <1>3

\* A pick that succeeds leaves the head of todo in staging, if it is still there to
\* be picked.
LEMMA PickedIsStaged ==
  ASSUME QInv, MergedInv, todo # <<>>, main \subseteq staging, Mine(Head(todo))
  PROVE  Head(todo) \in staging \cup Commits(Head(todo)[1])
<1>1. Head(todo)[1] \in Agents
  BY PickType DEF QInv, Requests
<1>. QED
  BY <1>1 DEF MergedInv, WorktreesInv, Commits, Mine

\* Steps that resolve futures as rejected, or those of a list that is in main as
\* merged, and raise.
LEMMA ResolveKeepsMerged ==
  ASSUME QInv, MergedInv, NEW reqs, NEW verdict \in {"rejected", "merged"},
         verdict = "merged" => \A r \in ToSet(reqs) : Mine(r) => r \in main,
         Raises(reqs) => Throw(Resolved(reqs, verdict)) /\ UNCHANGED queue,
         ~Raises(reqs) => outcome' = Resolved(reqs, verdict),
         UNCHANGED worktrees
  PROVE  (Raises(reqs) => MergedInv') /\ (~Raises(reqs) => FuturesEnd(outcome'))
<1>1. FuturesEnd(Resolved(reqs, verdict))
  <2>. SUFFICES ASSUME NEW r \in Requests
                PROVE  LET o == Resolved(reqs, verdict)[r]
                       IN o = outcome[r] \/ o \in {"rejected", "lost"}
                            \/ (o = "merged" /\ (Mine(r) => r \in main))
    BY DEF FuturesEnd
  <2>. QED
    BY ResolvedFutures
<1>2. Raises(reqs) => MergedInv'
  BY <1>1, ThrowKeepsMerged
<1>. QED
  BY <1>1, <1>2

LEMMA RebaseKeepsMerged ==
  ASSUME QInv, MergedInv, Collect \/ RebaseOk \/ RebaseFail \/ StartStaging
  PROVE  MergedInv'
<1>0. /\ queue \in Seq(Requests) /\ todo \in Seq(Requests) /\ kept \in Seq(Requests)
      /\ base \in [Agents -> SUBSET Requests] /\ \A a \in Agents : base[a] \subseteq main
  BY DEF QInv, TypeOK, MergedInv, WorktreesInv
<1>1. CASE Collect
  <2>. DEFINE n == Smaller(BatchSize, Len(queue))
  <2>1. Len(queue) \in Nat /\ n \in Nat /\ n <= Len(queue)
    BY <1>0, QueueAssumption DEF Smaller
  <2>2. /\ batch' = SubSeq(queue, 1, n)
        /\ queue' = SubSeq(queue, n + 1, Len(queue))
        /\ todo' = batch' /\ pc' = "rebase"
        /\ UNCHANGED <<work, base, outcome, main, kept, rest, staging>>
    BY <1>1 DEF Collect, worktrees
  <2>. HIDE DEF n
  <2>3. ToSet(todo') \subseteq ToSet(queue)
    BY <1>0, <2>1, <2>2, ToSetSubSeq
  <2>4. ToSet(queue') \subseteq ToSet(queue)
    <3>1. n + 1 \in Nat \ {0} /\ Len(queue) <= Len(queue)
      BY <2>1
    <3>. QED
      BY <1>0, <2>1, <2>2, <3>1, ToSetSubSeq
  <2>5. Lists' \subseteq Lists /\ PickedInv' /\ FuturesEnd(outcome')
    BY <2>2, <2>3, <2>4 DEF Lists, PickedInv, FuturesEnd
  <2>. QED
    BY <1>0, <2>2, <2>5, QueueKeepsMerged
<1>2. CASE RebaseOk
  <2>. DEFINE r == Head(todo)
  <2>1. r \in Requests /\ ToSet(todo) = {r} \cup ToSet(Tail(todo))
    BY <1>0, <1>2, ToSetTail DEF RebaseOk
  <2>2. /\ base' = [base EXCEPT ![r[1]] = main]
        /\ kept' = Append(kept, r) /\ todo' = Tail(todo)
        /\ pc = "rebase"
        /\ UNCHANGED <<work, queue, outcome, main, pc, rest, staging>>
    BY <1>2 DEF RebaseOk
  <2>. HIDE DEF r
  <2>3. ToSet(kept') = ToSet(kept) \cup {r}
    BY <1>0, <2>1, <2>2, ToSetAppend
  <2>4. Lists' \subseteq Lists /\ PickedInv' /\ FuturesEnd(outcome')
    BY <2>1, <2>2, <2>3 DEF Lists, PickedInv, FuturesEnd
  <2>5. \A a \in Agents : base'[a] \subseteq main'
    BY <1>0, <2>2
  <2>. QED
    BY <2>2, <2>4, <2>5, QueueKeepsMerged
<1>3. CASE RebaseFail
  <2>. DEFINE reqs == <<Head(todo)>>
  <2>1. UNCHANGED worktrees /\ (Raises(reqs) => Throw(Resolved(reqs, "rejected")) /\ UNCHANGED queue)
    BY <1>3 DEF RebaseFail, Resolve
  <2>2. ~Raises(reqs) =>
          /\ outcome' = Resolved(reqs, "rejected")
          /\ todo' = Tail(todo) /\ pc = "rebase"
          /\ UNCHANGED <<queue, main, pc, kept, rest, staging>>
    BY <1>3 DEF RebaseFail, Resolve
  <2>3. ToSet(Tail(todo)) \subseteq ToSet(todo)
    BY <1>0, <1>3, ToSetTail DEF RebaseFail
  <2>. HIDE DEF reqs
  <2>4. (Raises(reqs) => MergedInv') /\ (~Raises(reqs) => FuturesEnd(outcome'))
    BY <2>1, <2>2, ResolveKeepsMerged
  <2>5. CASE ~Raises(reqs)
    <3>1. Lists' \subseteq Lists /\ PickedInv'
      BY <2>2, <2>3, <2>5 DEF Lists, PickedInv
    <3>. QED
      BY <1>0, <2>1, <2>2, <2>4, <2>5, <3>1, QueueKeepsMerged DEF worktrees
  <2>. QED
    BY <2>4, <2>5
<1>4. CASE StartStaging
  <2>1. UNCHANGED <<work, base, queue, outcome, main, rest>>
    BY <1>4 DEF StartStaging, worktrees
  <2>2. Lists' \subseteq Lists /\ PickedInv' /\ FuturesEnd(outcome')
    <3>1. CASE kept = <<>>
      BY <1>4, <2>1, <3>1, ToSetEmpty DEF StartStaging, Lists, PickedInv, FuturesEnd
    <3>2. CASE kept # <<>>
      BY <1>4, <2>1, <3>2, ToSetEmpty DEF StartStaging, Lists, PickedInv, FuturesEnd
    <3>. QED
      BY <3>1, <3>2
  <2>. QED
    BY <1>0, <2>1, <2>2, QueueKeepsMerged
<1>. QED
  BY <1>1, <1>2, <1>3, <1>4

LEMMA StageKeepsMerged ==
  ASSUME QInv, MergedInv, StageOk \/ StageDefer \/ BuildBatch
  PROVE  MergedInv'
<1>0. /\ queue \in Seq(Requests) /\ todo \in Seq(Requests) /\ kept \in Seq(Requests)
      /\ \A a \in Agents : base[a] \subseteq main
  BY DEF QInv, TypeOK, MergedInv, WorktreesInv
<1>. DEFINE r == Head(todo)
<1>1. CASE StageOk
  <2>1. r \in Requests /\ ToSet(todo) = {r} \cup ToSet(Tail(todo))
    BY <1>0, <1>1, ToSetTail DEF StageOk
  <2>2. /\ staging' = staging \cup Commits(r[1])
        /\ kept' = Append(kept, r) /\ todo' = Tail(todo) /\ pc = "stage"
        /\ UNCHANGED <<work, base, queue, outcome, main, pc, rest>>
    BY <1>1 DEF StageOk, worktrees
  <2>3. Mine(r) => r \in staging'
    BY <1>1, <2>2, PickedIsStaged DEF StageOk, QInv, LandingInv
  <2>. HIDE DEF r
  <2>4. ToSet(kept') = ToSet(kept) \cup {r}
    BY <1>0, <2>1, <2>2, ToSetAppend
  <2>5. Lists' \subseteq Lists /\ FuturesEnd(outcome')
    BY <2>1, <2>2, <2>4 DEF Lists, FuturesEnd
  <2>6. PickedInv'
    BY <2>2, <2>3, <2>4 DEF MergedInv, PickedInv, Mine
  <2>. QED
    BY <1>0, <2>2, <2>5, <2>6, QueueKeepsMerged
<1>2. CASE StageDefer
  <2>1. r \in Requests /\ ToSet(todo) = {r} \cup ToSet(Tail(todo))
    BY <1>0, <1>2, ToSetTail DEF StageDefer
  <2>2. /\ queue' = Append(queue, r) /\ todo' = Tail(todo) /\ pc = "stage"
        /\ UNCHANGED <<work, base, outcome, main, pc, kept, rest, staging>>
    BY <1>2 DEF StageDefer, worktrees
  <2>. HIDE DEF r
  <2>3. ToSet(queue') = ToSet(queue) \cup {r}
    BY <1>0, <2>1, <2>2, ToSetAppend
  <2>4. Lists' \subseteq Lists /\ FuturesEnd(outcome')
    BY <2>1, <2>2, <2>3 DEF Lists, FuturesEnd
  <2>5. PickedInv'
    BY <2>2 DEF MergedInv, PickedInv, Mine
  <2>. QED
    BY <1>0, <2>2, <2>4, <2>5, QueueKeepsMerged
<1>3. CASE BuildBatch
  <2>1. UNCHANGED <<work, base, queue, outcome, main, todo, kept, rest, staging>>
    BY <1>3 DEF BuildBatch, worktrees, batchVars
  <2>2. pc = "stage" /\ pc' \in {"finish", "land", "bisect"}
    BY <1>3 DEF BuildBatch
  <2>3. Lists' \subseteq Lists /\ FuturesEnd(outcome') /\ PickedInv'
    BY <2>1, <2>2 DEF Lists, FuturesEnd, MergedInv, PickedInv, Mine
  <2>. QED
    BY <1>0, <2>1, <2>3, QueueKeepsMerged
<1>. QED
  BY <1>1, <1>2, <1>3

LEMMA LandKeepsMerged ==
  ASSUME QInv, MergedInv, Land \/ LandFail \/ Report \/ Finish
  PROVE  MergedInv'
<1>0. \A a \in Agents : base[a] \subseteq main
  BY DEF MergedInv, WorktreesInv
<1>1. CASE Land
  <2>1. /\ pc = "land" /\ pc' = "report" /\ main' = main \cup staging
        /\ UNCHANGED <<work, base, queue, outcome, todo, kept, rest, staging>>
    BY <1>1 DEF Land, worktrees, batchVars
  <2>2. Lists' \subseteq Lists /\ FuturesEnd(outcome') /\ PickedInv'
    BY <2>1 DEF Lists, FuturesEnd, MergedInv, PickedInv, Mine
  <2>. QED
    BY <1>0, <2>1, <2>2, QueueKeepsMerged
<1>2. CASE LandFail
  <2>1. UNCHANGED worktrees /\ (Raises(kept) => Throw(Resolved(kept, "rejected")) /\ UNCHANGED queue)
    BY <1>2 DEF LandFail, Resolve
  <2>2. ~Raises(kept) =>
          /\ outcome' = Resolved(kept, "rejected")
          /\ pc' \in {"finish", "bisect"} /\ kept' = rest /\ rest' = <<>>
          /\ UNCHANGED <<queue, main, todo>>
    BY <1>2 DEF LandFail, Resolve, NextHalf
  <2>3. (Raises(kept) => MergedInv') /\ (~Raises(kept) => FuturesEnd(outcome'))
    BY <2>1, <2>2, ResolveKeepsMerged
  <2>4. CASE ~Raises(kept)
    <3>1. Lists' \subseteq Lists /\ PickedInv'
      BY <2>2, <2>4, ToSetEmpty DEF Lists, PickedInv
    <3>. QED
      BY <1>0, <2>1, <2>2, <2>3, <2>4, <3>1, QueueKeepsMerged DEF worktrees
  <2>. QED
    BY <2>3, <2>4
<1>3. CASE Report
  <2>1. UNCHANGED worktrees /\ (Raises(kept) => Throw(Resolved(kept, "merged")) /\ UNCHANGED queue)
    BY <1>3 DEF Report, Resolve
  <2>2. ~Raises(kept) =>
          /\ outcome' = Resolved(kept, "merged")
          /\ pc' \in {"finish", "bisect"} /\ kept' = rest /\ rest' = <<>>
          /\ UNCHANGED <<queue, main, todo>>
    BY <1>3 DEF Report, Resolve, NextHalf
  <2>3. \A r \in ToSet(kept) : Mine(r) => r \in main
    BY <1>3 DEF Report, MergedInv, PickedInv
  <2>4. (Raises(kept) => MergedInv') /\ (~Raises(kept) => FuturesEnd(outcome'))
    BY <2>1, <2>2, <2>3, ResolveKeepsMerged
  <2>5. CASE ~Raises(kept)
    <3>1. Lists' \subseteq Lists /\ PickedInv'
      BY <2>2, <2>5, ToSetEmpty DEF Lists, PickedInv
    <3>. QED
      BY <1>0, <2>1, <2>2, <2>4, <2>5, <3>1, QueueKeepsMerged DEF worktrees
  <2>. QED
    BY <2>4, <2>5
<1>4. CASE Finish
  <2>1. UNCHANGED <<work, base, queue, outcome, main>> /\ EndBatch
    BY <1>4 DEF Finish, worktrees
  <2>2. Lists' \subseteq Lists /\ FuturesEnd(outcome') /\ PickedInv'
    BY <2>1, ToSetEmpty DEF EndBatch, Lists, FuturesEnd, PickedInv
  <2>. QED
    BY <1>0, <2>1, <2>2, QueueKeepsMerged
<1>. QED
  BY <1>1, <1>2, <1>3, <1>4

LEMMA BisectKeepsMerged ==
  ASSUME QInv, MergedInv, Culprit \/ BisectNobody \/ Split \/ RetestOk \/ RetestFail \/ RetestBuild
  PROVE  MergedInv'
<1>0. /\ queue \in Seq(Requests) /\ todo \in Seq(Requests) /\ kept \in Seq(Requests) /\ rest \in Seq(Requests)
      /\ \A a \in Agents : base[a] \subseteq main
  BY DEF QInv, TypeOK, MergedInv, WorktreesInv
<1>1. CASE Culprit
  <2>1. UNCHANGED worktrees /\ (Raises(kept) => Throw(Resolved(kept, "rejected")) /\ UNCHANGED queue)
    BY <1>1 DEF Culprit, Resolve
  <2>2. ~Raises(kept) =>
          /\ outcome' = Resolved(kept, "rejected")
          /\ pc' = "finish"
          /\ UNCHANGED <<queue, main, todo, kept, rest>>
    BY <1>1 DEF Culprit, Resolve, batchVars
  <2>3. (Raises(kept) => MergedInv') /\ (~Raises(kept) => FuturesEnd(outcome'))
    BY <2>1, <2>2, ResolveKeepsMerged
  <2>4. CASE ~Raises(kept)
    <3>1. Lists' \subseteq Lists /\ PickedInv'
      BY <2>2, <2>4 DEF Lists, PickedInv
    <3>. QED
      BY <1>0, <2>1, <2>2, <2>3, <2>4, <3>1, QueueKeepsMerged DEF worktrees
  <2>. QED
    BY <2>3, <2>4
<1>2. CASE BisectNobody
  <2>1. FuturesEnd(outcome)
    BY DEF FuturesEnd
  <2>. QED
    BY <1>2, <2>1, ThrowKeepsMerged DEF BisectNobody
<1>3. CASE Split
  <2>1. /\ kept' = LeftHalf(kept) /\ rest' = RightHalf(kept) /\ todo' = kept' /\ pc' = "retest"
        /\ UNCHANGED <<work, base, queue, outcome, main>>
    BY <1>3 DEF Split, worktrees
  <2>2. ToSet(kept') \subseteq ToSet(kept) /\ ToSet(rest') \subseteq ToSet(kept)
    BY <1>0, <2>1, ToSetHalves
  <2>3. Lists' \subseteq Lists /\ FuturesEnd(outcome') /\ PickedInv'
    BY <2>1, <2>2 DEF Lists, FuturesEnd, PickedInv
  <2>. QED
    BY <1>0, <2>1, <2>3, QueueKeepsMerged
<1>4. CASE RetestOk
  <2>. DEFINE r == Head(todo)
  <2>1. ToSet(todo) = {r} \cup ToSet(Tail(todo))
    BY <1>0, <1>4, ToSetTail DEF RetestOk
  <2>2. /\ staging' = staging \cup Commits(r[1]) /\ todo' = Tail(todo) /\ pc = "retest"
        /\ UNCHANGED <<work, base, queue, outcome, main, pc, kept, rest>>
    BY <1>4 DEF RetestOk, worktrees
  <2>3. Mine(r) => r \in staging'
    BY <1>4, <2>2, PickedIsStaged DEF RetestOk, QInv, LandingInv
  <2>. HIDE DEF r
  <2>4. Lists' \subseteq Lists /\ FuturesEnd(outcome')
    BY <2>1, <2>2 DEF Lists, FuturesEnd
  <2>5. PickedInv'
    BY <2>1, <2>2, <2>3 DEF MergedInv, PickedInv, Mine
  <2>. QED
    BY <1>0, <2>2, <2>4, <2>5, QueueKeepsMerged
<1>5. CASE RetestFail
  <2>. DEFINE reqs == <<Head(todo)>>
              i == Len(kept) - Len(todo) + 1
  <2>1. UNCHANGED worktrees /\ (Raises(reqs) => Throw(Resolved(reqs, "rejected")) /\ UNCHANGED queue)
    BY <1>5 DEF RetestFail, Resolve
  <2>2. ~Raises(reqs) =>
          /\ outcome' = Resolved(reqs, "rejected")
          /\ kept' = RemoveAt(kept, i) /\ todo' = <<>>
          /\ pc' = "bisect" /\ queue' = queue \o rest /\ rest' = <<>>
          /\ main' = main
    BY <1>5 DEF RetestFail, Resolve, DeferRight
  <2>3. i \in 1..Len(kept)
    BY <1>5 DEF RetestFail, QInv, TypeOK, LandingInv
  <2>. HIDE DEF reqs, i
  <2>4. ToSet(RemoveAt(kept, i)) \subseteq ToSet(kept)
    BY <1>0, <2>3, ToSetRemoveAt
  <2>5. ToSet(queue \o rest) \subseteq ToSet(queue) \cup ToSet(rest)
    BY <1>0, ToSetConcat
  <2>6. (Raises(reqs) => MergedInv') /\ (~Raises(reqs) => FuturesEnd(outcome'))
    BY <2>1, <2>2, ResolveKeepsMerged
  <2>7. CASE ~Raises(reqs)
    <3>1. Lists' \subseteq Lists /\ PickedInv'
      BY <2>2, <2>4, <2>5, <2>7, ToSetEmpty DEF Lists, PickedInv
    <3>. QED
      BY <1>0, <2>1, <2>2, <2>6, <2>7, <3>1, QueueKeepsMerged DEF worktrees
  <2>. QED
    BY <2>6, <2>7
<1>6. CASE RetestBuild
  <2>1. UNCHANGED <<work, base, outcome, main, todo, kept, staging>> /\ todo = <<>> /\ pc = "retest"
    BY <1>6 DEF RetestBuild, worktrees
  <2>2. \/ pc' = "land" /\ queue' = queue /\ rest' = rest
        \/ pc' = "bisect" /\ queue' = queue \o rest /\ rest' = <<>>
    BY <1>6 DEF RetestBuild, DeferRight
  <2>3. ToSet(queue \o rest) \subseteq ToSet(queue) \cup ToSet(rest)
    BY <1>0, ToSetConcat
  <2>4. Lists' \subseteq Lists /\ FuturesEnd(outcome')
    BY <2>1, <2>2, <2>3, ToSetEmpty DEF Lists, FuturesEnd
  <2>5. PickedInv'
    BY <2>1, <2>2, ToSetEmpty DEF MergedInv, PickedInv, Mine
  <2>. QED
    BY <1>0, <2>1, <2>4, <2>5, QueueKeepsMerged
<1>. QED
  BY <1>1, <1>2, <1>3, <1>4, <1>5, <1>6

LEMMA FailureKeepsMerged ==
  ASSUME QInv, MergedInv, Raise \/ Crash
  PROVE  MergedInv'
<1>1. CASE Raise
  <2>1. FuturesEnd(outcome)
    BY DEF FuturesEnd
  <2>. QED
    BY <1>1, <2>1, ThrowKeepsMerged DEF Raise
<1>2. CASE Crash
  BY <1>2, ToSetEmpty DEF Crash, EndBatch, MergedInv, WorktreesInv, PickedInv, MergedIsInMain
<1>. QED
  BY <1>1, <1>2

(* The strengthened invariant behind MergedIsInMain: WorktreesInv says that   *)
(* what an agent has is its own and based on a main there has been, PickedInv *)
(* that the list a phase is about has been picked.                            *)
THEOREM MergedInvariant == Spec => [](TypeOK /\ LandingInv /\ MergedInv)
<1>1. Init => MergedInv
  BY ToSetEmpty DEF Init, MergedInv, WorktreesInv, PickedInv, MergedIsInMain
<1>2. QInv /\ MergedInv /\ [Next]_vars => MergedInv'
  <2>. SUFFICES ASSUME QInv, MergedInv, [Next]_vars
                PROVE  MergedInv'
    OBVIOUS
  <2>1. CASE UNCHANGED vars
    BY <2>1 DEF vars, worktrees, batchVars, MergedInv, WorktreesInv, PickedInv, MergedIsInMain, Mine
  <2>2. CASE QueueStep
    BY <2>2, RebaseKeepsMerged, StageKeepsMerged, LandKeepsMerged, BisectKeepsMerged DEF QueueStep
  <2>3. CASE Poll
    BY <2>1, <2>3 DEF Poll
  <2>. QED
    BY <2>1, <2>2, <2>3, AgentKeepsMerged, FailureKeepsMerged DEF Next
<1>3. QInv /\ MergedInv => TypeOK /\ LandingInv /\ MergedInv
  BY DEF QInv
<1>. QED
  BY <1>1, <1>2, <1>3, InitSafe, NextSafe, PTL DEF Spec

(* An agent that waits and is told "merged" has its commits in main, for any  *)
(* number of agents, in every world, whatever is deferred, bisected, raised   *)
(* or crashes: _land_batch resolves only what merge_to_main has landed.       *)
THEOREM MergedAlwaysInMain == Spec => []MergedIsInMain
<1>1. MergedInv => MergedIsInMain
  BY DEF MergedInv
<1>. QED
  BY <1>1, MergedInvariant, PTL

---------------------------------------------------------------------------
(* Rejections are justified *)

\* No element twice.
Distinct(s) == \A i, j \in DOMAIN s : s[i] = s[j] => i = j

\* Requests that wait for their verdict in a phase.
Kept == IF pc = "finish" THEN {} ELSE ToSet(kept)
Waiting == ToSet(queue) \cup ToSet(todo) \cup Kept \cup ToSet(rest)

(* Who waits has no verdict and has its one commit on its branch; what main    *)
(* holds has its verdict, or is in the list _land_batch is about to resolve.   *)
FuturesInv ==
  /\ \A r \in Waiting : outcome[r] = "pending" /\ work[r[1]] = {r}
  /\ \A r \in main : outcome[r] = "merged" \/ (pc = "report" /\ r \in Kept)
  /\ \A a \in Agents : base[a] \subseteq main /\ \A r, s \in work[a] : r = s /\ r[1] = a

(* A request is in one place at a time, once: in the queue, or in one of the   *)
(* lists the phases hand on.                                                   *)
ApartInv ==
  /\ Distinct(queue) /\ Distinct(todo) /\ Distinct(kept) /\ Distinct(rest)
  /\ ToSet(queue) \cap (ToSet(todo) \cup Kept \cup ToSet(rest)) = {}
  /\ Kept \cap ToSet(rest) = {} /\ ToSet(todo) \cap ToSet(rest) = {}
  /\ pc # "retest" => ToSet(todo) \cap Kept = {}
  /\ pc \in {"idle", "rebase", "stage", "bisect", "finish"} => rest = <<>>
  /\ pc \in {"idle", "bisect", "land", "report", "finish"} => todo = <<>>
  /\ pc = "idle" => kept = <<>>

\* Staging is main with what has been picked, in a retest with what is still to pick apart.
StagedInv ==
  /\ pc \in {"stage", "land"} => staging = main \cup Kept
  /\ pc = "retest" => /\ main \cup Kept = staging \cup ToSet(todo)
                      /\ ToSet(todo) \subseteq Kept /\ ToSet(todo) \cap staging = {}
  /\ pc = "report" => Kept \subseteq main

\* x can be picked on main, and beside the others of S.
Fits(x, S) == \A y \in (main \ base[x[1]]) \cup (S \ {x}) : {x, y} \notin world.clash

\* What has been picked together can be picked again, in any part and any order.
FitInv ==
  /\ pc \in {"stage", "bisect", "retest", "land"} => \A x \in Kept \cup ToSet(rest) : Fits(x, Kept \cup ToSet(rest))
  /\ pc = "report" => \A x \in ToSet(rest) : Fits(x, ToSet(rest))

\* What is bisected, with what has been set aside, does not build.
BrokenInv ==
  /\ pc = "retest" => rest # <<>>
  /\ pc \in {"bisect", "retest"} => kept # <<>>
  /\ pc = "bisect" \/ (pc \in {"retest", "land", "report"} /\ rest # <<>>) => ~Builds(main \cup Kept \cup ToSet(rest))


LEMMA DistinctAppend ==
  ASSUME NEW s \in Seq(Requests), NEW r \in Requests, Distinct(s), r \notin ToSet(s)
  PROVE  Distinct(Append(s, r))
<1>. DEFINE u == Append(s, r)
<1>1. /\ Len(s) \in Nat /\ DOMAIN s = 1..Len(s) /\ DOMAIN u = 1..(Len(s) + 1)
      /\ u[Len(s) + 1] = r /\ \A i \in DOMAIN s : u[i] = s[i]
  OBVIOUS
<1>2. \A i \in DOMAIN s : s[i] # r
  BY DEF ToSet
<1>. HIDE DEF u
<1>3. \A i \in DOMAIN u : i \in DOMAIN s \/ i = Len(s) + 1
  BY <1>1
<1>4. Distinct(u)
  BY <1>1, <1>2, <1>3 DEF Distinct
<1>. QED
  BY <1>4 DEF u

LEMMA DistinctTail ==
  ASSUME NEW s \in Seq(Requests), Distinct(s), s # <<>>
  PROVE  Distinct(Tail(s)) /\ Head(s) \notin ToSet(Tail(s))
<1>. DEFINE u == Tail(s)
<1>1. /\ Len(s) \in Nat \ {0} /\ DOMAIN s = 1..Len(s) /\ s[1] = Head(s)
      /\ DOMAIN u = 1..(Len(s) - 1) /\ \A i \in DOMAIN u : u[i] = s[i + 1]
  OBVIOUS
<1>. HIDE DEF u
<1>2. \A i \in DOMAIN u : i + 1 \in DOMAIN s /\ 1 \in DOMAIN s /\ i + 1 # 1
  BY <1>1
<1>3. \A i \in DOMAIN u : u[i] # Head(s)
  BY <1>1, <1>2 DEF Distinct
<1>4. ASSUME NEW i \in DOMAIN u, NEW j \in DOMAIN u, u[i] = u[j]
      PROVE  i = j
  <2>1. s[i + 1] = s[j + 1] /\ i + 1 \in DOMAIN s /\ j + 1 \in DOMAIN s
    BY <1>1, <1>2, <1>4
  <2>2. i + 1 = j + 1
    BY <2>1 DEF Distinct
  <2>. QED
    BY <1>1, <2>2
<1>5. Distinct(u) /\ Head(s) \notin ToSet(u)
  BY <1>3, <1>4 DEF Distinct, ToSet
<1>. QED
  BY <1>5 DEF u

\* A list is cut in two: both parts have their own.
LEMMA DistinctParts ==
  ASSUME NEW s \in Seq(Requests), Distinct(s), NEW m \in 0..Len(s)
  PROVE  LET u == SubSeq(s, 1, m)
             v == SubSeq(s, m + 1, Len(s))
         IN  /\ Distinct(u) /\ Distinct(v)
             /\ ToSet(u) \cap ToSet(v) = {} /\ ToSet(u) \cup ToSet(v) = ToSet(s)
<1>. DEFINE u == SubSeq(s, 1, m)
            v == SubSeq(s, m + 1, Len(s))
<1>1. /\ Len(s) \in Nat /\ m \in Nat /\ m <= Len(s) /\ DOMAIN s = 1..Len(s)
      /\ DOMAIN u = 1..m /\ \A i \in DOMAIN u : u[i] = s[i]
      /\ DOMAIN v = 1..(Len(s) - m) /\ \A i \in DOMAIN v : v[i] = s[i + m]
  OBVIOUS
<1>. HIDE DEF u, v
<1>2. /\ \A i \in DOMAIN u : i \in DOMAIN s /\ i <= m
      /\ \A i \in DOMAIN v : i + m \in DOMAIN s /\ i + m > m
      /\ \A i \in DOMAIN s : i \in DOMAIN u \/ (i - m \in DOMAIN v /\ (i - m) + m = i)
  BY <1>1
<1>3. Distinct(u)
  BY <1>1, <1>2 DEF Distinct
<1>4. Distinct(v)
  <2>1. ASSUME NEW i \in DOMAIN v, NEW j \in DOMAIN v, v[i] = v[j]
        PROVE  i = j
    <3>1. s[i + m] = s[j + m] /\ i + m \in DOMAIN s /\ j + m \in DOMAIN s
      BY <1>1, <1>2, <2>1
    <3>2. i + m = j + m
      BY <3>1 DEF Distinct
    <3>. QED
      BY <1>1, <3>2
  <2>. QED
    BY <2>1 DEF Distinct
<1>5. \A i \in DOMAIN u, j \in DOMAIN v : u[i] # v[j]
  <2>. SUFFICES ASSUME NEW i \in DOMAIN u, NEW j \in DOMAIN v, u[i] = v[j]
                PROVE  FALSE
    OBVIOUS
  <2>1. s[i] = s[j + m] /\ i \in DOMAIN s /\ j + m \in DOMAIN s /\ i <= m /\ j + m > m
    BY <1>1, <1>2
  <2>2. i = j + m
    BY <2>1 DEF Distinct
  <2>. QED
    BY <1>1, <2>1, <2>2
<1>6. ToSet(u) \cap ToSet(v) = {}
  BY <1>5 DEF ToSet
<1>7. ToSet(u) \subseteq ToSet(s) /\ ToSet(v) \subseteq ToSet(s)
  BY <1>1, <1>2 DEF ToSet
<1>8. ToSet(s) \subseteq ToSet(u) \cup ToSet(v)
  BY <1>1, <1>2 DEF ToSet
<1>. QED
  BY <1>3, <1>4, <1>6, <1>7, <1>8 DEF u, v

LEMMA DistinctConcat ==
  ASSUME NEW s \in Seq(Requests), NEW t \in Seq(Requests), Distinct(s), Distinct(t), ToSet(s) \cap ToSet(t) = {}
  PROVE  Distinct(s \o t)
<1>. DEFINE u == s \o t
<1>1. /\ Len(s) \in Nat /\ Len(t) \in Nat /\ DOMAIN s = 1..Len(s) /\ DOMAIN t = 1..Len(t)
      /\ DOMAIN u = 1..(Len(s) + Len(t))
      /\ \A i \in DOMAIN s : u[i] = s[i]
  OBVIOUS
<1>2. \A i \in DOMAIN u : i \notin DOMAIN s => i - Len(s) \in DOMAIN t /\ u[i] = t[i - Len(s)]
  OBVIOUS
<1>. HIDE DEF u
<1>3. \A i \in DOMAIN s, j \in DOMAIN t : s[i] # t[j]
  BY DEF ToSet
<1>4. ASSUME NEW i \in DOMAIN u, NEW j \in DOMAIN u, u[i] = u[j]
      PROVE  i = j
  <2>1. CASE i \in DOMAIN s /\ j \in DOMAIN s
    BY <1>1, <1>4, <2>1 DEF Distinct
  <2>2. CASE i \notin DOMAIN s /\ j \notin DOMAIN s
    <3>1. i - Len(s) = j - Len(s)
      BY <1>2, <1>4, <2>2 DEF Distinct
    <3>. QED
      BY <1>1, <3>1
  <2>3. CASE i \in DOMAIN s /\ j \notin DOMAIN s
    BY <1>1, <1>2, <1>3, <1>4, <2>3
  <2>4. CASE i \notin DOMAIN s /\ j \in DOMAIN s
    BY <1>1, <1>2, <1>3, <1>4, <2>4
  <2>. QED
    BY <2>1, <2>2, <2>3, <2>4
<1>5. Distinct(u)
  BY <1>4 DEF Distinct
<1>. QED
  BY <1>5 DEF u

LEMMA DistinctEmpty == Distinct(<<>>) /\ ToSet(<<>>) = {}
BY DEF Distinct, ToSet

LEMMA ElementOf ==
  ASSUME NEW s \in Seq(Requests), s # <<>>
  PROVE  Head(s) \in Requests /\ Head(s) \in ToSet(s) /\ ToSet(s) \subseteq Requests
         /\ Tail(s) \in Seq(Requests)
BY DEF ToSet


BlameInv == FuturesInv /\ ApartInv /\ StagedInv /\ FitInv /\ BrokenInv

LEMMA ListsTyped ==
  ASSUME QInv
  PROVE  /\ queue \in Seq(Requests) /\ todo \in Seq(Requests) /\ kept \in Seq(Requests) /\ rest \in Seq(Requests)
         /\ ToSet(queue) \subseteq Requests /\ ToSet(todo) \subseteq Requests
         /\ ToSet(kept) \subseteq Requests /\ ToSet(rest) \subseteq Requests /\ Kept \subseteq Requests
         /\ Waiting \subseteq Requests
         /\ \A r \in Requests : r[1] \in Agents
<1>1. queue \in Seq(Requests) /\ todo \in Seq(Requests) /\ kept \in Seq(Requests) /\ rest \in Seq(Requests)
  BY DEF QInv, TypeOK
<1>2. \A s \in Seq(Requests) : ToSet(s) \subseteq Requests
  BY DEF ToSet
<1>3. \A r \in Requests : r[1] \in Agents
  BY DEF Requests
<1>. QED
  BY <1>1, <1>2, <1>3 DEF Kept, Waiting

LEMMA AgentBlames ==
  ASSUME QInv, BlameInv, NEW a \in Agents, Work(a) \/ Submit(a)
  PROVE  BlameInv'
<1>0. /\ work \in [Agents -> SUBSET Requests] /\ base \in [Agents -> SUBSET Requests]
      /\ outcome \in [Requests -> Outcomes]
  BY DEF QInv, TypeOK, Outcomes
<1>1. CASE Work(a)
  <2>1. PICK n \in 1..MaxSubmits[a] : work' = [work EXCEPT ![a] = {<<a, n>>}]
    BY <1>1 DEF Work
  <2>2. /\ base' = [base EXCEPT ![a] = main] /\ ~Awaits(a)
        /\ UNCHANGED <<world, queue, outcome, main, pc, todo, kept, rest, staging>>
    BY <1>1 DEF Work, batchVars
  <2>3. \A r \in Waiting : r[1] # a
    BY <2>2 DEF BlameInv, FuturesInv, Awaits
  <2>4. \A r \in Waiting : work'[r[1]] = work[r[1]] /\ base'[r[1]] = base[r[1]]
    BY <1>0, <2>1, <2>2, <2>3, ListsTyped
  <2>5. Kept' = Kept /\ Waiting' = Waiting
    BY <2>2 DEF Kept, Waiting
  <2>6. FuturesInv'
    <3>1. ASSUME NEW b \in Agents
          PROVE  base'[b] \subseteq main /\ \A r, s \in work'[b] : r = s /\ r[1] = b
      <4>1. CASE b = a
        BY <1>0, <2>1, <2>2, <4>1
      <4>2. CASE b # a
        BY <1>0, <2>1, <2>2, <4>2 DEF BlameInv, FuturesInv
      <4>. QED
        BY <4>1, <4>2
    <3>. QED
      BY <2>2, <2>4, <2>5, <3>1 DEF BlameInv, FuturesInv
  <2>7. FitInv'
    BY <2>2, <2>4, <2>5 DEF BlameInv, FitInv, Fits, Waiting
  <2>8. ApartInv' /\ StagedInv' /\ BrokenInv'
    BY <2>2, <2>5 DEF BlameInv, ApartInv, StagedInv, BrokenInv, Builds
  <2>. QED
    BY <2>6, <2>7, <2>8 DEF BlameInv
<1>2. CASE Submit(a)
  <2>1. PICK r \in work[a] :
          outcome[r] = "none" /\ outcome' = [outcome EXCEPT ![r] = "pending"] /\ queue' = Append(queue, r)
    BY <1>2 DEF Submit
  <2>2. UNCHANGED <<world, work, base, main, pc, todo, kept, rest, staging>>
    BY <1>2 DEF Submit, worktrees, batchVars
  <2>3. r \in Requests /\ r \notin Waiting /\ r \notin main /\ r[1] = a /\ work[a] = {r}
    BY <1>0, <2>1 DEF BlameInv, FuturesInv, Waiting
  <2>4. ToSet(queue') = ToSet(queue) \cup {r} /\ Distinct(queue')
    BY <2>1, <2>3, ListsTyped, ToSetAppend, DistinctAppend DEF BlameInv, ApartInv, Waiting
  <2>5. Kept' = Kept /\ Waiting' = Waiting \cup {r}
    BY <2>2, <2>4 DEF Kept, Waiting
  <2>6. FuturesInv'
    BY <1>0, <2>1, <2>2, <2>3, <2>5, ListsTyped DEF BlameInv, FuturesInv
  <2>7. ApartInv'
    BY <2>2, <2>3, <2>4, <2>5 DEF BlameInv, ApartInv, Waiting
  <2>8. StagedInv' /\ FitInv' /\ BrokenInv'
    BY <2>2, <2>5 DEF BlameInv, StagedInv, FitInv, Fits, BrokenInv, Builds
  <2>. QED
    BY <2>6, <2>7, <2>8 DEF BlameInv
<1>. QED
  BY <1>1, <1>2

\* A batch begins, or ends.
LEMMA CollectBlames ==
  ASSUME QInv, BlameInv, Collect
  PROVE  BlameInv'
<1>. DEFINE n == Smaller(BatchSize, Len(queue))
<1>1. /\ pc = "idle" /\ pc' = "rebase" /\ todo' = SubSeq(queue, 1, n) /\ queue' = SubSeq(queue, n + 1, Len(queue))
      /\ UNCHANGED <<world, work, base, outcome, main, kept, rest, staging>>
  BY DEF Collect, worktrees
<1>2. n \in 0..Len(queue)
  <2>1. Len(queue) \in Nat
    BY ListsTyped
  <2>. QED
    BY <2>1, QueueAssumption DEF Smaller
<1>. HIDE DEF n
<1>3. /\ Distinct(todo') /\ Distinct(queue')
      /\ ToSet(todo') \cap ToSet(queue') = {} /\ ToSet(todo') \cup ToSet(queue') = ToSet(queue)
  BY <1>1, <1>2, ListsTyped, DistinctParts DEF BlameInv, ApartInv
<1>4. kept = <<>> /\ rest = <<>> /\ ToSet(kept) = {} /\ ToSet(rest) = {}
  BY <1>1, DistinctEmpty DEF BlameInv, ApartInv
<1>5. Kept' = {} /\ Waiting' \subseteq Waiting
  BY <1>1, <1>3, <1>4 DEF Kept, Waiting
<1>6. FuturesInv'
  BY <1>1, <1>5 DEF BlameInv, FuturesInv
<1>7. ApartInv'
  BY <1>1, <1>3, <1>4, <1>5 DEF BlameInv, ApartInv
<1>8. StagedInv' /\ FitInv' /\ BrokenInv'
  BY <1>1 DEF StagedInv, FitInv, BrokenInv
<1>. QED
  BY <1>6, <1>7, <1>8 DEF BlameInv

LEMMA FinishBlames ==
  ASSUME QInv, BlameInv, Finish
  PROVE  BlameInv'
<1>1. /\ pc = "finish" /\ pc' = "idle" /\ todo' = <<>> /\ kept' = <<>> /\ rest' = <<>>
      /\ UNCHANGED <<world, work, base, queue, outcome, main>>
  BY DEF Finish, EndBatch, worktrees
<1>2. Kept' = {} /\ Waiting' \subseteq Waiting
  BY <1>1, DistinctEmpty DEF Kept, Waiting
<1>3. FuturesInv'
  BY <1>1, <1>2 DEF BlameInv, FuturesInv
<1>4. ApartInv'
  BY <1>1, <1>2, DistinctEmpty DEF BlameInv, ApartInv
<1>5. StagedInv' /\ FitInv' /\ BrokenInv'
  BY <1>1 DEF StagedInv, FitInv, BrokenInv
<1>. QED
  BY <1>3, <1>4, <1>5 DEF BlameInv

\* Nobody whose future is resolved already is resolved again.
LEMMA NobodyRaises ==
  ASSUME NEW reqs, \A r \in ToSet(reqs) : outcome[r] = "pending"
  PROVE  ~Raises(reqs)
BY DEF Raises, Done

\* The futures that are resolved together.
LEMMA AllResolved ==
  ASSUME NEW reqs \in Seq(Requests), NEW verdict, \A r \in ToSet(reqs) : outcome[r] = "pending"
  PROVE  \A r \in Requests : Resolved(reqs, verdict)[r] = IF r \in ToSet(reqs) THEN verdict ELSE outcome[r]
<1>1. \A j \in DOMAIN reqs : ~Done(reqs[j])
  BY DEF ToSet, Done
<1>2. \A k \in DOMAIN reqs : \A j \in 1..k : j \in DOMAIN reqs
  OBVIOUS
<1>3. \A r : (\E k \in DOMAIN reqs : reqs[k] = r /\ \A j \in 1..k : ~Done(reqs[j])) <=> r \in ToSet(reqs)
  BY <1>1, <1>2 DEF ToSet
<1>. QED
  BY <1>3 DEF Resolved

LEMMA OneElement ==
  ASSUME NEW r \in Requests
  PROVE  <<r>> \in Seq(Requests) /\ ToSet(<<r>>) = {r}
BY DEF ToSet


\* A request taken from the front of todo is nowhere else.
LEMMA HeadApart ==
  ASSUME QInv, BlameInv, pc \in {"rebase", "stage", "retest"}, todo # <<>>
  PROVE  LET r == Head(todo)
         IN  /\ r \in Requests /\ r[1] \in Agents /\ outcome[r] = "pending" /\ work[r[1]] = {r} /\ r \notin main
             /\ r \notin base[r[1]] /\ Commits(r[1]) = {r}
             /\ ToSet(todo) = {r} \cup ToSet(Tail(todo)) /\ r \notin ToSet(Tail(todo))
             /\ Tail(todo) \in Seq(Requests) /\ Distinct(Tail(todo))
             /\ r \notin ToSet(queue) /\ r \notin ToSet(rest)
             /\ pc # "retest" => r \notin Kept
<1>. DEFINE r == Head(todo)
<1>1. /\ r \in Requests /\ r \in ToSet(todo) /\ r[1] \in Agents
      /\ Tail(todo) \in Seq(Requests)
  BY ListsTyped, ElementOf
<1>2. ToSet(todo) = {r} \cup ToSet(Tail(todo))
  BY ListsTyped, ToSetTail
<1>3. r \notin ToSet(Tail(todo)) /\ Distinct(Tail(todo))
  BY ListsTyped, DistinctTail DEF BlameInv, ApartInv
<1>. HIDE DEF r
<1>4. outcome[r] = "pending" /\ work[r[1]] = {r}
  BY <1>1 DEF BlameInv, FuturesInv, Waiting
<1>5. r \notin main
  BY <1>4 DEF BlameInv, FuturesInv
<1>6. r \notin base[r[1]] /\ Commits(r[1]) = {r}
  BY <1>1, <1>4, <1>5 DEF BlameInv, FuturesInv, Commits
<1>7. r \notin ToSet(queue) /\ r \notin ToSet(rest) /\ (pc # "retest" => r \notin Kept)
  BY <1>1 DEF BlameInv, ApartInv
<1>. QED
  BY <1>1, <1>2, <1>3, <1>4, <1>5, <1>6, <1>7 DEF r

LEMMA RebaseBlames ==
  ASSUME QInv, BlameInv, mishaps' = 0, RebaseOk \/ RebaseFail \/ StartStaging
  PROVE  BlameInv'
<1>0. /\ base \in [Agents -> SUBSET Requests] /\ mishaps \in Nat
      /\ outcome \in [Requests -> Outcomes]
  BY QueueAssumption DEF QInv, TypeOK, Outcomes
<1>. DEFINE r == Head(todo)
<1>1. CASE RebaseOk
  <2>1. /\ pc = "rebase" /\ todo # <<>> /\ base' = [base EXCEPT ![r[1]] = main]
        /\ kept' = Append(kept, r) /\ todo' = Tail(todo)
        /\ UNCHANGED <<world, work, queue, outcome, main, pc, rest, staging>>
    BY <1>1 DEF RebaseOk
  <2>2. /\ r \in Requests /\ r[1] \in Agents
        /\ ToSet(todo) = {r} \cup ToSet(todo') /\ r \notin ToSet(todo') /\ Distinct(todo')
        /\ r \notin ToSet(queue) /\ r \notin ToSet(rest) /\ r \notin Kept
    BY <2>1, HeadApart
  <2>. HIDE DEF r
  <2>3. Kept = ToSet(kept) /\ Kept' = ToSet(kept')
    BY <2>1 DEF Kept
  <2>4. Kept' = Kept \cup {r} /\ Distinct(kept')
    BY <2>1, <2>2, <2>3, ListsTyped, ToSetAppend, DistinctAppend DEF BlameInv, ApartInv
  <2>5. Waiting' = Waiting
    BY <2>1, <2>2, <2>4 DEF Waiting
  <2>6. FuturesInv'
    BY <1>0, <2>1, <2>2, <2>4, <2>5 DEF BlameInv, FuturesInv
  <2>7. ApartInv'
    BY <2>1, <2>2, <2>4 DEF BlameInv, ApartInv
  <2>8. StagedInv' /\ FitInv' /\ BrokenInv'
    BY <2>1 DEF StagedInv, FitInv, BrokenInv
  <2>. QED
    BY <2>6, <2>7, <2>8 DEF BlameInv
<1>2. CASE RebaseFail
  <2>1. pc = "rebase" /\ todo # <<>> /\ UNCHANGED <<world, work, base>>
    BY <1>2 DEF RebaseFail, worktrees
  <2>2. /\ r \in Requests /\ outcome[r] = "pending" /\ r \notin main
        /\ ToSet(todo) = {r} \cup ToSet(Tail(todo)) /\ r \notin ToSet(Tail(todo)) /\ Distinct(Tail(todo))
        /\ r \notin ToSet(queue) /\ r \notin ToSet(rest) /\ r \notin Kept
    BY <2>1, HeadApart
  <2>. HIDE DEF r
  <2>3. \A q \in ToSet(<<r>>) : outcome[q] = "pending"
    BY <2>2, OneElement
  <2>4. ~Raises(<<r>>)
    BY <2>3, NobodyRaises
  <2>5. /\ outcome' = Resolved(<<r>>, "rejected") /\ todo' = Tail(todo)
        /\ UNCHANGED <<queue, main, pc, kept, rest, staging>>
    BY <1>2, <2>4 DEF RebaseFail, Resolve, r
  <2>6. \A q \in Requests : q # r => outcome'[q] = outcome[q]
    <3>1. <<r>> \in Seq(Requests) /\ ToSet(<<r>>) = {r}
      BY <2>2, OneElement
    <3>2. \A q \in Requests :
            Resolved(<<r>>, "rejected")[q] = IF q \in ToSet(<<r>>) THEN "rejected" ELSE outcome[q]
      BY <2>3, <3>1, AllResolved
    <3>. QED
      BY <2>5, <3>1, <3>2
  <2>7. Kept' = Kept /\ Waiting' \subseteq Waiting \ {r}
    BY <2>1, <2>2, <2>5 DEF Kept, Waiting
  <2>8. FuturesInv'
    BY <2>1, <2>2, <2>5, <2>6, <2>7, ListsTyped DEF BlameInv, FuturesInv, QInv, TypeOK
  <2>9. ApartInv'
    BY <2>1, <2>2, <2>5, <2>7 DEF BlameInv, ApartInv
  <2>10. StagedInv' /\ FitInv' /\ BrokenInv'
    BY <2>1, <2>5 DEF StagedInv, FitInv, BrokenInv
  <2>. QED
    BY <2>8, <2>9, <2>10 DEF BlameInv
<1>3. CASE StartStaging
  <2>1. /\ pc = "rebase" /\ todo = <<>>
        /\ UNCHANGED <<world, work, base, queue, outcome, main, rest>>
        /\ \/ kept = <<>> /\ pc' = "finish" /\ UNCHANGED <<todo, kept>>
           \/ pc' = "stage" /\ todo' = kept /\ kept' = <<>> /\ staging' = main
    BY <1>3 DEF StartStaging, worktrees
  <2>2. /\ Kept = ToSet(kept) /\ Kept' = {} /\ ToSet(todo) = {} /\ rest = <<>> /\ ToSet(rest) = {}
        /\ ToSet(todo') = Kept /\ Distinct(todo') /\ Distinct(kept')
    BY <2>1, DistinctEmpty DEF Kept, BlameInv, ApartInv
  <2>3. Waiting' \subseteq Waiting
    BY <2>1, <2>2 DEF Waiting
  <2>4. FuturesInv'
    BY <2>1, <2>2, <2>3 DEF BlameInv, FuturesInv
  <2>5. ApartInv'
    BY <2>1, <2>2 DEF BlameInv, ApartInv
  <2>6. StagedInv' /\ FitInv' /\ BrokenInv'
    BY <2>1, <2>2 DEF StagedInv, FitInv, BrokenInv
  <2>. QED
    BY <2>4, <2>5, <2>6 DEF BlameInv
<1>. QED
  BY <1>1, <1>2, <1>3

LEMMA StageBlames ==
  ASSUME QInv, BlameInv, mishaps' = 0, StageOk \/ StageDefer \/ BuildBatch
  PROVE  BlameInv'
<1>0. mishaps \in Nat
  BY QueueAssumption DEF QInv, TypeOK
<1>. DEFINE r == Head(todo)
<1>1. CASE StageOk
  <2>1. /\ pc = "stage" /\ todo # <<>> /\ ~PickConflict(r[1])
        /\ staging' = staging \cup Commits(r[1])
        /\ kept' = Append(kept, r) /\ todo' = Tail(todo)
        /\ UNCHANGED <<world, work, base, queue, outcome, main, pc, rest>>
    BY <1>1 DEF StageOk, worktrees
  <2>2. /\ r \in Requests /\ r \notin base[r[1]] /\ Commits(r[1]) = {r}
        /\ ToSet(todo) = {r} \cup ToSet(todo') /\ r \notin ToSet(todo') /\ Distinct(todo')
        /\ r \notin ToSet(queue) /\ r \notin ToSet(rest) /\ r \notin Kept
    BY <2>1, HeadApart
  <2>. HIDE DEF r
  <2>3. Kept = ToSet(kept) /\ Kept' = ToSet(kept') /\ ToSet(rest) = {} /\ rest = <<>>
    BY <2>1, DistinctEmpty DEF Kept, BlameInv, ApartInv
  <2>4. Kept' = Kept \cup {r} /\ Distinct(kept')
    BY <2>1, <2>2, <2>3, ListsTyped, ToSetAppend, DistinctAppend DEF BlameInv, ApartInv
  <2>5. Waiting' = Waiting
    BY <2>1, <2>2, <2>4 DEF Waiting
  <2>6. FuturesInv'
    BY <2>1, <2>2, <2>4, <2>5 DEF BlameInv, FuturesInv
  <2>7. ApartInv'
    BY <2>1, <2>2, <2>4 DEF BlameInv, ApartInv
  <2>8. StagedInv'
    BY <2>1, <2>2, <2>4 DEF BlameInv, StagedInv
  <2>9. FitInv'
    <3>1. staging = main \cup Kept
      BY <2>1 DEF BlameInv, StagedInv
    <3>2. \A y \in staging \ base[r[1]] : {r, y} \notin world.clash
      BY <2>1, <2>2 DEF PickConflict, Conflict
    <3>3. \A y \in Kept : y \notin main /\ y \in Requests
      BY <2>1, ListsTyped DEF BlameInv, FuturesInv, Waiting
    <3>4. base[r[1]] \subseteq main
      BY <2>2, ListsTyped DEF BlameInv, FuturesInv
    <3>5. \A y \in (main \ base[r[1]]) \cup Kept : {r, y} \notin world.clash
      BY <3>1, <3>2, <3>3, <3>4
    <3>6. \A x \in Kept : Fits(x, Kept)
      BY <2>1, <2>3 DEF BlameInv, FitInv
    <3>7. ASSUME NEW x \in Kept \cup {r}, NEW y \in (main \ base[x[1]]) \cup ((Kept \cup {r}) \ {x})
          PROVE  {x, y} \notin world.clash
      <4>1. CASE x = r
        BY <2>2, <3>5, <3>7, <4>1
      <4>2. CASE x \in Kept /\ y = r
        <5>1. {x, y} = {r, x}
          BY <4>2
        <5>. QED
          BY <3>5, <4>2, <5>1
      <4>3. CASE x \in Kept /\ y # r
        BY <3>6, <3>7, <4>3 DEF Fits
      <4>. QED
        BY <3>7, <4>1, <4>2, <4>3
    <3>. QED
      BY <2>1, <2>3, <2>4, <3>7 DEF FitInv, Fits
  <2>10. BrokenInv'
    BY <2>1 DEF BrokenInv
  <2>. QED
    BY <2>6, <2>7, <2>8, <2>9, <2>10 DEF BlameInv
<1>2. CASE StageDefer
  <2>1. /\ pc = "stage" /\ todo # <<>>
        /\ queue' = Append(queue, r) /\ todo' = Tail(todo)
        /\ UNCHANGED <<world, work, base, outcome, main, pc, kept, rest, staging>>
    BY <1>2 DEF StageDefer, worktrees
  <2>2. /\ r \in Requests
        /\ ToSet(todo) = {r} \cup ToSet(todo') /\ r \notin ToSet(todo') /\ Distinct(todo')
        /\ r \notin ToSet(queue) /\ r \notin ToSet(rest) /\ r \notin Kept
    BY <2>1, HeadApart
  <2>. HIDE DEF r
  <2>3. ToSet(queue') = ToSet(queue) \cup {r} /\ Distinct(queue')
    BY <2>1, <2>2, ListsTyped, ToSetAppend, DistinctAppend DEF BlameInv, ApartInv
  <2>4. Kept' = Kept /\ Waiting' = Waiting
    BY <2>1, <2>2, <2>3 DEF Kept, Waiting
  <2>5. FuturesInv'
    BY <2>1, <2>4 DEF BlameInv, FuturesInv
  <2>6. ApartInv'
    BY <2>1, <2>2, <2>3, <2>4 DEF BlameInv, ApartInv
  <2>7. StagedInv' /\ FitInv' /\ BrokenInv'
    BY <2>1, <2>4 DEF BlameInv, StagedInv, FitInv, Fits, BrokenInv
  <2>. QED
    BY <2>5, <2>6, <2>7 DEF BlameInv
<1>3. CASE BuildBatch
  <2>1. /\ pc = "stage" /\ todo = <<>>
        /\ pc' = IF kept = <<>> THEN "finish" ELSE IF Builds(staging) THEN "land" ELSE "bisect"
        /\ UNCHANGED <<world, work, base, queue, outcome, main, todo, kept, rest, staging>>
    BY <1>3 DEF BuildBatch, worktrees, batchVars
  <2>2. Kept' = Kept /\ ToSet(rest) = {} /\ rest = <<>> /\ staging = main \cup Kept
    BY <2>1, DistinctEmpty DEF Kept, BlameInv, ApartInv, StagedInv
  <2>3. Waiting' = Waiting
    BY <2>1, <2>2 DEF Waiting
  <2>4. FuturesInv'
    BY <2>1, <2>2, <2>3 DEF BlameInv, FuturesInv
  <2>5. ApartInv'
    BY <2>1, <2>2 DEF BlameInv, ApartInv
  <2>6. StagedInv'
    BY <2>1, <2>2 DEF StagedInv
  <2>7. FitInv'
    BY <2>1, <2>2 DEF BlameInv, FitInv, Fits
  <2>8. BrokenInv'
    BY <2>1, <2>2 DEF BrokenInv, Builds
  <2>. QED
    BY <2>4, <2>5, <2>6, <2>7, <2>8 DEF BlameInv
<1>. QED
  BY <1>1, <1>2, <1>3


LEMMA LandBlames ==
  ASSUME QInv, BlameInv, mishaps' = 0, Land \/ LandFail \/ Report
  PROVE  BlameInv'
<1>0. mishaps \in Nat
  BY QueueAssumption DEF QInv, TypeOK
<1>1. CASE Land
  <2>1. /\ pc = "land" /\ pc' = "report" /\ main' = main \cup staging
        /\ UNCHANGED <<world, work, base, queue, outcome, todo, kept, rest>>
    BY <1>1 DEF Land, worktrees, batchVars
  <2>2. Kept' = Kept /\ staging = main \cup Kept /\ main' = main \cup Kept
    BY <2>1 DEF Kept, BlameInv, StagedInv
  <2>3. Waiting' = Waiting
    BY <2>1, <2>2 DEF Waiting
  <2>4. FuturesInv'
    BY <2>1, <2>2, <2>3 DEF BlameInv, FuturesInv
  <2>5. ApartInv'
    BY <2>1, <2>2 DEF BlameInv, ApartInv
  <2>6. StagedInv'
    BY <2>1, <2>2 DEF StagedInv
  <2>7. FitInv'
    <3>1. Kept \cap ToSet(rest) = {}
      BY DEF BlameInv, ApartInv
    <3>2. \A x \in ToSet(rest) : Fits(x, Kept \cup ToSet(rest))
      BY <2>1 DEF BlameInv, FitInv
    <3>3. \A x \in ToSet(rest) : \A y \in (main' \ base[x[1]]) \cup (ToSet(rest) \ {x}) : {x, y} \notin world.clash
      BY <2>2, <3>1, <3>2 DEF Fits
    <3>. QED
      BY <2>1, <3>3 DEF FitInv, Fits
  <2>8. BrokenInv'
    <3>1. main' \cup Kept' \cup ToSet(rest) = main \cup Kept \cup ToSet(rest)
      BY <2>2
    <3>. QED
      BY <2>1, <3>1 DEF BlameInv, BrokenInv, Builds
  <2>. QED
    BY <2>4, <2>5, <2>6, <2>7, <2>8 DEF BlameInv
<1>2. CASE LandFail
  BY <1>0, <1>2 DEF LandFail, Mishap
<1>3. CASE Report
  <2>1. pc = "report" /\ UNCHANGED <<world, work, base>> /\ Kept = ToSet(kept)
    BY <1>3 DEF Report, worktrees, Kept
  <2>2. \A r \in ToSet(kept) : outcome[r] = "pending"
    BY <2>1 DEF BlameInv, FuturesInv, Waiting
  <2>3. /\ outcome' = Resolved(kept, "merged")
        /\ pc' = (IF rest = <<>> THEN "finish" ELSE "bisect") /\ kept' = rest /\ rest' = <<>>
        /\ UNCHANGED <<queue, main, todo, staging>>
    BY <1>3, <2>2, NobodyRaises DEF Report, Resolve, NextHalf
  <2>4. \A r \in Requests : outcome'[r] = IF r \in Kept THEN "merged" ELSE outcome[r]
    BY <2>1, <2>2, <2>3, ListsTyped, AllResolved
  <2>5. Kept \subseteq main /\ Kept \cap ToSet(queue) = {} /\ Kept \cap ToSet(rest) = {} /\ todo = <<>> /\ ToSet(todo) = {}
    BY <2>1, DistinctEmpty DEF BlameInv, StagedInv, ApartInv
  <2>6. Kept' = ToSet(rest) /\ ToSet(rest') = {}
    BY <2>3, DistinctEmpty DEF Kept
  <2>7. Waiting' \subseteq Waiting /\ \A r \in Waiting' : r \in Requests /\ r \notin Kept
    BY <2>3, <2>5, <2>6, ListsTyped DEF Waiting
  <2>8. FuturesInv'
    <3>1. \A r \in Waiting' : outcome'[r] = "pending" /\ work[r[1]] = {r}
      BY <2>4, <2>7 DEF BlameInv, FuturesInv
    <3>2. \A r \in main : outcome'[r] = "merged"
      <4>1. main \subseteq Requests
        BY DEF QInv, TypeOK
      <4>. QED
        BY <2>4, <4>1 DEF BlameInv, FuturesInv
    <3>3. UNCHANGED <<work, base, main>>
      BY <2>1, <2>3
    <3>. QED
      BY <3>1, <3>2, <3>3 DEF BlameInv, FuturesInv
  <2>9. ApartInv'
    BY <2>1, <2>3, <2>5, <2>6, DistinctEmpty DEF BlameInv, ApartInv
  <2>10. StagedInv'
    BY <2>3 DEF StagedInv
  <2>11. FitInv'
    BY <2>1, <2>3, <2>6 DEF BlameInv, FitInv, Fits
  <2>12. BrokenInv'
    <3>1. main \cup Kept \cup ToSet(rest) = main \cup Kept' \cup ToSet(rest')
      BY <2>5, <2>6
    <3>. QED
      BY <2>1, <2>3, <3>1 DEF BlameInv, BrokenInv, Builds
  <2>. QED
    BY <2>8, <2>9, <2>10, <2>11, <2>12 DEF BlameInv
<1>. QED
  BY <1>1, <1>2, <1>3

LEMMA HalvesApart ==
  ASSUME NEW s \in Seq(Requests), Distinct(s), Len(s) > 1
  PROVE  /\ Distinct(LeftHalf(s)) /\ Distinct(RightHalf(s)) /\ LeftHalf(s) # <<>> /\ RightHalf(s) # <<>>
         /\ ToSet(LeftHalf(s)) \cap ToSet(RightHalf(s)) = {}
         /\ ToSet(LeftHalf(s)) \cup ToSet(RightHalf(s)) = ToSet(s)
<1>. DEFINE h == Len(s) \div 2
<1>1. Len(s) \in Nat /\ h \in 1..(Len(s) - 1) /\ h \in 0..Len(s)
  OBVIOUS
<1>. HIDE DEF h
<1>2. Len(SubSeq(s, 1, h)) # 0 /\ Len(SubSeq(s, h + 1, Len(s))) # 0 /\ Len(<<>>) = 0
  BY <1>1
<1>3. SubSeq(s, 1, h) # <<>> /\ SubSeq(s, h + 1, Len(s)) # <<>>
  BY <1>2, Zenon
<1>. QED
  BY <1>1, <1>3, DistinctParts DEF LeftHalf, RightHalf, h

\* A half is picked again as it was picked with the whole: no pick of a retest fails by itself.
LEMMA RetestPicks ==
  ASSUME QInv, BlameInv, mishaps' = 0, RetestFail
  PROVE  FALSE
<1>0. mishaps \in Nat
  BY QueueAssumption DEF QInv, TypeOK
<1>. DEFINE r == Head(todo)
<1>1. pc = "retest" /\ todo # <<>> /\ PickConflict(r[1])
  BY <1>0 DEF RetestFail, Mishap
<1>2. /\ r \in Requests /\ r[1] \in Agents /\ Commits(r[1]) = {r} /\ r \in ToSet(todo)
  BY <1>1, HeadApart
<1>. HIDE DEF r
<1>3. r \in Kept /\ r \notin staging /\ staging \subseteq main \cup Kept
  BY <1>1, <1>2 DEF BlameInv, StagedInv
<1>4. PICK y \in staging \ base[r[1]] : {r, y} \in world.clash
  BY <1>1, <1>2, <1>3 DEF PickConflict, Conflict
<1>5. y \in (main \ base[r[1]]) \cup ((Kept \cup ToSet(rest)) \ {r})
  BY <1>3, <1>4
<1>6. Fits(r, Kept \cup ToSet(rest))
  BY <1>1, <1>3 DEF BlameInv, FitInv
<1>. QED
  BY <1>4, <1>5, <1>6 DEF Fits

LEMMA BisectBlames ==
  ASSUME QInv, BlameInv, mishaps' = 0, Culprit \/ BisectNobody \/ Split \/ RetestOk \/ RetestFail \/ RetestBuild
  PROVE  BlameInv'
<1>0. mishaps \in Nat
  BY QueueAssumption DEF QInv, TypeOK
<1>. DEFINE r == Head(todo)
<1>1. CASE Culprit
  <2>1. pc = "bisect" /\ UNCHANGED <<world, work, base>> /\ Kept = ToSet(kept)
    BY <1>1 DEF Culprit, worktrees, Kept
  <2>2. \A q \in ToSet(kept) : outcome[q] = "pending"
    BY <2>1 DEF BlameInv, FuturesInv, Waiting
  <2>3. /\ outcome' = Resolved(kept, "rejected") /\ pc' = "finish"
        /\ UNCHANGED <<queue, main, todo, kept, rest, staging>>
    BY <1>1, <2>2, NobodyRaises DEF Culprit, Resolve, batchVars
  <2>4. \A q \in Requests : outcome'[q] = IF q \in Kept THEN "rejected" ELSE outcome[q]
    BY <2>1, <2>2, <2>3, ListsTyped, AllResolved
  <2>5. /\ Kept \cap ToSet(queue) = {} /\ rest = <<>> /\ todo = <<>> /\ ToSet(todo) = {} /\ ToSet(rest) = {}
    BY <2>1, DistinctEmpty DEF BlameInv, ApartInv
  <2>6. Kept' = {} /\ Waiting' \subseteq Waiting /\ \A q \in Waiting' : q \in Requests /\ q \notin Kept
    BY <2>3, <2>5, ListsTyped DEF Kept, Waiting
  <2>7. FuturesInv'
    <3>1. \A q \in Waiting' : outcome'[q] = "pending" /\ work[q[1]] = {q}
      BY <2>4, <2>6 DEF BlameInv, FuturesInv
    <3>2. \A q \in main : outcome'[q] = "merged"
      <4>1. main \subseteq Requests
        BY DEF QInv, TypeOK
      <4>2. \A q \in Kept : outcome[q] = "pending"
        BY <2>1, <2>2
      <4>. QED
        BY <2>1, <2>4, <4>1, <4>2 DEF BlameInv, FuturesInv
    <3>3. UNCHANGED <<work, base, main>>
      BY <2>1, <2>3
    <3>. QED
      BY <3>1, <3>2, <3>3 DEF BlameInv, FuturesInv
  <2>8. ApartInv'
    BY <2>3, <2>5, <2>6 DEF BlameInv, ApartInv
  <2>9. StagedInv' /\ FitInv' /\ BrokenInv'
    BY <2>3 DEF StagedInv, FitInv, BrokenInv
  <2>. QED
    BY <2>7, <2>8, <2>9 DEF BlameInv
<1>2. CASE BisectNobody
  BY <1>2 DEF BisectNobody, BlameInv, BrokenInv
<1>3. CASE Split
  <2>1. /\ pc = "bisect" /\ Len(kept) > 1 /\ pc' = "retest"
        /\ kept' = LeftHalf(kept) /\ rest' = RightHalf(kept) /\ todo' = kept' /\ staging' = ref /\ ref = main
        /\ UNCHANGED <<world, work, base, queue, outcome, main>>
    BY <1>3 DEF Split, worktrees, QInv, LandingInv
  <2>2. /\ Distinct(kept') /\ Distinct(rest') /\ kept' # <<>> /\ rest' # <<>>
        /\ ToSet(kept') \cap ToSet(rest') = {} /\ ToSet(kept') \cup ToSet(rest') = ToSet(kept)
    BY <2>1, ListsTyped, HalvesApart DEF BlameInv, ApartInv
  <2>3. /\ Kept = ToSet(kept) /\ Kept' = ToSet(kept') /\ ToSet(todo') = Kept'
        /\ rest = <<>> /\ ToSet(rest) = {}
    BY <2>1, DistinctEmpty DEF Kept, BlameInv, ApartInv
  <2>4. Waiting' \subseteq Waiting /\ Kept' \cup ToSet(rest') = Kept \cup ToSet(rest)
    BY <2>1, <2>2, <2>3 DEF Waiting
  <2>5. \A q \in Kept : q \notin main
    BY <2>1 DEF BlameInv, FuturesInv, Waiting
  <2>6. FuturesInv'
    BY <2>1, <2>4 DEF BlameInv, FuturesInv
  <2>7. ApartInv'
    BY <2>1, <2>2, <2>3 DEF BlameInv, ApartInv
  <2>8. StagedInv'
    BY <2>1, <2>2, <2>3, <2>5 DEF StagedInv
  <2>9. FitInv'
    BY <2>1, <2>4 DEF BlameInv, FitInv, Fits
  <2>10. BrokenInv'
    <3>1. main \cup Kept \cup ToSet(rest) = main \cup Kept' \cup ToSet(rest')
      BY <2>4
    <3>. QED
      BY <2>1, <2>2, <3>1 DEF BlameInv, BrokenInv, Builds
  <2>. QED
    BY <2>6, <2>7, <2>8, <2>9, <2>10 DEF BlameInv
<1>4. CASE RetestOk
  <2>1. /\ pc = "retest" /\ todo # <<>>
        /\ staging' = staging \cup Commits(r[1]) /\ todo' = Tail(todo)
        /\ UNCHANGED <<world, work, base, queue, outcome, main, pc, kept, rest>>
    BY <1>4 DEF RetestOk, worktrees
  <2>2. /\ Commits(r[1]) = {r} /\ Distinct(todo')
        /\ ToSet(todo) = {r} \cup ToSet(todo') /\ r \notin ToSet(todo')
    BY <2>1, HeadApart
  <2>. HIDE DEF r
  <2>3. Kept' = Kept /\ Waiting' = Waiting
    <3>1. Kept' = Kept /\ ToSet(todo) \subseteq Kept /\ ToSet(todo') \subseteq Kept
      BY <2>1, <2>2 DEF Kept, BlameInv, StagedInv
    <3>. QED
      BY <2>1, <3>1 DEF Waiting
  <2>4. FuturesInv'
    BY <2>1, <2>3 DEF BlameInv, FuturesInv
  <2>5. ApartInv'
    BY <2>1, <2>2, <2>3 DEF BlameInv, ApartInv
  <2>6. StagedInv'
    BY <2>1, <2>2, <2>3 DEF BlameInv, StagedInv
  <2>7. FitInv' /\ BrokenInv'
    BY <2>1, <2>3 DEF BlameInv, FitInv, Fits, BrokenInv, Builds
  <2>. QED
    BY <2>4, <2>5, <2>6, <2>7 DEF BlameInv
<1>5. CASE RetestFail
  BY <1>5, RetestPicks
<1>6. CASE RetestBuild
  <2>1. /\ pc = "retest" /\ todo = <<>>
        /\ UNCHANGED <<world, work, base, outcome, main, todo, kept, staging>>
        /\ \/ Builds(staging) /\ pc' = "land" /\ UNCHANGED <<queue, rest>>
           \/ ~Builds(staging) /\ pc' = "bisect" /\ queue' = queue \o rest /\ rest' = <<>>
    BY <1>6 DEF RetestBuild, DeferRight, worktrees
  <2>2. Kept' = Kept /\ ToSet(todo) = {} /\ staging = main \cup Kept
    BY <2>1, DistinctEmpty DEF Kept, BlameInv, StagedInv
  <2>3. CASE Builds(staging) /\ pc' = "land" /\ UNCHANGED <<queue, rest>>
    <3>1. Waiting' = Waiting
      BY <2>1, <2>2, <2>3 DEF Waiting
    <3>2. FuturesInv'
      BY <2>1, <2>2, <2>3, <3>1 DEF BlameInv, FuturesInv
    <3>3. ApartInv'
      BY <2>1, <2>2, <2>3 DEF BlameInv, ApartInv
    <3>4. StagedInv'
      BY <2>1, <2>2, <2>3 DEF StagedInv
    <3>5. FitInv' /\ BrokenInv'
      BY <2>1, <2>2, <2>3 DEF BlameInv, FitInv, Fits, BrokenInv, Builds
    <3>. QED
      BY <3>2, <3>3, <3>4, <3>5 DEF BlameInv
  <2>4. CASE ~Builds(staging) /\ pc' = "bisect" /\ queue' = queue \o rest /\ rest' = <<>>
    <3>1. ToSet(queue') \subseteq ToSet(queue) \cup ToSet(rest) /\ Distinct(queue')
      BY <2>4, ListsTyped, ToSetConcat, DistinctConcat DEF BlameInv, ApartInv
    <3>2. ToSet(rest') = {} /\ Distinct(rest')
      BY <2>4, DistinctEmpty
    <3>3. Waiting' \subseteq Waiting
      BY <2>1, <2>2, <3>1, <3>2 DEF Waiting
    <3>4. FuturesInv'
      BY <2>1, <2>2, <2>4, <3>3 DEF BlameInv, FuturesInv
    <3>5. ApartInv'
      BY <2>1, <2>2, <2>4, <3>1, <3>2 DEF BlameInv, ApartInv
    <3>6. StagedInv'
      BY <2>4 DEF StagedInv
    <3>7. FitInv'
      BY <2>1, <2>2, <2>4, <3>2 DEF BlameInv, FitInv, Fits
    <3>8. BrokenInv'
      <4>1. main \cup Kept' \cup ToSet(rest') = staging
        BY <2>2, <3>2
      <4>. QED
        BY <2>1, <2>4, <4>1 DEF BlameInv, BrokenInv, Builds
    <3>. QED
      BY <3>4, <3>5, <3>6, <3>7, <3>8 DEF BlameInv
  <2>. QED
    BY <2>1, <2>3, <2>4
<1>. QED
  BY <1>1, <1>2, <1>3, <1>4, <1>5, <1>6

LEMMA BlameStep ==
  ASSUME QInv, mishaps = 0 => BlameInv, [Next]_vars, mishaps' = 0
  PROVE  mishaps = 0 /\ BlameInv'
<1>0. mishaps \in Nat
  BY QueueAssumption DEF QInv, TypeOK
<1>1. CASE UNCHANGED vars
  <2>1. UNCHANGED <<world, work, base, queue, outcome, main, pc, todo, kept, rest, staging, mishaps>>
    BY <1>1 DEF vars, worktrees, batchVars
  <2>2. Kept' = Kept /\ Waiting' = Waiting /\ BlameInv
    BY <2>1 DEF Kept, Waiting
  <2>3. FuturesInv' /\ ApartInv' /\ StagedInv'
    BY <2>1, <2>2 DEF BlameInv, FuturesInv, ApartInv, StagedInv
  <2>4. FitInv' /\ BrokenInv'
    BY <2>1, <2>2 DEF BlameInv, FitInv, Fits, BrokenInv, Builds
  <2>. QED
    BY <2>1, <2>3, <2>4 DEF BlameInv
<1>2. CASE Poll
  BY <1>1, <1>2 DEF Poll
<1>3. ASSUME NEW a \in Agents, Work(a) \/ Submit(a) \/ Abandon(a)
      PROVE  mishaps = 0 /\ BlameInv'
  <2>1. mishaps = 0 /\ (Work(a) \/ Submit(a))
    BY <1>0, <1>3 DEF Work, Submit, Abandon, Mishap
  <2>. QED
    BY <2>1, AgentBlames
<1>4. CASE QueueStep
  <2>1. mishaps' = mishaps \/ mishaps' = mishaps + 1
    <3>1. CASE Collect \/ StartStaging \/ RebaseOk
      BY <3>1 DEF Collect, StartStaging, RebaseOk
    <3>2. CASE RebaseFail \/ StageDefer \/ RetestFail \/ LandFail
      BY <3>2 DEF RebaseFail, StageDefer, RetestFail, LandFail, Mishap
    <3>3. CASE StageOk \/ BuildBatch \/ Land \/ Report \/ Finish
      BY <3>3 DEF StageOk, BuildBatch, Land, Report, Finish
    <3>4. CASE Culprit \/ BisectNobody \/ Split \/ RetestOk \/ RetestBuild
      BY <3>4 DEF Culprit, BisectNobody, Split, RetestOk, RetestBuild
    <3>. QED
      BY <1>4, <3>1, <3>2, <3>3, <3>4 DEF QueueStep
  <2>2. mishaps = 0 /\ BlameInv
    BY <1>0, <2>1
  <2>. QED
    BY <1>4, <2>2, CollectBlames, RebaseBlames, StageBlames, LandBlames, FinishBlames, BisectBlames DEF QueueStep
<1>5. CASE Raise \/ Crash
  BY <1>0, <1>5 DEF Raise, Crash, Mishap
<1>. QED
  BY <1>1, <1>2, <1>3, <1>4, <1>5 DEF Next

\* Whoever is rejected conflicts with main or breaks it.
LEMMA RejectedRightly ==
  ASSUME QInv, BlameInv, [Next]_vars, mishaps' = 0, mishaps = 0,
         NEW r \in Requests, outcome[r] = "pending", outcome'[r] = "rejected"
  PROVE  Conflict({r}, main) \/ ~Builds(main \cup {r})
<1>0. outcome \in [Requests -> Outcomes]
  BY DEF QInv, TypeOK, Outcomes
<1>1. CASE UNCHANGED outcome
  BY <1>1
<1>2. CASE \E a \in Agents : Submit(a)
  BY <1>0, <1>2 DEF Submit
<1>3. CASE RebaseFail
  <2>. DEFINE h == Head(todo)
  <2>1. pc = "rebase" /\ todo # <<>> /\ RebaseConflict(h[1])
    BY <1>3 DEF RebaseFail, Mishap
  <2>2. /\ h \in Requests /\ outcome[h] = "pending" /\ work[h[1]] = {h}
    BY <2>1, HeadApart
  <2>. HIDE DEF h
  <2>3. <<h>> \in Seq(Requests) /\ ToSet(<<h>>) = {h} /\ ~Raises(<<h>>)
    BY <2>2, OneElement, NobodyRaises
  <2>4. outcome' = Resolved(<<h>>, "rejected")
    BY <1>3, <2>3 DEF RebaseFail, Resolve, h
  <2>5. r = h
    BY <2>2, <2>3, <2>4, AllResolved
  <2>. QED
    BY <2>1, <2>2, <2>5 DEF RebaseConflict, Conflict
<1>4. CASE Report
  <2>1. \A q \in ToSet(kept) : outcome[q] = "pending"
    BY <1>4 DEF Report, BlameInv, FuturesInv, Waiting, Kept
  <2>2. outcome' = Resolved(kept, "merged")
    BY <1>4, <2>1, NobodyRaises DEF Report, Resolve
  <2>. QED
    BY <2>1, <2>2, ListsTyped, AllResolved
<1>5. CASE Culprit
  <2>1. pc = "bisect" /\ Len(kept) = 1 /\ Kept = ToSet(kept) /\ rest = <<>> /\ ToSet(rest) = {}
    BY <1>5, DistinctEmpty DEF Culprit, Kept, BlameInv, ApartInv
  <2>2. \A q \in ToSet(kept) : outcome[q] = "pending"
    BY <2>1 DEF BlameInv, FuturesInv, Waiting
  <2>3. outcome' = Resolved(kept, "rejected")
    BY <1>5, <2>2, NobodyRaises DEF Culprit, Resolve
  <2>4. r \in ToSet(kept)
    BY <2>2, <2>3, ListsTyped, AllResolved
  <2>5. ToSet(kept) = {r}
    BY <2>1, <2>4, ListsTyped DEF ToSet
  <2>6. ~Builds(main \cup Kept \cup ToSet(rest))
    BY <2>1 DEF BlameInv, BrokenInv
  <2>7. main \cup Kept \cup ToSet(rest) = main \cup {r}
    BY <2>1, <2>5
  <2>. QED
    BY <2>6, <2>7
<1>6. CASE RetestFail
  BY <1>6, RetestPicks
<1>7. CASE BisectNobody \/ LandFail \/ Raise \/ Crash \/ \E a \in Agents : Abandon(a)
  BY <1>7 DEF BisectNobody, LandFail, Raise, Crash, Abandon, Mishap, BlameInv, BrokenInv
<1>8. CASE \E a \in Agents : Work(a)
  BY <1>1, <1>8 DEF Work
<1>9. CASE Poll \/ UNCHANGED vars
  BY <1>1, <1>9 DEF Poll, vars
<1>10. CASE Collect \/ RebaseOk \/ StartStaging \/ StageOk \/ StageDefer \/ BuildBatch
  BY <1>1, <1>10 DEF Collect, RebaseOk, StartStaging, StageOk, StageDefer, BuildBatch
<1>11. CASE Land \/ Finish \/ Split \/ RetestOk \/ RetestBuild
  BY <1>1, <1>11 DEF Land, Finish, Split, RetestOk, RetestBuild
<1>. QED
  BY <1>2, <1>3, <1>4, <1>5, <1>6, <1>7, <1>8, <1>9, <1>10, <1>11 DEF Next, QueueStep

\* "bisect to identify the culprit, merge non-culprits, reject culprit" (module docstring):
\* in every world of conflicting pairs and broken trees, while nothing fails but picks and
\* builds, bisection blames no innocent.
THEOREM RejectionAlwaysJustified == Spec => RejectionJustified
<1>1. Init => BlameInv
  <2>. SUFFICES ASSUME Init
                PROVE  BlameInv
    OBVIOUS
  <2>1. /\ queue = <<>> /\ todo = <<>> /\ kept = <<>> /\ rest = <<>> /\ pc = "idle" /\ main = {}
        /\ work = [a \in Agents |-> {}] /\ base = [a \in Agents |-> {}]
    BY DEF Init
  <2>2. Kept = {} /\ Waiting = {}
    BY <2>1, DistinctEmpty DEF Kept, Waiting
  <2>3. FuturesInv
    BY <2>1, <2>2 DEF FuturesInv
  <2>4. ApartInv
    BY <2>1, <2>2, DistinctEmpty DEF ApartInv
  <2>5. StagedInv /\ FitInv /\ BrokenInv
    BY <2>1 DEF StagedInv, FitInv, BrokenInv
  <2>. QED
    BY <2>3, <2>4, <2>5 DEF BlameInv
<1>. DEFINE Blameless == mishaps = 0 => BlameInv
            Justified == \A r \in Requests : mishaps' = 0 /\ outcome[r] = "pending" /\ outcome'[r] = "rejected" =>
                            Conflict({r}, main) \/ ~Builds(main \cup {r})
<1>2. QInv /\ Blameless /\ [Next]_vars => Blameless'
  BY BlameStep
<1>3. QInv /\ Blameless /\ [Next]_vars => Justified
  BY BlameStep, RejectedRightly
<1>4. QInv <=> TypeOK /\ LandingInv
  BY DEF QInv
<1>5. Init => Blameless
  BY <1>1
<1>. HIDE DEF Blameless
<1>6. Spec => [][Justified]_vars
  BY <1>2, <1>3, <1>4, <1>5, LandingInvariant, PTL DEF Spec
<1>. QED
  BY <1>6 DEF RejectionJustified

---------------------------------------------------------------------------
(* The agent's loop *)

(* The lock has one holder, who is calling, and everyone in its queue is waiting. *)
AgentCallersInv ==
  /\ \A k \in DOMAIN waiters :
       IF waiters[k] = "owner" THEN owner = "waiting" ELSE consumer = "waiting" /\ held # 0
  /\ \A j, k \in DOMAIN waiters : waiters[j] = waiters[k] => j = k
  /\ caller = "owner" <=> owner = "calling"
  /\ caller = "consumer" <=> consumer = "calling"
  /\ caller = "nobody" <=> place = "rest"
  /\ life # "running" => place = "rest" /\ waiters = <<>>

(* Every result has its calls before it, and all calls but those of the last message *)
(* have their results after them.                                                    *)
PairedButLast(c) ==
  \A k \in DOMAIN c :
    /\ c[k].role = "calls" => k = Len(c) \/ c[k + 1].role = "results"
    /\ c[k].role = "results" => k > 1 /\ c[k - 1].role = "calls"

(* The conversation of an agent that is no pool's, where the loop stands. *)
ConversationInv == ~pooled =>
  /\ life = "running" /\ place \in {"rest", "top", "llm"} => Paired(conv)
  /\ place = "tools" => conv # <<>> /\ Last(conv).role = "calls" /\ PairedButLast(conv)
  /\ place = "summary" => Paired(snapshot)

ArchiveInv == store = "nothing" => archive = <<>>

AgentInv == AgentTypeOK /\ AgentCallersInv /\ ConversationInv /\ ArchiveInv

LEMMA WithIs ==
  ASSUME NEW c \in Seq(Messages), NEW roles \in Seq(Roles), said \in Nat
  PROVE  /\ With(c, roles) \in Seq(Messages)
         /\ Len(With(c, roles)) = Len(c) + Len(roles)
         /\ \A k \in 1..Len(c) : With(c, roles)[k] = c[k]
         /\ \A k \in 1..Len(roles) : With(c, roles)[Len(c) + k].role = roles[k]
<1> DEFINE more == [i \in DOMAIN roles |-> [role |-> roles[i], n |-> said + i]]
<1>1. roles \in [1..Len(roles) -> Roles] /\ Len(roles) \in Nat /\ DOMAIN roles = 1..Len(roles)
  OBVIOUS
<1>2. \A i \in 1..Len(roles) : [role |-> roles[i], n |-> said + i] \in Messages
  BY <1>1 DEF Messages
<1>3. more \in [1..Len(roles) -> Messages]
  BY <1>1, <1>2
<1>4. more \in Seq(Messages) /\ Len(more) = Len(roles)
  BY <1>1, <1>3
<1>5. \A i \in 1..Len(roles) : more[i].role = roles[i]
  BY <1>1
<1>6. With(c, roles) = c \o more
  BY DEF With
<1> HIDE DEF more
<1>7. /\ c \o more \in Seq(Messages)
      /\ Len(c \o more) = Len(c) + Len(more)
      /\ \A i \in 1 .. Len(c) + Len(more) : (c \o more)[i] = IF i <= Len(c) THEN c[i] ELSE more[i - Len(c)]
  BY <1>4, ConcatProperties
<1>8. Len(c) \in Nat
  OBVIOUS
<1>9. \A k \in 1..Len(c) : (c \o more)[k] = c[k]
  BY <1>1, <1>4, <1>7, <1>8
<1>10. \A k \in 1..Len(roles) : (c \o more)[Len(c) + k] = more[k]
  <2> SUFFICES ASSUME NEW k \in 1..Len(roles) PROVE (c \o more)[Len(c) + k] = more[k]
    OBVIOUS
  <2>1. Len(c) + k \in 1 .. Len(c) + Len(more) /\ ~(Len(c) + k <= Len(c)) /\ (Len(c) + k) - Len(c) = k
    BY <1>1, <1>4, <1>8
  <2> QED BY <1>7, <2>1
<1> QED BY <1>4, <1>5, <1>6, <1>7, <1>9, <1>10

LEMMA PairedGrows ==
  ASSUME NEW c \in Seq(Messages), NEW d \in Seq(Messages), Paired(c), Len(d) >= Len(c),
         \A k \in 1..Len(c) : d[k] = c[k],
         \A k \in Len(c) + 1 .. Len(d) :
           /\ d[k].role = "calls" => k < Len(d) /\ d[k + 1].role = "results"
           /\ d[k].role = "results" => k > Len(c) + 1 /\ d[k - 1].role = "calls"
  PROVE  Paired(d)
<1> SUFFICES ASSUME NEW k \in 1..Len(d)
             PROVE  /\ d[k].role = "calls" => k < Len(d) /\ d[k + 1].role = "results"
                    /\ d[k].role = "results" => k > 1 /\ d[k - 1].role = "calls"
  BY DEF Paired
<1>0. Len(c) \in Nat /\ Len(d) \in Nat
  OBVIOUS
<1>1. CASE k \in 1..Len(c)
  <2>1. /\ c[k].role = "calls" => k < Len(c) /\ c[k + 1].role = "results"
        /\ c[k].role = "results" => k > 1 /\ c[k - 1].role = "calls"
    BY <1>1 DEF Paired
  <2>2. d[k] = c[k] /\ (k < Len(c) => d[k + 1] = c[k + 1]) /\ (k > 1 => d[k - 1] = c[k - 1])
    BY <1>0, <1>1
  <2> QED BY <1>0, <1>1, <2>1, <2>2
<1>2. CASE k \in Len(c) + 1 .. Len(d)
  BY <1>0, <1>2
<1> QED BY <1>0, <1>1, <1>2

(* Roles that may follow any paired conversation. *)
LEMMA WithPlain ==
  ASSUME NEW c \in Seq(Messages), NEW roles \in Seq(Roles), said \in Nat, Paired(c),
         \A k \in 1..Len(roles) : roles[k] \notin {"calls", "results"}
  PROVE  Paired(With(c, roles))
<1> DEFINE d == With(c, roles)
<1>1. /\ d \in Seq(Messages) /\ Len(d) = Len(c) + Len(roles)
      /\ \A k \in 1..Len(c) : d[k] = c[k]
      /\ \A k \in 1..Len(roles) : d[Len(c) + k].role = roles[k]
  BY WithIs
<1> HIDE DEF d
<1>2. \A k \in Len(c) + 1 .. Len(d) : d[k].role \notin {"calls", "results"}
  <2> SUFFICES ASSUME NEW k \in Len(c) + 1 .. Len(d) PROVE d[k].role \notin {"calls", "results"}
    OBVIOUS
  <2>1. k - Len(c) \in 1..Len(roles) /\ Len(c) + (k - Len(c)) = k
    BY <1>1
  <2> QED BY <1>1, <2>1
<1>3. Len(d) >= Len(c)
  BY <1>1
<1>4. Paired(d)
  BY <1>1, <1>2, <1>3, PairedGrows
<1> QED BY <1>4 DEF d

(* Calls that are dropped are answered at once. *)
LEMMA WithDropped ==
  ASSUME NEW c \in Seq(Messages), said \in Nat, Paired(c)
  PROVE  Paired(With(c, <<"calls", "results", "user">>))
<1> DEFINE roles == <<"calls", "results", "user">>
           d == With(c, roles)
<1>0. roles \in Seq(Roles) /\ Len(roles) = 3 /\ roles[1] = "calls" /\ roles[2] = "results" /\ roles[3] = "user"
  BY DEF Roles
<1>1. /\ d \in Seq(Messages) /\ Len(d) = Len(c) + Len(roles)
      /\ \A k \in 1..Len(c) : d[k] = c[k]
      /\ \A k \in 1..Len(roles) : d[Len(c) + k].role = roles[k]
  BY <1>0, WithIs
<1>2. Len(d) = Len(c) + 3 /\ d[Len(c) + 1].role = "calls" /\ d[Len(c) + 2].role = "results" /\ d[Len(c) + 3].role = "user"
  BY <1>0, <1>1
<1>3. \A k \in 1..Len(c) : d[k] = c[k]
  BY <1>1
<1>4. d \in Seq(Messages)
  BY <1>1
<1> HIDE DEF d, roles
<1>5. \A k \in Len(c) + 1 .. Len(d) :
        /\ d[k].role = "calls" => k < Len(d) /\ d[k + 1].role = "results"
        /\ d[k].role = "results" => k > Len(c) + 1 /\ d[k - 1].role = "calls"
  <2> SUFFICES ASSUME NEW k \in Len(c) + 1 .. Len(d)
               PROVE  /\ d[k].role = "calls" => k < Len(d) /\ d[k + 1].role = "results"
                      /\ d[k].role = "results" => k > Len(c) + 1 /\ d[k - 1].role = "calls"
    OBVIOUS
  <2>0. Len(c) \in Nat
    OBVIOUS
  <2>1. k = Len(c) + 1 \/ k = Len(c) + 2 \/ k = Len(c) + 3
    BY <1>2, <2>0
  <2>2. k = Len(c) + 1 => k + 1 = Len(c) + 2 /\ k < Len(d)
    BY <1>2, <2>0
  <2>3. k = Len(c) + 2 => k - 1 = Len(c) + 1 /\ k > Len(c) + 1
    BY <1>2, <2>0
  <2> QED BY <1>2, <2>1, <2>2, <2>3
<1>6. Len(d) >= Len(c)
  BY <1>2
<1>7. Paired(d)
  BY <1>3, <1>4, <1>5, <1>6, PairedGrows
<1> QED BY <1>7 DEF d, roles

(* Calls that are to be executed wait for their results. *)
LEMMA WithCalls ==
  ASSUME NEW c \in Seq(Messages), said \in Nat, Paired(c)
  PROVE  LET d == With(c, <<"calls">>)
         IN  d # <<>> /\ Last(d).role = "calls" /\ PairedButLast(d)
<1> DEFINE roles == <<"calls">>
           d == With(c, roles)
<1>0. roles \in Seq(Roles) /\ Len(roles) = 1 /\ roles[1] = "calls"
  BY DEF Roles
<1>1. /\ d \in Seq(Messages) /\ Len(d) = Len(c) + Len(roles)
      /\ \A k \in 1..Len(c) : d[k] = c[k]
      /\ \A k \in 1..Len(roles) : d[Len(c) + k].role = roles[k]
  BY <1>0, WithIs
<1>2. Len(d) = Len(c) + 1 /\ d[Len(c) + 1].role = "calls"
  BY <1>0, <1>1
<1>3. Len(c) \in Nat /\ DOMAIN d = 1..Len(d) /\ DOMAIN c = 1..Len(c)
  BY <1>1
<1> HIDE DEF d, roles
<1>4. d # <<>> /\ Last(d).role = "calls"
  BY <1>2, <1>3 DEF Last
<1>5. ASSUME NEW k \in 1..Len(d)
      PROVE  /\ d[k].role = "calls" => k = Len(d) \/ d[k + 1].role = "results"
             /\ d[k].role = "results" => k > 1 /\ d[k - 1].role = "calls"
  <2>1. CASE k = Len(d)
    BY <1>2, <2>1
  <2>2. CASE k # Len(d)
    <3>1. k \in 1..Len(c)
      BY <1>2, <1>3, <2>2
    <3>2. /\ c[k].role = "calls" => k < Len(c) /\ c[k + 1].role = "results"
          /\ c[k].role = "results" => k > 1 /\ c[k - 1].role = "calls"
      BY <1>3, <3>1 DEF Paired
    <3>3. d[k] = c[k] /\ (k < Len(c) => d[k + 1] = c[k + 1]) /\ (k > 1 => d[k - 1] = c[k - 1])
      BY <1>1, <1>3, <3>1
    <3> QED BY <3>2, <3>3
  <2> QED BY <2>1, <2>2
<1>6. PairedButLast(d)
  BY <1>3, <1>5 DEF PairedButLast
<1> QED BY <1>4, <1>6 DEF d, roles

(* ... and get them. *)
LEMMA WithResults ==
  ASSUME NEW c \in Seq(Messages), said \in Nat, c # <<>>, Last(c).role = "calls", PairedButLast(c)
  PROVE  Paired(With(c, <<"results">>))
<1> DEFINE roles == <<"results">>
           d == With(c, roles)
<1>0. roles \in Seq(Roles) /\ Len(roles) = 1 /\ roles[1] = "results"
  BY DEF Roles
<1>1. /\ d \in Seq(Messages) /\ Len(d) = Len(c) + Len(roles)
      /\ \A k \in 1..Len(c) : d[k] = c[k]
      /\ \A k \in 1..Len(roles) : d[Len(c) + k].role = roles[k]
  BY <1>0, WithIs
<1>2. Len(d) = Len(c) + 1 /\ d[Len(c) + 1].role = "results"
  BY <1>0, <1>1
<1>3. Len(c) \in Nat \ {0} /\ DOMAIN d = 1..Len(d) /\ DOMAIN c = 1..Len(c) /\ c[Len(c)].role = "calls"
  BY <1>1 DEF Last
<1> HIDE DEF d, roles
<1>5. ASSUME NEW k \in 1..Len(d)
      PROVE  /\ d[k].role = "calls" => k < Len(d) /\ d[k + 1].role = "results"
             /\ d[k].role = "results" => k > 1 /\ d[k - 1].role = "calls"
  <2>1. CASE k = Len(d)
    <3>1. k > 1 /\ k - 1 = Len(c) /\ Len(c) \in 1..Len(c)
      BY <1>2, <1>3, <2>1
    <3>2. d[k - 1].role = "calls"
      BY <1>1, <1>3, <3>1
    <3> QED BY <1>2, <2>1, <3>1, <3>2
  <2>2. CASE k # Len(d)
    <3>1. k \in 1..Len(c) /\ k < Len(d)
      BY <1>2, <1>3, <2>2
    <3>2. /\ c[k].role = "calls" => k = Len(c) \/ c[k + 1].role = "results"
          /\ c[k].role = "results" => k > 1 /\ c[k - 1].role = "calls"
      BY <1>3, <3>1 DEF PairedButLast
    <3>3. (k # Len(c) => k + 1 \in 1..Len(c)) /\ (k > 1 => k - 1 \in 1..Len(c))
      <4>1. \A n \in Nat : \A j \in 1..n : (j # n => j + 1 \in 1..n) /\ (j > 1 => j - 1 \in 1..n)
        OBVIOUS
      <4>2. Len(c) \in Nat /\ k \in 1..Len(c)
        BY <3>1
      <4> QED BY <4>1, <4>2
    <3>4. d[k] = c[k] /\ (k # Len(c) => d[k + 1] = c[k + 1]) /\ (k > 1 => d[k - 1] = c[k - 1])
      BY <1>1, <3>1, <3>3
    <3>5. k = Len(c) => d[k + 1].role = "results"
      BY <1>2
    <3> QED BY <3>1, <3>2, <3>3, <3>4, <3>5
  <2> QED BY <2>1, <2>2
<1>6. Paired(d)
  BY <1>3, <1>5 DEF Paired
<1> QED BY <1>6 DEF d, roles

(* The archive of a conversation is of numbers, and begins with what it had. *)
LEMMA ArchivedIs ==
  ASSUME NEW c \in Seq(Messages), archive \in Seq(Nat), counted \in Nat, ArchiveInv
  PROVE  Archived(c) \in Seq(Nat) /\ IsPrefix(archive, Archived(c))
<1> DEFINE Numbers(m) == [i \in DOMAIN m |-> m[i].n]
           count == IF store = "count" THEN counted ELSE Len(c)
           fresh == SubSeq(c, IF Len(c) < count THEN 1 ELSE count + 1, Len(c))
<1>1. ASSUME NEW m \in Seq(Messages)
      PROVE  Numbers(m) \in Seq(Nat)
  <2>1. m \in [1..Len(m) -> Messages] /\ Len(m) \in Nat /\ DOMAIN m = 1..Len(m)
    OBVIOUS
  <2>2. \A i \in 1..Len(m) : m[i].n \in Nat
    BY <2>1 DEF Messages
  <2>3. Numbers(m) \in [1..Len(m) -> Nat]
    BY <2>1, <2>2
  <2> DEFINE ns == Numbers(m)
  <2>4. ns \in [1..Len(m) -> Nat] /\ Len(m) \in Nat
    BY <2>1, <2>3
  <2> HIDE DEF ns
  <2>5. ns \in Seq(Nat)
    BY <2>4
  <2> QED BY <2>5 DEF ns
<1>2. count \in Nat
  OBVIOUS
<1>3. fresh \in Seq(Messages)
  <2>1. Len(c) \in Nat
    OBVIOUS
  <2> HIDE DEF count
  <2>2. CASE Len(c) < count
    <3>1. fresh = SubSeq(c, 1, Len(c))
      BY <2>2
    <3> QED BY <2>1, <3>1, SubSeqFull
  <2>3. CASE ~(Len(c) < count)
    <3>1. fresh = SubSeq(c, count + 1, Len(c))
      BY <2>3
    <3>2. \A j \in (count + 1) .. Len(c) : j \in 1..Len(c)
      BY <1>2, <2>1
    <3> QED BY <1>2, <2>1, <3>1, <3>2, SubSeqProperties
  <2> QED BY <2>2, <2>3
<1>4. CASE store = "nothing"
  <2>1. Archived(c) = Numbers(c)
    BY <1>4 DEF Archived
  <2>2. archive = <<>>
    BY <1>4 DEF ArchiveInv
  <2> HIDE DEF Numbers
  <2>3. Numbers(c) \in Seq(Nat)
    BY <1>1
  <2>4. Len(archive) = 0 /\ Len(Numbers(c)) \in Nat /\ SubSeq(archive, 1, 0) = <<>> /\ SubSeq(Numbers(c), 1, 0) = <<>>
    BY <2>2, <2>3, SubSeqEmpty
  <2> QED BY <2>1, <2>3, <2>4 DEF IsPrefix
<1>5. CASE store # "nothing"
  <2>1. Archived(c) = archive \o Numbers(fresh)
    BY <1>5 DEF Archived
  <2> DEFINE more == Numbers(fresh)
  <2>2. more \in Seq(Nat)
    BY <1>1, <1>3
  <2> HIDE DEF more, Numbers, fresh
  <2>3. archive \o more \in Seq(Nat) /\ Len(archive \o more) = Len(archive) + Len(more)
    BY <2>2, ConcatProperties
  <2>4. SubSeq(archive \o more, 1, Len(archive)) = archive /\ SubSeq(archive, 1, Len(archive)) = archive
    BY <2>2, ConcatSimplifications, SubSeqFull, SubSeqOfConcat1
  <2> QED BY <2>1, <2>2, <2>3, <2>4 DEF IsPrefix, more
<1> QED BY <1>4, <1>5

(* The types by groups of variables. *)
CallersType ==
  /\ owner \in {"idle", "waiting", "calling"} /\ consumer \in {"getting", "waiting", "calling"}
  /\ held \in 0..MaxSent /\ caller \in {"nobody", "owner", "consumer"}
  /\ waiters \in Seq({"owner", "consumer"}) /\ calls \in 0..MaxCalls

LoopType ==
  /\ place \in {"rest", "top", "llm", "tools", "summary"} /\ after \in {"top", "return"}
  /\ turns \in 0..MaxTurns /\ cutOffs \in 0..MaxCutOffs /\ overflows \in 0..MaxOverflows

ClientType ==
  /\ conv \in Seq(Messages) /\ system \in {"agent", "summarizer"}
  /\ snapshot \in Seq(Messages) /\ said \in Nat

InboxType ==
  /\ sent \in 0..MaxSent /\ delivered \in 0..sent /\ taken \in 0..delivered /\ told \subseteq 1..MaxSent

FilesType ==
  /\ saved \in Seq(Messages) /\ archive \in Seq(Nat) /\ counted \in Nat
  /\ store \in {"nothing", "file", "count"}

ProcessType == life \in {"down", "loaded", "running"} /\ starts \in 0..MaxStarts

LEMMA TypeParts == AgentTypeOK <=>
  ProcessType /\ CallersType /\ LoopType /\ ClientType /\ InboxType /\ FilesType
BY DEF AgentTypeOK, ProcessType, CallersType, LoopType, ClientType, InboxType, FilesType

LEMMA TypePartsPrimed == AgentTypeOK' <=>
  ProcessType' /\ CallersType' /\ LoopType' /\ ClientType' /\ InboxType' /\ FilesType'
BY DEF AgentTypeOK, ProcessType, CallersType, LoopType, ClientType, InboxType, FilesType

(* What is not touched keeps its type. *)
LEMMA TypesKept ==
  ASSUME AgentTypeOK
  PROVE  /\ UNCHANGED <<life, starts>> => ProcessType'
         /\ UNCHANGED callers => CallersType'
         /\ UNCHANGED loopVars => LoopType'
         /\ UNCHANGED client => ClientType'
         /\ UNCHANGED inbox => InboxType'
         /\ UNCHANGED files => FilesType'
<1>1. UNCHANGED <<life, starts>> => ProcessType'
  BY DEF AgentTypeOK, ProcessType
<1>2. UNCHANGED callers => CallersType'
  BY DEF AgentTypeOK, CallersType, callers
<1>3. UNCHANGED loopVars => LoopType'
  BY DEF AgentTypeOK, LoopType, loopVars
<1>4. UNCHANGED client => ClientType'
  BY DEF AgentTypeOK, ClientType, client
<1>5. UNCHANGED inbox => InboxType'
  BY DEF AgentTypeOK, InboxType, inbox
<1>6. UNCHANGED files => FilesType'
  BY DEF AgentTypeOK, FilesType, files
<1> QED BY <1>1, <1>2, <1>3, <1>4, <1>5, <1>6

LEMMA EndCallTypes ==
  ASSUME AgentTypeOK, AgentAssumption, EndCall, turns' = turns
  PROVE  CallersType' /\ LoopType'
<1>1. CallersType'
  BY DEF EndCall, AgentTypeOK, CallersType
<1>2. LoopType'
  BY DEF EndCall, AgentTypeOK, LoopType, AgentAssumption
<1> QED BY <1>1, <1>2

LEMMA GotoTypes ==
  ASSUME AgentTypeOK,
         NEW next \in {"top", "llm", "tools"}, NEW cuts \in 0..MaxCutOffs, NEW overs \in 0..MaxOverflows,
         Goto(next, cuts, overs), turns' \in 0..MaxTurns
  PROVE  CallersType' /\ LoopType'
<1>1. CallersType'
  BY TypesKept DEF Goto
<1>2. LoopType'
  BY DEF Goto, LoopType
<1> QED BY <1>1, <1>2

LEMMA ResumeTypes ==
  ASSUME AgentTypeOK, AgentAssumption, NEW c \in Seq(Messages),
         NEW next, NEW cuts \in 0..MaxCutOffs, NEW overs \in 0..MaxOverflows,
         Resume(c, next, cuts, overs), turns' = turns
  PROVE  CallersType' /\ LoopType' /\ conv' \in Seq(Messages)
<1>0. turns' \in 0..MaxTurns /\ conv' \in Seq(Messages)
  BY DEF AgentTypeOK, Resume
<1>1. CASE EndCall
  BY <1>0, <1>1, EndCallTypes
<1>2. CASE Goto("top", cuts, overs)
  BY <1>0, <1>2, GotoTypes
<1> QED BY <1>1, <1>2 DEF Resume

(* A loop that goes on, returns or compacts. *)
GoesOn(c, next, cuts, overs) ==
  \/ Resume(c, next, cuts, overs) /\ UNCHANGED <<system, snapshot>>
  \/ CompactOrResume(c, next, cuts, overs)

LEMMA GoesOnTypes ==
  ASSUME AgentTypeOK, AgentAssumption, NEW c \in Seq(Messages),
         NEW next \in {"top", "return"}, NEW cuts \in 0..MaxCutOffs, NEW overs \in 0..MaxOverflows,
         GoesOn(c, next, cuts, overs), turns' = turns, said' \in Nat
  PROVE  CallersType' /\ LoopType' /\ ClientType'
<1>0. turns' \in 0..MaxTurns /\ system \in {"agent", "summarizer"} /\ snapshot \in Seq(Messages)
  BY DEF AgentTypeOK
<1>1. CASE Resume(c, next, cuts, overs) /\ UNCHANGED <<system, snapshot>>
  <2>1. CallersType' /\ LoopType' /\ conv' \in Seq(Messages)
    BY <1>1, ResumeTypes
  <2> QED BY <1>0, <1>1, <2>1 DEF ClientType
<1>2. CASE Compact(c, next, cuts, overs)
  <2>1. CallersType'
    BY <1>2, TypesKept DEF Compact
  <2>2. LoopType'
    BY <1>0, <1>2 DEF Compact, LoopType
  <2>3. [role |-> "summarize", n |-> 0] \in Messages
    BY DEF Messages, Roles
  <2>4. <<[role |-> "summarize", n |-> 0]>> \in Seq(Messages)
    BY <2>3
  <2>5. ClientType'
    BY <1>2, <2>4 DEF Compact, ClientType
  <2> QED BY <2>1, <2>2, <2>5
<1> QED BY <1>1, <1>2 DEF GoesOn, CompactOrResume

LEMMA SayType ==
  ASSUME AgentTypeOK, NEW roles \in Seq(Roles), Say(roles)
  PROVE  conv' \in Seq(Messages) /\ said' \in Nat
<1>1. conv \in Seq(Messages) /\ said \in Nat /\ Len(roles) \in Nat
  BY DEF AgentTypeOK
<1> QED BY <1>1, WithIs DEF Say

LEMMA SaveTypes ==
  ASSUME AgentTypeOK, ArchiveInv, NEW c \in Seq(Messages), Save(c)
  PROVE  FilesType' /\ store' = "count" /\ IsPrefix(archive, archive')
<1>1. archive \in Seq(Nat) /\ counted \in Nat
  BY DEF AgentTypeOK
<1>2. Archived(c) \in Seq(Nat) /\ IsPrefix(archive, Archived(c))
  BY <1>1, ArchivedIs
<1>3. Len(c) \in Nat
  OBVIOUS
<1> QED BY <1>2, <1>3 DEF Save, FilesType

(* Sets of positions have a last element. *)
LEMMA HasLast ==
  ASSUME NEW n \in Nat, NEW S \in SUBSET (1..n), S # {}
  PROVE  \E k \in S : \A j \in S : j <= k
<1>. DEFINE Above(k) == {j \in 1..n : k < j}
            T == {Above(k) : k \in S}
<1>1. T \subseteq FiniteSubsetsOf(1..n) /\ T # {}
  <2>1. IsFiniteSet(1..n)
    BY FS_Interval
  <2>2. FiniteSubsetsOf(1..n) = SUBSET (1..n)
    BY <2>1, FS_FiniteSubsetsOfFinite
  <2>3. PICK k \in S : TRUE
    OBVIOUS
  <2>4. Above(k) \in T
    BY <2>3
  <2>5. \A j : Above(j) \subseteq 1..n
    OBVIOUS
  <2>6. T \subseteq SUBSET (1..n)
    BY <2>5
  <2>. QED
    BY <2>2, <2>4, <2>6
<1>2. PICK U \in T : \A V \in T : <<V, U>> \notin StrictSubsetOrdering(1..n)
  BY <1>1, FS_StrictSubsetOrderingWellFounded, WFMin
<1>3. PICK k \in S : U = Above(k)
  BY <1>2
<1>4. ASSUME NEW j \in S, ~(j <= k)
      PROVE  FALSE
  <2>1. Above(j) \in T /\ Above(j) \subseteq Above(k) /\ j \in Above(k) /\ j \notin Above(j)
    BY <1>4
  <2>2. <<Above(j), Above(k)>> \in StrictSubsetOrdering(1..n)
    BY <2>1 DEF StrictSubsetOrdering
  <2>. QED
    BY <1>2, <1>3, <2>1, <2>2
<1>. QED
  BY <1>4

LEMMA CleanedType ==
  ASSUME NEW c \in Seq(Messages)
  PROVE  Cleaned(c) \in Seq(Messages)
<1> DEFINE safe == {k \in DOMAIN c : c[k].role \notin Trailing}
           n == IF safe = {} THEN 0 ELSE CHOOSE k \in safe : \A j \in safe : j <= k
<1>1. safe \subseteq 1..Len(c) /\ Len(c) \in Nat
  OBVIOUS
<1>2. n \in 0..Len(c)
  <2>1. CASE safe = {}
    BY <1>1, <2>1
  <2>2. CASE safe # {}
    <3>1. PICK m \in safe : \A j \in safe : j <= m
      <4> HIDE DEF safe
      <4> QED BY <1>1, <2>2, HasLast
    <3>2. n \in safe
      BY <2>2, <3>1
    <3> QED BY <1>1, <3>2
  <2> QED BY <2>1, <2>2
<1>3. Cleaned(c) = SubSeq(c, 1, n)
  BY DEF Cleaned
<1> HIDE DEF n, safe
<1>4. \A j \in 1..n : j \in 1..Len(c)
  BY <1>1, <1>2
<1>5. \A j \in 1..n : c[j] \in Messages
  BY <1>4
<1> QED BY <1>2, <1>3, <1>5, SubSeqProperties

LEMMA BeginCallTypes ==
  ASSUME AgentTypeOK, AgentAssumption, NEW c \in {"owner", "consumer"}, BeginCall(c),
         waiters' \in Seq({"owner", "consumer"}), c = "consumer" => held # 0
  PROVE  AgentTypeOK'
<1>1. ProcessType'
  BY TypesKept DEF BeginCall
<1>2. CallersType'
  BY DEF BeginCall, AgentTypeOK, AgentAssumption, CallersType
<1>3. LoopType'
  BY DEF BeginCall, AgentTypeOK, LoopType
<1>4. <<"user">> \in Seq(Roles)
  BY DEF Roles
<1>5. conv' \in Seq(Messages) /\ said' \in Nat
  BY <1>4, SayType DEF BeginCall
<1>6. ClientType'
  BY <1>5 DEF BeginCall, AgentTypeOK, ClientType
<1>7. InboxType'
  BY DEF BeginCall, AgentTypeOK, AgentAssumption, InboxType
<1>8. FilesType'
  BY TypesKept DEF BeginCall
<1> QED BY <1>1, <1>2, <1>3, <1>6, <1>7, <1>8, TypePartsPrimed

LEMMA AskForLockTypes ==
  ASSUME AgentTypeOK, NEW c \in {"owner", "consumer"}, AskForLock(c), caller' = caller,
         held' \in 0..MaxSent, calls' \in 0..MaxCalls
  PROVE  CallersType'
<1>1. waiters \in Seq({"owner", "consumer"})
  BY DEF AgentTypeOK
<1>2. Append(waiters, c) \in Seq({"owner", "consumer"})
  BY <1>1
<1> QED BY <1>2 DEF AskForLock, AgentTypeOK, CallersType

LEMMA ForgetTypes ==
  ASSUME AgentTypeOK, AgentAssumption, Forget
  PROVE  ProcessType' /\ CallersType' /\ LoopType' /\ ClientType' /\ InboxType'
<1>1. <<>> \in Seq({"owner", "consumer"})
  OBVIOUS
<1>2. <<>> \in Seq(Messages)
  OBVIOUS
<1>3. ProcessType'
  BY DEF Forget, AgentTypeOK, ProcessType
<1>4. CallersType'
  BY <1>1 DEF Forget, AgentAssumption, CallersType
<1>5. LoopType'
  BY DEF Forget, AgentAssumption, LoopType
<1>6. ClientType'
  BY <1>2 DEF Forget, AgentTypeOK, ClientType
<1>7. InboxType'
  BY DEF Forget, AgentAssumption, InboxType
<1> QED BY <1>3, <1>4, <1>5, <1>6, <1>7

(* Whoever has waited for the lock. *)
LEMMA WaiterIs ==
  ASSUME AgentTypeOK, AgentCallersInv, NEW c, Granted(c)
  PROVE  /\ waiters # <<>> /\ waiters[1] = c /\ 1 \in DOMAIN waiters
         /\ Tail(waiters) \in Seq({"owner", "consumer"})
         /\ DOMAIN Tail(waiters) = 1 .. Len(waiters) - 1
         /\ \A k \in 1 .. Len(waiters) - 1 : Tail(waiters)[k] = waiters[k + 1] /\ k + 1 \in DOMAIN waiters
         /\ c \in {"owner", "consumer"}
         /\ c = "owner" => owner = "waiting"
         /\ c = "consumer" => consumer = "waiting" /\ held # 0
<1>1. waiters \in Seq({"owner", "consumer"}) /\ waiters # <<>> /\ Head(waiters) = c
  BY DEF AgentTypeOK, Granted
<1>2. waiters[1] = c /\ DOMAIN waiters = 1..Len(waiters) /\ Len(waiters) \in Nat /\ Len(waiters) >= 1
  BY <1>1
<1>3. /\ Tail(waiters) \in Seq({"owner", "consumer"}) /\ Len(Tail(waiters)) = Len(waiters) - 1
      /\ \A k \in 1 .. Len(Tail(waiters)) : Tail(waiters)[k] = waiters[k + 1]
  BY <1>1, HeadTailProperties
<1>4. DOMAIN Tail(waiters) = 1 .. Len(waiters) - 1
  BY <1>3
<1>5. 1 \in DOMAIN waiters /\ \A k \in 1 .. Len(waiters) - 1 : k + 1 \in DOMAIN waiters
  BY <1>2
<1>6. c \in {"owner", "consumer"}
  BY <1>1, <1>2
<1>7. IF c = "owner" THEN owner = "waiting" ELSE consumer = "waiting" /\ held # 0
  BY <1>2, <1>5 DEF AgentCallersInv
<1> QED BY <1>1, <1>2, <1>3, <1>4, <1>5, <1>6, <1>7

LEMMA SummaryIs ==
  ASSUME ClientType
  PROVE  /\ <<[role |-> "summary", n |-> said + 1]>> \o Open(snapshot) \in Seq(Messages)
         /\ Paired(snapshot) => Paired(<<[role |-> "summary", n |-> said + 1]>> \o Open(snapshot))
<1> DEFINE m == [role |-> "summary", n |-> said + 1]
<1>1. m \in Messages /\ m.role = "summary"
  BY DEF ClientType, Messages, Roles
<1>2. snapshot \in Seq(Messages)
  BY DEF ClientType
<1>3. snapshot # <<>> => Last(snapshot) \in Messages /\ Len(snapshot) \in DOMAIN snapshot
  BY <1>2 DEF Last
<1> HIDE DEF m
<1>4. Open(snapshot) \in Seq(Messages)
  BY <1>3 DEF Open
<1>5. <<m>> \in Seq(Messages)
  BY <1>1
<1>6. <<m>> \o Open(snapshot) \in Seq(Messages)
  BY <1>4, <1>5, ConcatProperties
<1>7. ASSUME Paired(snapshot)
      PROVE  Paired(<<m>> \o Open(snapshot))
  <2>1. Open(snapshot) = <<>>
    <3>1. CASE snapshot = <<>>
      BY <3>1 DEF Open
    <3>2. CASE snapshot # <<>>
      <4>1. Last(snapshot).role = "calls" => Len(snapshot) < Len(snapshot)
        BY <1>3, <1>7, <3>2 DEF Paired, Last
      <4>2. Len(snapshot) \in Nat
        BY <1>2
      <4> QED BY <4>1, <4>2 DEF Open
    <3> QED BY <3>1, <3>2
  <2>2. <<m>> \o Open(snapshot) = <<m>>
    BY <1>5, <2>1, ConcatEmptySeq
  <2>3. DOMAIN <<m>> = {1} /\ <<m>>[1] = m
    OBVIOUS
  <2>4. Paired(<<m>>)
    BY <1>1, <2>3 DEF Paired
  <2> QED BY <2>2, <2>4
<1> QED BY <1>6, <1>7 DEF m

(* What a call does to the lock: it ends and lets go of it, or goes on. *)
LEMMA LoopCallers ==
  ASSUME AgentTypeOK, AgentCallersInv, place # "rest", life' = life,
         EndCall \/ (UNCHANGED callers /\ place' # "rest")
  PROVE  AgentCallersInv'
<1>0. life = "running" /\ life' = "running" /\ waiters' = waiters /\ held' = held
  BY DEF AgentCallersInv, EndCall, callers
<1>1. CASE EndCall
  <2>1. \A k \in DOMAIN waiters :
          IF waiters[k] = "owner" THEN owner = "waiting" ELSE consumer = "waiting" /\ held # 0
    BY DEF AgentCallersInv
  <2>2. owner = "waiting" => owner' = "waiting"
    BY <1>1 DEF EndCall, AgentCallersInv
  <2>3. consumer = "waiting" => consumer' = "waiting"
    BY <1>1 DEF EndCall, AgentCallersInv
  <2>4. \A k \in DOMAIN waiters' :
          IF waiters'[k] = "owner" THEN owner' = "waiting" ELSE consumer' = "waiting" /\ held' # 0
    BY <1>0, <2>1, <2>2, <2>3
  <2>5. caller' = "nobody" /\ place' = "rest" /\ owner' # "calling" /\ consumer' # "calling"
    BY <1>1 DEF EndCall, AgentCallersInv
  <2> QED BY <1>0, <2>4, <2>5 DEF AgentCallersInv
<1>2. CASE UNCHANGED callers /\ place' # "rest"
  BY <1>0, <1>2 DEF AgentCallersInv, callers
<1> QED BY <1>1, <1>2

LEMMA AskForLockCallers ==
  ASSUME AgentTypeOK, AgentCallersInv, life = "running", NEW c \in {"owner", "consumer"}, AskForLock(c),
         c = "owner" => owner = "idle" /\ held' = held,
         c = "consumer" => consumer = "getting" /\ held' # 0,
         life' = life, caller' = caller, place' = place
  PROVE  AgentCallersInv'
<1>1. waiters \in Seq({"owner", "consumer"})
  BY DEF AgentTypeOK
<1>2. /\ DOMAIN waiters = 1 .. Len(waiters) /\ Len(waiters) \in Nat
      /\ DOMAIN waiters' = 1 .. Len(waiters) + 1
      /\ \A k \in 1 .. Len(waiters) : waiters'[k] = waiters[k]
      /\ waiters'[Len(waiters) + 1] = c
  BY <1>1, AppendProperties DEF AskForLock
<1>3. \A k \in DOMAIN waiters : waiters[k] \in {"owner", "consumer"}
  BY <1>1
<1>4. \A k \in DOMAIN waiters : waiters[k] # c
  BY <1>3 DEF AgentCallersInv
<1>5. /\ c = "owner" => owner' = "waiting" /\ consumer' = consumer
      /\ c = "consumer" => consumer' = "waiting" /\ owner' = owner
  BY DEF AskForLock
<1>6. \A k \in DOMAIN waiters' :
        IF waiters'[k] = "owner" THEN owner' = "waiting" ELSE consumer' = "waiting" /\ held' # 0
  <2> SUFFICES ASSUME NEW k \in DOMAIN waiters'
               PROVE  IF waiters'[k] = "owner" THEN owner' = "waiting" ELSE consumer' = "waiting" /\ held' # 0
    OBVIOUS
  <2>1. CASE k = Len(waiters) + 1
    BY <1>2, <1>5, <2>1
  <2>2. CASE k \in DOMAIN waiters
    <3>1. waiters'[k] = waiters[k] /\ waiters[k] # c /\ waiters[k] \in {"owner", "consumer"}
      BY <1>2, <1>3, <1>4, <2>2
    <3>2. IF waiters[k] = "owner" THEN owner = "waiting" ELSE consumer = "waiting" /\ held # 0
      BY <2>2 DEF AgentCallersInv
    <3> QED BY <1>5, <3>1, <3>2
  <2> QED BY <1>2, <2>1, <2>2
<1>7. \A j, k \in DOMAIN waiters' : waiters'[j] = waiters'[k] => j = k
  <2> SUFFICES ASSUME NEW j \in DOMAIN waiters', NEW k \in DOMAIN waiters', waiters'[j] = waiters'[k]
               PROVE  j = k
    OBVIOUS
  <2>1. j \in DOMAIN waiters \/ j = Len(waiters) + 1
    BY <1>2
  <2>2. k \in DOMAIN waiters \/ k = Len(waiters) + 1
    BY <1>2
  <2>3. j \in DOMAIN waiters /\ k \in DOMAIN waiters => waiters[j] = waiters[k]
    BY <1>2
  <2> QED BY <1>2, <1>4, <2>1, <2>2, <2>3 DEF AgentCallersInv
<1>8. /\ caller' = "owner" <=> owner' = "calling"
      /\ caller' = "consumer" <=> consumer' = "calling"
  BY <1>5 DEF AgentCallersInv
<1> QED BY <1>6, <1>7, <1>8 DEF AgentCallersInv

LEMMA AcquireCallers ==
  ASSUME AgentTypeOK, AgentCallersInv, NEW c \in {"owner", "consumer"}, Acquire(c)
  PROVE  AgentCallersInv'
<1>1. /\ waiters # <<>> /\ waiters[1] = c /\ 1 \in DOMAIN waiters
      /\ DOMAIN Tail(waiters) = 1 .. Len(waiters) - 1
      /\ \A k \in 1 .. Len(waiters) - 1 : Tail(waiters)[k] = waiters[k + 1] /\ k + 1 \in DOMAIN waiters
      /\ c = "owner" => owner = "waiting"
      /\ c = "consumer" => consumer = "waiting" /\ held # 0
  BY WaiterIs DEF Acquire
<1>2. waiters' = Tail(waiters) /\ caller = "nobody" /\ caller' = c /\ place' = "top" /\ life' = life
  BY DEF Acquire, Granted, BeginCall
<1>3. /\ c = "owner" => owner' = "calling" /\ consumer' = consumer /\ held' = held
      /\ c = "consumer" => consumer' = "calling" /\ owner' = owner
  BY DEF Acquire, BeginCall
<1>4. life = "running"
  BY <1>1 DEF AgentCallersInv
<1>5. waiters \in Seq({"owner", "consumer"}) /\ Len(waiters) \in Nat /\ DOMAIN waiters = 1..Len(waiters)
  BY DEF AgentTypeOK
<1>6. \A k \in DOMAIN waiters' : waiters'[k] \in {"owner", "consumer"} /\ waiters'[k] # c
  <2> SUFFICES ASSUME NEW k \in DOMAIN waiters' PROVE waiters'[k] \in {"owner", "consumer"} /\ waiters'[k] # c
    OBVIOUS
  <2>1. k \in 1 .. Len(waiters) - 1
    BY <1>1, <1>2
  <2>2. waiters'[k] = waiters[k + 1] /\ k + 1 \in DOMAIN waiters /\ k + 1 # 1
    BY <1>1, <1>2, <1>5, <2>1
  <2>3. waiters[k + 1] # waiters[1]
    BY <1>1, <2>2 DEF AgentCallersInv
  <2>4. waiters[k + 1] \in {"owner", "consumer"}
    BY <1>5, <2>2
  <2> QED BY <1>1, <2>2, <2>3, <2>4
<1>7. \A k \in DOMAIN waiters' :
        IF waiters'[k] = "owner" THEN owner' = "waiting" ELSE consumer' = "waiting" /\ held' # 0
  <2> SUFFICES ASSUME NEW k \in DOMAIN waiters'
               PROVE  IF waiters'[k] = "owner" THEN owner' = "waiting" ELSE consumer' = "waiting" /\ held' # 0
    OBVIOUS
  <2>1. k \in 1 .. Len(waiters) - 1 /\ waiters'[k] = waiters[k + 1] /\ k + 1 \in DOMAIN waiters
    BY <1>1, <1>2
  <2>2. IF waiters[k + 1] = "owner" THEN owner = "waiting" ELSE consumer = "waiting" /\ held # 0
    BY <2>1 DEF AgentCallersInv
  <2> QED BY <1>3, <1>6, <2>1, <2>2
<1>8. \A j, k \in DOMAIN waiters' : waiters'[j] = waiters'[k] => j = k
  <2> SUFFICES ASSUME NEW j \in DOMAIN waiters', NEW k \in DOMAIN waiters', waiters'[j] = waiters'[k]
               PROVE  j = k
    OBVIOUS
  <2>1. /\ j \in 1 .. Len(waiters) - 1 /\ waiters'[j] = waiters[j + 1] /\ j + 1 \in DOMAIN waiters
        /\ k \in 1 .. Len(waiters) - 1 /\ waiters'[k] = waiters[k + 1] /\ k + 1 \in DOMAIN waiters
    BY <1>1, <1>2
  <2>2. j + 1 = k + 1
    BY <2>1 DEF AgentCallersInv
  <2> QED BY <1>5, <2>1, <2>2
<1>9. /\ caller' = "owner" <=> owner' = "calling"
      /\ caller' = "consumer" <=> consumer' = "calling"
  BY <1>2, <1>3 DEF AgentCallersInv
<1> QED BY <1>2, <1>4, <1>7, <1>8, <1>9 DEF AgentCallersInv

LEMMA NobodyCalls ==
  ASSUME waiters' = <<>>, owner' = "idle", consumer' = "getting", caller' = "nobody", place' = "rest"
  PROVE  AgentCallersInv'
BY DEF AgentCallersInv

(* What goes on from a paired conversation keeps it paired, here or in the snapshot. *)
LEMMA GoesOnConversation ==
  ASSUME NEW c, Paired(c), NEW next, NEW cuts, NEW overs, GoesOn(c, next, cuts, overs)
  PROVE  ConversationInv'
<1>1. CASE Resume(c, next, cuts, overs)
  <2>1. conv' = c /\ place' \in {"rest", "top"}
    BY <1>1 DEF Resume, EndCall, Goto
  <2> QED BY <2>1 DEF ConversationInv
<1>2. CASE Compact(c, next, cuts, overs)
  <2>1. snapshot' = c /\ place' = "summary"
    BY <1>2 DEF Compact
  <2> QED BY <2>1 DEF ConversationInv
<1> QED BY <1>1, <1>2 DEF GoesOn, CompactOrResume

LEMMA GoesOnCallers ==
  ASSUME AgentTypeOK, AgentCallersInv, NEW c, NEW next, NEW cuts, NEW overs,
         GoesOn(c, next, cuts, overs), place # "rest", life' = life
  PROVE  AgentCallersInv'
<1>1. EndCall \/ (UNCHANGED callers /\ place' # "rest")
  BY DEF GoesOn, CompactOrResume, Resume, Compact, Goto
<1> QED BY <1>1, LoopCallers

LEMMA RolesSeq ==
  /\ <<>> \in Seq(Roles) /\ <<"user">> \in Seq(Roles) /\ <<"text">> \in Seq(Roles) /\ <<"empty">> \in Seq(Roles)
  /\ <<"calls">> \in Seq(Roles) /\ <<"results">> \in Seq(Roles)
  /\ <<"text", "user">> \in Seq(Roles) /\ <<"calls", "results", "user">> \in Seq(Roles)
<1>1. <<>> \in Seq(Roles)
  OBVIOUS
<1>2. \A r \in Roles : <<r>> \in Seq(Roles)
  OBVIOUS
<1>3. <<"text", "user">> \in Seq(Roles)
  BY DEF Roles
<1>4. <<"calls", "results", "user">> \in Seq(Roles)
  BY DEF Roles
<1>5. {"user", "text", "empty", "calls", "results"} \subseteq Roles
  BY DEF Roles
<1> QED BY <1>1, <1>2, <1>3, <1>4, <1>5

LEMMA WithType ==
  ASSUME AgentTypeOK, NEW roles \in Seq(Roles)
  PROVE  With(conv, roles) \in Seq(Messages)
<1>1. conv \in Seq(Messages) /\ said \in Nat
  BY DEF AgentTypeOK
<1> QED BY <1>1, WithIs

(* An answer of the language model: the trace is saved, and what the loop does about it. *)
LEMMA ReplyKeeps ==
  ASSUME AgentInv, NEW role \in {"calls", "text", "empty"}, Reply(role)
  PROVE  ProcessType' /\ InboxType' /\ FilesType' /\ ArchiveInv' /\ place # "rest" /\ life' = life
<1>1. <<role>> \in Seq(Roles)
  BY DEF Roles
<1>2. FilesType' /\ store' = "count"
  BY <1>1, WithType, SaveTypes DEF Reply, AgentInv
<1>3. ProcessType' /\ InboxType'
  BY TypesKept DEF Reply, AgentInv
<1> QED BY <1>2, <1>3 DEF Reply, ArchiveInv

LEMMA AnswerStep ==
  ASSUME AgentInv, AgentAssumption, NEW role \in {"text", "empty"}, Answer(role)
  PROVE  AgentInv'
<1> DEFINE c == With(conv, <<role>>)
<1>1. /\ AgentTypeOK /\ AgentCallersInv /\ ConversationInv
      /\ said \in Nat /\ conv \in Seq(Messages) /\ overflows \in 0..MaxOverflows /\ 0 \in 0..MaxCutOffs
  BY DEF AgentInv, AgentTypeOK, AgentAssumption
<1>2. c \in Seq(Messages)
  BY <1>1, RolesSeq, WithType
<1>3. ProcessType' /\ InboxType' /\ FilesType' /\ ArchiveInv' /\ place # "rest" /\ life' = life
  BY ReplyKeeps DEF Answer
<1>4. GoesOn(c, "return", 0, overflows) /\ turns' = turns /\ said' = said + 1 /\ pooled' = pooled /\ place = "llm"
  BY DEF Answer, Continue, GoesOn, Reply
<1> HIDE DEF c
<1>5. CallersType' /\ LoopType' /\ ClientType'
  BY <1>1, <1>2, <1>4, GoesOnTypes
<1>6. AgentCallersInv'
  BY <1>1, <1>3, <1>4, GoesOnCallers
<1>7. ConversationInv'
  <2>1. CASE pooled
    BY <1>4, <2>1 DEF ConversationInv
  <2>2. CASE ~pooled
    <3>1. Paired(conv)
      BY <1>1, <1>3, <1>4, <2>2 DEF ConversationInv, AgentCallersInv
    <3>2. \A k \in 1..Len(<<role>>) : <<role>>[k] \notin {"calls", "results"}
      OBVIOUS
    <3>3. <<role>> \in Seq(Roles)
      BY RolesSeq
    <3>4. Paired(c)
      BY <1>1, <3>1, <3>2, <3>3, WithPlain DEF c
    <3> QED BY <1>4, <3>4, GoesOnConversation
  <2> QED BY <2>1, <2>2
<1> QED BY <1>3, <1>5, <1>6, <1>7, TypePartsPrimed DEF AgentInv

LEMMA AskToolsStep ==
  ASSUME AgentInv, AgentAssumption, AskTools
  PROVE  AgentInv'
<1>1. /\ AgentTypeOK /\ AgentCallersInv /\ ConversationInv
      /\ said \in Nat /\ conv \in Seq(Messages) /\ overflows \in 0..MaxOverflows /\ 0 \in 0..MaxCutOffs
      /\ turns \in 0..MaxTurns
  BY DEF AgentInv, AgentTypeOK, AgentAssumption
<1>2. ProcessType' /\ InboxType' /\ FilesType' /\ ArchiveInv' /\ place # "rest" /\ life' = life
  BY ReplyKeeps DEF AskTools
<1>3. /\ Goto("tools", 0, overflows) /\ turns' = turns /\ pooled' = pooled /\ place = "llm"
      /\ UNCHANGED <<system, snapshot>> /\ Say(<<"calls">>)
  BY DEF AskTools, Reply
<1>4. CallersType' /\ LoopType'
  BY <1>1, <1>3, GotoTypes
<1>5. ClientType'
  BY <1>1, <1>3, RolesSeq, SayType DEF ClientType, AgentTypeOK
<1>6. AgentCallersInv'
  BY <1>1, <1>2, <1>3, LoopCallers DEF Goto
<1>7. ConversationInv'
  <2>1. CASE pooled
    BY <1>3, <2>1 DEF ConversationInv
  <2>2. CASE ~pooled
    <3>1. Paired(conv)
      BY <1>1, <1>3, <2>2 DEF ConversationInv, AgentCallersInv
    <3>2. conv' = With(conv, <<"calls">>) /\ place' = "tools"
      BY <1>3 DEF Say, Goto
    <3>3. conv' # <<>> /\ Last(conv').role = "calls" /\ PairedButLast(conv')
      BY <1>1, <3>1, <3>2, WithCalls
    <3> QED BY <3>2, <3>3 DEF ConversationInv
  <2> QED BY <2>1, <2>2
<1> QED BY <1>2, <1>4, <1>5, <1>6, <1>7, TypePartsPrimed DEF AgentInv

LEMMA DropCallsStep ==
  ASSUME AgentInv, AgentAssumption, DropCalls
  PROVE  AgentInv'
<1>1. /\ AgentTypeOK /\ AgentCallersInv /\ ConversationInv
      /\ said \in Nat /\ conv \in Seq(Messages) /\ overflows \in 0..MaxOverflows /\ cutOffs \in 0..MaxCutOffs
      /\ turns \in 0..MaxTurns
  BY DEF AgentInv, AgentTypeOK, AgentAssumption
<1>2. ProcessType' /\ InboxType' /\ FilesType' /\ ArchiveInv' /\ place # "rest" /\ life' = life
  BY ReplyKeeps DEF DropCalls
<1>3. /\ Goto("top", cutOffs, overflows) /\ turns' = turns /\ pooled' = pooled /\ place = "llm"
      /\ UNCHANGED <<system, snapshot>> /\ Say(<<"calls", "results", "user">>)
  BY DEF DropCalls, Reply
<1>4. CallersType' /\ LoopType'
  BY <1>1, <1>3, GotoTypes
<1>5. ClientType'
  BY <1>1, <1>3, RolesSeq, SayType DEF ClientType, AgentTypeOK
<1>6. AgentCallersInv'
  BY <1>1, <1>2, <1>3, LoopCallers DEF Goto
<1>7. ConversationInv'
  <2>1. CASE pooled
    BY <1>3, <2>1 DEF ConversationInv
  <2>2. CASE ~pooled
    <3>1. Paired(conv)
      BY <1>1, <1>3, <2>2 DEF ConversationInv, AgentCallersInv
    <3>2. conv' = With(conv, <<"calls", "results", "user">>) /\ place' = "top"
      BY <1>3 DEF Say, Goto
    <3>3. Paired(conv')
      BY <1>1, <3>1, <3>2, WithDropped
    <3> QED BY <3>2, <3>3 DEF ConversationInv
  <2> QED BY <2>1, <2>2
<1> QED BY <1>2, <1>4, <1>5, <1>6, <1>7, TypePartsPrimed DEF AgentInv

LEMMA CutOffStep ==
  ASSUME AgentInv, AgentAssumption, CutOff
  PROVE  AgentInv'
<1>1. /\ AgentTypeOK /\ AgentCallersInv /\ ConversationInv
      /\ said \in Nat /\ conv \in Seq(Messages) /\ overflows \in 0..MaxOverflows /\ cutOffs \in 0..MaxCutOffs
      /\ turns \in 0..MaxTurns /\ MaxCutOffs \in Nat
  BY DEF AgentInv, AgentTypeOK, AgentAssumption
<1>2. ProcessType' /\ InboxType' /\ FilesType' /\ ArchiveInv' /\ place # "rest" /\ life' = life
  BY ReplyKeeps DEF CutOff
<1>3. /\ turns' = turns /\ pooled' = pooled /\ place = "llm" /\ UNCHANGED <<system, snapshot>>
      /\ \/ cutOffs + 1 \in 0..MaxCutOffs /\ Goto("top", cutOffs + 1, overflows) /\ Say(<<"text", "user">>)
         \/ EndCall /\ Say(<<"text">>)
  BY <1>1 DEF CutOff, Reply
<1>4. PICK roles \in {<<"text">>, <<"text", "user">>} : Say(roles)
  BY <1>3
<1>5. roles \in Seq(Roles)
  BY RolesSeq
<1>6. \A k \in 1..Len(roles) : roles[k] \notin {"calls", "results"}
  OBVIOUS
<1>7. CallersType' /\ LoopType'
  BY <1>1, <1>3, GotoTypes, EndCallTypes
<1>8. ClientType'
  BY <1>1, <1>3, <1>4, <1>5, SayType DEF ClientType, AgentTypeOK
<1>9. AgentCallersInv'
  BY <1>1, <1>2, <1>3, LoopCallers DEF Goto
<1>10. ConversationInv'
  <2>1. CASE pooled
    BY <1>3, <2>1 DEF ConversationInv
  <2>2. CASE ~pooled
    <3>1. Paired(conv)
      BY <1>1, <1>3, <2>2 DEF ConversationInv, AgentCallersInv
    <3>2. conv' = With(conv, roles) /\ place' \in {"top", "rest"}
      BY <1>3, <1>4 DEF Say, Goto, EndCall
    <3>3. Paired(conv')
      BY <1>1, <1>5, <1>6, <3>1, <3>2, WithPlain
    <3> QED BY <3>2, <3>3 DEF ConversationInv
  <2> QED BY <2>1, <2>2
<1> QED BY <1>2, <1>7, <1>8, <1>9, <1>10, TypePartsPrimed DEF AgentInv

LEMMA TooLongStep ==
  ASSUME AgentInv, AgentAssumption, TooLong
  PROVE  AgentInv'
<1>1. /\ AgentTypeOK /\ AgentCallersInv /\ ConversationInv /\ ArchiveInv
      /\ said \in Nat /\ conv \in Seq(Messages) /\ overflows \in 0..MaxOverflows /\ cutOffs \in 0..MaxCutOffs
      /\ MaxOverflows \in Nat
  BY DEF AgentInv, AgentTypeOK, AgentAssumption
<1>2. /\ GoesOn(conv, "top", cutOffs, overflows + 1) /\ overflows + 1 \in 0..MaxOverflows /\ place = "llm"
      /\ turns' = turns /\ said' = said /\ pooled' = pooled /\ life' = life
      /\ UNCHANGED <<life, starts>> /\ UNCHANGED inbox /\ UNCHANGED files
  BY <1>1 DEF TooLong, GoesOn
<1>3. ProcessType' /\ InboxType' /\ FilesType'
  BY <1>1, <1>2, TypesKept
<1>4. CallersType' /\ LoopType' /\ ClientType'
  BY <1>1, <1>2, GoesOnTypes
<1>5. AgentCallersInv'
  BY <1>1, <1>2, GoesOnCallers
<1>6. ArchiveInv'
  BY <1>1, <1>2 DEF ArchiveInv, files
<1>7. ConversationInv'
  <2>1. CASE pooled
    BY <1>2, <2>1 DEF ConversationInv
  <2>2. CASE ~pooled
    <3>1. Paired(conv)
      BY <1>1, <1>2, <2>2 DEF ConversationInv, AgentCallersInv
    <3> QED BY <1>2, <3>1, GoesOnConversation
  <2> QED BY <2>1, <2>2
<1> QED BY <1>3, <1>4, <1>5, <1>6, <1>7, TypePartsPrimed DEF AgentInv

LEMMA ToolsDoneStep ==
  ASSUME AgentInv, AgentAssumption, ToolsDone
  PROVE  AgentInv'
<1> DEFINE c == With(conv, <<"results">>)
<1>1. /\ AgentTypeOK /\ AgentCallersInv /\ ConversationInv /\ ArchiveInv
      /\ said \in Nat /\ conv \in Seq(Messages) /\ overflows \in 0..MaxOverflows /\ 0 \in 0..MaxCutOffs
  BY DEF AgentInv, AgentTypeOK, AgentAssumption
<1>2. c \in Seq(Messages)
  BY <1>1, RolesSeq, WithType
<1>3. /\ GoesOn(c, "top", 0, overflows) /\ turns' = turns /\ said' = said + 1 /\ pooled' = pooled /\ place = "tools"
      /\ life' = life /\ UNCHANGED <<life, starts>> /\ UNCHANGED inbox /\ Save(conv)
  BY DEF ToolsDone, Continue, GoesOn
<1> HIDE DEF c
<1>4. ProcessType' /\ InboxType'
  BY <1>1, <1>3, TypesKept
<1>5. FilesType' /\ store' = "count"
  BY <1>1, <1>3, SaveTypes
<1>6. CallersType' /\ LoopType' /\ ClientType'
  BY <1>1, <1>2, <1>3, GoesOnTypes
<1>7. AgentCallersInv'
  BY <1>1, <1>3, GoesOnCallers
<1>8. ConversationInv'
  <2>1. CASE pooled
    BY <1>3, <2>1 DEF ConversationInv
  <2>2. CASE ~pooled
    <3>1. conv # <<>> /\ Last(conv).role = "calls" /\ PairedButLast(conv)
      BY <1>1, <1>3, <2>2 DEF ConversationInv
    <3>2. Paired(c)
      BY <1>1, <3>1, WithResults DEF c
    <3> QED BY <1>3, <3>2, GoesOnConversation
  <2> QED BY <2>1, <2>2
<1>9. ArchiveInv'
  BY <1>5 DEF ArchiveInv
<1> QED BY <1>4, <1>5, <1>6, <1>7, <1>8, <1>9, TypePartsPrimed DEF AgentInv

LEMMA SummarizedStep ==
  ASSUME AgentInv, AgentAssumption, Summarized
  PROVE  AgentInv'
<1> DEFINE c == <<[role |-> "summary", n |-> said + 1]>> \o Open(snapshot)
<1>1. /\ AgentTypeOK /\ AgentCallersInv /\ ConversationInv /\ ArchiveInv /\ ClientType
      /\ overflows \in 0..MaxOverflows /\ cutOffs \in 0..MaxCutOffs /\ said \in Nat
  BY DEF AgentInv, AgentTypeOK, ClientType
<1>2. c \in Seq(Messages) /\ (Paired(snapshot) => Paired(c))
  BY <1>1, SummaryIs
<1>3. /\ Resume(c, after, cutOffs, overflows) /\ said' = said + 1 /\ system' = "agent" /\ snapshot' = <<>>
      /\ turns' = turns /\ pooled' = pooled /\ place = "summary" /\ life' = life
      /\ UNCHANGED <<life, starts>> /\ UNCHANGED inbox /\ UNCHANGED files
  BY DEF Summarized
<1> HIDE DEF c
<1>4. ProcessType' /\ InboxType' /\ FilesType'
  BY <1>1, <1>3, TypesKept
<1>5. CallersType' /\ LoopType' /\ conv' \in Seq(Messages)
  BY <1>1, <1>2, <1>3, ResumeTypes
<1>6. <<>> \in Seq(Messages)
  OBVIOUS
<1>7. ClientType'
  BY <1>1, <1>3, <1>5, <1>6 DEF ClientType
<1>8. AgentCallersInv'
  BY <1>1, <1>3, LoopCallers DEF Resume, Goto
<1>9. ConversationInv'
  <2>1. CASE pooled
    BY <1>3, <2>1 DEF ConversationInv
  <2>2. CASE ~pooled
    <3>1. Paired(c)
      BY <1>1, <1>2, <1>3, <2>2 DEF ConversationInv
    <3>2. conv' = c /\ place' \in {"rest", "top"}
      BY <1>3 DEF Resume, EndCall, Goto
    <3> QED BY <3>1, <3>2 DEF ConversationInv
  <2> QED BY <2>1, <2>2
<1>10. ArchiveInv'
  BY <1>1, <1>3 DEF ArchiveInv, files
<1> QED BY <1>4, <1>5, <1>7, <1>8, <1>9, <1>10, TypePartsPrimed DEF AgentInv

LEMMA NotSummarizedStep ==
  ASSUME AgentInv, AgentAssumption, NotSummarized
  PROVE  AgentInv'
<1>1. /\ AgentTypeOK /\ AgentCallersInv /\ ConversationInv /\ ArchiveInv /\ ClientType
  BY DEF AgentInv, AgentTypeOK, ClientType
<1>2. /\ EndCall /\ said' = said /\ conv' = snapshot /\ system' = "agent" /\ snapshot' = <<>>
      /\ turns' = turns /\ pooled' = pooled /\ place = "summary" /\ life' = life
      /\ UNCHANGED <<life, starts>> /\ UNCHANGED inbox /\ UNCHANGED files
  BY DEF NotSummarized
<1>3. ProcessType' /\ InboxType' /\ FilesType'
  BY <1>1, <1>2, TypesKept
<1>4. CallersType' /\ LoopType'
  BY <1>1, <1>2, EndCallTypes
<1>5. <<>> \in Seq(Messages)
  OBVIOUS
<1>6. ClientType'
  BY <1>1, <1>2, <1>5 DEF ClientType
<1>7. AgentCallersInv'
  BY <1>1, <1>2, LoopCallers
<1>8. ConversationInv'
  BY <1>1, <1>2 DEF ConversationInv, EndCall
<1>9. ArchiveInv'
  BY <1>1, <1>2 DEF ArchiveInv, files
<1> QED BY <1>3, <1>4, <1>6, <1>7, <1>8, <1>9, TypePartsPrimed DEF AgentInv

(* GiveUp and Fail *)
LEMMA CallEnds ==
  ASSUME AgentInv, AgentAssumption, EndCall, place \in {"top", "llm"},
         UNCHANGED <<pooled, life, starts, turns, client, inbox, files>>
  PROVE  AgentInv'
<1>1. /\ AgentTypeOK /\ AgentCallersInv /\ ConversationInv /\ ArchiveInv
  BY DEF AgentInv
<1>2. ProcessType' /\ InboxType' /\ FilesType' /\ ClientType'
  BY <1>1, TypesKept
<1>3. CallersType' /\ LoopType'
  BY <1>1, EndCallTypes
<1>4. AgentCallersInv'
  BY <1>1, LoopCallers
<1>5. ConversationInv'
  <2>1. life = "running"
    BY <1>1 DEF AgentCallersInv
  <2> QED BY <1>1, <2>1 DEF ConversationInv, EndCall, client
<1>6. ArchiveInv'
  BY <1>1 DEF ArchiveInv, files
<1> QED BY <1>2, <1>3, <1>4, <1>5, <1>6, TypePartsPrimed DEF AgentInv

LEMMA TurnStep ==
  ASSUME AgentInv, AgentAssumption, Turn
  PROVE  AgentInv'
<1>1. /\ AgentTypeOK /\ AgentCallersInv /\ ConversationInv /\ ArchiveInv
      /\ said \in Nat /\ conv \in Seq(Messages) /\ overflows \in 0..MaxOverflows /\ cutOffs \in 0..MaxCutOffs
      /\ turns \in 0..MaxTurns /\ MaxTurns \in Nat /\ MaxSent \in Nat
  BY DEF AgentInv, AgentTypeOK, AgentAssumption
<1>2. /\ Goto("llm", cutOffs, overflows) /\ turns' \in 0..MaxTurns /\ pooled' = pooled /\ place = "top"
      /\ UNCHANGED <<system, snapshot>> /\ UNCHANGED <<life, starts>> /\ UNCHANGED files /\ life' = life
  BY <1>1 DEF Turn
<1>3. ProcessType' /\ FilesType'
  BY <1>1, <1>2, TypesKept
<1>4. InboxType'
  <2>1. sent \in 0..MaxSent /\ delivered \in 0..sent /\ told \subseteq 1..MaxSent
    BY <1>1 DEF AgentTypeOK
  <2>2. sent' = sent /\ delivered' = delivered /\ taken' = delivered
    BY DEF Turn
  <2>3. 1..delivered \subseteq 1..MaxSent /\ delivered \in 0..delivered
    BY <1>1, <2>1
  <2>4. told' \subseteq told \cup 1..delivered
    BY DEF Turn
  <2>5. told' \subseteq 1..MaxSent
    BY <2>1, <2>3, <2>4
  <2> QED BY <2>1, <2>2, <2>3, <2>5 DEF InboxType
<1>5. CallersType' /\ LoopType'
  BY <1>1, <1>2, GotoTypes
<1>6. PICK roles \in {<<>>, <<"user">>} : Say(roles)
  BY DEF Turn
<1>7. roles \in Seq(Roles)
  BY RolesSeq
<1>8. \A k \in 1..Len(roles) : roles[k] \notin {"calls", "results"}
  OBVIOUS
<1>9. ClientType'
  BY <1>1, <1>2, <1>6, <1>7, SayType DEF ClientType, AgentTypeOK
<1>10. AgentCallersInv'
  BY <1>1, <1>2, LoopCallers DEF Goto
<1>11. ConversationInv'
  <2>1. CASE pooled
    BY <1>2, <2>1 DEF ConversationInv
  <2>2. CASE ~pooled
    <3>1. Paired(conv)
      BY <1>1, <1>2, <2>2 DEF ConversationInv, AgentCallersInv
    <3>2. conv' = With(conv, roles) /\ place' = "llm"
      BY <1>2, <1>6 DEF Say, Goto
    <3>3. Paired(conv')
      BY <1>1, <1>7, <1>8, <3>1, <3>2, WithPlain
    <3> QED BY <3>2, <3>3 DEF ConversationInv
  <2> QED BY <2>1, <2>2
<1>12. ArchiveInv'
  BY <1>1, <1>2 DEF ArchiveInv, files
<1> QED BY <1>3, <1>4, <1>5, <1>9, <1>10, <1>11, <1>12, TypePartsPrimed DEF AgentInv

LEMMA AcquireStep ==
  ASSUME AgentInv, AgentAssumption, NEW c \in {"owner", "consumer"}, Acquire(c)
  PROVE  AgentInv'
<1>1. /\ AgentTypeOK /\ AgentCallersInv /\ ConversationInv /\ ArchiveInv
      /\ said \in Nat /\ conv \in Seq(Messages)
  BY DEF AgentInv, AgentTypeOK
<1>2. /\ Granted(c) /\ BeginCall(c) /\ waiters' = Tail(waiters) /\ Say(<<"user">>) /\ place' = "top"
      /\ pooled' = pooled /\ UNCHANGED files /\ life' = life /\ caller = "nobody"
  BY DEF Acquire, BeginCall, Granted
<1>3. waiters' \in Seq({"owner", "consumer"}) /\ (c = "consumer" => held # 0) /\ waiters # <<>>
  BY <1>1, <1>2, WaiterIs
<1>4. AgentTypeOK'
  BY <1>1, <1>2, <1>3, BeginCallTypes
<1>5. AgentCallersInv'
  BY <1>1, AcquireCallers
<1>6. ConversationInv'
  <2>1. CASE pooled
    BY <1>2, <2>1 DEF ConversationInv
  <2>2. CASE ~pooled
    <3>1. life = "running" /\ place = "rest"
      BY <1>1, <1>2, <1>3 DEF AgentCallersInv
    <3>2. Paired(conv)
      BY <1>1, <2>2, <3>1 DEF ConversationInv
    <3>3. <<"user">> \in Seq(Roles)
      BY RolesSeq
    <3>4. \A k \in 1..Len(<<"user">>) : <<"user">>[k] \notin {"calls", "results"}
      OBVIOUS
    <3>5. Paired(With(conv, <<"user">>))
      BY <1>1, <3>2, <3>3, <3>4, WithPlain
    <3>6. conv' = With(conv, <<"user">>)
      BY <1>2 DEF Say
    <3>7. Paired(conv')
      BY <3>5, <3>6
    <3> QED BY <1>2, <3>7 DEF ConversationInv
  <2> QED BY <2>1, <2>2
<1>7. ArchiveInv'
  BY <1>1, <1>2 DEF ArchiveInv, files
<1> QED BY <1>4, <1>5, <1>6, <1>7 DEF AgentInv

LEMMA PairedEmpty == Paired(<<>>)
BY DEF Paired

LEMMA ProcessStep ==
  ASSUME AgentInv, AgentAssumption, Load \/ Enter \/ AgentCrash \/ Shutdown
  PROVE  AgentInv'
<1>1. /\ AgentTypeOK /\ AgentCallersInv /\ ConversationInv /\ ArchiveInv
      /\ said \in Nat /\ conv \in Seq(Messages) /\ snapshot \in Seq(Messages) /\ saved \in Seq(Messages)
      /\ archive \in Seq(Nat) /\ counted \in Nat
      /\ starts \in 0..MaxStarts /\ MaxStarts \in Nat /\ MaxTurns \in Nat
  BY DEF AgentInv, AgentTypeOK, AgentAssumption
<1>2. <<>> \in Seq(Messages)
  OBVIOUS
<1>3. CASE Load
  <2>1. /\ life = "down" /\ life' = "loaded" /\ starts' \in 0..MaxStarts /\ pooled' = pooled
        /\ UNCHANGED callers /\ UNCHANGED loopVars /\ UNCHANGED inbox /\ UNCHANGED files
        /\ UNCHANGED <<system, snapshot, said>>
    BY <1>1, <1>3 DEF Load
  <2>2. conv' \in Seq(Messages)
    BY <1>1, <1>2, <1>3, CleanedType DEF Load
  <2>3. CallersType' /\ LoopType' /\ InboxType' /\ FilesType'
    BY <1>1, <2>1, TypesKept
  <2>4. ProcessType' /\ ClientType'
    BY <1>1, <2>1, <2>2 DEF ProcessType, ClientType, AgentTypeOK
  <2>5. AgentCallersInv'
    BY <1>1, <2>1 DEF AgentCallersInv, callers, loopVars
  <2>6. ConversationInv'
    BY <1>1, <2>1 DEF ConversationInv, AgentCallersInv, loopVars
  <2>7. ArchiveInv'
    BY <1>1, <2>1 DEF ArchiveInv, files
  <2> QED BY <2>3, <2>4, <2>5, <2>6, <2>7, TypePartsPrimed DEF AgentInv
<1>4. CASE Enter
  <2>1. /\ life = "loaded" /\ life' = "running" /\ starts' = starts /\ pooled' = pooled
        /\ conv' = <<>> /\ turns' = 0 /\ UNCHANGED callers /\ UNCHANGED <<place, after, cutOffs, overflows>>
        /\ UNCHANGED inbox /\ UNCHANGED files /\ UNCHANGED <<system, snapshot, said>>
    BY <1>4 DEF Enter
  <2>2. CallersType' /\ InboxType' /\ FilesType'
    BY <1>1, <2>1, TypesKept
  <2>3. ProcessType' /\ LoopType' /\ ClientType'
    BY <1>1, <1>2, <2>1 DEF ProcessType, ClientType, LoopType, AgentTypeOK
  <2>4. place = "rest" /\ waiters = <<>>
    BY <1>1, <2>1 DEF AgentCallersInv
  <2>5. AgentCallersInv'
    BY <1>1, <2>1 DEF AgentCallersInv, callers
  <2>6. ConversationInv'
    BY <2>1, <2>4, PairedEmpty DEF ConversationInv
  <2>7. ArchiveInv'
    BY <1>1, <2>1 DEF ArchiveInv, files
  <2> QED BY <2>2, <2>3, <2>5, <2>6, <2>7, TypePartsPrimed DEF AgentInv
<1>5. CASE AgentCrash \/ Shutdown
  <2>1. Forget
    BY <1>5 DEF AgentCrash, Shutdown
  <2>2. ProcessType' /\ CallersType' /\ LoopType' /\ ClientType' /\ InboxType'
    BY <1>1, <2>1, ForgetTypes
  <2>3. AgentCallersInv'
    BY <2>1, NobodyCalls DEF Forget
  <2>4. ConversationInv'
    BY <2>1 DEF ConversationInv, Forget
  <2>5. CASE AgentCrash
    <3>1. FilesType' /\ ArchiveInv'
      BY <1>1, <2>5 DEF AgentCrash, FilesType, ArchiveInv, AgentTypeOK
    <3> QED BY <2>2, <2>3, <2>4, <3>1, TypePartsPrimed DEF AgentInv
  <2>6. CASE Shutdown
    <3>1. Archived(conv) \in Seq(Nat)
      BY <1>1, ArchivedIs
    <3>2. FilesType' /\ ArchiveInv'
      BY <1>1, <2>6, <3>1 DEF Shutdown, FilesType, ArchiveInv
    <3> QED BY <2>2, <2>3, <2>4, <3>2, TypePartsPrimed DEF AgentInv
  <2> QED BY <1>5, <2>5, <2>6
<1> QED BY <1>3, <1>4, <1>5

LEMMA AskStep ==
  ASSUME AgentInv, AgentAssumption, OwnerCalls \/ BeginTask \/ Take
  PROVE  AgentInv'
<1>1. /\ AgentTypeOK /\ AgentCallersInv /\ ConversationInv /\ ArchiveInv
      /\ calls \in 0..MaxCalls /\ held \in 0..MaxSent /\ MaxCalls \in Nat /\ MaxSent \in Nat /\ MaxTurns \in Nat
      /\ sent \in 0..MaxSent /\ delivered \in 0..sent /\ taken \in 0..delivered
      /\ snapshot \in Seq(Messages)
  BY DEF AgentInv, AgentTypeOK, AgentAssumption
<1>2. <<>> \in Seq(Messages) /\ <<>> \in Seq(Nat)
  OBVIOUS
<1>3. CASE OwnerCalls
  <2>1. /\ life = "running" /\ owner = "idle" /\ calls' \in 0..MaxCalls /\ AskForLock("owner")
        /\ held' = held /\ caller' = caller /\ life' = life /\ place' = place /\ pooled' = pooled
        /\ UNCHANGED <<life, starts>> /\ UNCHANGED loopVars /\ UNCHANGED client /\ UNCHANGED inbox /\ UNCHANGED files
    BY <1>1, <1>3 DEF OwnerCalls, loopVars
  <2>2. ProcessType' /\ LoopType' /\ ClientType' /\ InboxType' /\ FilesType'
    BY <1>1, <2>1, TypesKept
  <2>3. CallersType'
    BY <1>1, <2>1, AskForLockTypes
  <2>4. AgentCallersInv'
    BY <1>1, <2>1, AskForLockCallers
  <2>5. ConversationInv' /\ ArchiveInv'
    BY <1>1, <2>1 DEF ConversationInv, ArchiveInv, client, files
  <2> QED BY <2>2, <2>3, <2>4, <2>5, TypePartsPrimed DEF AgentInv
<1>4. CASE BeginTask
  <2>1. /\ life = "running" /\ owner = "idle" /\ calls' \in 0..MaxCalls /\ AskForLock("owner")
        /\ held' = held /\ caller' = caller /\ life' = life /\ place' = place /\ pooled' = pooled /\ pooled
        /\ conv' = <<>> /\ system' = "agent" /\ turns' = 0 /\ UNCHANGED <<place, after, cutOffs, overflows, snapshot, said>>
        /\ saved' = <<>> /\ archive' = <<>> /\ counted' = 0 /\ store' = "nothing"
        /\ UNCHANGED <<life, starts>> /\ UNCHANGED inbox
    BY <1>1, <1>4 DEF BeginTask
  <2>2. ProcessType' /\ InboxType'
    BY <1>1, <2>1, TypesKept
  <2>3. CallersType'
    BY <1>1, <2>1, AskForLockTypes
  <2>4. LoopType' /\ ClientType' /\ FilesType'
    BY <1>1, <1>2, <2>1 DEF LoopType, ClientType, FilesType, AgentTypeOK
  <2>5. AgentCallersInv'
    BY <1>1, <2>1, AskForLockCallers
  <2>6. ConversationInv' /\ ArchiveInv'
    BY <2>1 DEF ConversationInv, ArchiveInv
  <2> QED BY <2>2, <2>3, <2>4, <2>5, <2>6, TypePartsPrimed DEF AgentInv
<1>5. CASE Take
  <2>1. /\ life = "running" /\ consumer = "getting" /\ AskForLock("consumer")
        /\ caller' = caller /\ life' = life /\ place' = place /\ pooled' = pooled
        /\ UNCHANGED <<life, starts>> /\ UNCHANGED loopVars /\ UNCHANGED client /\ UNCHANGED files
        /\ taken < delivered /\ taken' = taken + 1 /\ held' = taken + 1 /\ calls' = calls
        /\ UNCHANGED <<sent, delivered, told>>
    BY <1>5 DEF Take, loopVars
  <2>2. ProcessType' /\ LoopType' /\ ClientType' /\ FilesType'
    BY <1>1, <2>1, TypesKept
  <2>3. held' \in 0..MaxSent /\ held' # 0 /\ taken' \in 0..delivered
    BY <1>1, <2>1
  <2>4. CallersType'
    BY <1>1, <2>1, <2>3, AskForLockTypes
  <2>5. InboxType'
    BY <1>1, <2>1, <2>3 DEF InboxType, AgentTypeOK
  <2>6. AgentCallersInv'
    BY <1>1, <2>1, <2>3, AskForLockCallers
  <2>7. ConversationInv' /\ ArchiveInv'
    BY <1>1, <2>1 DEF ConversationInv, ArchiveInv, client, files
  <2> QED BY <2>2, <2>4, <2>5, <2>6, <2>7, TypePartsPrimed DEF AgentInv
<1> QED BY <1>3, <1>4, <1>5

LEMMA InboxStep ==
  ASSUME AgentInv, AgentAssumption, Send \/ Deliver
  PROVE  AgentInv'
<1>1. /\ AgentTypeOK /\ AgentCallersInv /\ ConversationInv /\ ArchiveInv
      /\ sent \in 0..MaxSent /\ delivered \in 0..sent /\ taken \in 0..delivered /\ told \subseteq 1..MaxSent
      /\ MaxSent \in Nat
  BY DEF AgentInv, AgentTypeOK, AgentAssumption
<1>2. /\ pooled' = pooled /\ UNCHANGED <<life, starts>> /\ UNCHANGED callers /\ UNCHANGED loopVars
      /\ UNCHANGED client /\ UNCHANGED files /\ taken' = taken /\ told' = told
  BY DEF Send, Deliver
<1>3. ProcessType' /\ CallersType' /\ LoopType' /\ ClientType' /\ FilesType'
  BY <1>1, <1>2, TypesKept
<1>4. InboxType'
  <2>1. sent' \in 0..MaxSent /\ delivered' \in 0..sent' /\ taken \in 0..delivered'
    <3>1. CASE Send
      BY <1>1, <3>1 DEF Send
    <3>2. CASE Deliver
      BY <1>1, <3>2 DEF Deliver
    <3> QED BY <3>1, <3>2
  <2> QED BY <1>1, <1>2, <2>1 DEF InboxType
<1>5. AgentCallersInv' /\ ConversationInv' /\ ArchiveInv'
  BY <1>1, <1>2 DEF AgentCallersInv, ConversationInv, ArchiveInv, callers, loopVars, client, files
<1> QED BY <1>3, <1>4, <1>5, TypePartsPrimed DEF AgentInv

LEMMA AgentInvInit ==
  ASSUME AgentAssumption, AgentInit
  PROVE  AgentInv
<1>1. <<>> \in Seq(Messages) /\ <<>> \in Seq(Nat) /\ <<>> \in Seq({"owner", "consumer"})
  OBVIOUS
<1>2. AgentTypeOK
  BY <1>1 DEF AgentInit, AgentTypeOK, AgentAssumption
<1>3. AgentCallersInv /\ ConversationInv /\ ArchiveInv
  BY DEF AgentInit, AgentCallersInv, ConversationInv, ArchiveInv
<1> QED BY <1>2, <1>3 DEF AgentInv

LEMMA AgentInvStep ==
  ASSUME AgentInv, AgentAssumption, [AgentNext]_agentVars
  PROVE  AgentInv'
<1>1. CASE UNCHANGED agentVars
  <2>1. AgentTypeOK' /\ AgentCallersInv' /\ ConversationInv' /\ ArchiveInv'
    BY <1>1 DEF AgentInv, AgentTypeOK, AgentCallersInv, ConversationInv, ArchiveInv,
                agentVars, callers, loopVars, client, inbox, files
  <2> QED BY <2>1 DEF AgentInv
<1>2. CASE LoopStep
  <2>1. CASE GiveUp \/ Fail
    BY <2>1, CallEnds DEF GiveUp, Fail
  <2> QED BY <1>2, <2>1, TurnStep, AskToolsStep, DropCallsStep, CutOffStep, TooLongStep, AnswerStep,
             ToolsDoneStep, SummarizedStep, NotSummarizedStep DEF LoopStep
<1>3. CASE Load \/ Enter \/ AgentCrash \/ Shutdown
  BY <1>3, ProcessStep
<1>4. CASE OwnerCalls \/ BeginTask \/ Take
  BY <1>4, AskStep
<1>5. CASE Send \/ Deliver
  BY <1>5, InboxStep
<1>6. CASE Acquire("owner") \/ Acquire("consumer")
  BY <1>6, AcquireStep
<1> QED BY <1>1, <1>2, <1>3, <1>4, <1>5, <1>6 DEF AgentNext

\* The inductive invariant: the lock of an agent is with the one who is calling and
\* its queue holds each who waits, once; the conversation is paired, or its last
\* message is of calls whose tools are running, or it is the copy of a compaction
\* that is paired; and a trace nothing is known of has no archive.
THEOREM AgentInvariant == AgentSpec => []AgentInv
<1>1. AgentInit => AgentInv
  BY AgentAssumption, AgentInvInit
<1>2. AgentInv /\ [AgentNext]_agentVars => AgentInv'
  BY AgentAssumption, AgentInvStep
<1> QED BY <1>1, <1>2, PTL DEF AgentSpec

\* The agent's loop, conversation, lock and files keep their types and limits.
THEOREM AgentTypeCorrect == AgentSpec => []AgentTypeOK
<1>1. AgentInv => AgentTypeOK
  BY DEF AgentInv
<1> QED BY <1>1, AgentInvariant, PTL

\* However messages, truncated answers, dropped calls, compactions and failures meet,
\* the agent that is no pool's sends a conversation whose calls and results are paired.
THEOREM RequestsAlwaysPaired == AgentSpec => []RequestsPaired
<1>1. AgentInv => RequestsPaired
  BY DEF AgentInv, ConversationInv, AgentCallersInv, RequestsPaired
<1> QED BY <1>1, AgentInvariant, PTL

\* No save, compaction, crash or restart takes anything from the archive of a trace.
THEOREM ArchiveAlwaysGrows == AgentSpec => ArchiveGrows
<1>1. AgentInv /\ [AgentNext]_agentVars => [store' # "nothing" => IsPrefix(archive, archive')]_agentVars
  <2> SUFFICES ASSUME AgentInv, [AgentNext]_agentVars, store' # "nothing"
               PROVE  IsPrefix(archive, archive')
    OBVIOUS
  <2>1. AgentTypeOK /\ ArchiveInv /\ conv \in Seq(Messages) /\ archive \in Seq(Nat) /\ counted \in Nat
    BY DEF AgentInv, AgentTypeOK
  <2>2. archive' = archive => IsPrefix(archive, archive')
    BY <2>1 DEF IsPrefix
  <2>3. ASSUME NEW c \in Seq(Messages), Save(c)
        PROVE  IsPrefix(archive, archive')
    BY <2>1, <2>3, SaveTypes
  <2>4. ASSUME NEW role \in Roles, Reply(role)
        PROVE  IsPrefix(archive, archive')
    <3>1. With(conv, <<role>>) \in Seq(Messages)
      <4>1. <<role>> \in Seq(Roles)
        OBVIOUS
      <4> QED BY <2>1, <4>1, WithType
    <3> QED BY <2>3, <2>4, <3>1 DEF Reply
  <2>5. {"text", "empty", "calls"} \subseteq Roles
    BY DEF Roles
  <2>6. CASE LoopStep
    <3>1. CASE AskTools \/ DropCalls \/ CutOff \/ Answer("text") \/ Answer("empty")
      BY <2>4, <2>5, <3>1 DEF AskTools, DropCalls, CutOff, Answer
    <3>2. CASE ToolsDone
      BY <2>1, <2>3, <3>2 DEF ToolsDone
    <3>3. CASE Turn \/ GiveUp \/ TooLong \/ Fail \/ Summarized \/ NotSummarized
      BY <2>2, <3>3 DEF Turn, GiveUp, TooLong, Fail, Summarized, NotSummarized, files
    <3> QED BY <2>6, <3>1, <3>2, <3>3 DEF LoopStep
  <2>7. CASE Load \/ Enter \/ AgentCrash
    BY <2>2, <2>7 DEF Load, Enter, AgentCrash, files
  <2>8. CASE Shutdown
    <3>1. IsPrefix(archive, Archived(conv))
      BY <2>1, ArchivedIs
    <3> QED BY <2>8, <3>1 DEF Shutdown
  <2>9. CASE OwnerCalls \/ Send \/ Deliver \/ Take
    BY <2>2, <2>9 DEF OwnerCalls, Send, Deliver, Take, files
  <2>10. CASE BeginTask
    BY <2>10 DEF BeginTask
  <2>11. CASE Acquire("owner") \/ Acquire("consumer")
    BY <2>2, <2>11 DEF Acquire, BeginCall, files
  <2>12. CASE UNCHANGED agentVars
    BY <2>2, <2>12 DEF agentVars, files
  <2> QED BY <2>6, <2>7, <2>8, <2>9, <2>10, <2>11, <2>12 DEF AgentNext
<1> QED BY <1>1, AgentInvariant, PTL DEF AgentSpec, ArchiveGrows
=============================================================================
