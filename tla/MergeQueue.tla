----------------------------- MODULE MergeQueue -----------------------------
(***************************************************************************)
(* The merge train of core/coordination/merge_queue.py and the git         *)
(* operations it uses (core/worktree.py).  Agents hand in their worktrees; *)
(* the queue rebases a batch onto main, picks it onto a staging worktree,  *)
(* builds that once, and lands it or bisects it.                           *)
(*                                                                         *)
(* A change is what one submission's commits add, and is named by the      *)
(* request.  A tree (main, staging, the base of a worktree) is the set of  *)
(* changes in it.  Which pairs of changes conflict textually and which     *)
(* trees do not build is the world, fixed and unknown to the code; a tree  *)
(* may build although a part of it does not.                               *)
(***************************************************************************)
EXTENDS Naturals, Sequences, SequencesExt

CONSTANTS
  Agents,
  MaxSubmits,   \* submissions of each agent (bound of the model)
  BatchSize,    \* batch_size
  Worlds,       \* the worlds considered
  Mishaps,      \* what may go wrong: a subset of {"git", "raise", "crash", "abandon"}
  MaxMishaps    \* and how often in all (bound of the model)

Requests == UNION {{a} \X (1..MaxSubmits[a]) : a \in Agents}

ASSUME QueueAssumption ==
  /\ MaxSubmits \in [Agents -> Nat] /\ MaxMishaps \in Nat
  /\ BatchSize \in Nat \ {0}
  /\ Worlds \subseteq [clash : SUBSET SUBSET Requests, broken : SUBSET SUBSET Requests]
  /\ \A w \in Worlds : {} \notin w.broken    \* the run starts with a main that builds

VARIABLES
  world,
  work,         \* the change committed in each agent's worktree, as a set
  base,         \* the main each worktree was last synced or rebased onto
  queue,        \* _queue
  outcome,      \* the future of each request, "lost" when its process died
  main,         \* the main branch
  pc,           \* where run() is
  batch,        \* the batch of _process_batch
  todo,         \* requests the loop at pc has not handled
  kept,         \* rebased, staged or subset: those the phase is about
  rest,         \* the right half while the left one is tested and landed
  ref,          \* main_ref
  pre,          \* pre_hash, main_ref of the whole batch
  staging,      \* HEAD of the staging worktree
  merged,       \* merged_ids
  evaluated,    \* changes on_batch_merged was told of
  mishaps       \* mishaps so far

worktrees == <<work, base>>
batchVars == <<batch, todo, kept, rest, ref, pre, staging, merged>>
vars == <<world, worktrees, queue, outcome, main, pc, batchVars, evaluated, mishaps>>

Init ==
  /\ world \in Worlds
  /\ work = [a \in Agents |-> {}]
  /\ base = [a \in Agents |-> {}]
  /\ queue = <<>>
  /\ outcome = [r \in Requests |-> "none"]
  /\ main = {}
  /\ pc = "idle"
  /\ batch = <<>> /\ todo = <<>> /\ kept = <<>> /\ rest = <<>>
  /\ ref = {} /\ pre = {} /\ staging = {} /\ merged = {}
  /\ evaluated = {}
  /\ mishaps = 0

Mishap(kind) ==
  /\ kind \in Mishaps
  /\ mishaps < MaxMishaps
  /\ mishaps' = mishaps + 1

---------------------------------------------------------------------------
(* git *)

Builds(tree) == tree \notin world.broken

Conflict(changes, tree) == \E x \in changes, y \in tree : {x, y} \in world.clash

\* `git rebase main`: a change that is in main already is dropped.
RebaseConflict(a) == Conflict(work[a] \ main, main \ base[a])

\* main_ref..HEAD of a worktree; nothing to pick is a success.
Commits(a) == work[a] \ base[a]

\* `git cherry-pick`: picking what staging already has is an empty commit, an error.
PickConflict(a) ==
  \/ Conflict(Commits(a), staging \ base[a])
  \/ Commits(a) \cap staging # {}

---------------------------------------------------------------------------
(* The agents *)

Awaits(a) == \E r \in work[a] : outcome[r] = "pending"

\* sync_to_main or rebase, and commits.
Work(a) ==
  /\ ~Awaits(a)
  /\ \E n \in 1..MaxSubmits[a] :
        /\ outcome[<<a, n>>] = "none"
        /\ \A m \in 1..(n - 1) : outcome[<<a, m>>] # "none"
        /\ work' = [work EXCEPT ![a] = {<<a, n>>}]
  /\ base' = [base EXCEPT ![a] = main]
  /\ UNCHANGED <<world, queue, outcome, main, pc, batchVars, evaluated, mishaps>>

\* submit(); the agent's own build of its worktree is not assumed to agree with
\* the queue's, which regenerates the root imports first.
Submit(a) ==
  /\ \E r \in work[a] :
        /\ outcome[r] = "none"
        /\ outcome' = [outcome EXCEPT ![r] = "pending"]
        /\ queue' = Append(queue, r)
  /\ UNCHANGED <<world, worktrees, main, pc, batchVars, evaluated, mishaps>>

\* The agent is cancelled after its request is on the way (concurrent_agents.py
\* run_task) and its worktree is synced to main for another task.
Abandon(a) ==
  /\ Awaits(a)
  /\ Mishap("abandon")
  /\ work' = [work EXCEPT ![a] = {}]
  /\ base' = [base EXCEPT ![a] = main]
  /\ UNCHANGED <<world, queue, outcome, main, pc, batchVars, evaluated>>

---------------------------------------------------------------------------
(* Resolving futures *)

Done(r) == outcome[r] \in {"merged", "rejected"}

EndBatch ==
  /\ pc' = "idle"
  /\ batch' = <<>> /\ todo' = <<>> /\ kept' = <<>> /\ rest' = <<>>
  /\ ref' = {} /\ pre' = {} /\ staging' = {} /\ merged' = {}

\* Variant with a bug: an exception leaves the futures of the batch alone.
ThrowSilently(out) ==
  /\ outcome' = out
  /\ EndBatch
  /\ UNCHANGED <<main, evaluated>>

\* An exception leaves _process_batch: run() rejects whoever of the batch is
\* waiting still, also those _process_batch has put back into the queue.
Throw(out) ==
  /\ outcome' = [r \in Requests |-> IF r \in ToSet(batch) /\ out[r] = "pending"
                                    THEN "rejected" ELSE out[r]]
  /\ EndBatch
  /\ UNCHANGED <<main, evaluated>>

\* The futures after set_result() on each request of a sequence: it raises
\* for one that is done.
Resolved(reqs, verdict) ==
  [r \in Requests |->
     IF \E k \in DOMAIN reqs : reqs[k] = r /\ \A j \in 1..k : ~Done(reqs[j])
     THEN verdict ELSE outcome[r]]

Raises(reqs) == \E r \in ToSet(reqs) : Done(r)

\* set_result() on each, and then Then, unless it raises.
Resolve(reqs, verdict, Then) ==
  IF Raises(reqs)
  THEN Throw(Resolved(reqs, verdict)) /\ UNCHANGED queue
  ELSE outcome' = Resolved(reqs, verdict) /\ Then

---------------------------------------------------------------------------
(* Batches *)

Smaller(m, n) == IF m < n THEN m ELSE n

\* The poll interval of _collect_batch passes.
Poll ==
  /\ pc = "idle" /\ queue = <<>>
  /\ UNCHANGED vars

\* _collect_batch() takes what is there when the batch is full or its time is up.
Collect ==
  /\ pc = "idle" /\ queue # <<>>
  /\ LET n == Smaller(BatchSize, Len(queue)) IN
       /\ batch' = SubSeq(queue, 1, n)
       /\ queue' = SubSeq(queue, n + 1, Len(queue))
  /\ pc' = "rebase"
  /\ todo' = batch'
  /\ ref' = main /\ pre' = main
  /\ UNCHANGED <<world, worktrees, outcome, main, kept, rest, staging, merged, evaluated, mishaps>>

\* One round of _rebase_all_onto_main().
RebaseOk ==
  /\ pc = "rebase" /\ todo # <<>>
  /\ LET r == Head(todo) IN
       /\ ~RebaseConflict(r[1])
       /\ base' = [base EXCEPT ![r[1]] = main]
       /\ kept' = Append(kept, r)
  /\ todo' = Tail(todo)
  /\ UNCHANGED <<world, work, queue, outcome, main, pc, batch, rest, ref, pre, staging, merged,
                 evaluated, mishaps>>

RebaseFail ==
  /\ pc = "rebase" /\ todo # <<>>
  /\ \/ RebaseConflict(Head(todo)[1]) /\ UNCHANGED mishaps
     \/ Mishap("git")
  /\ Resolve(<<Head(todo)>>, "rejected",
       /\ todo' = Tail(todo)
       /\ UNCHANGED <<queue, main, pc, batch, kept, rest, ref, pre, staging, merged, evaluated>>)
  /\ UNCHANGED <<world, worktrees>>

\* _create_staging() makes a worktree of main, unless nobody is left.
StartStaging ==
  /\ pc = "rebase" /\ todo = <<>>
  /\ IF kept = <<>>
     THEN pc' = "finish" /\ UNCHANGED <<todo, kept, staging>>
     ELSE pc' = "stage" /\ todo' = kept /\ kept' = <<>> /\ staging' = main
  /\ UNCHANGED <<world, worktrees, queue, outcome, main, batch, rest, ref, pre, merged, evaluated, mishaps>>

\* One round of _stage_all().
StageOk ==
  /\ pc = "stage" /\ todo # <<>>
  /\ ~PickConflict(Head(todo)[1])
  /\ staging' = staging \cup Commits(Head(todo)[1])
  /\ kept' = Append(kept, Head(todo))
  /\ todo' = Tail(todo)
  /\ UNCHANGED <<world, worktrees, queue, outcome, main, pc, batch, rest, ref, pre, merged,
                 evaluated, mishaps>>

StageDefer ==
  /\ pc = "stage" /\ todo # <<>>
  /\ \/ PickConflict(Head(todo)[1]) /\ UNCHANGED mishaps
     \/ Mishap("git")
  /\ queue' = Append(queue, Head(todo))
  /\ todo' = Tail(todo)
  /\ UNCHANGED <<world, worktrees, outcome, main, pc, batch, kept, rest, ref, pre, staging, merged,
                 evaluated>>

\* _build() of the whole batch, if any of it is staged.
BuildBatch ==
  /\ pc = "stage" /\ todo = <<>>
  /\ pc' = IF kept = <<>> THEN "finish" ELSE IF Builds(staging) THEN "land" ELSE "bisect"
  /\ UNCHANGED <<world, worktrees, queue, outcome, main, batchVars, evaluated, mishaps>>

---------------------------------------------------------------------------
(* Landing *)

\* What follows _land_batch(): the right half of a bisection, or the end.
NextHalf ==
  /\ pc' = IF rest = <<>> THEN "finish" ELSE "bisect"
  /\ kept' = rest
  /\ rest' = <<>>
  /\ ref' = main

\* merge_to_main()
Land ==
  /\ pc = "land"
  /\ main' = main \cup staging
  /\ pc' = "report"
  /\ UNCHANGED <<world, worktrees, queue, outcome, batchVars, evaluated, mishaps>>

\* Variant with a bug: the result of merge_to_main() is not looked at.
LandFailIgnored ==
  /\ pc = "land"
  /\ Mishap("git")
  /\ pc' = "report"
  /\ UNCHANGED <<world, worktrees, queue, outcome, main, batchVars, evaluated>>

LandFail ==
  /\ pc = "land"
  /\ Mishap("git")
  /\ Resolve(kept, "rejected",
       NextHalf /\ UNCHANGED <<queue, main, batch, todo, pre, staging, merged, evaluated>>)
  /\ UNCHANGED <<world, worktrees>>

\* The futures of what has landed.
Report ==
  /\ pc = "report"
  /\ Resolve(kept, "merged",
       /\ NextHalf
       /\ merged' = merged \cup ToSet(kept)
       /\ UNCHANGED <<queue, main, batch, todo, pre, staging, evaluated>>)
  /\ UNCHANGED <<world, worktrees, mishaps>>

\* The end of _process_batch(): the callback, if anything has landed.
Finish ==
  /\ pc = "finish"
  /\ evaluated' = IF merged = {} THEN evaluated ELSE evaluated \cup (main \ pre)
  /\ EndBatch
  /\ UNCHANGED <<world, worktrees, queue, outcome, main, mishaps>>

---------------------------------------------------------------------------
(* Bisection *)

LeftHalf(s) == SubSeq(s, 1, Len(s) \div 2)
RightHalf(s) == SubSeq(s, Len(s) \div 2 + 1, Len(s))

\* One request is left: it is the culprit.
Culprit ==
  /\ pc = "bisect" /\ Len(kept) = 1
  /\ Resolve(kept, "rejected",
       /\ pc' = "finish"
       /\ UNCHANGED <<queue, main, batchVars, evaluated>>)
  /\ UNCHANGED <<world, worktrees, mishaps>>

\* _bisect_subset() of nobody tests and lands nothing and calls itself, until
\* Python's recursion limit.
BisectNobody ==
  /\ pc = "bisect" /\ kept = <<>>
  /\ Throw(outcome)
  /\ UNCHANGED <<world, worktrees, queue, mishaps>>

\* _rebuild_staging_and_test() resets staging and picks the left half.
Split ==
  /\ pc = "bisect" /\ Len(kept) > 1
  /\ pc' = "retest"
  /\ kept' = LeftHalf(kept)
  /\ rest' = RightHalf(kept)
  /\ todo' = kept'
  /\ staging' = ref
  /\ UNCHANGED <<world, worktrees, queue, outcome, main, batch, ref, pre, merged, evaluated, mishaps>>

RetestOk ==
  /\ pc = "retest" /\ todo # <<>>
  /\ ~PickConflict(Head(todo)[1])
  /\ staging' = staging \cup Commits(Head(todo)[1])
  /\ todo' = Tail(todo)
  /\ UNCHANGED <<world, worktrees, queue, outcome, main, pc, batch, kept, rest, ref, pre, merged,
                 evaluated, mishaps>>

\* The left half is where the culprit is: the right one has to wait.
DeferRight ==
  /\ pc' = "bisect"
  /\ queue' = queue \o rest
  /\ rest' = <<>>

\* A pick fails: its request is rejected, and the others of the left half go on
\* as if they had failed to build.
RetestFail ==
  /\ pc = "retest" /\ todo # <<>>
  /\ \/ PickConflict(Head(todo)[1]) /\ UNCHANGED mishaps
     \/ Mishap("git")
  /\ Resolve(<<Head(todo)>>, "rejected",
       /\ kept' = RemoveAt(kept, Len(kept) - Len(todo) + 1)
       /\ todo' = <<>>
       /\ DeferRight
       /\ UNCHANGED <<main, batch, ref, pre, staging, merged, evaluated>>)
  /\ UNCHANGED <<world, worktrees>>

\* Variants with a bug: the wrong half is searched, or what was picked is landed
\* without a build.
RetestBuildWrongHalf ==
  /\ pc = "retest" /\ todo = <<>>
  /\ IF Builds(staging)
     THEN pc' = "land" /\ UNCHANGED <<queue, kept, rest>>
     ELSE pc' = "bisect" /\ queue' = queue \o kept /\ kept' = rest /\ rest' = <<>>
  /\ UNCHANGED <<world, worktrees, outcome, main, batch, todo, ref, pre, staging, merged,
                 evaluated, mishaps>>

RetestUnbuilt ==
  /\ pc = "retest" /\ todo = <<>>
  /\ pc' = "land"
  /\ UNCHANGED <<world, worktrees, queue, outcome, main, batch, todo, kept, rest, ref, pre, staging,
                 merged, evaluated, mishaps>>

RetestBuild ==
  /\ pc = "retest" /\ todo = <<>>
  /\ IF Builds(staging)
     THEN pc' = "land" /\ UNCHANGED <<queue, rest>>
     ELSE DeferRight
  /\ UNCHANGED <<world, worktrees, outcome, main, batch, todo, kept, ref, pre, staging, merged,
                 evaluated, mishaps>>

---------------------------------------------------------------------------
(* Failures *)

\* Anything in _process_batch raises: a git command's timeout, the build.
Raise ==
  /\ pc # "idle"
  /\ Mishap("raise")
  /\ Throw(outcome)
  /\ UNCHANGED <<world, worktrees, queue>>

\* The coordinator dies or is stopped, and the workers with it.  Its start
\* removes every worktree (main.py, gc_worktrees), so no staging is found again.
Crash ==
  /\ Mishap("crash")
  /\ EndBatch
  /\ queue' = <<>>
  /\ outcome' = [r \in Requests |-> IF outcome[r] = "pending" THEN "lost" ELSE outcome[r]]
  /\ work' = [a \in Agents |-> {}]
  /\ base' = [a \in Agents |-> {}]
  /\ UNCHANGED <<world, main, evaluated>>

---------------------------------------------------------------------------
QueueStep ==
  \/ Collect
  \/ RebaseOk \/ RebaseFail \/ StartStaging
  \/ StageOk \/ StageDefer \/ BuildBatch
  \/ Land \/ LandFail \/ Report \/ Finish
  \/ Culprit \/ BisectNobody \/ Split \/ RetestOk \/ RetestFail \/ RetestBuild

Next ==
  \/ \E a \in Agents : Work(a) \/ Submit(a) \/ Abandon(a)
  \/ Poll
  \/ QueueStep
  \/ Raise
  \/ Crash

Spec == Init /\ [][Next]_vars

\* run() goes on as long as its process lives.
FairSpec == Spec /\ WF_vars(QueueStep)
---------------------------------------------------------------------------
States == {"idle", "rebase", "stage", "land", "report", "finish", "bisect", "retest"}

TypeOK ==
  /\ world \in Worlds
  /\ work \in [Agents -> SUBSET Requests]
  /\ base \in [Agents -> SUBSET Requests]
  /\ queue \in Seq(Requests)
  /\ outcome \in [Requests -> {"none", "pending", "merged", "rejected", "lost"}]
  /\ main \subseteq Requests
  /\ pc \in States
  /\ batch \in Seq(Requests) /\ Len(batch) <= BatchSize
  /\ todo \in Seq(Requests) /\ kept \in Seq(Requests) /\ rest \in Seq(Requests)
  /\ ref \subseteq Requests /\ pre \subseteq Requests /\ staging \subseteq Requests
  /\ merged \subseteq Requests /\ evaluated \subseteq Requests
  /\ mishaps \in 0..MaxMishaps

\* The inductive invariant behind MainBuilds.  Only the queue moves main, so the
\* ref a phase works on is main itself; staging is built on it, and once the
\* queue is about to land, staging is the tree that was built.
LandingInv ==
  /\ Builds(main)
  /\ pc \in {"rebase", "stage", "bisect", "retest"} => ref = main
  /\ pc \in {"stage", "retest", "land"} => main \subseteq staging
  /\ pc = "land" => Builds(staging)
  /\ pc = "retest" => Len(todo) <= Len(kept)

\* Every main there ever is builds, whatever conflicts, fails, raises or
\* crashes, and whatever happens to the worktrees while the queue reads them:
\* what lands is the tree that was built, on top of the main it was built on.
MainBuilds == Builds(main)

\* An agent that waited and is told "merged" has its commits in main, also
\* when main moved under the bisection.
MergedIsInMain == \A a \in Agents : \A r \in work[a] : outcome[r] = "merged" => r \in main

\* When nothing fails but conflicts and builds, bisection blames no innocent:
\* whoever is rejected conflicts with the main of that moment, or does not
\* build on it alone (module docstring: "bisect to identify the culprit, merge
\* non-culprits, reject culprit").
RejectionJustified ==
  [][\A r \in Requests : mishaps' = 0 /\ outcome[r] = "pending" /\ outcome'[r] = "rejected" =>
        Conflict({r}, main) \/ ~Builds(main \cup {r})]_vars

\* Every request gets a verdict, although conflicting and halved ones go back
\* to the tail of the queue and bisection starts over with them.
EveryRequestResolved ==
  \A r \in Requests : outcome[r] = "pending" ~> outcome[r] # "pending"

=============================================================================
