--------------------------- MODULE TaskLifecycle ---------------------------
(***************************************************************************)
(* What the task DAG and its runner promise about one task, without edges, *)
(* attempts, locks or slots: which status follows which, and which of the  *)
(* holder's, the agents' and a restart's steps may make the change.        *)
(*                                                                         *)
(* Dispatchers and agents act on what they have seen of a task, and that   *)
(* may be out of date.  What they have seen is state here.                 *)
(***************************************************************************)
CONSTANT Ids

VARIABLES
  status,       \* "absent", or the item's status
  wanted,       \* tasks a dispatcher saw pending and may dispatch
  offered,      \* tasks dispatched and not yet with a worker
  held,         \* tasks a worker has
  ended,        \* tasks whose result is in and not yet recorded, with the result
  reopening,    \* tasks somebody saw failed and is about to reset
  retracting    \* tasks somebody saw pending or failed and is about to delete

work == <<wanted, offered, held, ended>>
edits == <<reopening, retracting>>
vars == <<status, work, edits>>

Init ==
  /\ status = [i \in Ids |-> "absent"]
  /\ wanted = {}
  /\ offered = {}
  /\ held = {}
  /\ ended = {}
  /\ reopening = {}
  /\ retracting = {}

Create(i) ==
  /\ status[i] = "absent"
  /\ status' = [status EXCEPT ![i] = "pending"]
  /\ UNCHANGED <<work, edits>>

\* Whoever edits or deletes a failed task will reset it.
Reconsider(i) ==
  /\ status[i] = "failed"
  /\ reopening' = reopening \cup {i}
  /\ UNCHANGED <<status, work, retracting>>

Reopen(i) ==
  /\ i \in reopening
  /\ status' = [status EXCEPT ![i] = "pending"]
  /\ reopening' = reopening \ {i}
  /\ UNCHANGED <<work, retracting>>

Retract(i) ==
  /\ status[i] \in {"pending", "failed"}
  /\ retracting' = retracting \cup {i}
  /\ UNCHANGED <<status, work, reopening>>

\* The retraction lands, whatever the task has become meanwhile.
Remove(i, how) ==
  /\ i \in retracting
  /\ status' = [status EXCEPT ![i] = how]
  /\ retracting' = retracting \ {i}
  /\ UNCHANGED <<work, reopening>>

\* Only pending tasks come to be wanted; a dispatcher may let go of some.
Want(tasks) ==
  /\ \A i \in tasks : status[i] = "pending"
  /\ wanted' = wanted \cup tasks
  /\ UNCHANGED <<status, offered, held, ended, edits>>

LetGo(tasks) ==
  /\ wanted' = wanted \ tasks
  /\ UNCHANGED <<status, offered, held, ended, edits>>

\* Only wanted tasks that nobody has or is offered are offered.
Offer(i) ==
  /\ i \in wanted \ (offered \cup held)
  /\ wanted' = wanted \ {i}
  /\ offered' = offered \cup {i}
  /\ UNCHANGED <<status, held, ended, edits>>

\* A worker takes the task, whatever has become of it meanwhile; one that is gone
\* stays gone.
Take(i) ==
  /\ i \in offered
  /\ offered' = offered \ {i}
  /\ held' = held \cup {i}
  /\ status' = [status EXCEPT ![i] = IF @ = "absent" THEN @ ELSE "in_progress"]
  /\ UNCHANGED <<wanted, ended, edits>>

\* A task that no worker took can only have failed.
End(i, result) ==
  /\ \/ i \in held
     \/ i \in offered /\ result = "failed"
  /\ offered' = offered \ {i}
  /\ held' = held \ {i}
  /\ ended' = ended \cup {<<i, result>>}
  /\ UNCHANGED <<status, wanted, edits>>

Conclude(i, result) ==
  /\ <<i, result>> \in ended
  /\ ended' = ended \ {<<i, result>>}
  /\ status' = [status EXCEPT ![i] = IF @ = "absent" THEN @ ELSE result]
  /\ UNCHANGED <<wanted, offered, held, edits>>

\* Work in progress is pending again after a restart.
Recover ==
  /\ wanted' = {} /\ offered' = {} /\ held' = {} /\ ended' = {}
  /\ reopening' = {} /\ retracting' = {}
  /\ status' = [i \in Ids |-> IF status[i] = "in_progress" THEN "pending" ELSE status[i]]

Next ==
  \/ \E i \in Ids :
       \/ Create(i) \/ Reconsider(i) \/ Reopen(i) \/ Retract(i) \/ Offer(i) \/ Take(i)
       \/ \E how \in {"absent", "deleted"} : Remove(i, how)
       \/ \E result \in {"completed", "failed"} : End(i, result) \/ Conclude(i, result)
  \/ \E tasks \in SUBSET Ids : Want(tasks) \/ LetGo(tasks)
  \/ Recover

Spec == Init /\ [][Next]_vars
=============================================================================
