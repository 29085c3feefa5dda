------------------------ MODULE ConstrainedTracker ------------------------
(***************************************************************************)
(* The guarded access of the agents' tools to the task DAG,                *)
(* autoform/bot/tools/task_tracker/core.py.  Tools may run on threads of   *)
(* their own; the tracker's lock serialises them against each other, but   *)
(* the DAG runner changes statuses and attempts without that lock.  So     *)
(* what a call reads of the status and what it does about it are separate  *)
(* steps, with the lock held in between.                                   *)
(***************************************************************************)
EXTENDS ItemTracker

VARIABLE
  tool          \* the tool call that holds the tracker's lock

NoCall == [op |-> "none"]

\* What a call that has passed its check is about to do: change the edges, look at
\* the status, reset or delete the item it has looked at, or purge it.
ToolCall ==
  {NoCall}
    \cup [op : {"update"}, id : Ids, deps : SUBSET Ids]
    \cup [op : {"status", "reset"}, id : Ids, deletes : BOOLEAN]
    \cup [op : {"mark", "purge"}, id : Ids]

Mutable == {"pending", "failed"}

\* add(), one step: it reads nothing but which items exist, and only holders
\* of the lock change that.
ToolAdd ==
  /\ tool = NoCall
  /\ \E deps \in SUBSET Items :
        \/ \E i \in Ids : AddNamed(i, deps)
        \/ AddAuto(deps)
  /\ UNCHANGED tool

\* update(): the checks.  A call whose item is not mutable, or whose new
\* dependencies are unknown or the item itself, returns an error and changes
\* nothing; depends_on=None keeps the old ones.
ToolUpdateCheck(i) ==
  /\ tool = NoCall
  /\ status[i] \in Mutable
  /\ \E deps \in {dependsOn[i]} \cup SUBSET (Items \ {i}) :
        tool' = [op |-> "update", id |-> i, deps |-> deps]
  /\ UNCHANGED trackerVars

\* The edges.
ToolUpdate ==
  /\ tool.op = "update"
  /\ UpdateItem(tool.id, tool.deps)
  /\ tool' = [op |-> "status", id |-> tool.id, deletes |-> FALSE]

\* delete(): the copy that was checked decides between the two ways.
ToolDeleteCheck(i) ==
  /\ tool = NoCall
  /\ status[i] \in Mutable
  /\ tool' = IF attempts[i] = 0 THEN [op |-> "purge", id |-> i]
             ELSE [op |-> "status", id |-> i, deletes |-> TRUE]
  /\ UNCHANGED trackerVars

\* The end of a call of ItemTracker.update() once it has seen to RESET_ON_UPDATE.
AfterReset == IF tool.deletes THEN [op |-> "mark", id |-> tool.id] ELSE NoCall

\* Variant with a bug: any update resets the status, not only that of a failed item.
ToolStatusResetsAll ==
  /\ tool.op = "status"
  /\ tool' = [tool EXCEPT !.op = "reset"]
  /\ UNCHANGED trackerVars

\* The look at the status, for an update and for a delete that marks.
ToolStatus ==
  /\ tool.op = "status"
  /\ tool' = IF status[tool.id] = "failed" THEN [tool EXCEPT !.op = "reset"] ELSE AfterReset
  /\ UNCHANGED trackerVars

\* The write, whatever the runner has made of the item since.
ToolReset ==
  /\ tool.op = "reset"
  /\ ResetItem(tool.id)
  /\ tool' = AfterReset

ToolDelete ==
  /\ \/ tool.op = "mark" /\ MarkDeleted(tool.id)
     \/ tool.op = "purge" /\ Purge(tool.id)
  /\ tool' = NoCall

ToolStep ==
  \/ ToolAdd
  \/ \E i \in Ids : ToolUpdateCheck(i) \/ ToolDeleteCheck(i)
  \/ ToolUpdate
  \/ ToolStatus
  \/ ToolReset
  \/ ToolDelete
=============================================================================
