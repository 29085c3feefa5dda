---------------------------- MODULE ItemTracker ----------------------------
(***************************************************************************)
(* The task DAG of core/tracker/core.py: the items of dag.json with their  *)
(* status, their dependency edges (kept in both directions) and their      *)
(* attempt counters, and the id allocator.                                 *)
(*                                                                         *)
(* Every mutation of the program ends with _save(), which replaces the     *)
(* file atomically, so the file equals the memory at every step of this    *)
(* module and a crash in the middle of a mutation is a crash before it.    *)
(* Lists of ids are sets here: the code only appends, filters and tests    *)
(* membership.  Titles, owners, flavors and metadata are left out: the     *)
(* flavor only narrows which items one agent may edit.                     *)
(***************************************************************************)
EXTENDS Naturals

CONSTANTS
  Slugs,        \* ids that callers choose themselves
  MaxId,        \* numeric ids are 1..MaxId (bound of the model)
  MaxAttempts   \* an item is handed to a worker at most this often (bound of the model)

ASSUME TrackerAssumption ==
  /\ MaxId \in Nat
  /\ MaxAttempts \in Nat
  /\ Slugs \cap Nat = {}

VARIABLES
  status,       \* item["status"], "absent" for an id that is not in _items
  dependsOn,    \* item["depends_on"]
  dependents,   \* item["dependents"]
  attempts,     \* item["attempts"]
  nextId,       \* _next_id
  maxIdEver,    \* _max_id_ever, saved in the file
  born          \* history: every number that was ever inserted

edges == <<dependsOn, dependents>>
counters == <<nextId, maxIdEver, born>>
trackerVars == <<status, dependsOn, dependents, attempts, nextId, maxIdEver, born>>

Numbers == 1..MaxId
Ids == Slugs \cup Numbers

Terminal == {"completed", "deleted"}
ItemStatus == {"pending", "in_progress", "failed"} \cup Terminal

Items == {i \in Ids : status[i] # "absent"}

TrackerInit ==
  /\ status = [i \in Ids |-> "absent"]
  /\ dependsOn = [i \in Ids |-> {}]
  /\ dependents = [i \in Ids |-> {}]
  /\ attempts = [i \in Ids |-> 0]
  /\ nextId = 1
  /\ maxIdEver = 0
  /\ born = {}

---------------------------------------------------------------------------
(* Queries *)

\* Pending items whose dependencies are all terminal.
Ready == {i \in Ids : /\ status[i] = "pending"
                      /\ \A d \in dependsOn[i] : status[d] \in Terminal}

---------------------------------------------------------------------------
(* Mutations *)

Larger(m, n) == IF m < n THEN n ELSE m

\* add(): the new record, with the reverse edge put on every dependency.
Insert(i, deps) ==
  /\ deps \subseteq Items
  /\ status' = [status EXCEPT ![i] = "pending"]
  /\ attempts' = [attempts EXCEPT ![i] = 0]
  /\ dependsOn' = [dependsOn EXCEPT ![i] = deps]
  /\ dependents' = [j \in Ids |-> IF j = i THEN {}
                                  ELSE IF j \in deps THEN dependents[j] \cup {i}
                                  ELSE dependents[j]]
  /\ born' = born \cup ({i} \cap Numbers)

\* add() with an item_id of the caller: it must be new, and a numeric one
\* pushes the allocator beyond it.
AddNamed(i, deps) ==
  /\ status[i] = "absent"
  /\ Insert(i, deps)
  /\ IF i \in Numbers
     THEN nextId' = Larger(nextId, i + 1) /\ maxIdEver' = Larger(maxIdEver, i)
     ELSE UNCHANGED <<nextId, maxIdEver>>

\* add() without an item_id.  The code does not look whether the id is taken.
AddAuto(deps) ==
  /\ nextId \in Numbers
  /\ Insert(nextId, deps)
  /\ maxIdEver' = Larger(maxIdEver, nextId)
  /\ nextId' = nextId + 1

\* update(depends_on=...): the old and the new dependencies' reverse edges are
\* adjusted.
UpdateItem(i, deps) ==
  /\ dependents' = [j \in Ids |->
        IF j \in dependsOn[i] \ deps THEN dependents[j] \ {i}
        ELSE IF j \in deps \ dependsOn[i] THEN dependents[j] \cup {i}
        ELSE dependents[j]]
  /\ dependsOn' = [dependsOn EXCEPT ![i] = deps]
  /\ UNCHANGED <<status, attempts, counters>>

\* The end of update() for an item it found failed: it is pending again.
ResetItem(i) ==
  /\ status' = [status EXCEPT ![i] = "pending"]
  /\ UNCHANGED <<edges, attempts, counters>>

\* update(status="deleted")
MarkDeleted(i) ==
  /\ status' = [status EXCEPT ![i] = "deleted"]
  /\ UNCHANGED <<edges, attempts, counters>>

\* Variant with a bug: the purged item's dependents keep depending on it.
PurgeForgetsDependents(i) ==
  /\ status' = [status EXCEPT ![i] = "absent"]
  /\ attempts' = [attempts EXCEPT ![i] = 0]
  /\ dependents' = [j \in Ids |-> IF j = i THEN {}
                                  ELSE IF j \in dependsOn[i] THEN dependents[j] \ {i}
                                  ELSE dependents[j]]
  /\ dependsOn' = [dependsOn EXCEPT ![i] = {}]
  /\ UNCHANGED counters

\* _purge(): the item leaves the DAG, and both ends of its edges forget it.
Purge(i) ==
  /\ status' = [status EXCEPT ![i] = "absent"]
  /\ attempts' = [attempts EXCEPT ![i] = 0]
  /\ dependents' = [j \in Ids |-> IF j = i THEN {}
                                  ELSE IF j \in dependsOn[i] THEN dependents[j] \ {i}
                                  ELSE dependents[j]]
  /\ dependsOn' = [j \in Ids |-> IF j = i THEN {}
                                 ELSE IF j \in dependents[i] THEN dependsOn[j] \ {i}
                                 ELSE dependsOn[j]]
  /\ UNCHANGED counters

\* mark_in_progress(): nothing for an unknown id, otherwise no look at the status.
MarkInProgress(i) ==
  /\ IF i \in Items
     THEN /\ status' = [status EXCEPT ![i] = "in_progress"]
          /\ attempts' = [attempts EXCEPT ![i] = @ + 1]
     ELSE UNCHANGED <<status, attempts>>
  /\ UNCHANGED <<edges, counters>>

\* record_result(): nothing for an unknown id, otherwise no look at the status.
RecordResult(i, success) ==
  /\ status' = [status EXCEPT ![i] = IF @ = "absent" THEN @
                                     ELSE IF success THEN "completed" ELSE "failed"]
  /\ UNCHANGED <<edges, attempts, counters>>

\* A new process: _load() restores the allocator from the saved high-water
\* mark and the items, and the coordinator turns in_progress into pending.
Reload ==
  /\ \E top \in {0} \cup (Items \cap Numbers) :
        /\ \A n \in Items \cap Numbers : n <= top
        /\ maxIdEver' = Larger(maxIdEver, top)
        /\ nextId' = Larger(maxIdEver, top) + 1
  /\ status' = [i \in Ids |-> IF status[i] = "in_progress" THEN "pending" ELSE status[i]]
  /\ UNCHANGED <<edges, attempts, born>>

---------------------------------------------------------------------------
TrackerTypeOK ==
  /\ status \in [Ids -> ItemStatus \cup {"absent"}]
  /\ dependsOn \in [Ids -> SUBSET Ids]
  /\ dependents \in [Ids -> SUBSET Ids]
  /\ attempts \in [Ids -> Nat]
  /\ nextId \in Nat
  /\ maxIdEver \in Nat
  /\ born \subseteq Numbers
=============================================================================
