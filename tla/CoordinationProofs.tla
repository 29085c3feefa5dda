------------------------- MODULE CoordinationProofs -------------------------
(***************************************************************************)
(* Theorems about how tasks are coordinated: DagRunner, for every set of   *)
(* slugs, every bound and every number of slots, and ConcurrentAgents, for *)
(* any pool, any teams, and any number of runs, tries and restarts.        *)
(***************************************************************************)
EXTENDS DagRunner, ConcurrentAgents, SequenceTheorems, TLAPS

---------------------------------------------------------------------------
(* The runner of the task DAG *)

(* Both insertions leave a well-typed tracker. *)
LEMMA InsertType ==
  ASSUME TrackerTypeOK, NEW i \in Ids, NEW deps \in SUBSET Items,
         AddNamed(i, deps) \/ (AddAuto(deps) /\ i = nextId)
  PROVE  TrackerTypeOK'
<1>1. Insert(i, deps)
  BY DEF AddNamed, AddAuto
<1>2. nextId' \in Nat /\ maxIdEver' \in Nat
  BY TrackerAssumption DEF AddNamed, AddAuto, TrackerTypeOK, Larger, Numbers
<1>3. status' \in [Ids -> ItemStatus \cup {"absent"}]
  BY <1>1 DEF Insert, TrackerTypeOK, ItemStatus
<1>4. /\ dependsOn' \in [Ids -> SUBSET Ids]
      /\ dependents' \in [Ids -> SUBSET Ids]
      /\ attempts' \in [Ids -> Nat]
      /\ born' \subseteq Numbers
  BY <1>1 DEF Insert, TrackerTypeOK, Items
<1> QED BY <1>2, <1>3, <1>4 DEF TrackerTypeOK

(* Every step of a tool leaves a well-typed tracker and a well-formed call. *)
LEMMA ToolType ==
  ASSUME TrackerTypeOK, tool \in ToolCall, ToolStep
  PROVE  TrackerTypeOK' /\ (tool \in ToolCall)'
<1>1. CASE ToolAdd
  <2>1. PICK deps \in SUBSET Items :
          \/ \E i \in Ids : AddNamed(i, deps)
          \/ AddAuto(deps)
    BY <1>1 DEF ToolAdd
  <2>2. nextId \in Numbers => nextId \in Ids
    BY DEF Ids
  <2>3. TrackerTypeOK'
    BY <2>1, <2>2, InsertType DEF AddAuto
  <2> QED BY <2>3, <1>1 DEF ToolAdd, ToolCall
<1>2. ASSUME NEW i \in Ids, ToolUpdateCheck(i)
      PROVE  TrackerTypeOK' /\ (tool \in ToolCall)'
  <2>1. TrackerTypeOK'
    BY <1>2 DEF ToolUpdateCheck, trackerVars, TrackerTypeOK
  <2>2. \A deps \in {dependsOn[i]} \cup SUBSET (Items \ {i}) : deps \in SUBSET Ids
    BY DEF TrackerTypeOK, Items
  <2> QED BY <1>2, <2>1, <2>2 DEF ToolUpdateCheck, ToolCall
<1>3. ASSUME NEW i \in Ids, ToolDeleteCheck(i)
      PROVE  TrackerTypeOK' /\ (tool \in ToolCall)'
  <2>1. TrackerTypeOK'
    BY <1>3 DEF ToolDeleteCheck, trackerVars, TrackerTypeOK
  <2> QED BY <1>3, <2>1 DEF ToolDeleteCheck, ToolCall
<1>4. CASE ToolUpdate
  <2>1. tool.id \in Ids /\ tool.deps \in SUBSET Ids
    BY <1>4 DEF ToolUpdate, ToolCall, NoCall
  <2>2. TrackerTypeOK'
    BY <1>4, <2>1 DEF ToolUpdate, UpdateItem, TrackerTypeOK, counters
  <2> QED BY <1>4, <2>1, <2>2 DEF ToolUpdate, ToolCall
<1>5. CASE tool.op \in {"status", "reset"} /\ (ToolStatus \/ ToolReset)
  <2>1. tool \in [op : {"status", "reset"}, id : Ids, deletes : BOOLEAN]
    BY <1>5 DEF ToolCall, NoCall
  <2>2. AfterReset \in ToolCall /\ [tool EXCEPT !.op = "reset"] \in ToolCall
    BY <2>1 DEF AfterReset, ToolCall
  <2>3. TrackerTypeOK'
    BY <1>5, <2>1
       DEF ToolStatus, ToolReset, ResetItem, trackerVars, edges, counters, TrackerTypeOK,
           ItemStatus
  <2> QED BY <1>5, <2>2, <2>3 DEF ToolStatus, ToolReset
<1>6. CASE ToolDelete
  <2>1. tool.id \in Ids
    BY <1>6 DEF ToolDelete, ToolCall, NoCall
  <2>2. CASE Purge(tool.id)
    BY <1>6, <2>1, <2>2 DEF ToolDelete, Purge, TrackerTypeOK, counters, ToolCall, ItemStatus
  <2>3. CASE MarkDeleted(tool.id)
    BY <1>6, <2>1, <2>3
       DEF ToolDelete, MarkDeleted, TrackerTypeOK, edges, counters, ToolCall, ItemStatus,
           Terminal
  <2> QED BY <1>6, <2>2, <2>3 DEF ToolDelete
<1> QED
  BY <1>1, <1>2, <1>3, <1>4, <1>5, <1>6 DEF ToolStep, ToolStatus, ToolReset

(* Every step of a dispatcher or of a coroutine leaves well-typed variables. *)
LEMMA RunnerType ==
  ASSUME TypeOK,
         \/ RunnerDispatch \/ ToolDispatchReady \/ DispatchStep
         \/ \E i \in Ids : ToolDispatchTask(i) \/ HandOver(i) \/ Refuse(i) \/ Settle(i)
         \/ \E i \in Ids, r \in Verdicts : Finish(i, r)
  PROVE  TypeOK'
<1> USE DEF TypeOK
<1>1. Dispatchable \in SUBSET Ids
  BY DEF Dispatchable, Ready
<1>2. CASE RunnerDispatch \/ ToolDispatchReady \/ \E i \in Ids : ToolDispatchTask(i)
  BY <1>1, <1>2 DEF RunnerDispatch, ToolDispatchReady, ToolDispatchTask, trackerVars,
                    coroutineVars, TrackerTypeOK
<1>3. CASE DispatchStep
  BY <1>3 DEF DispatchStep, NoSlots, KeepIdle, DispatchOne, trackerVars, coroutineVars,
              TrackerTypeOK
<1>4. ASSUME NEW i \in Ids, HandOver(i)
      PROVE  TypeOK'
  <2>1. waiting' \in [Ids -> Nat] /\ executing' \in [Ids -> Nat]
    BY <1>4 DEF HandOver
  <2>2. TrackerTypeOK'
    BY <1>4 DEF HandOver, MarkInProgress, TrackerTypeOK, edges, counters, ItemStatus
  <2> QED BY <2>1, <2>2, <1>4 DEF HandOver
<1>5. ASSUME NEW i \in Ids, NEW r \in Verdicts, Finish(i, r) \/ (Refuse(i) /\ r = "failed")
      PROVE  TypeOK'
  <2>1. waiting' \in [Ids -> Nat] /\ executing' \in [Ids -> Nat]
    BY <1>5 DEF Finish, Refuse
  <2>2. Discard(i, r)
    BY <1>5 DEF Finish, Refuse
  <2> QED BY <2>1, <2>2 DEF Discard, trackerVars, TrackerTypeOK
<1>6. ASSUME NEW i \in Ids, Settle(i)
      PROVE  TypeOK'
  <2>1. TrackerTypeOK'
    BY <1>6 DEF Settle, RecordResult, TrackerTypeOK, edges, counters, ItemStatus, Terminal
  <2> QED BY <1>6, <2>1 DEF Settle
<1> QED BY <1>2, <1>3, <1>4, <1>5, <1>6 DEF Verdicts

(* The types of every variable, for every value of the constants. *)
THEOREM TypeCorrect == Spec => []TypeOK
<1>1. Init => TypeOK
  <2> SUFFICES ASSUME Init PROVE TypeOK
    OBVIOUS
  <2>1. TrackerTypeOK
    BY DEF Init, TrackerInit, TrackerTypeOK
  <2>2. tool \in ToolCall
    BY DEF Init, ToolCall
  <2> QED BY <2>1, <2>2 DEF Init, TypeOK
<1>2. TypeOK /\ [Next]_vars => TypeOK'
  <2> SUFFICES ASSUME TypeOK, [Next]_vars
               PROVE  TypeOK'
    OBVIOUS
  <2> USE DEF TypeOK
  <2>1. CASE \/ RunnerDispatch \/ ToolDispatchReady \/ DispatchStep
             \/ \E i \in Ids : ToolDispatchTask(i) \/ HandOver(i) \/ Refuse(i) \/ Settle(i)
             \/ \E i \in Ids, r \in Verdicts : Finish(i, r)
    BY <2>1, RunnerType
  <2>2. CASE ToolEdit
    BY <2>2, ToolType DEF ToolEdit, runnerVars, coroutineVars
  <2>3. CASE OrchestratorBegin \/ OrchestratorEnd \/ Pause \/ Resume
    BY <2>3 DEF OrchestratorBegin, OrchestratorEnd, Pause, Resume, trackerVars, runnerVars,
                coroutineVars, TrackerTypeOK
  <2>4. CASE Restart
    <3>1. nextId' \in Nat /\ maxIdEver' \in Nat
      BY <2>4, TrackerAssumption DEF Restart, Reload, TrackerTypeOK, Larger, Numbers
    <3> QED BY <3>1, <2>4 DEF Restart, Reload, TrackerTypeOK, edges, ToolCall, ItemStatus
  <2>5. CASE UNCHANGED vars
    BY <2>5 DEF vars, trackerVars, runnerVars, coroutineVars, TrackerTypeOK
  <2> QED BY <2>1, <2>2, <2>3, <2>4, <2>5 DEF Next
<1> QED BY <1>1, <1>2, PTL DEF Spec

---------------------------------------------------------------------------
(* Edges *)

(* An id that add() is about to use belongs to no item, whether the caller *)
(* chose it or the allocator did.                                          *)
LEMMA InsertedIsNew ==
  ASSUME TypeOK, IInv, NEW i \in Ids, NEW deps \in SUBSET Items,
         AddNamed(i, deps) \/ (AddAuto(deps) /\ i = nextId)
  PROVE  status[i] = "absent" /\ Insert(i, deps)
<1>1. CASE AddNamed(i, deps)
  BY <1>1 DEF AddNamed
<1>2. CASE AddAuto(deps) /\ i = nextId
  <2>1. nextId \notin born
    BY <1>2 DEF AddAuto, IInv, AutoIdFresh, TypeOK, TrackerTypeOK
  <2>2. nextId \notin Items
    BY <1>2, <2>1 DEF AddAuto, IInv, AllocatorInv
  <2> QED BY <1>2, <2>2 DEF AddAuto, Items
<1> QED BY <1>1, <1>2

LEMMA EdgesInsert ==
  ASSUME TypeOK, EdgesConsistent, NEW i \in Ids, status[i] = "absent",
         NEW deps \in SUBSET Items, Insert(i, deps)
  PROVE  EdgesConsistent'
<1>1. Items' = Items \cup {i} /\ i \notin deps
  BY DEF Insert, Items, TypeOK, TrackerTypeOK
<1>2. \A j \in Ids : i \notin dependsOn[j] /\ i \notin dependents[j]
                       /\ dependsOn[i] = {} /\ dependents[i] = {}
  BY DEF EdgesConsistent, Items, TypeOK, TrackerTypeOK
<1> SUFFICES ASSUME NEW a \in Ids, NEW b \in Ids
             PROVE  /\ b \in dependsOn'[a] <=> a \in dependents'[b]
                    /\ b \in dependsOn'[a] => a # b /\ a \in Items' /\ b \in Items'
  BY DEF EdgesConsistent
<1>3. dependsOn'[a] = IF a = i THEN deps ELSE dependsOn[a]
  BY DEF Insert, TypeOK, TrackerTypeOK
<1>4. dependents'[b] = IF b = i THEN {}
                       ELSE IF b \in deps THEN dependents[b] \cup {i} ELSE dependents[b]
  BY DEF Insert
<1> QED BY <1>1, <1>2, <1>3, <1>4 DEF EdgesConsistent

LEMMA EdgesUpdate ==
  ASSUME TypeOK, EdgesConsistent, NEW i \in Items,
         NEW deps \in SUBSET (Items \ {i}), UpdateItem(i, deps)
  PROVE  EdgesConsistent'
<1>1. Items' = Items /\ i \in Ids
  BY DEF UpdateItem, Items, TypeOK, TrackerTypeOK
<1> SUFFICES ASSUME NEW a \in Ids, NEW b \in Ids
             PROVE  /\ b \in dependsOn'[a] <=> a \in dependents'[b]
                    /\ b \in dependsOn'[a] => a # b /\ a \in Items' /\ b \in Items'
  BY DEF EdgesConsistent
<1>2. dependsOn'[a] = IF a = i THEN deps ELSE dependsOn[a]
  BY <1>1 DEF UpdateItem, TypeOK, TrackerTypeOK
<1>3. dependents'[b] = IF b \in dependsOn[i] \ deps THEN dependents[b] \ {i}
                       ELSE IF b \in deps \ dependsOn[i] THEN dependents[b] \cup {i}
                       ELSE dependents[b]
  BY DEF UpdateItem
<1> QED BY <1>1, <1>2, <1>3 DEF EdgesConsistent

LEMMA EdgesPurge ==
  ASSUME TypeOK, EdgesConsistent, NEW i \in Items, Purge(i)
  PROVE  EdgesConsistent'
<1>1. Items' = Items \ {i} /\ i \in Ids
  BY DEF Purge, Items, TypeOK, TrackerTypeOK
<1> SUFFICES ASSUME NEW a \in Ids, NEW b \in Ids
             PROVE  /\ b \in dependsOn'[a] <=> a \in dependents'[b]
                    /\ b \in dependsOn'[a] => a # b /\ a \in Items' /\ b \in Items'
  BY DEF EdgesConsistent
<1>2. dependsOn'[a] = IF a = i THEN {}
                      ELSE IF a \in dependents[i] THEN dependsOn[a] \ {i} ELSE dependsOn[a]
  BY DEF Purge
<1>3. dependents'[b] = IF b = i THEN {}
                       ELSE IF b \in dependsOn[i] THEN dependents[b] \ {i} ELSE dependents[b]
  BY DEF Purge
<1> QED BY <1>1, <1>2, <1>3 DEF EdgesConsistent

(* No step of a tool leaves half an edge or a dangling one. *)
LEMMA EdgesTool ==
  ASSUME TypeOK, IInv, ToolStep
  PROVE  EdgesConsistent'
<1> EdgesConsistent
  BY DEF IInv
<1>1. CASE ToolAdd
  <2>1. PICK deps \in SUBSET Items : (\E i \in Ids : AddNamed(i, deps)) \/ AddAuto(deps)
    BY <1>1 DEF ToolAdd
  <2>2. PICK i \in Ids : AddNamed(i, deps) \/ (AddAuto(deps) /\ i = nextId)
    BY <2>1 DEF AddAuto, Ids
  <2> QED BY <2>2, InsertedIsNew, EdgesInsert
<1>2. CASE ToolStatus \/ \E i \in Ids : ToolUpdateCheck(i) \/ ToolDeleteCheck(i)
  BY <1>2 DEF ToolStatus, ToolUpdateCheck, ToolDeleteCheck, trackerVars, EdgesConsistent, Items
<1>3. CASE ToolUpdate
  <2>1. tool.id \in Items /\ tool.deps \in SUBSET (Items \ {tool.id})
    BY <1>3 DEF ToolUpdate, IInv, ToolInv, NoCall
  <2> QED BY <1>3, <2>1, EdgesUpdate DEF ToolUpdate
<1>4. CASE ToolReset \/ ToolDelete
  <2>1. tool.id \in Items
    BY <1>4 DEF ToolReset, ToolDelete, IInv, ToolInv, NoCall
  <2>2. CASE Purge(tool.id)
    BY <2>1, <2>2, EdgesPurge
  <2>3. CASE MarkDeleted(tool.id) \/ ResetItem(tool.id)
    <3>1. Items' = Items
      BY <2>1, <2>3 DEF MarkDeleted, ResetItem, Items, TypeOK, TrackerTypeOK
    <3> QED BY <2>3, <3>1 DEF MarkDeleted, ResetItem, edges, EdgesConsistent
  <2> QED BY <1>4, <2>2, <2>3 DEF ToolReset, ToolDelete
<1> QED BY <1>1, <1>2, <1>3, <1>4 DEF ToolStep

---------------------------------------------------------------------------
(* The inductive invariant, action by action *)

(* Steps that keep the edges and the set of items keep the edges consistent, *)
(* and with the allocator unchanged what is known of it.                     *)
LEMMA SameItems ==
  ASSUME EdgesConsistent, AutoIdFresh, AllocatorInv,
         UNCHANGED <<edges, counters>>, Items' = Items
  PROVE  EdgesConsistent' /\ AutoIdFresh' /\ AllocatorInv'
BY DEF EdgesConsistent, AutoIdFresh, AllocatorInv, edges, counters

(* A coroutine is alone, and its task is in _running. *)
LEMMA OneFlight ==
  ASSUME TypeOK, IInv, NEW i \in Ids
  PROVE  /\ waiting[i] \in Nat /\ executing[i] \in Nat
         /\ waiting[i] > 0 => waiting[i] = 1 /\ executing[i] = 0 /\ i \in running
         /\ executing[i] > 0 => executing[i] = 1 /\ waiting[i] = 0 /\ i \in running
         /\ i \notin running => waiting[i] = 0 /\ executing[i] = 0
<1>1. waiting[i] \in Nat /\ executing[i] \in Nat
  BY DEF TypeOK
<1>2. waiting[i] + executing[i] = IF i \in running THEN 1 ELSE 0
  BY DEF IInv, SingleFlight
<1> QED BY <1>1, <1>2

(* What dispatchers and coroutines leave of the invariant at once. *)
LEMMA RunnerKeeps ==
  ASSUME IInv, UNCHANGED <<edges, counters, tool>>, Items' = Items
  PROVE  EdgesConsistent' /\ AutoIdFresh' /\ AllocatorInv' /\ ToolInv'
<1>1. EdgesConsistent' /\ AutoIdFresh' /\ AllocatorInv'
  BY SameItems DEF IInv
<1>2. ToolInv'
  BY DEF IInv, ToolInv
<1> QED BY <1>1, <1>2

(* A dispatcher collects what is not in _running and starts a coroutine for it; *)
(* a coroutine of the loop may end in between, none is started by anyone else.  *)
LEMMA DispatcherStep ==
  ASSUME TypeOK, IInv,
         \/ RunnerDispatch \/ ToolDispatchReady \/ DispatchStep
         \/ \E i \in Ids : ToolDispatchTask(i)
  PROVE  IInv'
<1> USE DEF TypeOK, TrackerTypeOK
<1>1. UNCHANGED <<trackerVars, tool, executing, settling, busy>>
  BY DEF RunnerDispatch, ToolDispatchReady, ToolDispatchTask, DispatchStep, NoSlots, KeepIdle,
         DispatchOne, coroutineVars
<1>2. Items' = Items
  BY <1>1 DEF trackerVars, Items
<1>3. EdgesConsistent' /\ AutoIdFresh' /\ AllocatorInv' /\ ToolInv'
  BY <1>1, <1>2, RunnerKeeps DEF trackerVars, edges, counters
<1>4. InProgressOwned'
  BY <1>1 DEF IInv, InProgressOwned, trackerVars
<1>5. CASE \E i \in Ids : DispatchOne(i)
  <2>1. PICK i \in Ids : DispatchOne(i)
    BY <1>5
  <2>2. i \notin running
    BY <2>1 DEF DispatchOne, IInv, DispatchInv
  <2>3. waiting[i] = 0 /\ executing[i] = 0
    BY <2>2, OneFlight
  <2>4. SingleFlight'
    BY <1>1, <2>1, <2>3 DEF DispatchOne, IInv, SingleFlight
  <2>5. DispatchInv'
    BY <2>1 DEF DispatchOne, IInv, DispatchInv
  <2> QED BY <1>3, <1>4, <2>4, <2>5 DEF IInv
<1>6. CASE \/ RunnerDispatch \/ ToolDispatchReady \/ NoSlots
           \/ \E i \in Ids : ToolDispatchTask(i) \/ KeepIdle(i)
  <2>1. UNCHANGED <<running, waiting>>
    BY <1>6 DEF RunnerDispatch, ToolDispatchReady, ToolDispatchTask, NoSlots, KeepIdle,
                coroutineVars
  <2>2. SingleFlight'
    BY <1>1, <2>1 DEF IInv, SingleFlight
  <2>3. DispatchInv'
    BY <1>6, <2>1, <1>1 DEF RunnerDispatch, ToolDispatchReady, ToolDispatchTask, NoSlots, KeepIdle,
                IInv, DispatchInv
  <2> QED BY <1>3, <1>4, <2>2, <2>3 DEF IInv
<1> QED BY <1>5, <1>6 DEF DispatchStep

LEMMA HandOverStep ==
  ASSUME TypeOK, IInv, NEW i \in Ids, HandOver(i)
  PROVE  IInv'
<1> USE DEF TypeOK, TrackerTypeOK
<1>1. /\ UNCHANGED <<edges, counters>> /\ UNCHANGED <<tool, running, settling, listed, chosen, busy>>
      /\ Items' = Items
  BY DEF HandOver, MarkInProgress, Items
<1>2. waiting[i] = 1 /\ executing[i] = 0 /\ i \in running
  <2>1. waiting[i] > 0
    BY DEF HandOver
  <2> QED BY <2>1, OneFlight
<1>3. /\ waiting' = [waiting EXCEPT ![i] = 0]
      /\ executing' = [executing EXCEPT ![i] = 1]
  BY <1>2 DEF HandOver
<1>4. \/ status' = [status EXCEPT ![i] = "in_progress"]
      \/ status' = status
  BY DEF HandOver, MarkInProgress
<1>5. EdgesConsistent' /\ AutoIdFresh' /\ AllocatorInv' /\ ToolInv'
  BY <1>1, RunnerKeeps
<1>6. SingleFlight'
  BY <1>1, <1>2, <1>3 DEF IInv, SingleFlight
<1>7. InProgressOwned'
  BY <1>1, <1>3, <1>4 DEF IInv, InProgressOwned
<1>8. DispatchInv'
  BY <1>1 DEF IInv, DispatchInv
<1> QED BY <1>5, <1>6, <1>7, <1>8 DEF IInv

(* A coroutine that is over leaves _running; its task may still say that it is *)
(* in progress, because the result is in hand and not yet recorded.            *)
LEMMA DiscardStep ==
  ASSUME TypeOK, IInv, NEW i \in Ids, NEW r \in Verdicts,
         Finish(i, r) \/ (Refuse(i) /\ r = "failed")
  PROVE  /\ IInv'
         /\ waiting'[i] = 0 /\ executing'[i] = 0
         /\ \A j \in Ids \ {i} : waiting'[j] = waiting[j] /\ executing'[j] = executing[j]
<1> USE DEF TypeOK, TrackerTypeOK
<1>1. /\ Discard(i, r)
      /\ \/ waiting[i] > 0 /\ waiting' = [waiting EXCEPT ![i] = @ - 1] /\ executing' = executing
         \/ /\ executing[i] > 0 /\ executing' = [executing EXCEPT ![i] = @ - 1]
            /\ waiting' = waiting
  BY DEF Finish, Refuse
<1>2. /\ UNCHANGED <<trackerVars, tool, listed, chosen, busy>>
      /\ running' = running \ {i}
      /\ settling' = [settling EXCEPT ![i] = r]
  BY <1>1 DEF Discard
<1>3. Items' = Items
  BY <1>2 DEF trackerVars, Items
<1>4. waiting'[i] = 0 /\ executing'[i] = 0
  BY <1>1, OneFlight
<1>5. \A j \in Ids \ {i} : waiting'[j] = waiting[j] /\ executing'[j] = executing[j]
  BY <1>1
<1>6. EdgesConsistent' /\ AutoIdFresh' /\ AllocatorInv' /\ ToolInv'
  BY <1>2, <1>3, RunnerKeeps DEF trackerVars, edges, counters
<1>7. SingleFlight'
  BY <1>2, <1>4, <1>5 DEF IInv, SingleFlight
<1>8. InProgressOwned'
  BY <1>2, <1>5 DEF IInv, InProgressOwned, trackerVars, Verdicts
<1>9. DispatchInv'
  BY <1>2 DEF IInv, DispatchInv
<1> QED BY <1>4, <1>5, <1>6, <1>7, <1>8, <1>9 DEF IInv

LEMMA SettleStep ==
  ASSUME TypeOK, IInv, NEW i \in Ids, Settle(i)
  PROVE  IInv'
<1> USE DEF TypeOK, TrackerTypeOK
<1>1. /\ UNCHANGED <<edges, counters>>
      /\ UNCHANGED <<tool, running, waiting, executing, listed, chosen, busy>>
      /\ settling' = [settling EXCEPT ![i] = "no"]
  BY DEF Settle, RecordResult
<1>2. /\ status'[i] # "in_progress"
      /\ \A j \in Ids \ {i} : status'[j] = status[j]
      /\ status'[i] = "absent" <=> status[i] = "absent"
  BY DEF Settle, RecordResult
<1>3. Items' = Items
  BY <1>2 DEF Items
<1>4. EdgesConsistent' /\ AutoIdFresh' /\ AllocatorInv' /\ ToolInv'
  BY <1>1, <1>3, RunnerKeeps
<1>5. SingleFlight' /\ DispatchInv'
  BY <1>1 DEF IInv, SingleFlight, DispatchInv
<1>6. InProgressOwned'
  BY <1>1, <1>2 DEF IInv, InProgressOwned
<1> QED BY <1>4, <1>5, <1>6 DEF IInv

LEMMA RestartStep ==
  ASSUME TypeOK, IInv, Restart
  PROVE  IInv'
<1> USE DEF TypeOK, TrackerTypeOK
<1>1. Items' = Items
  BY DEF Restart, Reload, Items
<1>2. nextId' = nextId /\ maxIdEver' = maxIdEver /\ born' = born
  <2>1. PICK top \in {0} \cup (Items \cap Numbers) :
          maxIdEver' = Larger(maxIdEver, top) /\ nextId' = Larger(maxIdEver, top) + 1
    BY DEF Restart, Reload
  <2>2. top \in Nat /\ top <= maxIdEver
    BY <2>1, TrackerAssumption DEF IInv, AllocatorInv, AutoIdFresh, Numbers
  <2>3. Larger(maxIdEver, top) = maxIdEver
    BY <2>2 DEF Larger
  <2> QED BY <2>1, <2>3 DEF IInv, AllocatorInv, Restart, Reload
<1>3. EdgesConsistent' /\ AutoIdFresh' /\ AllocatorInv'
  BY <1>1, <1>2, SameItems DEF IInv, Restart, Reload, edges, counters
<1>4. \A i \in Ids : status'[i] # "in_progress"
  BY DEF Restart, Reload
<1>5. SingleFlight' /\ InProgressOwned' /\ DispatchInv'
  BY <1>4 DEF Restart, SingleFlight, InProgressOwned, DispatchInv
<1>6. ToolInv'
  BY DEF Restart, ToolInv, NoCall
<1> QED BY <1>3, <1>5, <1>6 DEF IInv

(* What the tools that edit the DAG leave of the invariant at once: they touch *)
(* no coroutine, and make no item in_progress.                                 *)
LEMMA EditKeeps ==
  ASSUME TypeOK, IInv, ToolStep, UNCHANGED <<runnerVars, busy>>
  PROVE  EdgesConsistent' /\ SingleFlight' /\ InProgressOwned' /\ DispatchInv'
<1> USE DEF TypeOK, TrackerTypeOK
<1>1. SingleFlight' /\ DispatchInv'
  BY DEF IInv, SingleFlight, DispatchInv, runnerVars, coroutineVars
<1>2. \A i \in Ids : status'[i] = "in_progress" => status[i] = "in_progress"
  <2>1. CASE ToolAdd
    BY <2>1 DEF ToolAdd, AddNamed, AddAuto, Insert
  <2>2. CASE \/ ToolUpdate \/ ToolStatus
             \/ \E i \in Ids : ToolUpdateCheck(i) \/ ToolDeleteCheck(i)
    BY <2>2 DEF ToolUpdate, UpdateItem, ToolStatus, ToolUpdateCheck, ToolDeleteCheck, trackerVars
  <2>3. CASE ToolReset \/ ToolDelete
    BY <2>3 DEF ToolReset, ToolDelete, ResetItem, MarkDeleted, Purge
  <2> QED BY <2>1, <2>2, <2>3 DEF ToolStep
<1>3. InProgressOwned'
  BY <1>2 DEF IInv, InProgressOwned, runnerVars, coroutineVars
<1> QED BY <1>1, <1>3, EdgesTool

(* add(): the id was absent, and lies below the allocator from now on. *)
LEMMA AddStep ==
  ASSUME TypeOK, IInv, ToolAdd, UNCHANGED <<runnerVars, busy>>
  PROVE  IInv'
<1> USE DEF TypeOK, TrackerTypeOK
<1>1. PICK deps \in SUBSET Items : (\E i \in Ids : AddNamed(i, deps)) \/ AddAuto(deps)
  BY DEF ToolAdd
<1>2. PICK i \in Ids : AddNamed(i, deps) \/ (AddAuto(deps) /\ i = nextId)
  BY <1>1 DEF AddAuto, Ids
<1>3. status[i] = "absent" /\ Insert(i, deps)
  BY <1>2, InsertedIsNew
<1>4. AutoIdFresh' /\ AllocatorInv'
  <2>1. Items' \subseteq Items \cup {i} /\ born' = born \cup ({i} \cap Numbers)
    BY <1>3 DEF Insert, Items
  <2>2. nextId' = maxIdEver' + 1 /\ nextId' >= nextId /\ (i \in Numbers => i < nextId')
    BY <1>2, TrackerAssumption DEF AddNamed, AddAuto, Larger, IInv, AllocatorInv, Numbers
  <2>3. \A n \in born : n \in Nat /\ n < nextId
    BY TrackerAssumption DEF IInv, AutoIdFresh, Numbers
  <2>4. nextId' \in Nat
    BY <1>2, TrackerAssumption DEF AddNamed, AddAuto, Larger, Numbers
  <2>5. AutoIdFresh'
    BY <2>1, <2>2, <2>3, <2>4 DEF AutoIdFresh
  <2> QED BY <2>1, <2>2, <2>5 DEF IInv, AllocatorInv
<1>5. ToolInv'
  BY DEF ToolAdd, ToolInv, NoCall
<1> QED BY <1>4, <1>5, EditKeeps DEF IInv, ToolStep

(* update() and delete(): the item of the call stays, whatever the runner does *)
(* to its status, until the call is over.                                      *)
LEMMA EditStep ==
  ASSUME TypeOK, IInv, ToolStep, ~ToolAdd, UNCHANGED <<runnerVars, busy>>
  PROVE  IInv'
<1> USE DEF TypeOK, TrackerTypeOK
<1>1. UNCHANGED counters /\ Items' \subseteq Items
      => AutoIdFresh' /\ AllocatorInv'
  BY DEF IInv, AutoIdFresh, AllocatorInv, counters
<1>2. UNCHANGED counters
  BY DEF ToolStep, ToolUpdateCheck, ToolDeleteCheck, ToolUpdate, UpdateItem, ToolStatus,
         ToolReset, ResetItem, ToolDelete, Purge, MarkDeleted, trackerVars, counters
<1>3. ASSUME NEW i \in Ids, ToolUpdateCheck(i) \/ ToolDeleteCheck(i)
      PROVE  Items' \subseteq Items /\ ToolInv'
  <2>1. UNCHANGED trackerVars /\ i \in Items
    BY <1>3 DEF ToolUpdateCheck, ToolDeleteCheck, Items, Mutable
  <2>2. Items' = Items
    BY <2>1 DEF trackerVars, Items
  <2>3. dependsOn[i] \subseteq Items \ {i}
    BY DEF IInv, EdgesConsistent
  <2>4. ToolInv'
    BY <1>3, <2>1, <2>2, <2>3 DEF ToolUpdateCheck, ToolDeleteCheck, ToolInv
  <2> QED BY <2>2, <2>4
<1>4. ASSUME ToolUpdate
      PROVE  Items' \subseteq Items /\ ToolInv'
  <2>1. tool.id \in Items
    BY <1>4 DEF ToolUpdate, IInv, ToolInv, NoCall
  <2>2. Items' = Items
    BY <1>4 DEF ToolUpdate, UpdateItem, Items
  <2> QED BY <1>4, <2>1, <2>2 DEF ToolUpdate, ToolInv
<1>5. ASSUME tool.op \in {"status", "reset"} /\ (ToolStatus \/ ToolReset)
      PROVE  Items' \subseteq Items /\ ToolInv'
  <2>1. tool.id \in Items /\ tool \in [op : {"status", "reset"}, id : Ids, deletes : BOOLEAN]
    BY <1>5 DEF IInv, ToolInv, NoCall, ToolCall
  <2>2. Items' = Items
    BY <1>5, <2>1 DEF ToolStatus, ToolReset, ResetItem, trackerVars, Items
  <2>3. tool' \in {NoCall, [op |-> "mark", id |-> tool.id], [tool EXCEPT !.op = "reset"]}
    BY <1>5 DEF ToolStatus, ToolReset, AfterReset
  <2>4. ToolInv'
    BY <2>1, <2>2, <2>3 DEF ToolInv, NoCall
  <2> QED BY <2>2, <2>4
<1>6. ASSUME ToolDelete
      PROVE  Items' \subseteq Items /\ ToolInv'
  <2>1. tool.id \in Items /\ tool' = NoCall
    BY <1>6 DEF ToolDelete, IInv, ToolInv, NoCall
  <2>2. Items' \subseteq Items
    BY <1>6, <2>1 DEF ToolDelete, Purge, MarkDeleted, Items
  <2> QED BY <2>1, <2>2 DEF ToolInv, NoCall
<1>7. Items' \subseteq Items /\ ToolInv'
  BY <1>3, <1>4, <1>5, <1>6 DEF ToolStep, ToolStatus, ToolReset
<1> QED BY <1>1, <1>2, <1>7, EditKeeps DEF IInv

(* The invariant of DagRunner holds in every reachable state. *)
THEOREM InductiveInvariant == Spec => []IInv
<1>1. Init => IInv
  BY DEF Init, TrackerInit, IInv, EdgesConsistent, SingleFlight, InProgressOwned,
         AutoIdFresh, AllocatorInv, ToolInv, DispatchInv, NoCall, Items
<1>2. TypeOK /\ IInv /\ [Next]_vars => IInv'
  <2> SUFFICES ASSUME TypeOK, IInv, [Next]_vars
               PROVE  IInv'
    OBVIOUS
  <2>1. CASE \/ RunnerDispatch \/ ToolDispatchReady \/ DispatchStep
             \/ \E i \in Ids : ToolDispatchTask(i)
    BY <2>1, DispatcherStep
  <2>2. CASE \E i \in Ids : HandOver(i)
    BY <2>2, HandOverStep
  <2>3. CASE \E i \in Ids : Refuse(i) \/ \E r \in Verdicts : Finish(i, r)
    BY <2>3, DiscardStep DEF Verdicts
  <2>4. CASE \E i \in Ids : Settle(i)
    BY <2>4, SettleStep
  <2>5. CASE ToolEdit
    BY <2>5, AddStep, EditStep DEF ToolEdit, ToolStep
  <2>6. CASE OrchestratorBegin \/ OrchestratorEnd \/ Pause \/ Resume \/ UNCHANGED vars
    <3>1. UNCHANGED <<trackerVars, tool, runnerVars>>
      BY <2>6 DEF OrchestratorBegin, OrchestratorEnd, Pause, Resume, vars
    <3>2. Items' = Items
      BY <3>1 DEF trackerVars, Items
    <3>3. EdgesConsistent' /\ AutoIdFresh' /\ AllocatorInv' /\ ToolInv'
      BY <3>1, <3>2, RunnerKeeps DEF trackerVars, edges, counters
    <3>4. SingleFlight' /\ InProgressOwned'
      BY <3>1 DEF IInv, SingleFlight, InProgressOwned, trackerVars, runnerVars, coroutineVars
    <3>5. listed # {} => busy'
      BY <2>6 DEF OrchestratorBegin, OrchestratorEnd, Dispatching, Pause, Resume, vars, IInv,
                  DispatchInv
    <3>6. DispatchInv'
      BY <3>1, <3>5 DEF IInv, DispatchInv, runnerVars, coroutineVars
    <3> QED BY <3>3, <3>4, <3>6 DEF IInv
  <2>7. CASE Restart
    BY <2>7, RestartStep
  <2> QED BY <2>1, <2>2, <2>3, <2>4, <2>5, <2>6, <2>7 DEF Next
<1> QED BY <1>1, <1>2, TypeCorrect, PTL DEF Spec

(* The DAG's two edge lists always agree and never dangle: the tracker's lock *)
(* protects them although the runner does not take it.                        *)
THEOREM EdgesAlwaysConsistent == Spec => []EdgesConsistent
<1>1. IInv => EdgesConsistent
  BY DEF IInv
<1> QED BY <1>1, InductiveInvariant, PTL

(* No task ever has two coroutines, nor one that _running does not list, *)
(* although the dispatch tools read the DAG and _running without a lock. *)
THEOREM NeverTwoFlights == Spec => []SingleFlight
<1>1. IInv => SingleFlight
  BY DEF IInv
<1> QED BY <1>1, InductiveInvariant, PTL

(* No task is in progress without a coroutine that will settle it. *)
THEOREM NoOrphanInProgress == Spec => []InProgressOwned
<1>1. IInv => InProgressOwned
  BY DEF IInv
<1> QED BY <1>1, InductiveInvariant, PTL

(* The allocator never reuses an id, across purges and restarts. *)
THEOREM AllocatorNeverReuses == Spec => []AutoIdFresh
<1>1. IInv => AutoIdFresh
  BY DEF IInv
<1> QED BY <1>1, InductiveInvariant, PTL

(* Only the result of a coroutine that handed its task over makes it completed. *)
THEOREM CompletionNeedsResult == Spec => CompletedByResult
<1>1. TypeOK /\ [Next]_vars =>
        [\A i \in Ids :
           /\ status[i] # "completed" /\ status'[i] = "completed" => settling[i] = "completed"
           /\ settling[i] # "completed" /\ settling'[i] = "completed"
                => executing[i] > 0 /\ executing'[i] < executing[i]]_vars
  <2> SUFFICES ASSUME TypeOK, [Next]_vars, NEW i \in Ids
               PROVE  /\ status[i] # "completed" /\ status'[i] = "completed"
                           => settling[i] = "completed"
                      /\ settling[i] # "completed" /\ settling'[i] = "completed"
                           => executing[i] > 0 /\ executing'[i] < executing[i]
    OBVIOUS
  <2> USE DEF TypeOK, TrackerTypeOK
  <2>1. CASE \/ RunnerDispatch \/ ToolDispatchReady \/ DispatchStep
             \/ \E j \in Ids : ToolDispatchTask(j)
    BY <2>1 DEF RunnerDispatch, ToolDispatchReady, ToolDispatchTask, DispatchStep, NoSlots,
                KeepIdle, DispatchOne, trackerVars, coroutineVars
  <2>2. CASE \E j \in Ids : HandOver(j)
    BY <2>2 DEF HandOver, MarkInProgress
  <2>3. CASE \E j \in Ids, r \in Verdicts : Finish(j, r)
    <3>1. PICK j \in Ids, r \in Verdicts : Finish(j, r)
      BY <2>3
    <3>2. UNCHANGED status /\ settling' = [settling EXCEPT ![j] = r]
      BY <3>1 DEF Finish, Discard, trackerVars
    <3> QED BY <3>1, <3>2 DEF Finish
  <2>4. CASE \E j \in Ids : Refuse(j)
    BY <2>4 DEF Refuse, Discard, trackerVars
  <2>5. CASE \E j \in Ids : Settle(j)
    BY <2>5 DEF Settle, RecordResult
  <2>6. CASE ToolEdit
    <3>1. settling' = settling
      BY <2>6 DEF ToolEdit, runnerVars, coroutineVars
    <3>2. CASE ToolAdd
      BY <3>1, <3>2 DEF ToolAdd, AddNamed, AddAuto, Insert
    <3>3. CASE ToolStatus \/ \E j \in Ids : ToolUpdateCheck(j) \/ ToolDeleteCheck(j)
      BY <3>1, <3>3 DEF ToolStatus, ToolUpdateCheck, ToolDeleteCheck, trackerVars
    <3>4. CASE ToolUpdate \/ ToolReset \/ ToolDelete
      BY <3>1, <3>4 DEF ToolUpdate, ToolReset, ToolDelete, UpdateItem, ResetItem, Purge,
                        MarkDeleted
    <3> QED BY <2>6, <3>2, <3>3, <3>4 DEF ToolEdit, ToolStep
  <2>7. CASE OrchestratorBegin \/ OrchestratorEnd \/ Pause \/ Resume \/ UNCHANGED vars
    BY <2>7 DEF OrchestratorBegin, OrchestratorEnd, Pause, Resume, vars, trackerVars, runnerVars,
                coroutineVars
  <2>8. CASE Restart
    BY <2>8 DEF Restart, Reload
  <2> QED BY <2>1, <2>2, <2>3, <2>4, <2>5, <2>6, <2>7, <2>8 DEF Next
<1> QED BY <1>1, TypeCorrect, PTL DEF Spec, CompletedByResult

---------------------------------------------------------------------------
(* Refinement *)

(* A tool's step is one step of the lifecycle, or none. *)
LEMMA ToolRefines ==
  ASSUME TypeOK, IInv, ToolEdit
  PROVE  [Lifecycle!Next]_Lifecycle!vars
<1> USE DEF TypeOK, TrackerTypeOK
<1>1. UNCHANGED <<waiting, executing, settling, listed, chosen>>
  BY DEF ToolEdit, runnerVars, coroutineVars
<1> USE DEF Lifecycle!work, Lifecycle!edits
<1>2. CASE ToolAdd
  <2>1. PICK deps \in SUBSET Items : (\E i \in Ids : AddNamed(i, deps)) \/ AddAuto(deps)
    BY <1>2 DEF ToolAdd
  <2>2. PICK i \in Ids : AddNamed(i, deps) \/ (AddAuto(deps) /\ i = nextId)
    BY <2>1 DEF AddAuto, Ids
  <2>3. status[i] = "absent" /\ status' = [status EXCEPT ![i] = "pending"]
    BY <2>2, InsertedIsNew DEF Insert
  <2>4. Lifecycle!Create(i)
    BY <1>1, <1>2, <2>3 DEF Lifecycle!Create, ToolAdd
  <2> QED BY <2>4 DEF Lifecycle!Next
<1>3. ASSUME NEW i \in Ids, ToolUpdateCheck(i)
      PROVE  [Lifecycle!Next]_Lifecycle!vars
  BY <1>1, <1>3 DEF ToolUpdateCheck, trackerVars, Lifecycle!vars, NoCall
<1>4. ASSUME NEW i \in Ids, ToolDeleteCheck(i)
      PROVE  [Lifecycle!Next]_Lifecycle!vars
  <2>1. Lifecycle!Retract(i)
    BY <1>1, <1>4 DEF ToolDeleteCheck, trackerVars, Lifecycle!Retract, NoCall, Mutable
  <2> QED BY <2>1 DEF Lifecycle!Next
<1>5. CASE ToolUpdate
  BY <1>1, <1>5 DEF ToolUpdate, UpdateItem, Lifecycle!vars
<1>6. CASE tool.op \in {"status", "reset"} /\ (ToolStatus \/ ToolReset)
  <2>1. tool \in [op : {"status", "reset"}, id : Ids, deletes : BOOLEAN]
    BY <1>6 DEF ToolCall, NoCall
  <2>2. CASE ToolStatus /\ status[tool.id] = "failed"
    <3>1. tool' = [op |-> "reset", id |-> tool.id, deletes |-> tool.deletes]
      BY <2>1, <2>2 DEF ToolStatus
    <3>2. Lifecycle!Reconsider(tool.id)
      BY <1>1, <2>1, <2>2, <3>1 DEF ToolStatus, trackerVars, Lifecycle!Reconsider
    <3> QED BY <2>1, <3>2 DEF Lifecycle!Next
  <2>3. CASE ToolStatus /\ status[tool.id] # "failed"
    BY <1>1, <2>1, <2>3 DEF ToolStatus, AfterReset, NoCall, trackerVars, Lifecycle!vars
  <2>4. CASE ToolReset
    <3>1. Lifecycle!Reopen(tool.id)
      BY <1>1, <2>1, <2>4 DEF ToolReset, ResetItem, AfterReset, NoCall, Lifecycle!Reopen
    <3> QED BY <2>1, <3>1 DEF Lifecycle!Next
  <2> QED BY <1>6, <2>2, <2>3, <2>4
<1>7. CASE ToolDelete
  <2>1. tool.op \in {"mark", "purge"} /\ tool' = NoCall /\ tool.id \in Ids
    BY <1>7 DEF ToolDelete, IInv, ToolInv, Items, NoCall
  <2>2. PICK how \in {"absent", "deleted"} : status' = [status EXCEPT ![tool.id] = how]
    BY <1>7 DEF ToolDelete, Purge, MarkDeleted
  <2>3. Lifecycle!Remove(tool.id, how)
    BY <1>1, <2>1, <2>2 DEF Lifecycle!Remove, NoCall
  <2> QED BY <2>1, <2>3 DEF Lifecycle!Next
<1> QED
  BY <1>2, <1>3, <1>4, <1>5, <1>6, <1>7 DEF ToolEdit, ToolStep, ToolStatus, ToolReset

(* A dispatcher wants what it saw pending, and offers what it found idle. *)
LEMMA DispatchRefines ==
  ASSUME TypeOK, IInv,
         \/ RunnerDispatch \/ ToolDispatchReady \/ DispatchStep
         \/ \E i \in Ids : ToolDispatchTask(i)
  PROVE  [Lifecycle!Next]_Lifecycle!vars
<1> USE DEF TypeOK, TrackerTypeOK, Lifecycle!work, Lifecycle!edits
<1>1. Dispatchable \in SUBSET Ids /\ \A i \in Dispatchable : status[i] = "pending"
  BY DEF Dispatchable, Ready
<1>2. UNCHANGED <<status, tool, executing, settling>>
  BY DEF RunnerDispatch, ToolDispatchReady, ToolDispatchTask, DispatchStep, NoSlots, KeepIdle,
         DispatchOne, coroutineVars, trackerVars
<1>3. CASE RunnerDispatch
  <2>1. listed = {} /\ chosen = {}
    BY <1>3 DEF RunnerDispatch, LoopFree, Dispatching
  <2>2. Lifecycle!Want(Dispatchable \ running)
    BY <1>1, <1>2, <1>3, <2>1 DEF RunnerDispatch, coroutineVars, Lifecycle!Want
  <2> QED BY <1>1, <2>2 DEF Lifecycle!Next
<1>4. CASE ToolDispatchReady
  <2>1. listed = {} /\ chosen = {}
    BY <1>4 DEF ToolDispatchReady, Dispatching
  <2>2. Lifecycle!Want(Dispatchable)
    BY <1>1, <1>2, <1>4, <2>1 DEF ToolDispatchReady, coroutineVars, Lifecycle!Want
  <2> QED BY <1>1, <2>2 DEF Lifecycle!Next
<1>5. ASSUME NEW i \in Ids, ToolDispatchTask(i)
      PROVE  [Lifecycle!Next]_Lifecycle!vars
  <2>1. listed = {} /\ chosen = {}
    BY <1>5 DEF ToolDispatchTask, Dispatching
  <2>2. Lifecycle!Want({i})
    BY <1>1, <1>2, <1>5, <2>1 DEF ToolDispatchTask, coroutineVars, Lifecycle!Want
  <2> QED BY <2>2 DEF Lifecycle!Next
<1>6. ASSUME NEW i \in Ids, KeepIdle(i)
      PROVE  [Lifecycle!Next]_Lifecycle!vars
  <2>1. UNCHANGED waiting
    BY <1>6 DEF KeepIdle, coroutineVars
  <2>2. CASE i \in running
    <3>1. i \notin chosen
      BY <2>2 DEF IInv, DispatchInv
    <3>2. Lifecycle!LetGo({i})
      BY <1>2, <1>6, <2>1, <2>2, <3>1 DEF KeepIdle, Lifecycle!LetGo
    <3> QED BY <3>2 DEF Lifecycle!Next
  <2>3. CASE i \notin running
    <3>1. listed' \cup chosen' = listed \cup chosen
      BY <1>6, <2>3 DEF KeepIdle
    <3> QED BY <1>2, <2>1, <3>1 DEF Lifecycle!vars
  <2> QED BY <2>2, <2>3
<1>7. ASSUME NEW i \in Ids, DispatchOne(i)
      PROVE  [Lifecycle!Next]_Lifecycle!vars
  <2>1. waiting[i] = 0 /\ executing[i] = 0
    BY <1>7, OneFlight DEF DispatchOne, IInv, DispatchInv
  <2>2. {j \in Ids : waiting'[j] > 0} = {j \in Ids : waiting[j] > 0} \cup {i}
    BY <1>7, <2>1 DEF DispatchOne
  <2>3. listed' \cup chosen' = (listed \cup chosen) \ {i}
    BY <1>7 DEF DispatchOne
  <2>4. Lifecycle!Offer(i)
    BY <1>2, <1>7, <2>1, <2>2, <2>3 DEF DispatchOne, Lifecycle!Offer
  <2> QED BY <2>4 DEF Lifecycle!Next
<1>8. CASE NoSlots
  <2>1. Lifecycle!LetGo(chosen)
    BY <1>2, <1>8 DEF NoSlots, coroutineVars, Lifecycle!LetGo
  <2> QED BY <2>1 DEF Lifecycle!Next
<1> QED BY <1>3, <1>4, <1>5, <1>6, <1>7, <1>8 DEF DispatchStep

LEMMA HandOverRefines ==
  ASSUME TypeOK, IInv, NEW i \in Ids, HandOver(i)
  PROVE  Lifecycle!Next
<1> USE DEF TypeOK, TrackerTypeOK, Lifecycle!edits
<1>1. waiting[i] = 1 /\ executing[i] = 0
  <2>1. waiting[i] > 0
    BY DEF HandOver
  <2> QED BY <2>1, OneFlight
<1>2. {j \in Ids : waiting'[j] > 0} = {j \in Ids : waiting[j] > 0} \ {i}
  BY <1>1 DEF HandOver
<1>3. {j \in Ids : executing'[j] > 0} = {j \in Ids : executing[j] > 0} \cup {i}
  BY <1>1 DEF HandOver
<1>4. status' = [status EXCEPT ![i] = IF @ = "absent" THEN @ ELSE "in_progress"]
  BY DEF HandOver, MarkInProgress, Items
<1>5. UNCHANGED <<tool, settling, listed, chosen>> /\ waiting[i] > 0
  BY DEF HandOver
<1>6. Lifecycle!Take(i)
  BY <1>2, <1>3, <1>4, <1>5 DEF Lifecycle!Take
<1> QED BY <1>6 DEF Lifecycle!Next

LEMMA DiscardRefines ==
  ASSUME TypeOK, IInv, NEW i \in Ids, NEW r \in Verdicts,
         Finish(i, r) \/ (Refuse(i) /\ r = "failed")
  PROVE  Lifecycle!Next
<1> USE DEF TypeOK, TrackerTypeOK, Lifecycle!edits
<1>1. Discard(i, r) /\ LoopFree
  BY DEF Finish, Refuse
<1>2. UNCHANGED <<status, tool, listed, chosen>> /\ settling' = [settling EXCEPT ![i] = r]
  BY <1>1 DEF Discard, trackerVars
<1>3. /\ {j \in Ids : waiting'[j] > 0} = {j \in Ids : waiting[j] > 0} \ {i}
      /\ {j \in Ids : executing'[j] > 0} = {j \in Ids : executing[j] > 0} \ {i}
  BY DiscardStep
<1>4. \/ executing[i] > 0
      \/ waiting[i] > 0 /\ r = "failed"
  BY DEF Finish, Refuse
<1>5. r # "no" /\ r \in {"completed", "failed"}
  BY DEF Verdicts
<1>6. {<<j, settling'[j]>> : j \in {k \in Ids : settling'[k] # "no"}}
        = {<<j, settling[j]>> : j \in {k \in Ids : settling[k] # "no"}} \cup {<<i, r>>}
  BY <1>1, <1>2, <1>5 DEF LoopFree
<1>7. Lifecycle!End(i, r)
  BY <1>2, <1>3, <1>4, <1>6 DEF Lifecycle!End
<1> QED BY <1>5, <1>7 DEF Lifecycle!Next

LEMMA SettleRefines ==
  ASSUME TypeOK, IInv, NEW i \in Ids, Settle(i)
  PROVE  Lifecycle!Next
<1> USE DEF TypeOK, TrackerTypeOK, Lifecycle!edits
<1>1. PICK r \in {"completed", "failed"} : r = settling[i]
  BY DEF Settle, Verdicts
<1>2. /\ UNCHANGED <<tool, waiting, executing, listed, chosen>>
      /\ settling' = [settling EXCEPT ![i] = "no"]
  BY DEF Settle
<1>3. status' = [status EXCEPT ![i] = IF @ = "absent" THEN @ ELSE r]
  BY <1>1 DEF Settle, RecordResult
<1>4. {<<j, settling'[j]>> : j \in {k \in Ids : settling'[k] # "no"}}
        = {<<j, settling[j]>> : j \in {k \in Ids : settling[k] # "no"}} \ {<<i, r>>}
  BY <1>1, <1>2
<1>5. <<i, r>> \in {<<j, settling[j]>> : j \in {k \in Ids : settling[k] # "no"}}
  BY <1>1
<1>6. Lifecycle!Conclude(i, r)
  BY <1>2, <1>3, <1>4, <1>5 DEF Lifecycle!Conclude
<1> QED BY <1>1, <1>6 DEF Lifecycle!Next

(* The DAG with its tools and its runner implements the abstract lifecycle, *)
(* stale dispatches, edits and results included.                            *)
THEOREM ImplementsLifecycle == Spec => LifecycleImplemented
<1>1. Init => Lifecycle!Init
  BY DEF Init, TrackerInit, NoCall, Lifecycle!Init
<1>2. TypeOK /\ IInv /\ [Next]_vars => [Lifecycle!Next]_Lifecycle!vars
  <2> SUFFICES ASSUME TypeOK, IInv, [Next]_vars
               PROVE  [Lifecycle!Next]_Lifecycle!vars
    OBVIOUS
  <2>1. CASE \/ RunnerDispatch \/ ToolDispatchReady \/ DispatchStep
             \/ \E i \in Ids : ToolDispatchTask(i)
    BY <2>1, DispatchRefines
  <2>2. CASE \E i \in Ids : HandOver(i)
    BY <2>2, HandOverRefines
  <2>3. CASE \E i \in Ids : Refuse(i) \/ \E r \in Verdicts : Finish(i, r)
    BY <2>3, DiscardRefines DEF Verdicts
  <2>4. CASE \E i \in Ids : Settle(i)
    BY <2>4, SettleRefines
  <2>5. CASE ToolEdit
    BY <2>5, ToolRefines
  <2>6. CASE OrchestratorBegin \/ OrchestratorEnd \/ Pause \/ Resume \/ UNCHANGED vars
    <3>1. UNCHANGED <<status, waiting, executing, settling, listed, chosen, tool>>
      BY <2>6 DEF OrchestratorBegin, OrchestratorEnd, Pause, Resume, vars, trackerVars, runnerVars,
                  coroutineVars
    <3> QED BY <3>1 DEF Lifecycle!vars, Lifecycle!work, Lifecycle!edits
  <2>7. CASE Restart
    <3>1. Lifecycle!Recover
      BY <2>7 DEF Restart, Reload, NoCall, Lifecycle!Recover
    <3> QED BY <3>1 DEF Lifecycle!Next
  <2> QED BY <2>1, <2>2, <2>3, <2>4, <2>5, <2>6, <2>7 DEF Next
<1> QED BY <1>1, <1>2, TypeCorrect, InductiveInvariant, PTL
        DEF Spec, LifecycleImplemented, Lifecycle!Spec

---------------------------------------------------------------------------
(* Agents that race for a task *)

LockTyped ==
  /\ stage \in [Agents -> Stages]
  /\ waiters \in Seq(Agents)
  /\ woken \subseteq Agents
  /\ locked \in BOOLEAN

LockIInv == LockTyped /\ LockInv

\* The variables the lock does not have.
DataTyped ==
  /\ serving \in BOOLEAN
  /\ result \in [Runs -> Results]
  /\ team \in [Runs -> SUBSET Agents]
  /\ stage \in [Agents -> Stages]
  /\ tries \in [Agents -> 0..MaxTries]
  /\ cancelled \subseteq Agents
  /\ counter \in Nat
  /\ pending \subseteq Requests
  /\ sending \subseteq Requests
  /\ queue \subseteq Requests
  /\ answers \subseteq [request : Requests, merged : BOOLEAN]
  /\ landed \subseteq Requests
  /\ orphans \subseteq Agents
  /\ restarts \in 0..MaxRestarts

IsOpen(r) == result[r] \in Open

\* Agents at work belong to one open run, and agents of an open run are at work.
TeamsInv ==
  /\ \A a \in Agents : stage[a] # "idle" => \E r \in Runs : IsOpen(r) /\ a \in team[r]
  /\ \A r \in Runs : IsOpen(r) => \A a \in team[r] : stage[a] # "idle"
  /\ \A r, s \in Runs : IsOpen(r) /\ IsOpen(s) /\ r # s => team[r] \cap team[s] = {}

\* A verdict on its way is true of what landed.
LandedInv ==
  /\ \A m \in answers : m.merged => m.request \in landed
  /\ MergedHasLanded

Inv == LockIInv /\ DataTyped /\ TeamsInv /\ LandedInv

\* RemoveAt of the community modules keeps the order of what is left.
LEMMA RemoveAtElements ==
  ASSUME NEW S, NEW s \in Seq(S), NEW k \in DOMAIN s
  PROVE  /\ RemoveAt(s, k) \in Seq(S)
         /\ Len(RemoveAt(s, k)) = Len(s) - 1
         /\ \A i \in 1..(Len(s) - 1) :
              RemoveAt(s, k)[i] = IF i < k THEN s[i] ELSE s[i + 1]
<1>1. k \in 1..Len(s) /\ Len(s) \in Nat
  OBVIOUS
<1>2. SubSeq(s, 1, k - 1) \in Seq(S) /\ SubSeq(s, k + 1, Len(s)) \in Seq(S)
  BY <1>1
<1>3. Len(SubSeq(s, 1, k - 1)) = k - 1 /\ Len(SubSeq(s, k + 1, Len(s))) = Len(s) - k
  BY <1>1
<1>4. RemoveAt(s, k) = SubSeq(s, 1, k - 1) \o SubSeq(s, k + 1, Len(s))
  BY <1>1 DEF RemoveAt
<1>5. /\ RemoveAt(s, k) \in Seq(S)
      /\ Len(RemoveAt(s, k)) = (k - 1) + (Len(s) - k)
      /\ \A i \in 1..((k - 1) + (Len(s) - k)) :
           RemoveAt(s, k)[i] = IF i <= k - 1 THEN SubSeq(s, 1, k - 1)[i]
                               ELSE SubSeq(s, k + 1, Len(s))[i - (k - 1)]
  <2> DEFINE before == SubSeq(s, 1, k - 1)
             behind == SubSeq(s, k + 1, Len(s))
  <2>1. before \in Seq(S) /\ behind \in Seq(S)
    BY <1>2
  <2>2. Len(before) = k - 1 /\ Len(behind) = Len(s) - k /\ RemoveAt(s, k) = before \o behind
    BY <1>3, <1>4
  <2> HIDE DEF before, behind
  <2>3. /\ before \o behind \in Seq(S)
        /\ Len(before \o behind) = Len(before) + Len(behind)
        /\ \A i \in 1..(Len(before) + Len(behind)) :
             (before \o behind)[i] = IF i <= Len(before) THEN before[i] ELSE behind[i - Len(before)]
    BY <2>1, ConcatProperties
  <2>4. QED BY <2>2, <2>3 DEF before, behind
<1>6. ASSUME NEW i \in 1..(Len(s) - 1)
      PROVE  RemoveAt(s, k)[i] = IF i < k THEN s[i] ELSE s[i + 1]
  <2>1. CASE i < k
    <3>1. SubSeq(s, 1, k - 1)[i] = s[i]
      BY <2>1, <1>1
    <3>. QED
      BY <2>1, <3>1, <1>1, <1>5
  <2>2. CASE ~(i < k)
    <3>1. SubSeq(s, k + 1, Len(s))[i - (k - 1)] = s[i + 1]
      BY <2>2, <1>1
    <3>. QED
      BY <2>2, <3>1, <1>1, <1>5
  <2>. QED
    BY <2>1, <2>2
<1>. QED
  BY <1>1, <1>5, <1>6

\* A waiter leaves the queue: the others keep their order, and the first stays
\* the first unless it is the one that leaves.
LEMMA DequeueElements ==
  ASSUME LockIInv, NEW a \in Agents, Dequeue(a)
  PROVE  /\ waiters # <<>>
         /\ waiters' \in Seq(Agents)
         /\ \A i \in DOMAIN waiters' : \E k \in DOMAIN waiters :
              waiters'[i] = waiters[k] /\ waiters[k] # a
         /\ \A i, j \in DOMAIN waiters' : waiters'[i] = waiters'[j] => i = j
         /\ Head(waiters) # a => waiters' # <<>> /\ Head(waiters') = Head(waiters)
<1>1. PICK k \in DOMAIN waiters : waiters[k] = a /\ waiters' = RemoveAt(waiters, k)
  BY DEF Dequeue
<1>2. waiters \in Seq(Agents)
  BY DEF LockIInv, LockTyped
<1>3. /\ waiters' \in Seq(Agents)
      /\ Len(waiters') = Len(waiters) - 1
      /\ \A i \in 1..(Len(waiters) - 1) :
           waiters'[i] = IF i < k THEN waiters[i] ELSE waiters[i + 1]
  BY <1>1, <1>2, RemoveAtElements
<1>4. \A i, j \in DOMAIN waiters : waiters[i] = waiters[j] => i = j
  BY DEF LockIInv, LockInv
<1>5. DOMAIN waiters = 1..Len(waiters) /\ DOMAIN waiters' = 1..Len(waiters')
      /\ Len(waiters) \in Nat /\ k \in 1..Len(waiters)
  BY <1>1, <1>2, <1>3
<1>6. \A i \in DOMAIN waiters' : \E m \in DOMAIN waiters :
        waiters'[i] = waiters[m] /\ m # k
  <2>. TAKE i \in DOMAIN waiters'
  <2>1. CASE i < k
    BY <2>1, <1>3, <1>5
  <2>2. CASE ~(i < k)
    <3>1. i + 1 \in DOMAIN waiters /\ i + 1 # k /\ waiters'[i] = waiters[i + 1]
      BY <2>2, <1>3, <1>5
    <3>. QED
      BY <3>1
  <2>. QED
    BY <2>1, <2>2
<1>7. \A i, j \in DOMAIN waiters' : waiters'[i] = waiters'[j] => i = j
  <2>. SUFFICES ASSUME NEW i \in DOMAIN waiters', NEW j \in DOMAIN waiters',
                       waiters'[i] = waiters'[j]
                PROVE  i = j
    OBVIOUS
  <2>1. waiters[IF i < k THEN i ELSE i + 1] = waiters[IF j < k THEN j ELSE j + 1]
    BY <1>3, <1>5
  <2>2. (IF i < k THEN i ELSE i + 1) = (IF j < k THEN j ELSE j + 1)
    BY <2>1, <1>4, <1>5, <1>3
  <2>. QED
    BY <2>2, <1>5, <1>3
<1>8. Head(waiters) # a => waiters' # <<>> /\ Head(waiters') = Head(waiters)
  <2>. SUFFICES ASSUME Head(waiters) # a
                PROVE  waiters' # <<>> /\ Head(waiters') = Head(waiters)
    OBVIOUS
  <2>1. k # 1
    BY <1>1, <1>2, <1>5
  <2>2. Len(waiters') >= 1 /\ waiters'[1] = waiters[1]
    BY <2>1, <1>3, <1>5
  <2>. QED
    BY <2>2, <1>2, <1>3, <1>5
<1>. QED
  BY <1>1, <1>2, <1>3, <1>4, <1>5, <1>6, <1>7, <1>8

\* Waking the first of a queue: at most one agent has the wake-up, and if nobody
\* has it the first is one that was cancelled and will pass it on.
LEMMA WakeFirstWakes ==
  ASSUME NEW left \in Seq(Agents), NEW others, WakeFirst(left, others),
         others # {} => left # <<>> /\ others = {Head(left)}
  PROVE  /\ woken' # {} => left # <<>> /\ woken' = {Head(left)}
         /\ left # <<>> => Head(left) \in woken' \cup cancelled
         /\ woken' \subseteq Agents
<1>1. left # <<>> => Head(left) \in Agents
  OBVIOUS
<1>. QED
  BY <1>1 DEF WakeFirst

\* A step that lets every agent wait or submit as before leaves the lock as it
\* is, as long as no waiter's cancellation is forgotten.
LEMMA OffTheLock ==
  ASSUME LockIInv, UNCHANGED lockVars, stage' \in [Agents -> Stages],
         \A a \in Agents : /\ stage'[a] = "waiting" <=> stage[a] = "waiting"
                           /\ stage'[a] = "submitted" <=> stage[a] = "submitted"
                           /\ stage[a] = "waiting" /\ a \in cancelled => a \in cancelled'
  PROVE  LockIInv'
<1>1. LockTyped'
  BY DEF LockIInv, LockTyped, lockVars
<1>2. \A k \in DOMAIN waiters : waiters[k] \in Agents /\ stage[waiters[k]] = "waiting"
  BY DEF LockIInv, LockTyped, LockInv
<1>3. OneSubmitter'
  BY DEF LockIInv, LockInv, OneSubmitter, lockVars
<1>4. NoLostWakeup'
  <2>1. waiters # <<>> => Head(waiters) \in Agents /\ stage[Head(waiters)] = "waiting"
    BY <1>2 DEF LockIInv, LockTyped
  <2>. QED
    BY <2>1 DEF LockIInv, LockInv, NoLostWakeup, lockVars
<1>5. /\ \A k \in DOMAIN waiters' : stage'[waiters'[k]] = "waiting"
      /\ \A j, k \in DOMAIN waiters' : waiters'[j] = waiters'[k] => j = k
      /\ woken' # {} => ~locked' /\ waiters' # <<>> /\ woken' = {Head(waiters')}
  BY <1>2 DEF LockIInv, LockInv, lockVars
<1>. QED
  BY <1>1, <1>3, <1>4, <1>5 DEF LockIInv, LockInv

\* The submitter lets the lock go, and does not queue again in the same step.
LEMMA ReleaseKeeps ==
  ASSUME LockIInv, NEW a \in Agents, stage[a] = "submitted", Release,
         NEW s \in Stages \ {"waiting", "submitted"}, stage' = [stage EXCEPT ![a] = s],
         \A b \in Agents : stage[b] = "waiting" /\ b \in cancelled => b \in cancelled'
  PROVE  LockIInv'
<1>1. locked /\ woken = {} /\ waiters \in Seq(Agents) /\ waiters' = waiters /\ locked' = FALSE
  BY DEF LockIInv, LockTyped, LockInv, OneSubmitter, Release
<1>2. WakeFirst(waiters, woken)
  BY DEF Release
<1>3. /\ woken' # {} => waiters # <<>> /\ woken' = {Head(waiters)}
      /\ waiters # <<>> => Head(waiters) \in woken' \cup cancelled
      /\ woken' \subseteq Agents
  BY <1>1, <1>2, WakeFirstWakes
<1>4. stage' \in [Agents -> Stages] /\ \A b \in Agents : b # a => stage'[b] = stage[b]
  BY DEF LockIInv, LockTyped
<1>5. LockTyped'
  BY <1>1, <1>3, <1>4 DEF LockTyped
<1>6. \A k \in DOMAIN waiters : waiters[k] \in Agents /\ stage[waiters[k]] = "waiting"
  BY DEF LockIInv, LockTyped, LockInv
<1>7. OneSubmitter'
  BY <1>1, <1>4 DEF LockIInv, LockTyped, LockInv, OneSubmitter
<1>8. NoLostWakeup'
  <2>1. waiters # <<>> => Head(waiters) \in Agents /\ stage[Head(waiters)] = "waiting"
    BY <1>6, <1>1
  <2>. QED
    BY <2>1, <1>1, <1>3 DEF NoLostWakeup
<1>9. /\ \A k \in DOMAIN waiters' : stage'[waiters'[k]] = "waiting"
      /\ \A j, k \in DOMAIN waiters' : waiters'[j] = waiters'[k] => j = k
  BY <1>1, <1>4, <1>6 DEF LockIInv, LockInv
<1>. QED
  BY <1>1, <1>3, <1>5, <1>7, <1>8, <1>9 DEF LockIInv, LockInv

\* A waiter that is cancelled leaves the queue, and passes a wake-up on.
LEMMA LeaveQueueKeeps ==
  ASSUME LockIInv, NEW a \in Agents, stage[a] = "waiting", LeaveQueue(a),
         stage' = [stage EXCEPT ![a] = "cancelled"], cancelled' = cancelled \ {a}
  PROVE  LockIInv'
<1>1. Dequeue(a) /\ locked' = locked
  BY DEF LeaveQueue
<1>2. /\ waiters # <<>>
      /\ waiters' \in Seq(Agents)
      /\ \A i \in DOMAIN waiters' : \E k \in DOMAIN waiters :
           waiters'[i] = waiters[k] /\ waiters[k] # a
      /\ \A i, j \in DOMAIN waiters' : waiters'[i] = waiters'[j] => i = j
      /\ Head(waiters) # a => waiters' # <<>> /\ Head(waiters') = Head(waiters)
  BY <1>1, DequeueElements
<1>3. stage' \in [Agents -> Stages] /\ \A b \in Agents : b # a => stage'[b] = stage[b]
  BY DEF LockIInv, LockTyped, Stages
<1>4. \A i \in DOMAIN waiters' :
        waiters'[i] \in Agents \ {a} /\ stage'[waiters'[i]] = "waiting"
  BY <1>2, <1>3 DEF LockIInv, LockTyped, LockInv
<1>5. /\ woken' # {} => ~locked' /\ waiters' # <<>> /\ woken' = {Head(waiters')}
      /\ ~locked' /\ waiters' # <<>> => Head(waiters') \in woken' \cup cancelled
      /\ woken' \subseteq Agents
  <2>1. CASE locked
    BY <2>1, <1>1 DEF LockIInv, LockInv, LeaveQueue
  <2>2. CASE ~locked
    <3>1. WakeFirst(waiters', woken \ {a})
      BY <2>2 DEF LeaveQueue
    <3>2. woken \ {a} # {} => waiters' # <<>> /\ woken \ {a} = {Head(waiters')}
      BY <1>2 DEF LockIInv, LockInv
    <3>. QED
      BY <2>2, <3>1, <3>2, <1>1, <1>2, WakeFirstWakes
  <2>. QED
    BY <2>1, <2>2
<1>6. LockTyped'
  BY <1>1, <1>2, <1>3, <1>5 DEF LockIInv, LockTyped
<1>7. OneSubmitter'
  BY <1>1, <1>3 DEF LockIInv, LockTyped, LockInv, OneSubmitter
<1>8. NoLostWakeup'
  <2>1. waiters' # <<>> => Head(waiters') \in Agents \ {a}
    BY <1>4, <1>2
  <2>. QED
    BY <2>1, <1>5 DEF NoLostWakeup
<1>. QED
  BY <1>2, <1>4, <1>5, <1>6, <1>7, <1>8 DEF LockIInv, LockInv

\* An agent that is not waiting yet asks for the lock.
LEMMA AskLockKeeps ==
  ASSUME LockIInv, NEW a \in Agents, AskLock(a)
  PROVE  LockIInv'
<1>1. stage[a] = "working" /\ cancelled' = cancelled
  BY DEF AskLock
<1>2. \A k \in DOMAIN waiters : waiters[k] \in Agents \ {a} /\ stage[waiters[k]] = "waiting"
  BY <1>1 DEF LockIInv, LockTyped, LockInv
<1>3. waiters # <<>> => Head(waiters) = waiters[1] /\ 1 \in DOMAIN waiters
  BY DEF LockIInv, LockTyped
<1>4. CASE /\ ~locked
           /\ \A k \in DOMAIN waiters : waiters[k] \in cancelled \ woken
           /\ Submit(a)
           /\ UNCHANGED <<waiters, woken>>
  <2>1. locked' = TRUE /\ stage' = [stage EXCEPT ![a] = "submitted"]
        /\ waiters' = waiters /\ woken' = woken
    BY <1>4 DEF Submit
  <2>2. woken = {}
    BY <1>3, <1>4 DEF LockIInv, LockInv
  <2>3. stage' \in [Agents -> Stages] /\ stage'[a] = "submitted"
        /\ \A b \in Agents : b # a => stage'[b] = stage[b]
    BY <2>1 DEF LockIInv, LockTyped, Stages
  <2>4. LockTyped'
    BY <2>1, <2>3 DEF LockIInv, LockTyped
  <2>5. OneSubmitter'
    BY <1>4, <2>1, <2>3 DEF LockIInv, LockInv, OneSubmitter
  <2>6. NoLostWakeup'
    BY <2>1 DEF NoLostWakeup
  <2>7. /\ \A k \in DOMAIN waiters' : stage'[waiters'[k]] = "waiting"
        /\ \A j, k \in DOMAIN waiters' : waiters'[j] = waiters'[k] => j = k
    BY <1>2, <2>1, <2>3 DEF LockIInv, LockInv
  <2>. QED
    BY <2>1, <2>2, <2>4, <2>5, <2>6, <2>7 DEF LockIInv, LockInv
<1>5. CASE /\ locked \/ \E k \in DOMAIN waiters : waiters[k] \notin cancelled \ woken
           /\ stage' = [stage EXCEPT ![a] = "waiting"]
           /\ waiters' = Append(waiters, a)
           /\ UNCHANGED <<locked, woken, clientVars>>
  <2>1. /\ waiters' \in Seq(Agents) /\ waiters' # <<>>
        /\ DOMAIN waiters' = DOMAIN waiters \cup {Len(waiters) + 1}
        /\ Len(waiters) + 1 \notin DOMAIN waiters
        /\ waiters'[Len(waiters) + 1] = a
        /\ \A k \in DOMAIN waiters : waiters'[k] = waiters[k]
        /\ waiters # <<>> => Head(waiters') = Head(waiters)
    BY <1>5 DEF LockIInv, LockTyped
  <2>2. stage' \in [Agents -> Stages] /\ stage'[a] = "waiting"
        /\ \A b \in Agents : b # a => stage'[b] = stage[b]
    BY <1>5 DEF LockIInv, LockTyped, Stages
  <2>3. LockTyped'
    BY <1>5, <2>1, <2>2 DEF LockIInv, LockTyped
  <2>4. OneSubmitter'
    BY <1>1, <1>5, <2>2 DEF LockIInv, LockInv, OneSubmitter
  <2>5. ~locked => waiters # <<>>
    BY <1>5 DEF LockIInv, LockTyped
  <2>6. NoLostWakeup'
    BY <1>1, <1>5, <2>1, <2>5 DEF LockIInv, LockInv, NoLostWakeup
  <2>7. \A k \in DOMAIN waiters' : stage'[waiters'[k]] = "waiting"
    BY <1>2, <2>1, <2>2
  <2>8. \A j, k \in DOMAIN waiters' : waiters'[j] = waiters'[k] => j = k
    BY <1>2, <2>1 DEF LockIInv, LockInv
  <2>9. woken' # {} => ~locked' /\ waiters' # <<>> /\ woken' = {Head(waiters')}
    BY <1>5, <2>1 DEF LockIInv, LockInv
  <2>. QED
    BY <2>3, <2>4, <2>6, <2>7, <2>8, <2>9 DEF LockIInv, LockInv
<1>. QED
  BY <1>4, <1>5 DEF AskLock

\* The waiter that was woken runs: it is the first, nobody else was woken, and
\* the lock is free.
LEMMA RunWokenKeeps ==
  ASSUME LockIInv, NEW a \in Agents, RunWoken(a)
  PROVE  LockIInv'
<1>1. /\ Dequeue(a) /\ woken' = woken \ {a} /\ a \in woken
      /\ locked' = TRUE /\ stage' = [stage EXCEPT ![a] = "submitted"]
  BY DEF RunWoken, Submit
<1>2. ~locked /\ woken' = {}
  BY <1>1 DEF LockIInv, LockInv
<1>3. /\ waiters' \in Seq(Agents)
      /\ \A i \in DOMAIN waiters' : \E k \in DOMAIN waiters :
           waiters'[i] = waiters[k] /\ waiters[k] # a
      /\ \A i, j \in DOMAIN waiters' : waiters'[i] = waiters'[j] => i = j
  BY <1>1, DequeueElements
<1>4. stage' \in [Agents -> Stages] /\ stage'[a] = "submitted"
      /\ \A b \in Agents : b # a => stage'[b] = stage[b]
  BY <1>1 DEF LockIInv, LockTyped, Stages
<1>5. \A i \in DOMAIN waiters' : stage'[waiters'[i]] = "waiting"
  BY <1>3, <1>4 DEF LockIInv, LockTyped, LockInv
<1>6. LockTyped'
  BY <1>1, <1>2, <1>3, <1>4 DEF LockTyped
<1>7. OneSubmitter'
  BY <1>1, <1>2, <1>4 DEF LockIInv, LockInv, OneSubmitter
<1>8. NoLostWakeup'
  BY <1>1 DEF NoLostWakeup
<1>. QED
  BY <1>2, <1>3, <1>5, <1>6, <1>7, <1>8 DEF LockIInv, LockInv

\* Every step keeps the invariant of the merge lock (_attempt_merge).
LEMMA StepKeepsLock ==
  ASSUME LockIInv, DataTyped, [RaceNext]_raceVars
  PROVE  LockIInv'
<1>1. stage \in [Agents -> Stages]
  BY DEF LockIInv, LockTyped
<1>2. ASSUME NEW r \in Runs, NEW agents \in Teams, Begin(r, agents)
      PROVE  LockIInv'
  <2>1. UNCHANGED lockVars /\ cancelled' = cancelled /\ agents \subseteq Agents
    BY <1>2, RaceAssumption DEF Begin
  <2>2. stage' = [a \in Agents |-> IF a \in agents THEN "working" ELSE stage[a]]
        /\ \A a \in agents : stage[a] = "idle"
    BY <1>2 DEF Begin
  <2>3. stage' \in [Agents -> Stages]
    BY <2>2, <1>1 DEF Stages
  <2>. QED
    BY <2>1, <2>2, <2>3, OffTheLock
<1>3. ASSUME NEW r \in Runs, Decide(r)
      PROVE  LockIInv'
  BY <1>1, <1>3, OffTheLock DEF Decide
<1>4. ASSUME NEW r \in Runs, Return(r)
      PROVE  LockIInv'
  <2>1. UNCHANGED lockVars /\ cancelled' = cancelled
    BY <1>4 DEF Return
  <2>2. stage' = [a \in Agents |-> IF a \in team[r] THEN "idle" ELSE stage[a]]
        /\ \A a \in team[r] : stage[a] \in Ended
    BY <1>4 DEF Return
  <2>3. stage' \in [Agents -> Stages]
    BY <2>2, <1>1 DEF Stages
  <2>. QED
    BY <2>1, <2>2, <2>3, OffTheLock DEF Ended
<1>5. ASSUME NEW a \in Agents, GiveUp(a)
      PROVE  LockIInv'
  <2>1. UNCHANGED lockVars /\ cancelled' = cancelled /\ stage[a] = "working"
        /\ stage' = [stage EXCEPT ![a] = "failed"]
    BY <1>5 DEF GiveUp
  <2>2. stage' \in [Agents -> Stages]
    BY <2>1, <1>1 DEF Stages
  <2>. QED
    BY <2>1, <2>2, <1>1, OffTheLock
<1>6. ASSUME NEW a \in Agents, Stop(a)
      PROVE  LockIInv'
  <2>1. cancelled' = cancelled \ {a} /\ stage' = [stage EXCEPT ![a] = "cancelled"]
    BY <1>6 DEF Stop
  <2>2. CASE stage[a] = "working" /\ UNCHANGED lockVars
    <3>1. stage' \in [Agents -> Stages]
      BY <2>1, <1>1 DEF Stages
    <3>. QED
      BY <2>1, <2>2, <3>1, <1>1, OffTheLock
  <2>3. CASE stage[a] = "waiting" /\ LeaveQueue(a)
    BY <2>1, <2>3, LeaveQueueKeeps
  <2>4. CASE stage[a] = "submitted" /\ Release
    <3>1. \A b \in Agents : stage[b] = "waiting" /\ b \in cancelled => b \in cancelled'
      BY <2>1, <2>4
    <3>2. "cancelled" \in Stages \ {"waiting", "submitted"}
      BY DEF Stages
    <3>. QED
      BY <2>1, <2>4, <3>1, <3>2, ReleaseKeeps
  <2>. QED
    BY <1>6, <2>2, <2>3, <2>4 DEF Stop, LeaveLock
<1>7. ASSUME NEW m \in answers, Answer(m)
      PROVE  LockIInv'
  <2>. DEFINE b == m.request.agent
  <2>1. cancelled' = cancelled
    BY <1>7 DEF Answer
  <2>2. CASE ~Awaits(b, m.request) /\ UNCHANGED <<stage, lockVars>>
    BY <2>1, <2>2, <1>1, OffTheLock
  <2>3. CASE /\ Awaits(b, m.request)
             /\ stage' = [stage EXCEPT ![b] = AfterAnswer(m.merged)]
             /\ Release
    <3>1. b \in Agents /\ stage[b] = "submitted"
      BY <1>7, <2>3 DEF Awaits, DataTyped, Requests
    <3>2. AfterAnswer(m.merged) \in Stages \ {"waiting", "submitted"}
      BY DEF AfterAnswer, Stages
    <3>. HIDE DEF b
    <3>. QED
      BY <2>1, <2>3, <3>1, <3>2, ReleaseKeeps
  <2>. QED
    BY <1>7, <2>2, <2>3 DEF Answer, LeaveLock
<1>8. CASE Reinitialize
  <2>1. stage' = [a \in Agents |-> "idle"] /\ locked' = FALSE /\ waiters' = <<>> /\ woken' = {}
    BY <1>8 DEF Reinitialize
  <2>2. LockTyped'
    <3>1. stage' \in [Agents -> Stages]
      BY <2>1 DEF Stages
    <3>2. waiters' \in Seq(Agents)
      BY <2>1
    <3>. QED
      BY <2>1, <3>1, <3>2 DEF LockTyped
  <2>3. OneSubmitter' /\ NoLostWakeup'
    BY <2>1 DEF OneSubmitter, NoLostWakeup
  <2>4. DOMAIN waiters' = {}
    BY <2>1
  <2>. QED
    BY <2>1, <2>2, <2>3, <2>4 DEF LockIInv, LockInv
<1>9. CASE UNCHANGED <<stage, cancelled, lockVars>>
  BY <1>1, <1>9, OffTheLock
<1>. QED
  BY <1>2, <1>3, <1>4, <1>5, <1>6, <1>7, <1>8, <1>9, AskLockKeeps, RunWokenKeeps
     DEF RaceNext, Send, Verdict, Leave, OrphanEnds, raceVars, lockVars

\* The woken agent is waiting.
LEMMA WokenWaits ==
  ASSUME LockIInv, NEW a \in woken
  PROVE  stage[a] = "waiting"
<1>1. woken # {} /\ waiters \in Seq(Agents)
  BY DEF LockIInv, LockTyped
<1>2. a = waiters[1] /\ 1 \in DOMAIN waiters
  BY <1>1 DEF LockIInv, LockInv
<1>. QED
  BY <1>2 DEF LockIInv, LockInv

\* Every step keeps types (the actions of a run, of the client and of the server).
LEMMA StepKeepsTypes ==
  ASSUME LockIInv, DataTyped, TeamsInv, [RaceNext]_raceVars
  PROVE  DataTyped'
<1>1. ASSUME NEW a \in Agents, stage[a] # "idle"
      PROVE  RunOf(a) \in Runs
  BY <1>1 DEF RunOf, TeamsInv, IsOpen, Open
<1>2. ASSUME NEW a \in Agents, stage[a] # "idle", Submit(a)
      PROVE  /\ stage' \in [Agents -> Stages] /\ counter' \in Nat
             /\ pending' \subseteq Requests /\ sending' \subseteq Requests
  <2>1. RunOf(a) \in Runs
    BY <1>1, <1>2
  <2>2. [agent |-> a, n |-> counter + 1, run |-> RunOf(a)] \in Requests
    BY <2>1 DEF Requests, DataTyped
  <2>. QED
    BY <1>2, <2>2 DEF Submit, DataTyped, Stages
<1>3. ASSUME NEW r \in Runs, NEW agents \in Teams, Begin(r, agents)
      PROVE  DataTyped'
  BY <1>3, RaceAssumption DEF Begin, DataTyped, Stages, Results, Open, lockVars, clientVars, queueVars, nodeVars
<1>4. ASSUME NEW r \in Runs, Decide(r)
      PROVE  DataTyped'
  BY <1>4 DEF Decide, DataTyped, Results, Open, lockVars, clientVars, queueVars, nodeVars
<1>5. ASSUME NEW r \in Runs, Return(r)
      PROVE  DataTyped'
  BY <1>5 DEF Return, DataTyped, Stages, Results, Open, lockVars, clientVars, queueVars, nodeVars
<1>6. ASSUME NEW a \in Agents, AskLock(a)
      PROVE  DataTyped'
  <2>1. /\ stage[a] # "idle" /\ tries' \in [Agents -> 0..MaxTries]
        /\ UNCHANGED <<result, team, cancelled, queueVars, nodeVars>>
    BY <1>6, RaceAssumption DEF AskLock, DataTyped
  <2>2. CASE Submit(a)
    BY <1>2, <2>1, <2>2 DEF DataTyped, queueVars, nodeVars
  <2>3. CASE stage' = [stage EXCEPT ![a] = "waiting"] /\ UNCHANGED clientVars
    BY <2>1, <2>3 DEF DataTyped, Stages, queueVars, clientVars, nodeVars
  <2>. QED
    BY <1>6, <2>2, <2>3 DEF AskLock
<1>7. ASSUME NEW a \in Agents, RunWoken(a)
      PROVE  DataTyped'
  <2>1. stage[a] # "idle"
    BY <1>7, WokenWaits DEF RunWoken
  <2>. QED
    BY <1>2, <1>7, <2>1 DEF RunWoken, DataTyped, queueVars, nodeVars
<1>8. ASSUME NEW a \in Agents, GiveUp(a)
      PROVE  DataTyped'
  BY <1>8 DEF GiveUp, DataTyped, Stages, clientVars, queueVars, nodeVars
<1>9. ASSUME NEW a \in Agents, Stop(a)
      PROVE  DataTyped'
  <2>1. /\ stage' \in [Agents -> Stages] /\ cancelled' \subseteq Agents
        /\ UNCHANGED <<result, team, tries, counter, pending, queueVars, nodeVars>>
    BY <1>9 DEF Stop, DataTyped, Stages
  <2>2. sending' \subseteq sending
    BY <1>9 DEF Stop
  <2>. QED
    BY <2>1, <2>2 DEF DataTyped, queueVars, nodeVars
<1>10. ASSUME NEW r \in sending, Send(r)
       PROVE  DataTyped'
  BY <1>10 DEF Send, DataTyped, lockVars, clientVars, nodeVars
<1>11. ASSUME NEW r \in queue, NEW merged \in BOOLEAN, Verdict(r, merged)
       PROVE  DataTyped'
  <2>1. [request |-> r, merged |-> merged] \in [request : Requests, merged : BOOLEAN]
    BY DEF DataTyped
  <2>. QED
    BY <1>11, <2>1 DEF Verdict, DataTyped, lockVars, clientVars, nodeVars
<1>12. ASSUME NEW m \in answers, Answer(m)
       PROVE  DataTyped'
  <2>1. stage' \in [Agents -> Stages]
    BY <1>12 DEF Answer, AfterAnswer, DataTyped, Stages
  <2>. QED
    BY <1>12, <2>1 DEF Answer, DataTyped, nodeVars
<1>13. CASE Reinitialize
  <2>1. result' \in [Runs -> Results]
    BY <1>13 DEF Reinitialize, DataTyped, Results, Open
  <2>2. queue' \subseteq Requests
    BY <1>13 DEF Reinitialize, DataTyped, Results, Open
  <2>. QED
    BY <1>13, <2>1, <2>2, RaceAssumption DEF Reinitialize, DataTyped, Stages
<1>14. CASE UNCHANGED raceVars
  BY <1>14 DEF DataTyped, raceVars, clientVars, queueVars, nodeVars
<1>15. CASE Leave
  <2>1. result' \in [Runs -> Results] /\ restarts' \in 0..MaxRestarts
    BY <1>15, RaceAssumption DEF Leave, DataTyped, Results, Open
  <2>. QED
    BY <1>15, <2>1 DEF Leave, DataTyped, clientVars, queueVars
<1>16. ASSUME NEW a \in Agents, OrphanEnds(a)
       PROVE  DataTyped'
  BY <1>16 DEF OrphanEnds, DataTyped, clientVars, queueVars
<1>. QED
  BY <1>3, <1>4, <1>5, <1>6, <1>7, <1>8, <1>9, <1>10, <1>11, <1>12, <1>13, <1>14, <1>15, <1>16
     DEF RaceNext

\* Every step keeps the teams apart (run_task, and the node's checkin).
LEMMA StepKeepsTeams ==
  ASSUME LockIInv, DataTyped, TeamsInv, [RaceNext]_raceVars
  PROVE  TeamsInv'
<1>1. /\ stage \in [Agents -> Stages]
      /\ result \in [Runs -> Results]
      /\ team \in [Runs -> SUBSET Agents]
  BY DEF DataTyped
<1>2. CASE /\ UNCHANGED <<result, team>>
           /\ \A a \in Agents : stage'[a] = "idle" <=> stage[a] = "idle"
  BY <1>1, <1>2 DEF TeamsInv, IsOpen, Open
<1>3. ASSUME NEW r \in Runs, NEW agents \in Teams, Begin(r, agents)
      PROVE  TeamsInv'
  <2>1. /\ \A s \in Runs : s # r => result'[s] = result[s] /\ team'[s] = team[s]
        /\ result[r] = "idle" /\ result'[r] = "racing" /\ team'[r] = agents
        /\ \A a \in agents : stage[a] = "idle"
        /\ \A a \in Agents : stage'[a] = IF a \in agents THEN "working" ELSE stage[a]
    BY <1>1, <1>3 DEF Begin
  <2>2. agents \subseteq Agents
    BY RaceAssumption
  <2>3. \A s \in Runs : s # r /\ IsOpen(s) => agents \cap team[s] = {}
    BY <2>1 DEF TeamsInv
  <2>4. \A s \in Runs : (IsOpen(s))' <=> s = r \/ IsOpen(s)
    BY <2>1 DEF IsOpen, Open
  <2>5. \A a \in Agents : stage'[a] # "idle" => \E s \in Runs : (IsOpen(s))' /\ a \in team'[s]
    BY <2>1, <2>4 DEF TeamsInv, IsOpen, Open
  <2>6. \A s \in Runs : (IsOpen(s))' => \A a \in team'[s] : stage'[a] # "idle"
    BY <1>1, <2>1, <2>2, <2>4 DEF TeamsInv
  <2>7. \A s, t \in Runs : (IsOpen(s))' /\ (IsOpen(t))' /\ s # t => team'[s] \cap team'[t] = {}
    BY <2>1, <2>3, <2>4 DEF TeamsInv
  <2>. QED
    BY <2>5, <2>6, <2>7 DEF TeamsInv
<1>4. ASSUME NEW r \in Runs, Decide(r)
      PROVE  TeamsInv'
  <2>1. UNCHANGED <<team, stage>> /\ \A s \in Runs : (IsOpen(s))' <=> IsOpen(s)
    BY <1>1, <1>4 DEF Decide, IsOpen, Open
  <2>. QED
    BY <2>1 DEF TeamsInv
<1>5. ASSUME NEW r \in Runs, Return(r)
      PROVE  TeamsInv'
  <2>1. /\ team' = team /\ IsOpen(r)
        /\ \A a \in Agents : stage'[a] = IF a \in team[r] THEN "idle" ELSE stage[a]
        /\ \A s \in Runs : (IsOpen(s))' <=> s # r /\ IsOpen(s)
    BY <1>1, <1>5 DEF Return, IsOpen, Open
  <2>2. \A a \in Agents : stage'[a] # "idle" => \E s \in Runs : (IsOpen(s))' /\ a \in team'[s]
    BY <2>1 DEF TeamsInv
  <2>3. \A s \in Runs : (IsOpen(s))' => \A a \in team'[s] : stage'[a] # "idle"
    <3>1. \A s \in Runs : s # r /\ IsOpen(s) => \A a \in team[s] : a \notin team[r] /\ a \in Agents
      BY <1>1, <2>1 DEF TeamsInv
    <3>. QED
      BY <2>1, <3>1 DEF TeamsInv
  <2>. QED
    BY <2>1, <2>2, <2>3 DEF TeamsInv
<1>6. ASSUME NEW a \in Agents, AskLock(a) \/ RunWoken(a) \/ GiveUp(a) \/ Stop(a)
      PROVE  /\ UNCHANGED <<result, team>>
             /\ \A b \in Agents : stage'[b] = "idle" <=> stage[b] = "idle"
  <2>1. UNCHANGED <<result, team>> /\ stage[a] # "idle"
    BY <1>6, WokenWaits DEF AskLock, RunWoken, GiveUp, Stop
  <2>2. \E s \in Stages \ {"idle"} : stage' = [stage EXCEPT ![a] = s]
    BY <1>6 DEF AskLock, RunWoken, GiveUp, Stop, Submit, Stages
  <2>. QED
    BY <1>1, <2>1, <2>2
<1>7. ASSUME NEW m \in answers, Answer(m)
      PROVE  /\ UNCHANGED <<result, team>>
             /\ \A b \in Agents : stage'[b] = "idle" <=> stage[b] = "idle"
  BY <1>1, <1>7 DEF Answer, Awaits, AfterAnswer
<1>8. CASE Reinitialize
  <2>1. \A r \in Runs : ~(IsOpen(r))'
    BY <1>1, <1>8 DEF Reinitialize, IsOpen, Open
  <2>2. \A a \in Agents : stage'[a] = "idle"
    BY <1>8 DEF Reinitialize
  <2>. QED
    BY <2>1, <2>2 DEF TeamsInv
<1>9. CASE Leave
  <2>1. UNCHANGED <<team, stage>> /\ \A s \in Runs : (IsOpen(s))' <=> IsOpen(s)
    BY <1>1, <1>9 DEF Leave, IsOpen, Open
  <2>. QED
    BY <2>1 DEF TeamsInv
<1>. QED
  BY <1>2, <1>3, <1>4, <1>5, <1>6, <1>7, <1>8, <1>9 DEF RaceNext, Send, Verdict, OrphanEnds, raceVars

\* Every step keeps verdicts and successes true (MergeQueueServer._handle,
\* MergeQueueClient.run).
LEMMA StepKeepsLanded ==
  ASSUME DataTyped, LandedInv, [RaceNext]_raceVars
  PROVE  LandedInv'
<1>1. stage \in [Agents -> Stages]
  BY DEF DataTyped
<1>2. CASE /\ answers' \subseteq answers /\ landed \subseteq landed'
           /\ \A a \in Agents : stage'[a] = "succeeded" => stage[a] = "succeeded"
  BY <1>2 DEF LandedInv, MergedHasLanded
<1>3. ASSUME NEW a \in Agents, AskLock(a) \/ RunWoken(a) \/ GiveUp(a) \/ Stop(a)
      PROVE  /\ UNCHANGED <<answers, landed>>
             /\ \A b \in Agents : stage'[b] = "succeeded" => stage[b] = "succeeded"
  <2>1. \E s \in Stages \ {"succeeded"} : stage' = [stage EXCEPT ![a] = s]
    BY <1>3 DEF AskLock, RunWoken, GiveUp, Stop, Submit, Stages
  <2>. QED
    BY <1>1, <1>3, <2>1 DEF AskLock, RunWoken, GiveUp, Stop, queueVars
<1>4. ASSUME NEW r \in Runs, Decide(r) \/ Return(r) \/ \E agents \in Teams : Begin(r, agents)
      PROVE  /\ UNCHANGED <<answers, landed>>
             /\ \A b \in Agents : stage'[b] = "succeeded" => stage[b] = "succeeded"
  BY <1>1, <1>4 DEF Decide, Return, Begin, queueVars
<1>5. ASSUME NEW r \in queue, NEW merged \in BOOLEAN, Verdict(r, merged)
      PROVE  LandedInv'
  BY <1>5 DEF Verdict, LandedInv, MergedHasLanded
<1>6. ASSUME NEW m \in answers, Answer(m)
      PROVE  LandedInv'
  <2>1. answers' \subseteq answers /\ landed' = landed
    BY <1>6 DEF Answer
  <2>2. ASSUME NEW a \in Agents, stage'[a] = "succeeded", stage[a] # "succeeded"
        PROVE  a = m.request.agent /\ m.merged
    BY <1>1, <1>6, <2>2 DEF Answer, AfterAnswer
  <2>. QED
    BY <2>1, <2>2 DEF LandedInv, MergedHasLanded
<1>7. CASE Reinitialize
  BY <1>7 DEF Reinitialize, LandedInv, MergedHasLanded
<1>. QED
  BY <1>2, <1>3, <1>4, <1>5, <1>6, <1>7 DEF RaceNext, Send, Leave, OrphanEnds, raceVars, queueVars

LEMMA InitInv == RaceInit => Inv
<1>. SUFFICES ASSUME RaceInit PROVE Inv
  OBVIOUS
<1>1. LockTyped
  <2>1. stage \in [Agents -> Stages]
    BY DEF RaceInit, Stages
  <2>2. waiters \in Seq(Agents)
    BY DEF RaceInit
  <2>. QED
    BY <2>1, <2>2 DEF RaceInit, LockTyped
<1>2. OneSubmitter /\ NoLostWakeup
  BY DEF RaceInit, OneSubmitter, NoLostWakeup
<1>3. DOMAIN waiters = {} /\ woken = {}
  BY DEF RaceInit
<1>4. DataTyped
  <2>1. tries \in [Agents -> 0..MaxTries] /\ restarts \in 0..MaxRestarts
    BY RaceAssumption DEF RaceInit
  <2>. QED
    BY <2>1 DEF RaceInit, DataTyped, Stages, Results
<1>5. TeamsInv
  BY DEF RaceInit, TeamsInv, IsOpen, Open
<1>6. LandedInv
  BY DEF RaceInit, LandedInv, MergedHasLanded
<1>. QED
  BY <1>1, <1>2, <1>3, <1>4, <1>5, <1>6 DEF Inv, LockIInv, LockInv

\* Inv is inductive.
LEMMA AlwaysInv == RaceSpec => []Inv
<1>1. Inv /\ [RaceNext]_raceVars => Inv'
  BY StepKeepsLock, StepKeepsTypes, StepKeepsTeams, StepKeepsLanded DEF Inv
<1>. QED
  BY <1>1, InitInv, PTL DEF RaceSpec

\* All variables keep their types; a woken agent is in the lock's queue.
THEOREM TypeAlwaysOK == RaceSpec => []RaceTypeOK
<1>1. Inv => RaceTypeOK
  <2>. SUFFICES ASSUME Inv PROVE RaceTypeOK
    OBVIOUS
  <2>1. woken \subseteq {waiters[k] : k \in DOMAIN waiters}
    <3>1. woken # {} => woken = {waiters[1]} /\ 1 \in DOMAIN waiters
      BY DEF Inv, LockIInv, LockTyped, LockInv
    <3>. QED
      BY <3>1
  <2>. QED
    BY <2>1 DEF Inv, LockIInv, LockTyped, DataTyped, RaceTypeOK
<1>. QED
  BY <1>1, AlwaysInv, PTL

\* The queue of the merge lock is in order at all times: the agents that wait,
\* each once, at most the first woken, exactly one submitter while the lock is
\* held (_attempt_merge).
THEOREM LockAlwaysInOrder == RaceSpec => []LockInv
<1>1. Inv => LockInv
  BY DEF Inv, LockIInv
<1>. QED
  BY <1>1, AlwaysInv, PTL

\* One agent at a time has a request out, and the lock is held by nobody else
\* (_attempt_merge).
THEOREM AlwaysOneSubmitter == RaceSpec => []OneSubmitter
<1>1. LockInv => OneSubmitter
  BY DEF LockInv
<1>. QED
  BY <1>1, LockAlwaysInOrder, PTL

\* A free merge lock with waiters is on its way to the first of them, or the
\* first was cancelled and will pass it on (_attempt_merge, run_task).
THEOREM NeverLosesWakeup == RaceSpec => []NoLostWakeup
<1>1. LockInv => NoLostWakeup
  BY DEF LockInv
<1>. QED
  BY <1>1, LockAlwaysInOrder, PTL

\* An agent at work belongs to exactly one run that has not returned (run_task
\* waits for the agents it cancels before the node checks them in).
THEOREM TeamsAlwaysDisjoint == RaceSpec => []TeamsDisjoint
<1>1. Inv => TeamsDisjoint
  BY DEF Inv, TeamsInv, TeamsDisjoint, IsOpen, Open
<1>. QED
  BY <1>1, AlwaysInv, PTL

\* An agent that is told that its work is merged has had work merged
\* (MergeQueueClient, MergeQueueServer).
THEOREM MergedAlwaysHasLanded == RaceSpec => []MergedHasLanded
<1>1. Inv => MergedHasLanded
  BY DEF Inv, LandedInv
<1>. QED
  BY <1>1, AlwaysInv, PTL

=============================================================================
