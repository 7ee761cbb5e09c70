--------------------------- MODULE StorageMigration ---------------------------
(***************************************************************************)
(* Moving the objects of files from one storage provider to another: the   *)
(* handlers Enqueue and Cancel, and the pool of workers that claim items,  *)
(* copy the object, swap the reference in a transaction and delete the     *)
(* source.                                                                  *)
(*                                                                         *)
(* A handler or a worker takes one action per database statement,          *)
(* transaction or object-store call.  A file stands for all node_files     *)
(* rows that share one storage object.  Store calls may always fail; with  *)
(* Faults, database calls may fail too, with their effect or without it,   *)
(* and a worker may die.                                                    *)
(***************************************************************************)
EXTENDS Naturals, FiniteSets

CONSTANTS
  Tasks,      \* ids of migration tasks (fresh uuids)
  Files,      \* also the ids and keys of the storage objects they start with
  Workers,    \* the goroutines of every server's pool
  Home,       \* the provider the files start on
  Target,     \* Target[t]: the provider task t moves to
  Subtree,    \* Subtree[t]: the files under the root node of task t
  Faults      \* may database calls fail and workers die?

Items == Tasks \X Files    \* at most one item per task and storage object
TaskOf(i) == i[1]
FileOf(i) == i[2]
Keys == Files \cup Items   \* storage_objects rows; an item's target is named by the item
NoItem == <<"no task", "no file">>
NoKey == NoItem

ASSUME KeysAssumption ==
  /\ Files \cap Items = {} /\ NoKey \notin Keys /\ NoItem \notin Items
ASSUME FilesAssumption == IsFiniteSet(Files)
ASSUME SubtreeAssumption == Subtree \in [Tasks -> SUBSET Files]
ASSUME FaultsAssumption == Faults \in BOOLEAN

VARIABLES
  taskStatus, \* migration_tasks.status; "none" before the insert
  progress,   \* migration_tasks.completed_objects, failed_objects, skipped_objects
  itemStatus, \* migration_task_items.status; "none" before the insert
  source,     \* migration_task_items.storage_object_id and source_key
  bind,       \* node_files.storage_object_id
  row,        \* storage_objects: "none", "live", or soft-"deleted"
  object,     \* is the object in its store?
  enqueue,    \* where the Enqueue handler of each task is
  cancel,     \* where the Cancel handler of each task is
  pc, cur,    \* where each worker is, and its item
  verdict,    \* the final status an aggregation is about to write
  uncertain   \* history: items whose swap committed while the worker got an error

taskVars == <<taskStatus, progress>>
itemVars == <<itemStatus, source>>
storeVars == <<bind, row, object, uncertain>>
handlerVars == <<enqueue, cancel>>
workerVars == <<pc, cur, verdict>>
vars == <<taskStatus, progress, itemStatus, source, bind, row, object, uncertain,
          enqueue, cancel, pc, cur, verdict>>

Verdicts == {"completed", "failed"}
Terminal == Verdicts \cup {"canceled"}
Open == {"pending", "running"}          \* item statuses that an aggregation waits for
WorkSteps == {"load", "orphan", "skip", "skip.count", "copy", "verify", "swap", "source",
              "undo", "fail", "fail.count", "aggregate", "verdict"}
Counters == {"completed", "failed", "skipped"}

TypeOK ==
  /\ taskStatus \in [Tasks -> {"none", "pending"} \cup Terminal]
  /\ progress \in [Tasks -> [Counters -> Nat]]
  /\ itemStatus \in [Items -> {"none", "done", "failed", "skipped"} \cup Open]
  /\ source \in [Items -> Keys \cup {NoKey}]
  /\ bind \in [Files -> Keys]
  /\ row \in [Keys -> {"none", "live", "deleted"}]
  /\ object \in [Keys -> BOOLEAN]
  /\ uncertain \subseteq Items
  /\ enqueue \in [Tasks -> {"idle", "task", "items", "over"}]
  /\ cancel \in [Tasks -> {"idle", "status", "skip"}]
  /\ pc \in [Workers -> WorkSteps \cup {"idle"}]
  /\ cur \in [Workers -> Items \cup {NoItem}]
  /\ verdict \in [Workers -> Verdicts \cup {"none"}]
  /\ \A w \in Workers : cur[w] = NoItem <=> pc[w] = "idle"

Init ==
  /\ taskStatus = [t \in Tasks |-> "none"]
  /\ progress = [t \in Tasks |-> [c \in Counters |-> 0]]
  /\ itemStatus = [i \in Items |-> "none"]
  /\ source = [i \in Items |-> NoKey]
  /\ bind = [f \in Files |-> f]
  /\ row = [k \in Keys |-> IF k \in Files THEN "live" ELSE "none"]
  /\ object = [k \in Keys |-> k \in Files]
  /\ uncertain = {}
  /\ enqueue = [t \in Tasks |-> "idle"]
  /\ cancel = [t \in Tasks |-> "idle"]
  /\ pc = [w \in Workers |-> "idle"]
  /\ cur = [w \in Workers |-> NoItem]
  /\ verdict = [w \in Workers |-> "none"]

-----------------------------------------------------------------------------
(* Enqueue. *)

Provider(k) == IF k \in Files THEN Home ELSE Target[TaskOf(k)]
ItemsOf(t) == {i \in Items : TaskOf(i) = t}
Planned(t) == {i \in ItemsOf(t) : source[i] # NoKey}

\* EnumerateStorageObjectsUnderNode: the live objects of a subtree that are not on
\* the target provider already; an empty list is refused.
Enumerate(t) ==
  /\ enqueue[t] = "idle"
  /\ LET Found == {f \in Subtree[t] : row[bind[f]] = "live" /\ Provider(bind[f]) # Target[t]}
     IN /\ Found # {}
        /\ source' = [i \in Items |-> IF TaskOf(i) = t /\ FileOf(i) \in Found
                                        THEN bind[FileOf(i)] ELSE source[i]]
  /\ enqueue' = [enqueue EXCEPT ![t] = "task"]
  /\ UNCHANGED <<taskVars, itemStatus, storeVars, cancel, workerVars>>

\* CreateTaskWithItems runs outside a transaction: first the task row...
CreateTask(t) ==
  /\ enqueue[t] = "task"
  /\ \/ /\ taskStatus' = [taskStatus EXCEPT ![t] = "pending"]
        /\ enqueue' = [enqueue EXCEPT ![t] = "items"]
     \/ /\ Faults
        /\ taskStatus' \in {taskStatus, [taskStatus EXCEPT ![t] = "pending"]}
        /\ enqueue' = [enqueue EXCEPT ![t] = "over"]
  /\ UNCHANGED <<progress, itemVars, storeVars, cancel, workerVars>>

\* ... then the items, all or none.
CreateItems(t) ==
  /\ enqueue[t] = "items"
  /\ \/ itemStatus' = [i \in Items |-> IF i \in Planned(t) THEN "pending" ELSE itemStatus[i]]
     \/ Faults /\ UNCHANGED itemStatus
  /\ enqueue' = [enqueue EXCEPT ![t] = "over"]
  /\ UNCHANGED <<taskVars, source, storeVars, cancel, workerVars>>

-----------------------------------------------------------------------------
(* Cancel. *)

\* Load the task; a final one is refused.
StartCancel(t) ==
  /\ cancel[t] = "idle" /\ taskStatus[t] = "pending"
  /\ cancel' = [cancel EXCEPT ![t] = "status"]
  /\ UNCHANGED <<taskVars, itemVars, storeVars, enqueue, workerVars>>

\* UpdateTaskStatus does not look at the status it overwrites.
CancelTask(t) ==
  /\ cancel[t] = "status"
  /\ \/ /\ taskStatus' = [taskStatus EXCEPT ![t] = "canceled"]
        /\ cancel' = [cancel EXCEPT ![t] = "skip"]
     \/ /\ Faults
        /\ taskStatus' \in {taskStatus, [taskStatus EXCEPT ![t] = "canceled"]}
        /\ cancel' = [cancel EXCEPT ![t] = "idle"]
  /\ UNCHANGED <<progress, itemVars, storeVars, enqueue, workerVars>>

\* The WHERE clause of SkipPendingItemsForTask.
Skippable_Open(i) == itemStatus[i] \in Open
Skippable(i) == itemStatus[i] = "pending"

\* An error is only logged, and the skipped items are not counted.
SkipPendingItems(t) ==
  /\ cancel[t] = "skip"
  /\ \/ itemStatus' = [i \in Items |-> IF TaskOf(i) = t /\ Skippable(i)
                                         THEN "skipped" ELSE itemStatus[i]]
     \/ Faults /\ UNCHANGED itemStatus
  /\ cancel' = [cancel EXCEPT ![t] = "idle"]
  /\ UNCHANGED <<taskVars, source, storeVars, enqueue, workerVars>>

-----------------------------------------------------------------------------
(* A worker. *)

At(w, step) == pc[w] = step
Goto(w, step) == pc' = [pc EXCEPT ![w] = step] /\ UNCHANGED <<cur, verdict>>
Finish_KeepsItem(w) == Goto(w, "idle")
Finish(w) ==
  /\ pc' = [pc EXCEPT ![w] = "idle"]
  /\ cur' = [cur EXCEPT ![w] = NoItem]
  /\ verdict' = [verdict EXCEPT ![w] = "none"]

MarkItem(i, status) == itemStatus' = [itemStatus EXCEPT ![i] = status]
Count(t, counter) == progress' = [progress EXCEPT ![t][counter] = @ + 1]

\* WHERE status = 'pending'; which pending item has the lowest id is left open,
\* because ids are drawn before the insert that shows them commits.
Claimable_Open(i) == itemStatus[i] \in Open
Claimable(i) == itemStatus[i] = "pending"

\* ClaimNextItem: one UPDATE; if its answer is lost nobody works on the item.
ClaimNextItem(w) ==
  /\ At(w, "idle")
  /\ \E i \in Items :
       /\ Claimable(i) /\ MarkItem(i, "running")
       /\ \/ /\ pc' = [pc EXCEPT ![w] = "load"]
             /\ cur' = [cur EXCEPT ![w] = i]
             /\ UNCHANGED verdict
          \/ Faults /\ UNCHANGED workerVars
  /\ UNCHANGED <<taskVars, source, storeVars, handlerVars>>

LoadTask_AnyStatus(w) ==
  /\ At(w, "load")
  /\ Goto(w, "copy")
  /\ UNCHANGED <<taskVars, itemVars, storeVars, handlerVars>>

LoadTask(w) ==
  /\ At(w, "load")
  /\ \/ taskStatus[TaskOf(cur[w])] \in Terminal /\ Goto(w, "skip")
     \/ taskStatus[TaskOf(cur[w])] \notin Terminal /\ Goto(w, "copy")
     \/ Faults /\ Goto(w, "orphan")
  /\ UNCHANGED <<taskVars, itemVars, storeVars, handlerVars>>

\* GetTask failed: the item is marked, and neither counted nor aggregated.
MarkOrphan(w) ==
  /\ At(w, "orphan")
  /\ MarkItem(cur[w], "failed") \/ (Faults /\ UNCHANGED itemStatus)
  /\ Finish(w)
  /\ UNCHANGED <<taskVars, source, storeVars, handlerVars>>

\* The task was canceled or has ended.
MarkItemSkipped(w) ==
  /\ At(w, "skip")
  /\ MarkItem(cur[w], "skipped") \/ (Faults /\ UNCHANGED itemStatus)
  /\ Goto(w, "skip.count")
  /\ UNCHANGED <<taskVars, source, storeVars, handlerVars>>

CountSkipped(w) ==
  /\ At(w, "skip.count")
  /\ Count(TaskOf(cur[w]), "skipped") \/ (Faults /\ UNCHANGED progress)
  /\ Finish(w)
  /\ UNCHANGED <<taskStatus, itemVars, storeVars, handlerVars>>

\* registry.Get, GetObject and Upload; a failed Upload may leave an object behind.
CopyObject(w) ==
  LET i == cur[w]
      Stored == object' = [object EXCEPT ![i] = TRUE]
  IN /\ At(w, "copy")
     /\ \/ object[source[i]] /\ Stored /\ (Goto(w, "verify") \/ Goto(w, "fail"))
        \/ Goto(w, "fail") /\ UNCHANGED object
     /\ UNCHANGED <<taskVars, itemVars, bind, row, uncertain, handlerVars>>

\* StatObject and the comparison of sizes.
VerifyCopy(w) ==
  /\ At(w, "verify")
  /\ (object[cur[w]] /\ Goto(w, "swap")) \/ Goto(w, "undo")
  /\ UNCHANGED <<taskVars, itemVars, storeVars, handlerVars>>

SwapReference_NotRepointed(i) ==
  /\ row' = [row EXCEPT ![i] = "live", ![source[i]] = "deleted"]
  /\ MarkItem(i, "done")
  /\ Count(TaskOf(i), "completed")
  /\ UNCHANGED bind

\* SwapStorageObject, MarkItemDone and IncrementProgress in one transaction.
SwapReference(i) ==
  /\ bind' = [f \in Files |-> IF bind[f] = source[i] THEN i ELSE bind[f]]
  /\ row' = [row EXCEPT ![i] = "live", ![source[i]] = "deleted"]
  /\ MarkItem(i, "done")
  /\ Count(TaskOf(i), "completed")

Swap(w) ==
  /\ At(w, "swap")
  /\ \/ SwapReference(cur[w]) /\ Goto(w, "source") /\ UNCHANGED uncertain
     \/ /\ Faults /\ SwapReference(cur[w])           \* outcome of COMMIT unknown
        /\ Goto(w, "undo")
        /\ uncertain' = uncertain \cup {cur[w]}
     \/ /\ Faults /\ Goto(w, "undo")
        /\ UNCHANGED <<bind, row, itemStatus, progress, uncertain>>
  /\ UNCHANGED <<taskStatus, source, object, handlerVars>>

\* Best effort, like the deletion of the copy after a failure.
DeleteSource(w) ==
  /\ At(w, "source")
  /\ object' = [object EXCEPT ![source[cur[w]]] = FALSE] \/ UNCHANGED object
  /\ Goto(w, "aggregate")
  /\ UNCHANGED <<taskVars, itemVars, bind, row, uncertain, handlerVars>>

DeleteCopy(w) ==
  /\ At(w, "undo")
  /\ object' = [object EXCEPT ![cur[w]] = FALSE] \/ UNCHANGED object
  /\ Goto(w, "fail")
  /\ UNCHANGED <<taskVars, itemVars, bind, row, uncertain, handlerVars>>

\* failItem: three writes, each on its own.
MarkItemFailed(w) ==
  /\ At(w, "fail")
  /\ MarkItem(cur[w], "failed") \/ (Faults /\ UNCHANGED itemStatus)
  /\ Goto(w, "fail.count")
  /\ UNCHANGED <<taskVars, source, storeVars, handlerVars>>

CountFailed_Retried(w) ==
  /\ At(w, "fail.count")
  /\ Count(TaskOf(cur[w]), "failed")
  /\ Goto(w, "aggregate") \/ (Faults /\ Goto(w, "fail.count"))
  /\ UNCHANGED <<taskStatus, itemVars, storeVars, handlerVars>>

CountFailed_NotAggregated(w) ==
  /\ At(w, "fail.count")
  /\ Count(TaskOf(cur[w]), "failed") \/ (Faults /\ UNCHANGED progress)
  /\ Finish(w)
  /\ UNCHANGED <<taskStatus, itemVars, storeVars, handlerVars>>

CountFailed(w) ==
  /\ At(w, "fail.count")
  /\ Count(TaskOf(cur[w]), "failed") \/ (Faults /\ UNCHANGED progress)
  /\ Goto(w, "aggregate")
  /\ UNCHANGED <<taskStatus, itemVars, storeVars, handlerVars>>

\* The COUNT of AggregateTaskProgressIfFinal...
Unfinished_Pending(t) == \E i \in ItemsOf(t) : itemStatus[i] = "pending"
Unfinished(t) == \E i \in ItemsOf(t) : itemStatus[i] \in Open
Verdict(t) == IF \E i \in ItemsOf(t) : itemStatus[i] = "failed" THEN "failed" ELSE "completed"

CountItems(w) ==
  LET t == TaskOf(cur[w])
  IN /\ At(w, "aggregate")
     /\ \/ Unfinished(t) /\ Finish(w)
        \/ /\ ~Unfinished(t)
           /\ pc' = [pc EXCEPT ![w] = "verdict"]
           /\ verdict' = [verdict EXCEPT ![w] = Verdict(t)]
           /\ UNCHANGED cur
        \/ Faults /\ Finish(w)
     /\ UNCHANGED <<taskVars, itemVars, storeVars, handlerVars>>

\* ... and its UpdateTaskStatus.
EndTask(w) ==
  /\ At(w, "verdict")
  /\ \/ taskStatus' = [taskStatus EXCEPT ![TaskOf(cur[w])] = verdict[w]]
     \/ Faults /\ UNCHANGED taskStatus
  /\ Finish(w)
  /\ UNCHANGED <<progress, itemVars, storeVars, handlerVars>>

\* The process of a worker dies; a new one starts with an idle worker.
Crash(w) ==
  /\ Faults /\ pc[w] # "idle"
  /\ Finish(w)
  /\ UNCHANGED <<taskVars, itemVars, storeVars, handlerVars>>

EnqueueStep(t) == Enumerate(t) \/ CreateTask(t) \/ CreateItems(t)
CancelStep(t) == StartCancel(t) \/ CancelTask(t) \/ SkipPendingItems(t)

Work(w) ==
  \/ ClaimNextItem(w) \/ LoadTask(w) \/ MarkOrphan(w) \/ MarkItemSkipped(w) \/ CountSkipped(w)
  \/ CopyObject(w) \/ VerifyCopy(w) \/ Swap(w) \/ DeleteSource(w) \/ DeleteCopy(w)
  \/ MarkItemFailed(w) \/ CountFailed(w) \/ CountItems(w) \/ EndTask(w)

Next ==
  \/ \E t \in Tasks : EnqueueStep(t) \/ CancelStep(t)
  \/ \E w \in Workers : Work(w) \/ Crash(w)

Spec == Init /\ [][Next]_vars

-----------------------------------------------------------------------------
(* Safety. *)

\* The object of a file is where its row says, whatever moves, fails or is copied
\* twice at the same time; the one exception are swaps whose commit answer was lost,
\* where processItem deletes the copy that the file is already bound to.
BindingBacked ==
  \A f \in Files :
    /\ row[bind[f]] = "live"
    /\ object[bind[f]] \/ bind[f] \in uncertain

\* The status of an item changes only by the worker that claimed it: no other worker
\* claims it, no Cancel skips it, no failure is recorded for a swap that committed
\* (unless its commit answer was lost).
WorkerOwnsItem ==
  \A w \in Workers : pc[w] # "idle" =>
    /\ \A v \in Workers \ {w} : cur[v] # cur[w]
    /\ pc[w] \in {"load", "orphan", "skip", "copy", "verify", "swap"} =>
         itemStatus[cur[w]] = "running"
    /\ pc[w] \in {"undo", "fail"} =>
         itemStatus[cur[w]] = "running" \/ cur[w] \in uncertain

\* completed_objects counts exactly the swaps, and no object of a task is counted
\* twice, whatever writes of a worker are lost.
ProgressHonest ==
  \A t \in Tasks :
    /\ progress[t].completed = Cardinality({i \in ItemsOf(t) : row[i] # "none"})
    /\ progress[t].completed + progress[t].failed + progress[t].skipped
         <= Cardinality(Planned(t)) + Cardinality(uncertain \cap ItemsOf(t))

\* A task reported as completed or failed has no item left to do, and the report
\* says whether an item failed, even when several workers count the items at once.
VerdictSound ==
  \A t \in Tasks : taskStatus[t] \in Verdicts =>
    /\ \A i \in ItemsOf(t) : itemStatus[i] \notin Open
    /\ taskStatus[t] = "completed" =>
         \A i \in ItemsOf(t) : itemStatus[i] = "failed" => i \in uncertain
    /\ taskStatus[t] = "failed" => \E i \in ItemsOf(t) : itemStatus[i] = "failed"

\* What was skipped was not touched: a worker that has begun to copy keeps its item
\* when the task is canceled.
SkippedUntouched ==
  \A i \in Items : itemStatus[i] = "skipped" => row[i] = "none" /\ ~object[i]

\* A copy that no file is bound to comes only from two tasks that listed the same
\* object before either had moved it.
NoStrayCopy ==
  \A i \in Items :
    row[i] = "live" /\ (\A f \in Files : bind[f] # i) =>
      \E j \in Items \ {i} : source[j] = source[i] /\ row[j] # "none"

\* An item that nobody had claimed when its task was canceled or ended is not moved.
CancelStops ==
  \A i \in Items :
    [](taskStatus[TaskOf(i)] \in Terminal /\ itemStatus[i] = "pending" => [](row[i] = "none"))

\* docs/architecture/storage-migration-design.md:39 and :109: no node is left
\* with an object that does not exist, and a failed item does not damage its node.
NodeObjectExists == \A f \in Files : object[bind[f]]

\* docs/architecture/storage-migration-design.md:28 and :73: canceled, completed and
\* failed are final.
TerminalIsFinal ==
  [][\A t \in Tasks : taskStatus[t] \in Terminal => taskStatus'[t] = taskStatus[t]]_vars

-----------------------------------------------------------------------------
(* The inductive invariant behind the safety properties. *)

Moved(i) == row[i] # "none"
Reachable(k) == object[k] \/ k \in uncertain

\* Rows, objects and items: a row comes with the swap of its item, and goes with the
\* swap of an item that has it as its source.
StoreInv ==
  /\ \A k \in Keys : row[k] = "live" => Reachable(k)
  /\ \A f \in Files : row[bind[f]] = "live"
  /\ \A f \in Files : Moved(f)
  /\ \A i \in Items :
       /\ source[i] # NoKey => Moved(source[i])
       /\ Moved(i) => source[i] # NoKey /\ row[source[i]] = "deleted"
       /\ Moved(i) <=> itemStatus[i] = "done" \/ i \in uncertain

\* Items are queued with a source, and skipped only before anything was copied.
ItemInv ==
  \A i \in Items :
    /\ itemStatus[i] # "none" => source[i] # NoKey /\ enqueue[TaskOf(i)] = "over"
    /\ itemStatus[i] \in {"none", "pending", "skipped"} => ~object[i] /\ i \notin uncertain

\* What a worker has established about its item at each step.
WorkerInv ==
  \A w \in Workers : pc[w] # "idle" =>
    /\ itemStatus[cur[w]] \notin {"none", "pending"}
    /\ pc[w] = "source" => itemStatus[cur[w]] = "done"
    /\ pc[w] \in {"load", "orphan", "skip", "copy", "verify", "swap"} => cur[w] \notin uncertain
    /\ pc[w] \in {"load", "orphan", "skip"} => ~object[cur[w]]
    /\ pc[w] = "swap" => object[cur[w]]

IInv == TypeOK /\ StoreInv /\ ItemInv /\ WorkerInv /\ WorkerOwnsItem

-----------------------------------------------------------------------------
(* Liveness: the workers poll for ever, and every call of theirs returns. *)

FairSpec == Spec /\ \A w \in Workers : WF_vars(Work(w))

\* Without faults every item that was queued is finished and its task ended, by
\* whichever worker comes last, whatever copies fail and whoever cancels.
TasksEnd ==
  \A i \in Items :
    itemStatus[i] = "pending" ~>
      taskStatus[TaskOf(i)] \in Terminal /\ ~Unfinished(TaskOf(i))
=============================================================================
