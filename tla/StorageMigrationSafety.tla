----------------------- MODULE StorageMigrationSafety -----------------------
(***************************************************************************)
(* The safety of storage migration, for every set of tasks, files and      *)
(* workers, and with faults: the invariant behind it is inductive.         *)
(***************************************************************************)
EXTENDS StorageMigration, FiniteSetTheorems, TLAPS

USE DEF NoKey

-----------------------------------------------------------------------------
(* Types. *)

WorkerType ==
  /\ pc \in [Workers -> WorkSteps \cup {"idle"}]
  /\ cur \in [Workers -> Items \cup {NoItem}]
  /\ verdict \in [Workers -> Verdicts \cup {"none"}]
  /\ \A w \in Workers : cur[w] = NoItem <=> pc[w] = "idle"

LEMMA ItemParts == \A i \in Items : TaskOf(i) \in Tasks /\ FileOf(i) \in Files /\ i \in Keys
  BY DEF Items, TaskOf, FileOf, Keys

LEMMA TypeWorker == TypeOK => WorkerType
  BY DEF TypeOK, WorkerType

LEMMA GotoType ==
  ASSUME WorkerType, NEW w \in Workers, NEW step \in WorkSteps, Goto(w, step), pc[w] # "idle"
  PROVE  /\ WorkerType' /\ cur[w] \in Items
         /\ pc'[w] = step /\ cur'[w] = cur[w]
         /\ \A v \in Workers \ {w} : pc'[v] = pc[v] /\ cur'[v] = cur[v]
<1>1. cur[w] \in Items /\ step # "idle"
  BY DEF WorkerType, WorkSteps
<1>2. /\ pc'[w] = step /\ UNCHANGED <<cur, verdict>>
      /\ \A v \in Workers \ {w} : pc'[v] = pc[v]
  BY DEF WorkerType, Goto
<1>3. pc' \in [Workers -> WorkSteps \cup {"idle"}]
  BY DEF WorkerType, Goto
<1> QED
  BY <1>1, <1>2, <1>3, KeysAssumption DEF WorkerType

LEMMA FinishType ==
  ASSUME WorkerType, NEW w \in Workers, Finish(w)
  PROVE  /\ WorkerType'
         /\ pc'[w] = "idle"
         /\ \A v \in Workers \ {w} : pc'[v] = pc[v] /\ cur'[v] = cur[v]
<1>1. /\ pc'[w] = "idle" /\ cur'[w] = NoItem
      /\ \A v \in Workers \ {w} : pc'[v] = pc[v] /\ cur'[v] = cur[v]
  BY DEF WorkerType, Finish
<1>2. /\ pc' \in [Workers -> WorkSteps \cup {"idle"}]
      /\ cur' \in [Workers -> Items \cup {NoItem}]
      /\ verdict' \in [Workers -> Verdicts \cup {"none"}]
  BY DEF WorkerType, Finish
<1> QED
  BY <1>1, <1>2 DEF WorkerType

DataType ==
  /\ taskStatus \in [Tasks -> {"none", "pending"} \cup Terminal]
  /\ progress \in [Tasks -> [Counters -> Nat]]
  /\ itemStatus \in [Items -> {"none", "done", "failed", "skipped"} \cup Open]
  /\ source \in [Items -> Keys \cup {NoKey}]
  /\ bind \in [Files -> Keys]
  /\ row \in [Keys -> {"none", "live", "deleted"}]
  /\ object \in [Keys -> BOOLEAN]
  /\ uncertain \subseteq Items
  /\ enqueue \in [Tasks -> {"idle", "task", "items", "over"}]
  /\ cancel \in [Tasks -> {"idle", "status", "skip"}]

LEMMA TypeParts == TypeOK <=> DataType /\ WorkerType
  BY DEF TypeOK, DataType, WorkerType

LEMMA CountType ==
  ASSUME progress \in [Tasks -> [Counters -> Nat]], NEW t \in Tasks, NEW c \in Counters,
         Count(t, c)
  PROVE  progress' \in [Tasks -> [Counters -> Nat]]
  BY DEF Count

LEMMA MarkType ==
  ASSUME DataType, NEW i \in Items, MarkItem(i, "running") \/ MarkItem(i, "done")
           \/ MarkItem(i, "failed") \/ MarkItem(i, "skipped")
  PROVE  itemStatus' \in [Items -> {"none", "done", "failed", "skipped"} \cup Open]
  BY DEF DataType, MarkItem, Open

LEMMA EnqueueType ==
  ASSUME DataType, NEW t \in Tasks, EnqueueStep(t)
  PROVE  DataType'
<1>1. CASE Enumerate(t)
  <2>1. source' \in [Items -> Keys \cup {NoKey}]
    BY <1>1, ItemParts DEF Enumerate, DataType
  <2>2. enqueue' \in [Tasks -> {"idle", "task", "items", "over"}]
    BY <1>1 DEF Enumerate, DataType
  <2> QED
    BY <1>1, <2>1, <2>2 DEF Enumerate, DataType, taskVars, storeVars
<1>2. CASE CreateTask(t)
  <2>1. taskStatus' \in [Tasks -> {"none", "pending"} \cup Terminal]
    BY <1>2 DEF CreateTask, DataType
  <2>2. enqueue' \in [Tasks -> {"idle", "task", "items", "over"}]
    BY <1>2 DEF CreateTask, DataType
  <2> QED
    BY <1>2, <2>1, <2>2 DEF CreateTask, DataType, itemVars, storeVars
<1>3. CASE CreateItems(t)
  <2>1. itemStatus' \in [Items -> {"none", "done", "failed", "skipped"} \cup Open]
    BY <1>3 DEF CreateItems, DataType, Open
  <2>2. enqueue' \in [Tasks -> {"idle", "task", "items", "over"}]
    BY <1>3 DEF CreateItems, DataType
  <2> QED
    BY <1>3, <2>1, <2>2 DEF CreateItems, DataType, taskVars, storeVars
<1> QED
  BY <1>1, <1>2, <1>3 DEF EnqueueStep

LEMMA CancelType ==
  ASSUME DataType, NEW t \in Tasks, CancelStep(t)
  PROVE  DataType'
<1>0. cancel' \in [Tasks -> {"idle", "status", "skip"}]
  BY DEF DataType, CancelStep, StartCancel, CancelTask, SkipPendingItems
<1>1. CASE StartCancel(t)
  BY <1>0, <1>1 DEF StartCancel, DataType, taskVars, itemVars, storeVars
<1>2. CASE CancelTask(t)
  <2>1. taskStatus' \in [Tasks -> {"none", "pending"} \cup Terminal]
    BY <1>2 DEF CancelTask, DataType, Terminal
  <2> QED
    BY <1>0, <1>2, <2>1 DEF CancelTask, DataType, itemVars, storeVars
<1>3. CASE SkipPendingItems(t)
  <2>1. itemStatus' \in [Items -> {"none", "done", "failed", "skipped"} \cup Open]
    BY <1>3 DEF SkipPendingItems, DataType
  <2> QED
    BY <1>0, <1>3, <2>1 DEF SkipPendingItems, DataType, taskVars, storeVars
<1> QED
  BY <1>1, <1>2, <1>3 DEF CancelStep

LEMMA SwapType ==
  ASSUME DataType, NEW i \in Items, SwapReference(i)
  PROVE  /\ bind' \in [Files -> Keys]
         /\ row' \in [Keys -> {"none", "live", "deleted"}]
         /\ itemStatus' \in [Items -> {"none", "done", "failed", "skipped"} \cup Open]
         /\ progress' \in [Tasks -> [Counters -> Nat]]
<1>1. i \in Keys /\ TaskOf(i) \in Tasks
  BY ItemParts
<1>2. bind' \in [Files -> Keys]
  BY <1>1 DEF DataType, SwapReference
<1>3. row' \in [Keys -> {"none", "live", "deleted"}]
  BY <1>1 DEF DataType, SwapReference
<1>4. itemStatus' \in [Items -> {"none", "done", "failed", "skipped"} \cup Open]
  BY MarkType DEF SwapReference
<1>5. progress' \in [Tasks -> [Counters -> Nat]]
  BY <1>1, CountType DEF SwapReference, DataType, Counters
<1> QED
  BY <1>2, <1>3, <1>4, <1>5

\* An idle worker only claims, and a worker at work has an item.
LEMMA WorkItem ==
  ASSUME WorkerType, NEW w \in Workers, Work(w)
  PROVE  \/ ClaimNextItem(w)
         \/ pc[w] # "idle" /\ cur[w] \in Items /\ TaskOf(cur[w]) \in Tasks /\ cur[w] \in Keys
<1>1. ClaimNextItem(w) \/ pc[w] # "idle"
  BY DEF Work, At, LoadTask, MarkOrphan, MarkItemSkipped, CountSkipped, CopyObject, VerifyCopy,
         Swap, DeleteSource, DeleteCopy, MarkItemFailed, CountFailed, CountItems, EndTask
<1> QED
  BY <1>1, ItemParts DEF WorkerType

LEMMA WorkType ==
  ASSUME DataType, WorkerType, NEW w \in Workers, Work(w)
  PROVE  DataType'
<1> DEFINE i == cur[w]
<1>1. CASE ClaimNextItem(w)
  <2>1. itemStatus' \in [Items -> {"none", "done", "failed", "skipped"} \cup Open]
    BY <1>1, MarkType DEF ClaimNextItem
  <2> QED
    BY <1>1, <2>1 DEF ClaimNextItem, DataType, taskVars, storeVars, handlerVars
<1>2. CASE ~ClaimNextItem(w)
  <2>0. i \in Items /\ TaskOf(i) \in Tasks /\ i \in Keys
    BY <1>2, WorkItem
  <2>1. CASE LoadTask(w) \/ VerifyCopy(w) \/ CountItems(w)
    BY <2>1 DEF LoadTask, VerifyCopy, CountItems, DataType, taskVars, itemVars, storeVars, handlerVars
  <2>2. CASE MarkOrphan(w) \/ MarkItemSkipped(w) \/ MarkItemFailed(w)
    <3>1. itemStatus' \in [Items -> {"none", "done", "failed", "skipped"} \cup Open]
      BY <2>0, <2>2, MarkType DEF MarkOrphan, MarkItemSkipped, MarkItemFailed, DataType
    <3> QED
      BY <2>2, <3>1 DEF MarkOrphan, MarkItemSkipped, MarkItemFailed, DataType, taskVars, storeVars,
                        handlerVars
  <2>3. CASE CountSkipped(w) \/ CountFailed(w)
    <3>1. progress' \in [Tasks -> [Counters -> Nat]]
      BY <2>0, <2>3, CountType DEF CountSkipped, CountFailed, DataType, Counters
    <3> QED
      BY <2>3, <3>1 DEF CountSkipped, CountFailed, DataType, itemVars, storeVars, handlerVars
  <2>4. CASE CopyObject(w) \/ DeleteCopy(w) \/ DeleteSource(w)
    <3>1. object' \in [Keys -> BOOLEAN]
      BY <2>4 DEF CopyObject, DeleteCopy, DeleteSource, DataType
    <3> QED
      BY <2>4, <3>1 DEF CopyObject, DeleteCopy, DeleteSource, DataType, taskVars, itemVars,
                        handlerVars
  <2>5. CASE Swap(w)
    <3>1. uncertain' \subseteq Items
      BY <2>0, <2>5 DEF Swap, DataType
    <3>2. /\ bind' \in [Files -> Keys]
          /\ row' \in [Keys -> {"none", "live", "deleted"}]
          /\ itemStatus' \in [Items -> {"none", "done", "failed", "skipped"} \cup Open]
          /\ progress' \in [Tasks -> [Counters -> Nat]]
      <4>1. CASE SwapReference(i)
        BY <2>0, <4>1, SwapType
      <4>2. CASE UNCHANGED <<bind, row, itemStatus, progress>>
        BY <4>2 DEF DataType
      <4> QED
        BY <2>5, <4>1, <4>2 DEF Swap
    <3> QED
      BY <2>5, <3>1, <3>2 DEF Swap, DataType, handlerVars
  <2>6. CASE EndTask(w)
    <3>1. verdict[w] = "none" \/ verdict[w] \in Verdicts
      BY DEF WorkerType
    <3> QED
      BY <2>6, <3>1 DEF EndTask, DataType, itemVars, storeVars, handlerVars, Terminal
  <2> QED
    BY <1>2, <2>1, <2>2, <2>3, <2>4, <2>5, <2>6 DEF Work
<1> QED
  BY <1>1, <1>2

\* What a step does to the workers: one of them moves on, and the others stay.
Moves(w) ==
  \/ \E step \in WorkSteps : Goto(w, step)
  \/ Finish(w)
  \/ /\ pc' = [pc EXCEPT ![w] = "verdict"] /\ UNCHANGED cur
     /\ \E result \in Verdicts : verdict' = [verdict EXCEPT ![w] = result]

LEMMA WorkMoves ==
  ASSUME NEW w \in Workers, Work(w), ~ClaimNextItem(w)
  PROVE  Moves(w)
<1>1. CASE \/ LoadTask(w) \/ MarkItemSkipped(w) \/ CopyObject(w) \/ VerifyCopy(w) \/ Swap(w)
           \/ DeleteSource(w) \/ DeleteCopy(w) \/ MarkItemFailed(w) \/ CountFailed(w)
  BY <1>1 DEF Moves, WorkSteps, LoadTask, MarkItemSkipped, CopyObject, VerifyCopy, Swap,
              DeleteSource, DeleteCopy, MarkItemFailed, CountFailed
<1>2. CASE MarkOrphan(w) \/ CountSkipped(w) \/ EndTask(w)
  BY <1>2 DEF Moves, MarkOrphan, CountSkipped, EndTask
<1>3. CASE CountItems(w)
  <2>1. Verdict(TaskOf(cur[w])) \in Verdicts
    BY DEF Verdict, Verdicts
  <2> QED
    BY <1>3, <2>1 DEF Moves, CountItems
<1> QED
  BY <1>1, <1>2, <1>3 DEF Work

LEMMA MovesType ==
  ASSUME WorkerType, NEW w \in Workers, Moves(w), pc[w] # "idle"
  PROVE  WorkerType'
<1>1. CASE \E step \in WorkSteps : Goto(w, step)
  BY <1>1, GotoType
<1>2. CASE Finish(w)
  BY <1>2, FinishType
<1>3. CASE /\ pc' = [pc EXCEPT ![w] = "verdict"] /\ UNCHANGED cur
           /\ \E result \in Verdicts : verdict' = [verdict EXCEPT ![w] = result]
  <2>1. pc' \in [Workers -> WorkSteps \cup {"idle"}]
    BY <1>3 DEF WorkerType, WorkSteps
  <2>2. verdict' \in [Workers -> Verdicts \cup {"none"}]
    BY <1>3 DEF WorkerType
  <2>3. \A v \in Workers : pc'[v] = "idle" <=> pc[v] = "idle"
    BY <1>3 DEF WorkerType
  <2> QED
    BY <1>3, <2>1, <2>2, <2>3 DEF WorkerType
<1> QED
  BY <1>1, <1>2, <1>3 DEF Moves

LEMMA ClaimType ==
  ASSUME WorkerType, NEW w \in Workers, ClaimNextItem(w)
  PROVE  /\ WorkerType'
         /\ \A v \in Workers \ {w} : pc'[v] = pc[v] /\ cur'[v] = cur[v]
<1>1. CASE UNCHANGED workerVars
  BY <1>1 DEF WorkerType, workerVars
<1>2. CASE ~UNCHANGED workerVars
  <2>1. PICK i \in Items : /\ pc' = [pc EXCEPT ![w] = "load"]
                           /\ cur' = [cur EXCEPT ![w] = i]
                           /\ UNCHANGED verdict
    BY <1>2 DEF ClaimNextItem
  <2>2. pc' \in [Workers -> WorkSteps \cup {"idle"}]
    BY <2>1 DEF WorkerType, WorkSteps
  <2>3. cur' \in [Workers -> Items \cup {NoItem}] /\ cur'[w] # NoItem /\ pc'[w] # "idle"
    BY <2>1, KeysAssumption DEF WorkerType
  <2>4. \A v \in Workers \ {w} : pc'[v] = pc[v] /\ cur'[v] = cur[v]
    BY <2>1 DEF WorkerType
  <2> QED
    BY <2>1, <2>2, <2>3, <2>4 DEF WorkerType
<1> QED
  BY <1>1, <1>2

LEMMA TypeInit == Init => TypeOK
<1> SUFFICES ASSUME Init PROVE TypeOK
  OBVIOUS
<1>1. DataType
  <2>1. Files \subseteq Keys
    BY DEF Keys
  <2>2. progress \in [Tasks -> [Counters -> Nat]]
    BY DEF Init
  <2>3. /\ taskStatus \in [Tasks -> {"none", "pending"} \cup Terminal]
        /\ itemStatus \in [Items -> {"none", "done", "failed", "skipped"} \cup Open]
        /\ source \in [Items -> Keys \cup {NoKey}]
        /\ enqueue \in [Tasks -> {"idle", "task", "items", "over"}]
        /\ cancel \in [Tasks -> {"idle", "status", "skip"}]
    BY DEF Init
  <2>4. /\ bind \in [Files -> Keys]
        /\ row \in [Keys -> {"none", "live", "deleted"}]
        /\ object \in [Keys -> BOOLEAN]
        /\ uncertain \subseteq Items
    BY <2>1 DEF Init
  <2> QED
    BY <2>2, <2>3, <2>4 DEF DataType
<1>2. WorkerType
  BY DEF Init, WorkerType
<1> QED
  BY <1>1, <1>2, TypeParts

LEMMA TypeStep == TypeOK /\ [Next]_vars => TypeOK'
<1> SUFFICES ASSUME TypeOK, [Next]_vars PROVE TypeOK'
  OBVIOUS
<1>0. DataType /\ WorkerType
  BY TypeParts
<1>1. CASE \E t \in Tasks : EnqueueStep(t) \/ CancelStep(t)
  <2>1. DataType'
    BY <1>0, <1>1, EnqueueType, CancelType
  <2>2. UNCHANGED workerVars
    BY <1>1 DEF EnqueueStep, CancelStep, Enumerate, CreateTask, CreateItems, StartCancel,
                CancelTask, SkipPendingItems
  <2>3. WorkerType'
    BY <1>0, <2>2 DEF WorkerType, workerVars
  <2> QED
    BY <2>1, <2>3 DEF TypeOK, DataType, WorkerType
<1>2. CASE \E w \in Workers : Work(w)
  <2>1. PICK w \in Workers : Work(w)
    BY <1>2
  <2>2. DataType'
    BY <1>0, <2>1, WorkType
  <2>3. WorkerType'
    BY <1>0, <2>1, WorkItem, WorkMoves, MovesType, ClaimType
  <2> QED
    BY <2>2, <2>3 DEF TypeOK, DataType, WorkerType
<1>3. CASE \E w \in Workers : Crash(w)
  <2>1. DataType'
    BY <1>0, <1>3 DEF Crash, DataType, taskVars, itemVars, storeVars, handlerVars
  <2>2. WorkerType'
    BY <1>0, <1>3, FinishType DEF Crash
  <2> QED
    BY <2>1, <2>2 DEF TypeOK, DataType, WorkerType
<1>4. CASE UNCHANGED vars
  BY <1>4 DEF vars, TypeOK
<1> QED
  BY <1>1, <1>2, <1>3, <1>4 DEF Next

\* Every variable keeps its type, for every set of tasks, files and workers.
THEOREM TypeCorrect == Spec => []TypeOK
  BY TypeInit, TypeStep, PTL DEF Spec

-----------------------------------------------------------------------------
(* The part of the invariant that is about workers, one worker at a time. *)

OwnSteps == {"load", "orphan", "skip", "copy", "verify", "swap"}

Local(w) == pc[w] # "idle" =>
  /\ itemStatus[cur[w]] \notin {"none", "pending"}
  /\ pc[w] \in OwnSteps => itemStatus[cur[w]] = "running" /\ cur[w] \notin uncertain
  /\ pc[w] \in {"undo", "fail"} => itemStatus[cur[w]] = "running" \/ cur[w] \in uncertain
  /\ pc[w] = "source" => itemStatus[cur[w]] = "done"
  /\ pc[w] \in {"load", "orphan", "skip"} => ~object[cur[w]]
  /\ pc[w] = "swap" => object[cur[w]]

Distinct == \A w \in Workers : pc[w] # "idle" => \A v \in Workers \ {w} : cur[v] # cur[w]

LEMMA WorkerParts == WorkerInv /\ WorkerOwnsItem <=> Distinct /\ \A w \in Workers : Local(w)
  BY DEF WorkerInv, WorkerOwnsItem, Distinct, Local, OwnSteps

LEMMA WorkerPartsNext ==
  ASSUME Distinct', \A w \in Workers : Local(w)'
  PROVE  WorkerInv' /\ WorkerOwnsItem'
  BY DEF WorkerInv, WorkerOwnsItem, Distinct, Local, OwnSteps

LEMMA IInvParts ==
  ASSUME IInv
  PROVE  /\ DataType /\ WorkerType /\ StoreInv /\ ItemInv /\ Distinct
         /\ \A w \in Workers : Local(w)
  BY TypeParts, WorkerParts DEF IInv

\* A worker that moves on keeps its item or drops it.
LEMMA MovesKeep ==
  ASSUME WorkerType, Distinct, NEW w \in Workers, Moves(w), pc[w] # "idle"
  PROVE  /\ Distinct'
         /\ \A v \in Workers \ {w} : pc'[v] = pc[v] /\ cur'[v] = cur[v]
         /\ pc'[w] # "idle" => cur'[w] = cur[w]
<1>1. CASE Finish(w)
  <2>1. /\ pc'[w] = "idle" /\ cur'[w] = NoItem
        /\ \A v \in Workers \ {w} : pc'[v] = pc[v] /\ cur'[v] = cur[v]
    BY <1>1 DEF WorkerType, Finish
  <2>2. ASSUME NEW v \in Workers, pc'[v] # "idle", NEW u \in Workers \ {v}
        PROVE  cur'[u] # cur'[v]
    <3>1. v # w /\ cur[v] # NoItem /\ cur'[v] = cur[v]
      BY <2>1, <2>2 DEF WorkerType
    <3> QED
      BY <2>1, <2>2, <3>1 DEF Distinct
  <2> QED
    BY <2>1, <2>2 DEF Distinct
<1>2. CASE ~Finish(w)
  <2>1. /\ cur' = cur
        /\ \A v \in Workers \ {w} : pc'[v] = pc[v]
    BY <1>2 DEF Moves, Goto, WorkerType
  <2>2. \A v \in Workers : pc'[v] # "idle" => pc[v] # "idle"
    BY <2>1
  <2> QED
    BY <2>1, <2>2 DEF Distinct
<1> QED
  BY <1>1, <1>2

\* What the others have established survives the step of w, when it disturbs no item
\* but its own and deletes only objects of items that have moved.
LEMMA OthersKeep ==
  ASSUME IInv, NEW w \in Workers, NEW i,
         \A v \in Workers \ {w} : pc'[v] = pc[v] /\ cur'[v] = cur[v],
         \A v \in Workers \ {w} : pc[v] # "idle" => cur[v] # i,
         \A j \in Items \ {i} :
           /\ itemStatus'[j] = itemStatus[j]
           /\ j \in uncertain' <=> j \in uncertain
           /\ object'[j] => object[j]
           /\ object[j] /\ ~Moved(j) => object'[j]
  PROVE  \A v \in Workers \ {w} : Local(v)'
<1> SUFFICES ASSUME NEW v \in Workers \ {w}, pc'[v] # "idle" PROVE Local(v)'
  BY DEF Local
<1>1. cur[v] \in Items \ {i} /\ Local(v) /\ pc[v] # "idle"
  BY IInvParts DEF WorkerType
<1>2. pc[v] = "swap" => ~Moved(cur[v])
  BY <1>1, IInvParts DEF Local, OwnSteps, StoreInv
<1> DEFINE j == cur[v]
<1>3. /\ itemStatus'[j] = itemStatus[j]
      /\ j \in uncertain' <=> j \in uncertain
      /\ object'[j] => object[j]
      /\ object[j] /\ ~Moved(j) => object'[j]
  BY <1>1
<1>4. cur'[v] = j /\ pc'[v] = pc[v]
  OBVIOUS
<1> HIDE DEF j
<1>5. Local(v) <=> /\ itemStatus[j] \notin {"none", "pending"}
                   /\ pc[v] \in OwnSteps => itemStatus[j] = "running" /\ j \notin uncertain
                   /\ pc[v] \in {"undo", "fail"} => itemStatus[j] = "running" \/ j \in uncertain
                   /\ pc[v] = "source" => itemStatus[j] = "done"
                   /\ pc[v] \in {"load", "orphan", "skip"} => ~object[j]
                   /\ pc[v] = "swap" => object[j]
  BY <1>1 DEF Local, j
<1>6. pc[v] = "swap" => ~Moved(j)
  BY <1>2 DEF j
<1> QED
  BY <1>1, <1>3, <1>4, <1>5, <1>6 DEF Local

-----------------------------------------------------------------------------
(* The data, step by step. *)

\* A new status for one item: what StoreInv and ItemInv ask of it.
LEMMA MarkKeeps ==
  ASSUME IInv, NEW i \in Items, NEW status, MarkItem(i, status),
         UNCHANGED <<source, storeVars, enqueue>>,
         status \notin {"none", "pending"}, itemStatus[i] # "none",
         Moved(i) <=> status = "done" \/ i \in uncertain,
         status = "skipped" => ~object[i] /\ i \notin uncertain
  PROVE  StoreInv' /\ ItemInv'
<1>1. itemStatus'[i] = status /\ \A j \in Items \ {i} : itemStatus'[j] = itemStatus[j]
  BY IInvParts DEF MarkItem, DataType
<1>2. StoreInv /\ ItemInv
  BY IInvParts
<1>3. StoreInv'
  BY <1>1, <1>2 DEF StoreInv, Moved, Reachable, storeVars
<1>4. ItemInv'
  BY <1>1, <1>2 DEF ItemInv, storeVars
<1> QED
  BY <1>3, <1>4

LEMMA ObjectKeeps ==
  ASSUME IInv, NEW k \in Keys, NEW present \in BOOLEAN, object' = [object EXCEPT ![k] = present],
         UNCHANGED <<itemVars, bind, row, uncertain, enqueue>>,
         present => (k \in Items => itemStatus[k] \notin {"none", "pending", "skipped"}),
         ~present => row[k] # "live" \/ k \in uncertain
  PROVE  StoreInv' /\ ItemInv'
<1>1. object'[k] = present /\ \A j \in Keys \ {k} : object'[j] = object[j]
  BY IInvParts DEF DataType
<1>2. StoreInv /\ ItemInv
  BY IInvParts
<1>3. StoreInv'
  BY <1>1, <1>2 DEF StoreInv, Moved, Reachable, itemVars
<1>4. ItemInv'
  BY <1>1, <1>2, ItemParts DEF ItemInv, itemVars
<1> QED
  BY <1>3, <1>4

LEMMA DataKeeps ==
  ASSUME IInv, UNCHANGED <<itemVars, storeVars, enqueue>>
  PROVE  StoreInv' /\ ItemInv'
<1>1. StoreInv /\ ItemInv
  BY IInvParts
<1> QED
  BY <1>1 DEF StoreInv, ItemInv, Moved, Reachable, itemVars, storeVars

\* The swap of an item that its worker owns.
LEMMA SwapKeeps ==
  ASSUME IInv, NEW i \in Items, SwapReference(i),
         itemStatus[i] = "running", i \notin uncertain, object[i],
         uncertain' = uncertain \/ uncertain' = uncertain \cup {i},
         UNCHANGED <<source, object, enqueue>>
  PROVE  /\ StoreInv' /\ ItemInv'
         /\ \A j \in Items \ {i} : itemStatus'[j] = itemStatus[j]
<1> DEFINE s == source[i]
<1>1. DataType /\ StoreInv /\ ItemInv
  BY IInvParts
<1>2. /\ ~Moved(i) /\ s # NoKey /\ s \in Keys /\ Moved(s) /\ s # i /\ i \in Keys
  <2>1. ~Moved(i)
    BY <1>1 DEF StoreInv
  <2>2. s # NoKey
    BY <1>1 DEF ItemInv
  <2>3. s \in Keys
    BY <1>1, <2>2 DEF DataType
  <2>4. Moved(s)
    BY <1>1, <2>2 DEF StoreInv
  <2> QED
    BY <2>1, <2>2, <2>3, <2>4, ItemParts
<1> HIDE DEF s
<1>3. /\ row'[i] = "live" /\ row'[s] = "deleted"
      /\ \A k \in Keys \ {i, s} : row'[k] = row[k]
  BY <1>1, <1>2 DEF SwapReference, DataType, s
<1>4. \A f \in Files : bind'[f] = (IF bind[f] = s THEN i ELSE bind[f])
  BY <1>1 DEF SwapReference, s
<1>5. itemStatus'[i] = "done" /\ \A j \in Items \ {i} : itemStatus'[j] = itemStatus[j]
  BY <1>1 DEF SwapReference, MarkItem, DataType
<1>6. \A k \in Keys : row'[k] # "none" <=> Moved(k) \/ k = i
  BY <1>2, <1>3 DEF Moved
<1>7. StoreInv'
  <2>1. \A k \in Keys : row'[k] = "live" => object'[k] \/ k \in uncertain'
    BY <1>1, <1>2, <1>3 DEF StoreInv, Reachable
  <2>2. \A f \in Files : row'[bind'[f]] = "live"
    <3> SUFFICES ASSUME NEW f \in Files PROVE row'[bind'[f]] = "live"
      OBVIOUS
    <3>1. row[bind[f]] = "live" /\ bind[f] \in Keys
      BY <1>1 DEF StoreInv, DataType
    <3>2. bind[f] # i
      BY <3>1, <1>2 DEF Moved
    <3> QED
      BY <3>1, <3>2, <1>3, <1>4
  <2>3. \A f \in Files : row'[f] # "none"
    BY <1>1, <1>6, ItemParts DEF StoreInv, Keys
  <2>4. ASSUME NEW j \in Items
        PROVE  /\ source'[j] # NoKey => row'[source'[j]] # "none"
               /\ row'[j] # "none" => source'[j] # NoKey /\ row'[source'[j]] = "deleted"
               /\ row'[j] # "none" <=> itemStatus'[j] = "done" \/ j \in uncertain'
    <3>1. source' = source
      OBVIOUS
    <3>2. source[j] # NoKey => source[j] \in Keys /\ Moved(source[j])
      BY <1>1 DEF StoreInv, DataType
    <3>3. /\ Moved(j) => source[j] # NoKey /\ row[source[j]] = "deleted"
          /\ Moved(j) <=> itemStatus[j] = "done" \/ j \in uncertain
      BY <1>1 DEF StoreInv
    <3>4. j \in Keys
      BY ItemParts
    <3>5. source'[j] # NoKey => row'[source'[j]] # "none"
      BY <3>1, <3>2, <1>6
    <3>6. row'[j] # "none" => source'[j] # NoKey /\ row'[source'[j]] = "deleted"
      <4>1. CASE j = i
        BY <4>1, <3>1, <1>2, <1>3 DEF s
      <4>2. CASE j # i
        BY <4>2, <3>1, <3>2, <3>3, <3>4, <1>2, <1>3, <1>6
      <4> QED
        BY <4>1, <4>2
    <3>7. row'[j] # "none" <=> itemStatus'[j] = "done" \/ j \in uncertain'
      BY <3>3, <3>4, <1>5, <1>6
    <3> QED
      BY <3>5, <3>6, <3>7
  <2> QED
    BY <2>1, <2>2, <2>3, <2>4 DEF StoreInv, Reachable, Moved
<1>8. ItemInv'
  BY <1>1, <1>5 DEF ItemInv
<1> QED
  BY <1>5, <1>7, <1>8

-----------------------------------------------------------------------------
(* The steps. *)

NextInv == StoreInv' /\ ItemInv' /\ Distinct' /\ \A w \in Workers : Local(w)'

\* Everything but what the step's own worker has established afterwards.
LEMMA StepParts ==
  ASSUME IInv, NEW w \in Workers, Moves(w), pc[w] # "idle",
         StoreInv', ItemInv', pc'[w] # "idle" => Local(w)',
         \A j \in Items \ {cur[w]} :
           /\ itemStatus'[j] = itemStatus[j]
           /\ j \in uncertain' <=> j \in uncertain
           /\ object'[j] => object[j]
           /\ object[j] /\ ~Moved(j) => object'[j]
  PROVE  NextInv
<1>1. WorkerType /\ Distinct
  BY IInvParts
<1>2. /\ Distinct'
      /\ \A v \in Workers \ {w} : pc'[v] = pc[v] /\ cur'[v] = cur[v]
  BY <1>1, MovesKeep
<1>3. \A v \in Workers \ {w} : cur[v] # cur[w]
  BY <1>1 DEF Distinct
<1>4. \A v \in Workers \ {w} : Local(v)'
  BY <1>2, <1>3, OthersKeep
<1>5. Local(w)'
  BY DEF Local
<1> QED
  BY <1>2, <1>4, <1>5 DEF NextInv

LEMMA QuietStep ==
  ASSUME IInv, NEW w \in Workers,
         \/ LoadTask(w) \/ VerifyCopy(w) \/ CountSkipped(w) \/ CountFailed(w) \/ CountItems(w)
         \/ EndTask(w)
  PROVE  NextInv
<1>1. WorkerType /\ DataType /\ Local(w) /\ ItemInv /\ StoreInv
  BY IInvParts
<1>2. ~ClaimNextItem(w) /\ Work(w) /\ pc[w] # "idle"
  BY DEF LoadTask, VerifyCopy, CountSkipped, CountFailed, CountItems, EndTask, At, ClaimNextItem,
         Work
<1>3. cur[w] \in Items /\ Moves(w)
  BY <1>1, <1>2, WorkItem, WorkMoves
<1>4. UNCHANGED <<itemVars, storeVars, enqueue>> \/ VerifyCopy(w)
  BY DEF LoadTask, CountSkipped, CountFailed, CountItems, EndTask, handlerVars, storeVars
<1>5. UNCHANGED <<itemVars, storeVars, enqueue>>
  BY <1>4 DEF VerifyCopy, handlerVars
<1>6. StoreInv' /\ ItemInv'
  BY <1>5, DataKeeps
<1>7. pc'[w] # "idle" => Local(w)'
  <2> SUFFICES ASSUME pc'[w] # "idle" PROVE Local(w)'
    OBVIOUS
  <2>1. cur'[w] = cur[w]
    BY <1>1, <1>2, <1>3, MovesKeep, IInvParts
  <2>2. UNCHANGED <<itemStatus, uncertain, object>>
    BY <1>5 DEF itemVars, storeVars
  <2> DEFINE i == cur[w]
  <2>3. CASE LoadTask(w)
    <3>1. pc[w] = "load" /\ pc'[w] \in {"skip", "copy", "orphan"}
      BY <1>1, <2>3 DEF LoadTask, At, Goto, WorkerType
    <3> QED
      BY <1>1, <2>1, <2>2, <3>1 DEF Local, OwnSteps
  <2>4. CASE VerifyCopy(w)
    <3>1. pc[w] = "verify" /\ (pc'[w] = "undo" \/ (pc'[w] = "swap" /\ object[i]))
      BY <1>1, <2>4 DEF VerifyCopy, At, Goto, WorkerType
    <3> QED
      BY <1>1, <2>1, <2>2, <3>1 DEF Local, OwnSteps
  <2>5. CASE CountFailed(w)
    <3>1. pc[w] = "fail.count" /\ pc'[w] = "aggregate"
      BY <1>1, <2>5 DEF CountFailed, At, Goto, WorkerType
    <3> QED
      BY <1>1, <2>1, <2>2, <3>1 DEF Local, OwnSteps
  <2>6. CASE CountItems(w)
    <3>1. pc[w] = "aggregate" /\ pc'[w] = "verdict"
      BY <1>1, <2>6 DEF CountItems, At, Finish, WorkerType
    <3> QED
      BY <1>1, <2>1, <2>2, <3>1 DEF Local, OwnSteps
  <2>7. CASE CountSkipped(w) \/ EndTask(w)
    BY <1>1, <2>7 DEF CountSkipped, EndTask, Finish, WorkerType
  <2> QED
    BY <2>3, <2>4, <2>5, <2>6, <2>7
<1> QED
  BY <1>2, <1>3, <1>5, <1>6, <1>7, StepParts DEF itemVars, storeVars

LEMMA CrashStep ==
  ASSUME IInv, NEW w \in Workers, Crash(w)
  PROVE  NextInv
<1>1. UNCHANGED <<itemVars, storeVars, enqueue>> /\ pc[w] # "idle" /\ Moves(w)
  BY DEF Crash, handlerVars, Moves
<1>2. pc'[w] = "idle"
  BY IInvParts DEF Crash, Finish, WorkerType
<1>3. StoreInv' /\ ItemInv'
  BY <1>1, DataKeeps
<1> QED
  BY <1>1, <1>2, <1>3, StepParts DEF itemVars, storeVars

\* The steps that give the worker's own item a new status.
LEMMA MarkStep ==
  ASSUME IInv, NEW w \in Workers, MarkOrphan(w) \/ MarkItemSkipped(w) \/ MarkItemFailed(w)
  PROVE  NextInv
<1> DEFINE i == cur[w]
<1>1. WorkerType /\ DataType /\ Local(w) /\ ItemInv /\ StoreInv
  BY IInvParts
<1>2. ~ClaimNextItem(w) /\ Work(w) /\ pc[w] # "idle"
  BY DEF MarkOrphan, MarkItemSkipped, MarkItemFailed, At, ClaimNextItem, Work
<1>3. i \in Items /\ Moves(w)
  BY <1>1, <1>2, WorkItem, WorkMoves
<1>4. UNCHANGED <<source, storeVars, enqueue>>
  BY DEF MarkOrphan, MarkItemSkipped, MarkItemFailed, handlerVars
<1>5. CASE UNCHANGED itemStatus
  <2>1. StoreInv' /\ ItemInv'
    BY <1>4, <1>5, DataKeeps DEF itemVars
  <2>2. pc'[w] \in {"idle", "skip.count", "fail.count"}
    BY <1>1 DEF MarkOrphan, MarkItemSkipped, MarkItemFailed, Goto, Finish, WorkerType
  <2>3. pc'[w] # "idle" => cur'[w] = i
    BY <1>1, <1>2, <1>3, MovesKeep, IInvParts
  <2>4. pc'[w] # "idle" => Local(w)'
    BY <1>1, <1>2, <1>5, <2>2, <2>3 DEF Local, OwnSteps
  <2> QED
    BY <1>2, <1>3, <1>4, <1>5, <2>1, <2>4, StepParts DEF storeVars
<1>6. CASE ~UNCHANGED itemStatus
  <2>1. \E status \in {"failed", "skipped"} :
          MarkItem(i, status) /\ (status = "skipped" => pc[w] = "skip")
    BY <1>6 DEF MarkOrphan, MarkItemSkipped, MarkItemFailed, At
  <2>2. PICK status \in {"failed", "skipped"} :
          MarkItem(i, status) /\ (status = "skipped" => pc[w] = "skip")
    BY <2>1
  <2>3. itemStatus[i] = "running" \/ i \in uncertain
    <3>1. pc[w] \in {"orphan", "skip", "fail"}
      BY DEF MarkOrphan, MarkItemSkipped, MarkItemFailed, At
    <3> QED
      BY <1>1, <3>1 DEF Local, OwnSteps
  <2>4. status = "skipped" => ~object[i] /\ i \notin uncertain
    BY <1>1, <2>2 DEF Local, OwnSteps
  <2>5. (Moved(i) <=> status = "done" \/ i \in uncertain) /\ itemStatus[i] # "none"
    BY <1>1, <1>2, <1>3, <2>2, <2>3 DEF StoreInv, Local
  <2>6. StoreInv' /\ ItemInv'
    <3> HIDE DEF i
    <3> QED
      BY <1>3, <1>4, <2>2, <2>4, <2>5, MarkKeeps
  <2>7. itemStatus'[i] = status /\ \A j \in Items \ {i} : itemStatus'[j] = itemStatus[j]
    BY <1>1, <1>3, <2>2 DEF MarkItem, DataType
  <2>8. pc'[w] \in {"idle", "skip.count", "fail.count"}
    BY <1>1 DEF MarkOrphan, MarkItemSkipped, MarkItemFailed, Goto, Finish, WorkerType
  <2>9. pc'[w] # "idle" => cur'[w] = i
    BY <1>1, <1>2, <1>3, MovesKeep, IInvParts
  <2>10. pc'[w] # "idle" => Local(w)'
    BY <2>7, <2>8, <2>9 DEF Local, OwnSteps
  <2> QED
    BY <1>2, <1>3, <1>4, <2>6, <2>7, <2>10, StepParts DEF storeVars
<1> QED
  BY <1>5, <1>6

\* The steps that add or delete an object.
LEMMA ObjectStep ==
  ASSUME IInv, NEW w \in Workers, CopyObject(w) \/ DeleteCopy(w) \/ DeleteSource(w)
  PROVE  NextInv
<1> DEFINE i == cur[w]
           s == source[i]
<1>1. WorkerType /\ DataType /\ Local(w) /\ ItemInv /\ StoreInv
  BY IInvParts
<1>2. ~ClaimNextItem(w) /\ Work(w) /\ pc[w] # "idle"
  BY DEF CopyObject, DeleteCopy, DeleteSource, At, ClaimNextItem, Work
<1>3. i \in Items /\ i \in Keys /\ Moves(w)
  BY <1>1, <1>2, WorkItem, WorkMoves
<1>4. UNCHANGED <<itemVars, bind, row, uncertain, enqueue>>
  BY DEF CopyObject, DeleteCopy, DeleteSource, handlerVars
<1>5. pc'[w] # "idle" => cur'[w] = i
  BY <1>1, <1>2, <1>3, MovesKeep, IInvParts
<1>6. itemStatus[i] \notin {"none", "pending"} /\ s # NoKey /\ s \in Keys /\ Moved(s)
  <2>1. itemStatus[i] \notin {"none", "pending"}
    BY <1>1, <1>2 DEF Local
  <2>2. s # NoKey
    BY <1>1, <1>3, <2>1 DEF ItemInv
  <2> QED
    BY <1>1, <1>3, <2>1, <2>2 DEF StoreInv, DataType
<1>7. CASE UNCHANGED object
  <2>1. StoreInv' /\ ItemInv'
    BY <1>4, <1>7, DataKeeps DEF storeVars
  <2>2. \/ pc[w] = "copy" /\ pc'[w] \in {"verify", "fail"}
        \/ pc[w] = "undo" /\ pc'[w] = "fail"
        \/ pc[w] = "source" /\ pc'[w] = "aggregate"
    BY <1>1 DEF CopyObject, DeleteCopy, DeleteSource, At, Goto, WorkerType
  <2>3. Local(w)'
    BY <1>1, <1>4, <1>5, <1>7, <2>2 DEF Local, OwnSteps, itemVars
  <2> QED
    BY <1>2, <1>3, <1>4, <1>7, <2>1, <2>3, StepParts DEF itemVars
<1>8. CASE CopyObject(w) /\ ~UNCHANGED object
  <2>1. object' = [object EXCEPT ![i] = TRUE] /\ pc[w] = "copy" /\ pc'[w] \in {"verify", "fail"}
    BY <1>1, <1>8 DEF CopyObject, At, Goto, WorkerType
  <2>2. itemStatus[i] = "running"
    BY <1>1, <2>1 DEF Local, OwnSteps
  <2>3. StoreInv' /\ ItemInv'
    <3> HIDE DEF i
    <3> QED
      BY <1>3, <1>4, <2>1, <2>2, ObjectKeeps
  <2>4. \A j \in Items \ {i} : object'[j] = object[j]
    BY <1>1, <2>1, ItemParts DEF DataType
  <2>5. Local(w)'
    BY <1>1, <1>4, <1>5, <2>1 DEF Local, OwnSteps, itemVars
  <2> QED
    BY <1>2, <1>3, <1>4, <2>3, <2>4, <2>5, StepParts DEF itemVars
<1>9. CASE DeleteCopy(w) /\ ~UNCHANGED object
  <2>1. object' = [object EXCEPT ![i] = FALSE] /\ pc[w] = "undo" /\ pc'[w] = "fail"
    BY <1>1, <1>9 DEF DeleteCopy, At, Goto, WorkerType
  <2>2. row[i] # "live" \/ i \in uncertain
    BY <1>1, <1>2, <1>3, <2>1 DEF Local, StoreInv, Moved
  <2>3. StoreInv' /\ ItemInv'
    <3> HIDE DEF i
    <3> QED
      BY <1>3, <1>4, <2>1, <2>2, ObjectKeeps
  <2>4. \A j \in Items \ {i} : object'[j] = object[j]
    BY <1>1, <2>1, ItemParts DEF DataType
  <2>5. Local(w)'
    BY <1>1, <1>4, <1>5, <2>1 DEF Local, OwnSteps, itemVars
  <2> QED
    BY <1>2, <1>3, <1>4, <2>3, <2>4, <2>5, StepParts DEF itemVars
<1>10. CASE DeleteSource(w) /\ ~UNCHANGED object
  <2>1. object' = [object EXCEPT ![s] = FALSE] /\ pc[w] = "source" /\ pc'[w] = "aggregate"
    BY <1>1, <1>10 DEF DeleteSource, At, Goto, WorkerType
  <2>2. row[s] = "deleted"
    BY <1>1, <1>2, <1>3, <2>1 DEF Local, StoreInv
  <2>3. StoreInv' /\ ItemInv'
    <3> HIDE DEF s
    <3> QED
      BY <1>4, <1>6, <2>1, <2>2, ObjectKeeps
  <2>4. \A j \in Items : (object'[j] => object[j]) /\ (object[j] /\ ~Moved(j) => object'[j])
    <3> HIDE DEF s
    <3>1. \A j \in Keys : object'[j] = IF j = s THEN FALSE ELSE object[j]
      BY <1>1, <2>1 DEF DataType
    <3> QED
      BY <1>6, <3>1, ItemParts
  <2>5. Local(w)'
    BY <1>1, <1>4, <1>5, <2>1 DEF Local, OwnSteps, itemVars
  <2> QED
    BY <1>2, <1>3, <1>4, <2>3, <2>4, <2>5, StepParts DEF itemVars
<1> QED
  BY <1>7, <1>8, <1>9, <1>10

LEMMA SwapStep ==
  ASSUME IInv, NEW w \in Workers, Swap(w)
  PROVE  NextInv
<1> DEFINE i == cur[w]
<1>1. WorkerType /\ DataType /\ Local(w) /\ ItemInv /\ StoreInv
  BY IInvParts
<1>2. ~ClaimNextItem(w) /\ Work(w) /\ pc[w] = "swap"
  BY DEF Swap, At, ClaimNextItem, Work
<1>3. i \in Items /\ Moves(w)
  BY <1>1, <1>2, WorkItem, WorkMoves
<1>4. itemStatus[i] = "running" /\ i \notin uncertain /\ object[i]
  BY <1>1, <1>2 DEF Local, OwnSteps
<1>5. UNCHANGED <<source, object, enqueue>>
  BY DEF Swap, handlerVars
<1>6. pc'[w] # "idle" => cur'[w] = i
  BY <1>1, <1>2, <1>3, MovesKeep, IInvParts
<1>7. CASE SwapReference(i)
  <2>1. \/ pc'[w] = "source" /\ uncertain' = uncertain
        \/ pc'[w] = "undo" /\ (uncertain' = uncertain \cup {i} \/ itemStatus' = itemStatus)
    BY <1>1 DEF Swap, Goto, WorkerType
  <2>2. uncertain' = uncertain \/ uncertain' = uncertain \cup {i}
    BY DEF Swap
  <2>3. /\ StoreInv' /\ ItemInv'
        /\ \A j \in Items \ {i} : itemStatus'[j] = itemStatus[j]
    <3> HIDE DEF i
    <3> QED
      BY <1>3, <1>4, <1>5, <1>7, <2>2, SwapKeeps
  <2>4. itemStatus'[i] = "done"
    BY <1>1, <1>3, <1>7 DEF SwapReference, MarkItem, DataType
  <2>5. Local(w)'
    BY <1>4, <1>6, <2>1, <2>4 DEF Local, OwnSteps
  <2> QED
    BY <1>2, <1>3, <1>5, <2>2, <2>3, <2>5, StepParts
<1>8. CASE UNCHANGED <<bind, row, itemStatus, progress, uncertain>> /\ Goto(w, "undo")
  <2>1. StoreInv' /\ ItemInv'
    BY <1>5, <1>8, DataKeeps DEF itemVars, storeVars
  <2>2. pc'[w] = "undo"
    BY <1>1, <1>8 DEF Goto, WorkerType
  <2>3. Local(w)'
    BY <1>4, <1>6, <1>8, <2>2 DEF Local, OwnSteps
  <2> QED
    BY <1>2, <1>3, <1>5, <1>8, <2>1, <2>3, StepParts
<1> QED
  BY <1>7, <1>8 DEF Swap

LEMMA ClaimStep ==
  ASSUME IInv, NEW w \in Workers, ClaimNextItem(w)
  PROVE  NextInv
<1>1. WorkerType /\ DataType /\ ItemInv /\ StoreInv /\ Distinct /\ pc[w] = "idle"
  BY IInvParts DEF ClaimNextItem, At
<1>2. PICK i \in Items :
        /\ itemStatus[i] = "pending" /\ MarkItem(i, "running")
        /\ \/ /\ pc' = [pc EXCEPT ![w] = "load"]
              /\ cur' = [cur EXCEPT ![w] = i]
           \/ UNCHANGED workerVars
  BY DEF ClaimNextItem, Claimable
<1>3. UNCHANGED <<source, storeVars, enqueue>>
  BY DEF ClaimNextItem, handlerVars
<1>4. ~object[i] /\ i \notin uncertain /\ ~Moved(i)
  BY <1>1, <1>2 DEF ItemInv, StoreInv
<1>5. StoreInv' /\ ItemInv'
  BY <1>2, <1>3, <1>4, MarkKeeps
<1>6. itemStatus'[i] = "running" /\ \A j \in Items \ {i} : itemStatus'[j] = itemStatus[j]
  BY <1>1, <1>2 DEF MarkItem, DataType
<1>7. \A v \in Workers \ {w} : pc'[v] = pc[v] /\ cur'[v] = cur[v]
  BY <1>1, ClaimType
<1>8. \A v \in Workers : pc[v] # "idle" => cur[v] # i
  BY <1>2, IInvParts DEF Local
<1>9. \A v \in Workers \ {w} : Local(v)'
  BY <1>3, <1>6, <1>7, <1>8, OthersKeep DEF storeVars
<1>10. \/ pc'[w] = "idle"
       \/ pc'[w] = "load" /\ cur'[w] = i
  BY <1>1, <1>2 DEF WorkerType, workerVars
<1>11. Local(w)'
  BY <1>3, <1>4, <1>6, <1>10 DEF Local, OwnSteps, storeVars
<1>12. Distinct'
  <2> SUFFICES ASSUME NEW v \in Workers, pc'[v] # "idle", NEW u \in Workers \ {v}
               PROVE  cur'[u] # cur'[v]
    BY DEF Distinct
  <2>1. \A x \in Workers : pc[x] = "idle" <=> cur[x] = NoItem
    BY <1>1 DEF WorkerType
  <2>2. \A x \in Workers : pc'[x] = "idle" <=> cur'[x] = NoItem
    BY <1>1, ClaimType DEF WorkerType
  <2>3. \A x \in Workers : cur[x] # i
    BY <1>2, <1>8, <2>1, KeysAssumption
  <2>4. CASE v = w
    BY <1>7, <1>10, <2>3, <2>4
  <2>5. CASE v # w /\ u = w
    BY <1>7, <1>10, <2>2, <2>3, <2>5
  <2>6. CASE v # w /\ u # w
    BY <1>1, <1>7, <2>6 DEF Distinct
  <2> QED
    BY <2>4, <2>5, <2>6
<1> QED
  BY <1>5, <1>9, <1>11, <1>12 DEF NextInv

\* The handlers leave the workers and what they have established alone.
LEMMA HandlerWorkers ==
  ASSUME IInv, UNCHANGED <<workerVars, storeVars>>,
         \A j \in Items : itemStatus[j] \notin {"none", "pending"} => itemStatus'[j] = itemStatus[j]
  PROVE  Distinct' /\ \A w \in Workers : Local(w)'
<1>1. Distinct /\ WorkerType
  BY IInvParts
<1>2. Distinct'
  BY <1>1 DEF Distinct, workerVars
<1>3. ASSUME NEW w \in Workers PROVE Local(w)'
  <2> SUFFICES ASSUME pc[w] # "idle" PROVE Local(w)'
    BY DEF Local, workerVars
  <2>1. Local(w) /\ cur[w] \in Items
    BY <1>1, IInvParts DEF WorkerType
  <2>2. itemStatus'[cur[w]] = itemStatus[cur[w]]
    BY <2>1 DEF Local
  <2> QED
    BY <2>1, <2>2 DEF Local, workerVars, storeVars
<1> QED
  BY <1>2, <1>3

LEMMA EnqueueKeeps ==
  ASSUME IInv, NEW t \in Tasks, EnqueueStep(t)
  PROVE  NextInv
<1>1. WorkerType /\ DataType /\ ItemInv /\ StoreInv
  BY IInvParts
<1>2. UNCHANGED <<workerVars, storeVars>>
  BY DEF EnqueueStep, Enumerate, CreateTask, CreateItems
<1>3. enqueue'[t] # "idle" /\ \A u \in Tasks \ {t} : enqueue'[u] = enqueue[u]
  BY <1>1 DEF EnqueueStep, Enumerate, CreateTask, CreateItems, DataType
<1>4. CASE Enumerate(t)
  <2>1. \A i \in Items : TaskOf(i) = t => itemStatus[i] = "none"
    BY <1>1, <1>4 DEF ItemInv, Enumerate
  <2>2. \A i \in Items :
          \/ source'[i] = source[i]
          \/ /\ TaskOf(i) = t /\ source'[i] \in Keys /\ Moved(source'[i])
             /\ source'[i] # NoKey
    <3>1. \A f \in Files : bind[f] \in Keys /\ Moved(bind[f]) /\ bind[f] # NoKey
      BY <1>1, KeysAssumption DEF StoreInv, DataType, Moved
    <3> QED
      BY <1>4, <3>1, ItemParts DEF Enumerate, DataType
  <2>3. \A i \in Items : Moved(i) => source'[i] = source[i]
    <3> SUFFICES ASSUME NEW i \in Items, Moved(i), TaskOf(i) = t PROVE FALSE
      BY <2>2
    <3>1. itemStatus[i] = "none" /\ i \in uncertain
      BY <1>1, <2>1 DEF StoreInv
    <3> QED
      BY <1>1, <3>1 DEF ItemInv
  <2>4. UNCHANGED <<itemStatus, storeVars>>
    BY <1>4 DEF Enumerate
  <2>5. StoreInv'
    <3>1. /\ \A k \in Keys : row'[k] = "live" => Reachable(k)'
          /\ \A f \in Files : row'[bind'[f]] = "live"
          /\ \A f \in Files : row'[f] # "none"
      BY <1>1, <2>4 DEF StoreInv, Reachable, Moved, storeVars
    <3>2. ASSUME NEW i \in Items
          PROVE  /\ source'[i] # NoKey => row'[source'[i]] # "none"
                 /\ row'[i] # "none" => source'[i] # NoKey /\ row'[source'[i]] = "deleted"
                 /\ row'[i] # "none" <=> itemStatus'[i] = "done" \/ i \in uncertain'
      BY <1>1, <2>2, <2>3, <2>4 DEF StoreInv, Moved, storeVars
    <3> QED
      BY <3>1, <3>2 DEF StoreInv, Moved
  <2>6. ItemInv'
    <3>1. \A i \in Items : itemStatus'[i] # "none" =>
            source'[i] = source[i] /\ enqueue'[TaskOf(i)] = enqueue[TaskOf(i)]
      BY <1>3, <1>4, <2>1, <2>4, ItemParts DEF Enumerate
    <3> QED
      BY <1>1, <2>4, <3>1 DEF ItemInv, storeVars
  <2> QED
    BY <1>2, <2>4, <2>5, <2>6, HandlerWorkers DEF NextInv
<1>5. CASE CreateTask(t)
  <2>1. UNCHANGED <<itemVars, storeVars>>
    BY <1>5 DEF CreateTask
  <2>2. StoreInv'
    BY <1>1, <2>1 DEF StoreInv, Moved, Reachable, itemVars, storeVars
  <2>3. \A i \in Items : itemStatus[i] # "none" => enqueue'[TaskOf(i)] = enqueue[TaskOf(i)]
    BY <1>1, <1>3, <1>5, ItemParts DEF CreateTask, ItemInv
  <2>4. ItemInv'
    BY <1>1, <2>1, <2>3 DEF ItemInv, itemVars, storeVars
  <2> QED
    BY <1>2, <2>1, <2>2, <2>4, HandlerWorkers DEF NextInv, itemVars
<1>6. CASE CreateItems(t)
  <2>1. \A i \in Items : TaskOf(i) = t => itemStatus[i] = "none"
    BY <1>1, <1>6 DEF ItemInv, CreateItems
  <2>2. UNCHANGED <<source, storeVars>> /\ enqueue'[t] = "over"
    BY <1>1, <1>6 DEF CreateItems, DataType
  <2>3. \A i \in Items :
          \/ itemStatus'[i] = itemStatus[i]
          \/ TaskOf(i) = t /\ itemStatus[i] = "none" /\ itemStatus'[i] = "pending" /\ source[i] # NoKey
    BY <1>1, <1>6, <2>1 DEF CreateItems, Planned, ItemsOf, DataType
  <2>4. StoreInv'
    BY <1>1, <2>2, <2>3 DEF StoreInv, Moved, Reachable, storeVars
  <2>5. ItemInv'
    BY <1>1, <1>3, <2>2, <2>3, ItemParts DEF ItemInv, storeVars
  <2> QED
    BY <1>2, <2>3, <2>4, <2>5, HandlerWorkers DEF NextInv
<1> QED
  BY <1>4, <1>5, <1>6 DEF EnqueueStep

LEMMA CancelKeeps ==
  ASSUME IInv, NEW t \in Tasks, CancelStep(t)
  PROVE  NextInv
<1>1. WorkerType /\ DataType /\ ItemInv /\ StoreInv
  BY IInvParts
<1>2. UNCHANGED <<workerVars, storeVars, source, enqueue>>
  BY DEF CancelStep, StartCancel, CancelTask, SkipPendingItems, itemVars
<1>3. \A i \in Items :
        \/ itemStatus'[i] = itemStatus[i]
        \/ itemStatus[i] = "pending" /\ itemStatus'[i] = "skipped"
  BY <1>1 DEF CancelStep, StartCancel, CancelTask, SkipPendingItems, Skippable, itemVars, DataType
<1>4. StoreInv'
  BY <1>1, <1>2, <1>3 DEF StoreInv, Moved, Reachable, storeVars
<1>5. ItemInv'
  BY <1>1, <1>2, <1>3 DEF ItemInv, storeVars
<1> QED
  BY <1>2, <1>3, <1>4, <1>5, HandlerWorkers DEF NextInv

LEMMA InvInit == Init => IInv
<1> SUFFICES ASSUME Init PROVE IInv
  OBVIOUS
<1>1. TypeOK
  BY TypeInit
<1>2. /\ \A i \in Items : i \in Keys /\ i \notin Files
      /\ \A f \in Files : f \in Keys
  BY KeysAssumption DEF Keys
<1>3. /\ \A i \in Items : itemStatus[i] = "none" /\ source[i] = NoKey
      /\ \A k \in Keys : /\ row[k] = (IF k \in Files THEN "live" ELSE "none")
                         /\ object[k] <=> k \in Files
      /\ \A f \in Files : bind[f] = f
      /\ uncertain = {}
      /\ \A w \in Workers : pc[w] = "idle"
  BY DEF Init
<1>4. StoreInv
  BY <1>2, <1>3 DEF StoreInv, Moved, Reachable
<1>5. ItemInv
  BY <1>2, <1>3 DEF ItemInv
<1>6. WorkerInv /\ WorkerOwnsItem
  BY <1>3 DEF WorkerInv, WorkerOwnsItem
<1> QED
  BY <1>1, <1>4, <1>5, <1>6 DEF IInv

LEMMA InvStep == IInv /\ [Next]_vars => IInv'
<1> SUFFICES ASSUME IInv, [Next]_vars PROVE IInv'
  OBVIOUS
<1>1. TypeOK'
  BY TypeStep DEF IInv
<1>2. CASE UNCHANGED vars
  BY <1>1, <1>2 DEF vars, IInv, StoreInv, Moved, Reachable, ItemInv, WorkerInv, WorkerOwnsItem
<1>3. CASE Next
  <2>1. NextInv
    BY <1>3, EnqueueKeeps, CancelKeeps, ClaimStep, QuietStep, CrashStep, MarkStep, ObjectStep,
       SwapStep DEF Next, Work
  <2>2. WorkerInv' /\ WorkerOwnsItem'
    BY <2>1, WorkerPartsNext DEF NextInv
  <2> QED
    BY <1>1, <2>1, <2>2 DEF NextInv, IInv
<1> QED
  BY <1>2, <1>3

\* The invariant IInv holds of every behaviour.
THEOREM Inductive == Spec => []IInv
  BY InvInit, InvStep, PTL DEF Spec

\* A file's row is live and its object is there, unless a commit answer was lost.
THEOREM BindingIsBacked == Spec => []BindingBacked
<1>1. IInv => BindingBacked
  BY IInvParts DEF BindingBacked, StoreInv, Reachable, DataType
<1> QED
  BY <1>1, Inductive, PTL

\* An item belongs to one worker until that worker has settled it.
THEOREM WorkersOwnItems == Spec => []WorkerOwnsItem
<1>1. IInv => WorkerOwnsItem
  BY DEF IInv
<1> QED
  BY <1>1, Inductive, PTL

\* A skipped item has neither a row nor an object on the target.
THEOREM SkippedIsUntouched == Spec => []SkippedUntouched
<1>1. IInv => SkippedUntouched
  <2> SUFFICES ASSUME IInv, NEW i \in Items, itemStatus[i] = "skipped"
               PROVE  row[i] = "none" /\ ~object[i]
    BY DEF SkippedUntouched
  <2>1. ItemInv /\ StoreInv
    BY IInvParts
  <2> QED
    BY <2>1 DEF ItemInv, StoreInv, Moved
<1> QED
  BY <1>1, Inductive, PTL

-----------------------------------------------------------------------------
(* Verdicts: what a worker read when it counted the items still holds when it   *)
(* writes the verdict, and after.                                               *)

\* How the status of an item changes; a settled one only after a lost commit answer.
StatusStep ==
  /\ uncertain \subseteq uncertain'
  /\ \A t \in Tasks : enqueue[t] = "over" => enqueue'[t] = "over"
  /\ \A i \in Items :
       \/ itemStatus'[i] = itemStatus[i]
       \/ itemStatus[i] \in Open
       \/ itemStatus[i] = "none" /\ enqueue[TaskOf(i)] # "over"
       \/ i \in uncertain /\ itemStatus'[i] = "failed"

LEMMA StatusSteps == IInv /\ [Next]_vars => StatusStep
<1> SUFFICES ASSUME IInv, [Next]_vars PROVE StatusStep
  OBVIOUS
<1>0. WorkerType /\ DataType /\ ItemInv
  BY IInvParts
<1>1. CASE UNCHANGED vars
  BY <1>1 DEF vars, StatusStep
<1>2. ASSUME NEW t \in Tasks, EnqueueStep(t) PROVE StatusStep
  <2>1. UNCHANGED uncertain /\ \A u \in Tasks : enqueue[u] = "over" => enqueue'[u] = "over"
    BY <1>0, <1>2 DEF EnqueueStep, Enumerate, CreateTask, CreateItems, storeVars, DataType
  <2>2. ASSUME NEW i \in Items, itemStatus'[i] # itemStatus[i]
        PROVE  itemStatus[i] = "none" /\ enqueue[TaskOf(i)] # "over"
    <3>1. CreateItems(t) /\ TaskOf(i) = t
      BY <1>0, <1>2, <2>2 DEF EnqueueStep, Enumerate, CreateTask, CreateItems, Planned, ItemsOf,
                             itemVars, DataType
    <3> QED
      BY <1>0, <3>1 DEF CreateItems, ItemInv
  <2> QED
    BY <2>1, <2>2 DEF StatusStep
<1>3. ASSUME NEW t \in Tasks, CancelStep(t) PROVE StatusStep
  <2>1. UNCHANGED <<uncertain, enqueue>>
    BY <1>3 DEF CancelStep, StartCancel, CancelTask, SkipPendingItems, storeVars
  <2>2. \A i \in Items : itemStatus'[i] = itemStatus[i] \/ itemStatus[i] \in Open
    BY <1>0, <1>3 DEF CancelStep, StartCancel, CancelTask, SkipPendingItems, Skippable, itemVars,
                      DataType, Open
  <2> QED
    BY <2>1, <2>2 DEF StatusStep
<1>4. ASSUME NEW w \in Workers, Crash(w) PROVE StatusStep
  BY <1>4 DEF Crash, StatusStep, itemVars, storeVars, handlerVars
<1>5. ASSUME NEW w \in Workers, Work(w) PROVE StatusStep
  <2>1. uncertain \subseteq uncertain' /\ UNCHANGED enqueue
    BY <1>5 DEF Work, ClaimNextItem, LoadTask, MarkOrphan, MarkItemSkipped, CountSkipped,
                CopyObject, VerifyCopy, Swap, DeleteSource, DeleteCopy, MarkItemFailed,
                CountFailed, CountItems, EndTask, storeVars, handlerVars
  <2>2. \A i \in Items : \/ itemStatus'[i] = itemStatus[i]
                         \/ itemStatus[i] \in Open
                         \/ i \in uncertain /\ itemStatus'[i] = "failed"
    <3>1. CASE ClaimNextItem(w)
      BY <1>0, <3>1 DEF ClaimNextItem, Claimable, MarkItem, Open, DataType
    <3>2. CASE MarkOrphan(w) \/ MarkItemSkipped(w) \/ Swap(w)
      <4>1. itemStatus[cur[w]] \in Open
        <5>1. pc[w] \in OwnSteps /\ pc[w] # "idle"
          BY <3>2 DEF MarkOrphan, MarkItemSkipped, Swap, At, OwnSteps
        <5> QED
          BY <5>1, IInvParts DEF Local, Open
      <4>2. \A i \in Items : i # cur[w] => itemStatus'[i] = itemStatus[i]
        BY <1>0, <3>2 DEF MarkOrphan, MarkItemSkipped, Swap, SwapReference, MarkItem, DataType
      <4> QED
        BY <4>1, <4>2
    <3>3. CASE MarkItemFailed(w)
      <4>1. itemStatus[cur[w]] \in Open \/ cur[w] \in uncertain
        <5>1. pc[w] = "fail"
          BY <3>3 DEF MarkItemFailed, At
        <5> QED
          BY <5>1, IInvParts DEF Local, Open
      <4>2. \A i \in Items : \/ itemStatus'[i] = itemStatus[i]
                             \/ i = cur[w] /\ itemStatus'[i] = "failed"
        BY <1>0, <3>3 DEF MarkItemFailed, MarkItem, DataType
      <4> QED
        BY <4>1, <4>2
    <3>4. CASE ~ClaimNextItem(w) /\ ~MarkOrphan(w) /\ ~MarkItemSkipped(w) /\ ~Swap(w)
               /\ ~MarkItemFailed(w)
      BY <1>5, <3>4 DEF Work, LoadTask, CountSkipped, CopyObject, VerifyCopy, DeleteSource,
                        DeleteCopy, CountFailed, CountItems, EndTask, itemVars
    <3> QED
      BY <3>1, <3>2, <3>3, <3>4
  <2> QED
    BY <2>1, <2>2 DEF StatusStep
<1> QED
  BY <1>1, <1>2, <1>3, <1>4, <1>5 DEF Next

\* Whatever happens, a worker that does not move itself stays where it is.
LEMMA WorkerStays ==
  ASSUME IInv, [Next]_vars, NEW w \in Workers
  PROVE  \/ pc'[w] = pc[w] /\ cur'[w] = cur[w] /\ verdict'[w] = verdict[w]
         \/ Work(w) \/ Crash(w)
<1>0. WorkerType
  BY IInvParts
<1>1. CASE UNCHANGED vars
  BY <1>1 DEF vars
<1>2. CASE \E t \in Tasks : EnqueueStep(t) \/ CancelStep(t)
  BY <1>2 DEF EnqueueStep, Enumerate, CreateTask, CreateItems, CancelStep, StartCancel, CancelTask,
              SkipPendingItems, workerVars
<1>3. ASSUME NEW v \in Workers \ {w}, Work(v) \/ Crash(v)
      PROVE  pc'[w] = pc[w] /\ cur'[w] = cur[w] /\ verdict'[w] = verdict[w]
  <2>1. CASE ClaimNextItem(v)
    BY <1>0, <2>1 DEF ClaimNextItem, workerVars, WorkerType
  <2>2. CASE ~ClaimNextItem(v)
    <3>1. Moves(v)
      BY <1>3, <2>2, WorkMoves DEF Crash, Moves
    <3> QED
      BY <1>0, <3>1 DEF Moves, Goto, Finish, WorkerType
  <2> QED
    BY <2>1, <2>2
<1> QED
  BY <1>1, <1>2, <1>3 DEF Next

\* What makes a verdict on a task true.
Holds(t, result) ==
  /\ enqueue[t] = "over"
  /\ ~Unfinished(t)
  /\ result = "completed" =>
       \A i \in ItemsOf(t) : itemStatus[i] = "failed" => i \in uncertain
  /\ result = "failed" => \E i \in ItemsOf(t) : itemStatus[i] = "failed"

VerdictInv ==
  /\ \A t \in Tasks : taskStatus[t] \in Verdicts => Holds(t, taskStatus[t])
  /\ \A w \in Workers : pc[w] = "verdict" =>
       verdict[w] \in Verdicts /\ Holds(TaskOf(cur[w]), verdict[w])

LEMMA HoldsOn ==
  ASSUME StatusStep, NEW t \in Tasks, NEW result, Holds(t, result)
  PROVE  Holds(t, result)'
<1>1. \A i \in ItemsOf(t) : i \in Items /\ TaskOf(i) = t
  BY DEF ItemsOf
<1>2. \A i \in ItemsOf(t) : \/ itemStatus'[i] = itemStatus[i]
                            \/ i \in uncertain /\ itemStatus'[i] = "failed"
  BY <1>1 DEF StatusStep, Holds, Unfinished
<1>3. ~Unfinished(t)'
  BY <1>2 DEF Holds, Unfinished, Open
<1>4. \A i \in ItemsOf(t) : itemStatus[i] = "failed" => itemStatus'[i] = "failed"
  BY <1>2
<1>5. \A i \in ItemsOf(t) : itemStatus'[i] = "failed" =>
        i \in uncertain' \/ itemStatus[i] = "failed"
  BY <1>2 DEF StatusStep
<1>6. uncertain \subseteq uncertain'
  BY DEF StatusStep
<1>7. enqueue'[t] = "over"
  BY DEF StatusStep, Holds
<1> QED
  BY <1>3, <1>4, <1>5, <1>6, <1>7 DEF Holds

LEMMA VerdictStep == IInv /\ VerdictInv /\ [Next]_vars => VerdictInv'
<1> SUFFICES ASSUME IInv, VerdictInv, [Next]_vars PROVE VerdictInv'
  OBVIOUS
<1>0. WorkerType /\ DataType /\ ItemInv /\ StatusStep
  BY IInvParts, StatusSteps
<1>1. ASSUME NEW t \in Tasks, taskStatus'[t] \in Verdicts PROVE Holds(t, taskStatus[t])'
  <2>1. CASE taskStatus'[t] = taskStatus[t]
    BY <1>0, <1>1, <2>1, HoldsOn DEF VerdictInv
  <2>2. CASE taskStatus'[t] # taskStatus[t]
    <3>1. \E w \in Workers : EndTask(w) /\ TaskOf(cur[w]) = t /\ taskStatus'[t] = verdict[w]
      <4>1. ~\E u \in Tasks : EnqueueStep(u)
        BY <1>0, <1>1, <2>2 DEF EnqueueStep, Enumerate, CreateTask, CreateItems, taskVars,
                               DataType, Verdicts
      <4>2. ~\E u \in Tasks : CancelStep(u)
        BY <1>0, <1>1, <2>2 DEF CancelStep, StartCancel, CancelTask, SkipPendingItems, taskVars,
                               DataType, Verdicts
      <4>3. \E w \in Workers : EndTask(w)
        BY <2>2, <4>1, <4>2 DEF Next, vars, Work, ClaimNextItem, LoadTask, MarkOrphan,
           MarkItemSkipped, CountSkipped, CopyObject, VerifyCopy, Swap, DeleteSource, DeleteCopy,
           MarkItemFailed, CountFailed, CountItems, Crash, taskVars
      <4> QED
        BY <1>0, <2>2, <4>3 DEF EndTask, DataType
    <3>2. PICK w \in Workers : EndTask(w) /\ TaskOf(cur[w]) = t /\ taskStatus'[t] = verdict[w]
      BY <3>1
    <3>3. Holds(t, verdict[w])
      BY <3>2 DEF VerdictInv, EndTask, At
    <3>4. \A result : result = verdict[w] => Holds(t, result)'
      BY <1>0, <3>3, HoldsOn
    <3> QED
      BY <3>2, <3>4
  <2> QED
    BY <2>1, <2>2
<1>2. ASSUME NEW w \in Workers, pc'[w] = "verdict"
      PROVE  verdict'[w] \in Verdicts /\ Holds(TaskOf(cur[w]), verdict[w])'
  <2>1. CASE pc[w] = "verdict"
    <3>1. ~Crash(w) /\ ~Work(w)
      <4>1. ASSUME Crash(w) \/ EndTask(w) PROVE FALSE
        BY <1>0, <1>2, <4>1 DEF Crash, EndTask, Finish, WorkerType
      <4> QED
        BY <2>1, <4>1 DEF Work, At, ClaimNextItem, LoadTask, MarkOrphan, MarkItemSkipped,
           CountSkipped, CopyObject, VerifyCopy, Swap, DeleteSource, DeleteCopy, MarkItemFailed,
           CountFailed, CountItems
    <3>2. verdict'[w] = verdict[w] /\ cur'[w] = cur[w]
      BY <3>1, WorkerStays
    <3>3. TaskOf(cur[w]) \in Tasks
      BY <1>0, <2>1, ItemParts DEF WorkerType
    <3>4. Holds(TaskOf(cur[w]), verdict[w]) /\ verdict[w] \in Verdicts
      BY <2>1 DEF VerdictInv
    <3>5. \A t \in Tasks : \A result : Holds(t, result) => Holds(t, result)'
      BY <1>0, HoldsOn
    <3>6. \A t, result : t = TaskOf(cur[w]) /\ result = verdict[w] => Holds(t, result)'
      BY <3>3, <3>4, <3>5
    <3> QED
      BY <3>2, <3>4, <3>6
  <2>2. CASE pc[w] # "verdict"
    <3>1. CountItems(w) /\ cur[w] \in Items
      <4>1. Work(w) /\ ~ClaimNextItem(w)
        BY <1>0, <1>2, <2>2, WorkerStays DEF Crash, Finish, ClaimNextItem, workerVars, WorkerType
      <4>2. pc[w] # "idle" /\ cur[w] \in Items
        BY <1>0, <4>1, WorkItem
      <4> QED
        BY <1>0, <1>2, <4>1, <4>2 DEF Work, LoadTask, MarkOrphan, MarkItemSkipped, CountSkipped,
           CopyObject, VerifyCopy, Swap, DeleteSource, DeleteCopy, MarkItemFailed, CountFailed,
           EndTask, Goto, Finish, WorkerType
    <3> DEFINE t == TaskOf(cur[w])
               result == Verdict(t)
    <3>2. /\ ~Unfinished(t) /\ verdict'[w] = result /\ cur'[w] = cur[w]
      <4>1. ~Finish(w)
        BY <1>0, <1>2 DEF Finish, WorkerType
      <4> QED
        BY <1>0, <3>1, <4>1 DEF CountItems, WorkerType
    <3>3. result \in Verdicts /\ t \in Tasks
      BY <3>1, ItemParts DEF Verdict, Verdicts
    <3>4. enqueue[t] = "over"
      <4>1. itemStatus[cur[w]] # "none"
        BY <3>1, IInvParts DEF CountItems, At, Local
      <4> QED
        BY <1>0, <3>1, <4>1 DEF ItemInv
    <3>5. Holds(t, result)
      BY <3>2, <3>4 DEF Holds, Verdict
    <3>6. \A u \in Tasks : \A r : Holds(u, r) => Holds(u, r)'
      BY <1>0, HoldsOn
    <3>7. \A u, r : u = TaskOf(cur[w]) /\ r = result => Holds(u, r)'
      <4> HIDE DEF result
      <4> QED
        BY <3>3, <3>5, <3>6
    <3> QED
      <4> HIDE DEF result
      <4> QED
        BY <3>2, <3>3, <3>7
  <2> QED
    BY <2>1, <2>2
<1> QED
  BY <1>1, <1>2 DEF VerdictInv

LEMMA VerdictInit == Init => VerdictInv
<1> SUFFICES ASSUME Init PROVE VerdictInv
  OBVIOUS
<1>1. (\A t \in Tasks : taskStatus[t] = "none") /\ (\A w \in Workers : pc[w] = "idle")
  BY DEF Init
<1> QED
  BY <1>1 DEF VerdictInv, Verdicts

\* A verdict that a worker has computed and not written yet stays true meanwhile.
THEOREM VerdictInductive == Spec => [](IInv /\ VerdictInv)
<1>1. Init => IInv /\ VerdictInv
  BY InvInit, VerdictInit
<1>2. (IInv /\ VerdictInv) /\ [Next]_vars => (IInv /\ VerdictInv)'
  BY InvStep, VerdictStep
<1> QED
  BY <1>1, <1>2, PTL DEF Spec

\* A task that is reported as completed or failed has no item left to do, and the
\* report says whether one failed, whichever workers aggregate and crash.
THEOREM VerdictsAreSound == Spec => []VerdictSound
<1>1. VerdictInv => VerdictSound
  BY DEF VerdictInv, VerdictSound, Holds, Unfinished
<1> QED
  BY <1>1, VerdictInductive, PTL

-----------------------------------------------------------------------------
(* What a canceled task no longer touches. *)

\* An item that its task's end has reached: its worker, if any, is about to skip it.
Stopped(i) ==
  /\ taskStatus[TaskOf(i)] \in Terminal /\ enqueue[TaskOf(i)] = "over"
  /\ row[i] = "none"
  /\ \A w \in Workers : cur[w] = i => pc[w] \in {"load", "orphan", "skip", "skip.count"}

LEMMA StoppedStart ==
  ASSUME IInv, NEW i \in Items, taskStatus[TaskOf(i)] \in Terminal, itemStatus[i] = "pending"
  PROVE  Stopped(i)
<1>0. WorkerType /\ ItemInv /\ StoreInv
  BY IInvParts
<1>1. row[i] = "none" /\ enqueue[TaskOf(i)] = "over"
  BY <1>0 DEF ItemInv, StoreInv, Moved
<1>2. \A w \in Workers : cur[w] # i
  <2> SUFFICES ASSUME NEW w \in Workers, cur[w] = i PROVE FALSE
    OBVIOUS
  <2>1. pc[w] # "idle"
    BY <1>0, KeysAssumption DEF WorkerType
  <2> QED
    BY <2>1, IInvParts DEF Local
<1> QED
  BY <1>1, <1>2 DEF Stopped

LEMMA EndedStays ==
  ASSUME IInv, VerdictInv, [Next]_vars, NEW t \in Tasks, taskStatus[t] \in Terminal,
         enqueue[t] = "over"
  PROVE  taskStatus'[t] \in Terminal
<1>0. WorkerType /\ DataType
  BY IInvParts
<1> SUFFICES ASSUME taskStatus'[t] # taskStatus[t] PROVE taskStatus'[t] \in Terminal
  OBVIOUS
<1>1. \/ \E u \in Tasks : EnqueueStep(u)
      \/ \E u \in Tasks : CancelTask(u)
      \/ \E w \in Workers : EndTask(w)
  BY DEF Next, vars, CancelStep, StartCancel, SkipPendingItems, Work, ClaimNextItem, LoadTask,
     MarkOrphan, MarkItemSkipped, CountSkipped, CopyObject, VerifyCopy, Swap, DeleteSource,
     DeleteCopy, MarkItemFailed, CountFailed, CountItems, Crash, taskVars
<1>2. ~\E u \in Tasks : EnqueueStep(u)
  BY <1>0 DEF EnqueueStep, Enumerate, CreateTask, CreateItems, taskVars, DataType
<1>3. ASSUME NEW u \in Tasks, CancelTask(u) PROVE taskStatus'[t] \in Terminal
  BY <1>0, <1>3 DEF CancelTask, DataType, Terminal
<1>4. ASSUME NEW w \in Workers, EndTask(w) PROVE taskStatus'[t] \in Terminal
  <2>1. verdict[w] \in Terminal
    BY <1>4 DEF EndTask, At, VerdictInv, Terminal
  <2> QED
    BY <1>0, <1>4, <2>1 DEF EndTask, DataType
<1> QED
  BY <1>1, <1>2, <1>3, <1>4

LEMMA RowStays ==
  ASSUME IInv, [Next]_vars, NEW i \in Items, row[i] = "none",
         \A w \in Workers : cur[w] = i => pc[w] # "swap"
  PROVE  row'[i] = "none"
<1>0. WorkerType /\ DataType /\ StoreInv /\ ItemInv /\ i \in Keys
  BY IInvParts, ItemParts
<1>1. CASE \E w \in Workers : Swap(w) /\ SwapReference(cur[w])
  <2>1. PICK w \in Workers : Swap(w) /\ SwapReference(cur[w])
    BY <1>1
  <2>2. pc[w] = "swap" /\ cur[w] # i /\ cur[w] \in Items
    BY <1>0, <2>1 DEF Swap, At, WorkerType
  <2>3. row[source[cur[w]]] # "none"
    <3>1. itemStatus[cur[w]] = "running"
      BY <2>2, IInvParts DEF Local, OwnSteps
    <3> QED
      BY <1>0, <2>2, <3>1 DEF ItemInv, StoreInv, Moved
  <2> QED
    BY <1>0, <2>1, <2>2, <2>3 DEF SwapReference, DataType
<1>2. CASE ~\E w \in Workers : Swap(w) /\ SwapReference(cur[w])
  <2>1. row' = row
    BY <1>2 DEF Next, vars, EnqueueStep, Enumerate, CreateTask, CreateItems, CancelStep,
       StartCancel, CancelTask, SkipPendingItems, Work, ClaimNextItem, LoadTask, MarkOrphan,
       MarkItemSkipped, CountSkipped, CopyObject, VerifyCopy, Swap, DeleteSource, DeleteCopy,
       MarkItemFailed, CountFailed, CountItems, EndTask, Crash, storeVars
  <2> QED
    BY <2>1
<1> QED
  BY <1>1, <1>2

LEMMA StoppedStays ==
  ASSUME IInv, VerdictInv, [Next]_vars, NEW i \in Items, Stopped(i)
  PROVE  Stopped(i)'
<1>0. WorkerType /\ DataType /\ StatusStep /\ TaskOf(i) \in Tasks
  BY IInvParts, StatusSteps, ItemParts
<1>1. taskStatus'[TaskOf(i)] \in Terminal
  BY <1>0, EndedStays DEF Stopped
<1>2. enqueue'[TaskOf(i)] = "over"
  BY <1>0 DEF Stopped, StatusStep
<1>3. row'[i] = "none"
  BY RowStays DEF Stopped
<1>4. ASSUME NEW w \in Workers, cur'[w] = i
      PROVE  pc'[w] \in {"load", "orphan", "skip", "skip.count"}
  <2>1. CASE pc'[w] = pc[w] /\ cur'[w] = cur[w]
    BY <1>4, <2>1 DEF Stopped
  <2>2. CASE ClaimNextItem(w)
    BY <1>0, <1>4, <2>1, <2>2 DEF ClaimNextItem, WorkerType, workerVars
  <2>3. CASE Crash(w)
    BY <1>0, <1>4, <2>3, KeysAssumption DEF Crash, Finish, WorkerType
  <2>4. CASE Work(w) /\ ~ClaimNextItem(w)
    <3>1. pc[w] # "idle" /\ Moves(w)
      BY <1>0, <2>4, WorkItem, WorkMoves
    <3>2. cur[w] = i
      BY <1>0, <1>4, <3>1, KeysAssumption DEF Moves, Goto, Finish, WorkerType
    <3>3. pc[w] \in {"load", "orphan", "skip", "skip.count"}
      BY <3>2 DEF Stopped
    <3>4. CASE LoadTask(w)
      BY <1>0, <3>2, <3>4 DEF LoadTask, Goto, Stopped, WorkerType
    <3>5. CASE MarkItemSkipped(w)
      BY <1>0, <3>5 DEF MarkItemSkipped, Goto, WorkerType
    <3>6. CASE MarkOrphan(w) \/ CountSkipped(w)
      BY <1>0, <1>4, <3>6, KeysAssumption DEF MarkOrphan, CountSkipped, Finish, WorkerType
    <3> QED
      BY <2>4, <3>3, <3>4, <3>5, <3>6 DEF Work, At, CopyObject, VerifyCopy, Swap, DeleteSource,
         DeleteCopy, MarkItemFailed, CountFailed, CountItems, EndTask
  <2> QED
    BY <2>1, <2>2, <2>3, <2>4, WorkerStays
<1> QED
  BY <1>1, <1>2, <1>3, <1>4 DEF Stopped

\* An item that was still pending when its task was canceled or ended is never moved.
THEOREM CanceledItemsStay == Spec => CancelStops
<1> SUFFICES ASSUME NEW i \in Items
             PROVE  Spec => [](taskStatus[TaskOf(i)] \in Terminal /\ itemStatus[i] = "pending"
                                 => [](row[i] = "none"))
  BY DEF CancelStops
<1>1. IInv /\ taskStatus[TaskOf(i)] \in Terminal /\ itemStatus[i] = "pending" => Stopped(i)
  BY StoppedStart
<1>2. IInv /\ VerdictInv /\ Stopped(i) /\ [Next]_vars => Stopped(i)'
  BY StoppedStays
<1>3. Stopped(i) => row[i] = "none"
  BY DEF Stopped
<1> QED
  BY <1>1, <1>2, <1>3, VerdictInductive, PTL DEF Spec

-----------------------------------------------------------------------------
(* Copies that nobody uses. *)

Bound(k) == \E f \in Files : bind[f] = k

\* Every listed object is still bound, or one of the items that listed it has moved.
SourceInv ==
  /\ \A i \in Items : source[i] # NoKey =>
       Bound(source[i]) \/ \E j \in Items : source[j] = source[i] /\ Moved(j)
  /\ NoStrayCopy

LEMMA SourceInit == Init => SourceInv
<1> SUFFICES ASSUME Init PROVE SourceInv
  OBVIOUS
<1>1. /\ \A i \in Items : source[i] = NoKey
      /\ \A k \in Keys : row[k] = IF k \in Files THEN "live" ELSE "none"
  BY DEF Init
<1> QED
  BY <1>1, ItemParts, KeysAssumption DEF SourceInv, NoStrayCopy, Keys

LEMMA SourceStep == IInv /\ SourceInv /\ [Next]_vars => SourceInv'
<1> SUFFICES ASSUME IInv, SourceInv, [Next]_vars PROVE SourceInv'
  OBVIOUS
<1>0. WorkerType /\ DataType /\ ItemInv /\ StoreInv
  BY IInvParts
<1>1. \/ \E t \in Tasks : Enumerate(t)
      \/ \E w \in Workers : Swap(w) /\ SwapReference(cur[w])
      \/ UNCHANGED <<bind, row, source>>
  BY DEF Next, vars, EnqueueStep, CreateTask, CreateItems, CancelStep, StartCancel, CancelTask,
     SkipPendingItems, Work, ClaimNextItem, LoadTask, MarkOrphan, MarkItemSkipped, CountSkipped,
     CopyObject, VerifyCopy, Swap, DeleteSource, DeleteCopy, MarkItemFailed, CountFailed,
     CountItems, EndTask, Crash, storeVars, itemVars
<1>2. CASE UNCHANGED <<bind, row, source>>
  BY <1>2 DEF SourceInv, NoStrayCopy, Bound, Moved
<1>3. CASE \E t \in Tasks : Enumerate(t)
  <2>1. PICK t \in Tasks : Enumerate(t)
    BY <1>3
  <2>2. UNCHANGED <<bind, row>>
    BY <2>1 DEF Enumerate, storeVars
  <2>3. ASSUME NEW i \in Items
        PROVE  \/ source'[i] = source[i]
               \/ ~Moved(i) /\ \E f \in Files : bind[f] = source'[i]
    <3>1. TaskOf(i) = t => ~Moved(i)
      BY <1>0, <2>1 DEF ItemInv, StoreInv, Enumerate
    <3> QED
      BY <1>0, <2>1, <3>1, ItemParts DEF Enumerate, DataType
  <2>4. \A i \in Items : Moved(i) => source'[i] = source[i]
    BY <2>3
  <2>5. ASSUME NEW i \in Items, source'[i] # NoKey
        PROVE  \/ \E f \in Files : bind'[f] = source'[i]
               \/ \E j \in Items : source'[j] = source'[i] /\ row'[j] # "none"
    BY <2>2, <2>3, <2>4, <2>5 DEF SourceInv, Bound, Moved
  <2>6. NoStrayCopy'
    BY <2>2, <2>4 DEF SourceInv, NoStrayCopy, Moved
  <2> QED
    BY <2>5, <2>6 DEF SourceInv, Bound, Moved
<1>4. CASE \E w \in Workers : Swap(w) /\ SwapReference(cur[w])
  <2>1. PICK w \in Workers : Swap(w) /\ SwapReference(cur[w])
    BY <1>4
  <2> DEFINE i == cur[w]
             s == source[i]
  <2>2. i \in Items /\ itemStatus[i] = "running" /\ i \notin uncertain /\ i \in Keys
    <3>1. pc[w] = "swap"
      BY <2>1 DEF Swap, At
    <3> QED
      BY <1>0, <3>1, IInvParts, ItemParts DEF Local, OwnSteps, WorkerType
  <2>3. ~Moved(i) /\ s # NoKey /\ s \in Keys /\ Moved(s)
    <3>1. ~Moved(i) /\ s # NoKey
      BY <1>0, <2>2 DEF ItemInv, StoreInv
    <3> QED
      BY <1>0, <2>2, <3>1 DEF StoreInv, DataType
  <2>4. /\ row'[i] = "live" /\ row'[s] = "deleted"
        /\ \A k \in Keys \ {i, s} : row'[k] = row[k]
    BY <1>0, <2>1, <2>2, <2>3 DEF SwapReference, DataType, Moved
  <2>5. \A f \in Files : bind'[f] = (IF bind[f] = s THEN i ELSE bind[f])
    BY <1>0, <2>1 DEF SwapReference
  <2>6. source' = source
    BY <2>1 DEF Swap
  <2> HIDE DEF i, s
  <2>7. \A j \in Items : row'[j] # "none" <=> Moved(j) \/ j = i
    BY <2>2, <2>3, <2>4, ItemParts DEF Moved
  <2>8. ASSUME NEW j \in Items, source'[j] # NoKey
        PROVE  \/ \E f \in Files : bind'[f] = source'[j]
               \/ \E k \in Items : source'[k] = source'[j] /\ row'[k] # "none"
    <3>1. CASE source[j] = s
      BY <2>2, <2>6, <2>7, <3>1 DEF s
    <3>2. CASE source[j] # s
      BY <2>5, <2>6, <2>7, <2>8, <3>2 DEF SourceInv, Bound
    <3> QED
      BY <3>1, <3>2
  <2>9. ASSUME NEW j \in Items, row'[j] = "live", \A f \in Files : bind'[f] # j
        PROVE  \E k \in Items \ {j} : source'[k] = source'[j] /\ row'[k] # "none"
    <3>1. CASE j = i
      <4>1. ~Bound(s)
        BY <2>5, <2>9, <3>1 DEF Bound
      <4>2. PICK k \in Items : source[k] = s /\ Moved(k)
        BY <2>2, <2>3, <4>1 DEF SourceInv, s
      <4> QED
        BY <2>3, <2>6, <2>7, <3>1, <4>2 DEF s
    <3>2. CASE j # i
      <4>1. j # s /\ row[j] = "live"
        BY <2>4, <2>9, <3>2, ItemParts
      <4>2. \A f \in Files : bind[f] # j
        BY <2>5, <2>9, <4>1
      <4>3. PICK k \in Items \ {j} : source[k] = source[j] /\ row[k] # "none"
        BY <4>1, <4>2 DEF SourceInv, NoStrayCopy
      <4> QED
        BY <2>6, <2>7, <4>3 DEF Moved
    <3> QED
      BY <3>1, <3>2
  <2> QED
    BY <2>8, <2>9 DEF SourceInv, NoStrayCopy, Bound, Moved
<1> QED
  BY <1>1, <1>2, <1>3, <1>4

\* A copy without a user comes only from two items that listed the same object.
THEOREM NoCopyIsStray == Spec => []NoStrayCopy
<1>1. Init => IInv /\ SourceInv
  BY InvInit, SourceInit
<1>2. (IInv /\ SourceInv) /\ [Next]_vars => (IInv /\ SourceInv)'
  BY InvStep, SourceStep
<1>3. IInv /\ SourceInv => NoStrayCopy
  BY DEF SourceInv
<1> QED
  BY <1>1, <1>2, <1>3, PTL DEF Spec

-----------------------------------------------------------------------------
(* Progress: what the counters count. *)

BeforeCount == {"load", "skip", "skip.count", "copy", "verify", "swap", "undo", "fail", "fail.count"}

MovedOf(t) == {i \in ItemsOf(t) : Moved(i)}

\* The items that failures and skips may have been counted for: claimed, not known
\* to have moved, and not with a worker that has yet to count them.
Given(t) ==
  {i \in ItemsOf(t) :
     /\ itemStatus[i] \notin {"none", "pending"}
     /\ Moved(i) => i \in uncertain
     /\ \A w \in Workers : cur[w] = i => pc[w] \notin BeforeCount}

CountInv ==
  /\ \A t \in Tasks :
       /\ progress[t].completed = Cardinality(MovedOf(t))
       /\ progress[t].failed + progress[t].skipped <= Cardinality(Given(t))
  /\ \A w \in Workers : pc[w] \in {"skip.count", "fail.count"} =>
       itemStatus[cur[w]] # "done" \/ cur[w] \in uncertain

LEMMA ItemsFinite == \A t \in Tasks : IsFiniteSet(ItemsOf(t))
<1> SUFFICES ASSUME NEW t \in Tasks PROVE IsFiniteSet(ItemsOf(t))
  OBVIOUS
<1>1. IsFiniteSet({t} \X Files)
  BY FilesAssumption, FS_Singleton, FS_Product
<1>2. ItemsOf(t) \subseteq {t} \X Files
  BY DEF ItemsOf, Items, TaskOf
<1> QED
  BY <1>1, <1>2, FS_Subset

LEMMA SubsetsCount ==
  ASSUME NEW t \in Tasks, NEW S, S \subseteq ItemsOf(t)
  PROVE  /\ IsFiniteSet(S) /\ Cardinality(S) \in Nat
         /\ \A R : R \subseteq S => IsFiniteSet(R) /\ Cardinality(R) \in Nat /\ Cardinality(R) <= Cardinality(S)
         /\ \A i : i \notin S => Cardinality(S \cup {i}) = Cardinality(S) + 1
  BY ItemsFinite, FS_Subset, FS_CardinalityType, FS_AddElement

LEMMA CountInit == Init => CountInv
<1> SUFFICES ASSUME Init PROVE CountInv
  OBVIOUS
<1>1. \A i \in Items : row[i] = "none" /\ itemStatus[i] = "none"
  BY ItemParts, KeysAssumption DEF Init
<1>2. \A t \in Tasks : MovedOf(t) = {} /\ Given(t) = {}
  BY <1>1 DEF MovedOf, Given, ItemsOf, Moved
<1>3. \A t \in Tasks : progress[t].completed = 0 /\ progress[t].failed = 0 /\ progress[t].skipped = 0
  BY DEF Init, Counters
<1>4. \A w \in Workers : pc[w] = "idle"
  BY DEF Init
<1> QED
  BY <1>2, <1>3, <1>4, FS_EmptySet DEF CountInv

\* A worker begins to work on an item only when it claims it.
LEMMA WorkersGoOn ==
  ASSUME IInv, [Next]_vars, NEW w \in Workers, pc'[w] \in BeforeCount
  PROVE  \/ pc[w] \in BeforeCount /\ cur'[w] = cur[w]
         \/ cur'[w] \in Items /\ itemStatus[cur'[w]] = "pending"
<1>0. WorkerType
  BY IInvParts
<1>1. CASE UNCHANGED workerVars
  BY <1>1 DEF workerVars
<1>2. ASSUME NEW v \in Workers, Work(v), ~ClaimNextItem(v)
      PROVE  pc[w] \in BeforeCount /\ cur'[w] = cur[w]
  <2>1. pc[v] # "idle" /\ Moves(v)
    BY <1>0, <1>2, WorkItem, WorkMoves
  <2>2. CASE v # w
    BY <1>0, <2>1, <2>2, MovesKeep, IInvParts
  <2>3. CASE v = w
    <3>1. cur'[w] = cur[w]
      BY <1>0, <2>1, <2>3, MovesKeep, IInvParts DEF BeforeCount
    <3>2. pc[w] \in BeforeCount
      BY <1>0, <1>2, <2>3 DEF BeforeCount, Work, LoadTask, MarkOrphan, MarkItemSkipped, CountSkipped,
         CopyObject, VerifyCopy, Swap, DeleteSource, DeleteCopy, MarkItemFailed, CountFailed,
         CountItems, EndTask, At, Goto, Finish, WorkerType
    <3> QED
      BY <3>1, <3>2
  <2> QED
    BY <2>2, <2>3
<1>3. ASSUME NEW v \in Workers, ClaimNextItem(v), ~UNCHANGED workerVars
      PROVE  \/ pc[w] \in BeforeCount /\ cur'[w] = cur[w]
             \/ cur'[w] \in Items /\ itemStatus[cur'[w]] = "pending"
  <2>1. PICK i \in Items : Claimable(i) /\ pc' = [pc EXCEPT ![v] = "load"] /\ cur' = [cur EXCEPT ![v] = i]
    BY <1>3 DEF ClaimNextItem
  <2> QED
    BY <1>0, <2>1 DEF Claimable, WorkerType
<1>4. ASSUME NEW v \in Workers, Crash(v)
      PROVE  pc[w] \in BeforeCount /\ cur'[w] = cur[w]
  BY <1>0, <1>4 DEF Crash, Finish, WorkerType, BeforeCount
<1>5. (\E t \in Tasks : EnqueueStep(t) \/ CancelStep(t)) => UNCHANGED workerVars
  BY DEF EnqueueStep, CancelStep, Enumerate, CreateTask, CreateItems, StartCancel, CancelTask,
         SkipPendingItems
<1> QED
  BY <1>1, <1>2, <1>3, <1>4, <1>5 DEF Next, vars, workerVars

\* A claimed item is never queued again, and what is uncertain stays so.
LEMMA ClaimedStays ==
  ASSUME IInv, [Next]_vars, NEW i \in Items, itemStatus[i] \notin {"none", "pending"}
  PROVE  itemStatus'[i] \notin {"none", "pending"} /\ uncertain \subseteq uncertain'
<1>1. uncertain \subseteq uncertain'
  BY StatusSteps DEF StatusStep
<1>2. \A s : \A j \in Items : MarkItem(j, s) => itemStatus' = [itemStatus EXCEPT ![j] = s]
  BY DEF MarkItem
<1>3. itemStatus \in [Items -> {"none", "done", "failed", "skipped"} \cup Open] /\ WorkerType /\ ItemInv
  BY IInvParts DEF DataType
<1>4. CASE UNCHANGED itemStatus
  BY <1>1, <1>4
<1>5. ASSUME NEW t \in Tasks, CreateItems(t) \/ SkipPendingItems(t)
      PROVE  itemStatus'[i] \notin {"none", "pending"}
  BY <1>3, <1>5 DEF CreateItems, SkipPendingItems, ItemInv, ItemsOf, Planned
<1>6. ASSUME NEW w \in Workers, Work(w), ~UNCHANGED itemStatus
      PROVE  \E j \in Items, s \in {"running", "done", "failed", "skipped"} : MarkItem(j, s)
  <2>1. CASE ClaimNextItem(w)
    BY <2>1 DEF ClaimNextItem
  <2>2. CASE ~ClaimNextItem(w)
    <3>1. cur[w] \in Items
      BY <1>3, <1>6, <2>2, WorkItem
    <3> QED
      BY <1>6, <2>2, <3>1 DEF Work, LoadTask, MarkOrphan, MarkItemSkipped, CountSkipped,
         CopyObject, VerifyCopy, Swap, SwapReference, DeleteSource, DeleteCopy, MarkItemFailed,
         CountFailed, CountItems, EndTask, itemVars
  <2> QED
    BY <2>1, <2>2
<1>7. (\E w \in Workers : Work(w)) /\ ~UNCHANGED itemStatus => itemStatus'[i] \notin {"none", "pending"}
  BY <1>2, <1>3, <1>6
<1>8. \/ UNCHANGED itemStatus
      \/ \E t \in Tasks : CreateItems(t) \/ SkipPendingItems(t)
      \/ \E w \in Workers : Work(w)
  BY DEF Next, vars, EnqueueStep, Enumerate, CreateTask, CancelStep, StartCancel, CancelTask, Crash,
         itemVars
<1> QED
  BY <1>1, <1>4, <1>5, <1>7, <1>8

\* An item moves by the swap of the worker that has it.
LEMMA MovesBySwap ==
  ASSUME IInv, [Next]_vars, ~\E w \in Workers : Swap(w) /\ SwapReference(cur[w])
  PROVE  row' = row
  BY DEF Next, vars, EnqueueStep, Enumerate, CreateTask, CreateItems, CancelStep,
       StartCancel, CancelTask, SkipPendingItems, Work, ClaimNextItem, LoadTask, MarkOrphan,
       MarkItemSkipped, CountSkipped, CopyObject, VerifyCopy, Swap, DeleteSource, DeleteCopy,
       MarkItemFailed, CountFailed, CountItems, EndTask, Crash, storeVars

LEMMA SwapMovesOne ==
  ASSUME IInv, NEW w \in Workers, Swap(w), SwapReference(cur[w])
  PROVE  /\ cur[w] \in Items /\ pc[w] \in BeforeCount /\ ~Moved(cur[w])
         /\ \A i \in Items : Moved(i)' <=> Moved(i) \/ i = cur[w]
<1>0. WorkerType /\ DataType /\ StoreInv /\ ItemInv
  BY IInvParts
<1>1. pc[w] = "swap" /\ cur[w] \in Items
  BY <1>0 DEF Swap, At, WorkerType
<1>2. itemStatus[cur[w]] = "running" /\ cur[w] \notin uncertain
  BY <1>1, IInvParts DEF Local, OwnSteps
<1>3. ~Moved(cur[w]) /\ source[cur[w]] # NoKey /\ source[cur[w]] \in Keys
  BY <1>0, <1>1, <1>2 DEF ItemInv, StoreInv, DataType
<1>4. Moved(source[cur[w]])
  BY <1>0, <1>1, <1>3 DEF StoreInv
<1>5. \A i \in Items : row'[i] # "none" <=> Moved(i) \/ i = cur[w]
  BY <1>0, <1>1, <1>3, <1>4, ItemParts DEF SwapReference, DataType, Moved
<1> QED
  BY <1>1, <1>3, <1>5 DEF BeforeCount, Moved

LEMMA GivenGrows ==
  ASSUME IInv, [Next]_vars, NEW t \in Tasks
  PROVE  Given(t) \subseteq Given(t)'
<1> SUFFICES ASSUME NEW i \in Given(t) PROVE i \in Given(t)'
  OBVIOUS
<1>1. /\ i \in Items /\ i \in ItemsOf(t) /\ itemStatus[i] \notin {"none", "pending"}
      /\ Moved(i) => i \in uncertain
      /\ \A w \in Workers : cur[w] = i => pc[w] \notin BeforeCount
  BY DEF Given, ItemsOf
<1>2. itemStatus'[i] \notin {"none", "pending"} /\ uncertain \subseteq uncertain'
  BY <1>1, ClaimedStays
<1>3. \A w \in Workers : cur'[w] = i => pc'[w] \notin BeforeCount
  BY <1>1, WorkersGoOn
<1>4. row'[i] # "none" => Moved(i)
  BY <1>1, MovesBySwap, SwapMovesOne DEF Moved
<1> QED
  BY <1>1, <1>2, <1>3, <1>4 DEF Given, ItemsOf, Moved

\* A step that counts a failure or a skip: the item is given only from now on.
LEMMA CountedIsGiven ==
  ASSUME IInv, CountInv, NEW w \in Workers, CountSkipped(w) \/ CountFailed(w),
         NEW i \in Items, cur[w] = i
  PROVE  i \notin Given(TaskOf(i)) /\ i \in Given(TaskOf(i))'
<1>0. WorkerType /\ Distinct /\ Local(w)
  BY IInvParts
<1>1. pc[w] \in {"skip.count", "fail.count"}
  BY <1>0 DEF CountSkipped, CountFailed, At
<1>2. UNCHANGED <<itemStatus, row, uncertain>>
  BY DEF CountSkipped, CountFailed, itemVars, storeVars
<1>3. itemStatus[i] \notin {"none", "pending"}
  BY <1>0, <1>1 DEF Local
<1>4. Moved(i) => i \in uncertain
  BY <1>1, IInvParts DEF CountInv, StoreInv
<1>5. pc'[w] \notin BeforeCount
  BY <1>0 DEF CountSkipped, CountFailed, Goto, Finish, WorkerType, BeforeCount
<1>6. \A v \in Workers \ {w} : cur'[v] # i
  BY <1>0, <1>1 DEF CountSkipped, CountFailed, Goto, Finish, WorkerType, Distinct
<1>7. i \notin Given(TaskOf(i))
  BY <1>1 DEF Given, BeforeCount
<1>8. i \in Given(TaskOf(i))'
  BY <1>2, <1>3, <1>4, <1>5, <1>6 DEF Given, ItemsOf, Moved
<1> QED
  BY <1>7, <1>8

\* How the counters change.
LEMMA CountIs ==
  ASSUME DataType, NEW t \in Tasks, NEW c \in Counters, Count(t, c)
  PROVE  /\ progress'[t][c] = progress[t][c] + 1
         /\ \A d \in Counters \ {c} : progress'[t][d] = progress[t][d]
         /\ \A u \in Tasks \ {t} : progress'[u] = progress[u]
  BY DEF Count, DataType

\* While a worker is about to count, nobody changes the status of its item.
LEMMA CountingKeepsItem ==
  ASSUME IInv, [Next]_vars, NEW w \in Workers, NEW i \in Items, cur[w] = i,
         pc[w] \in {"skip.count", "fail.count"}
  PROVE  itemStatus'[i] = itemStatus[i]
<1>0. WorkerType /\ DataType /\ Distinct /\ Local(w) /\ ItemInv
  BY IInvParts
<1>1. itemStatus[i] \notin {"none", "pending"}
  BY <1>0 DEF Local
<1>2. ASSUME NEW t \in Tasks, EnqueueStep(t) \/ CancelStep(t) PROVE itemStatus'[i] = itemStatus[i]
  BY <1>0, <1>1, <1>2 DEF EnqueueStep, Enumerate, CreateTask, CreateItems, CancelStep, StartCancel,
     CancelTask, SkipPendingItems, Skippable, Planned, ItemsOf, ItemInv, DataType, itemVars
<1>3. ASSUME NEW v \in Workers, ClaimNextItem(v) PROVE itemStatus'[i] = itemStatus[i]
  BY <1>0, <1>1, <1>3 DEF ClaimNextItem, Claimable, MarkItem, DataType
<1>4. ASSUME NEW v \in Workers, Work(v), ~ClaimNextItem(v) PROVE itemStatus'[i] = itemStatus[i]
  <2>1. UNCHANGED itemStatus \/ \E s : itemStatus' = [itemStatus EXCEPT ![cur[v]] = s]
    BY <1>4 DEF Work, LoadTask, MarkOrphan, MarkItemSkipped, CountSkipped, CopyObject, VerifyCopy,
       Swap, SwapReference, DeleteSource, DeleteCopy, MarkItemFailed, CountFailed, CountItems, EndTask,
       MarkItem, itemVars
  <2>2. CASE v # w
    BY <1>0, <2>1, <2>2 DEF Distinct, DataType
  <2>3. CASE v = w
    BY <1>4, <2>3 DEF Work, LoadTask, MarkOrphan, MarkItemSkipped, CountSkipped, CopyObject, VerifyCopy,
       Swap, DeleteSource, DeleteCopy, MarkItemFailed, CountFailed, CountItems, EndTask, At, itemVars
  <2> QED
    BY <2>2, <2>3
<1>5. ASSUME NEW v \in Workers, Crash(v) PROVE itemStatus'[i] = itemStatus[i]
  BY <1>5 DEF Crash, itemVars
<1> QED
  BY <1>2, <1>3, <1>4, <1>5 DEF Next, vars

LEMMA CountingStep ==
  ASSUME IInv, CountInv, [Next]_vars, NEW w \in Workers, pc'[w] \in {"skip.count", "fail.count"}
  PROVE  itemStatus'[cur'[w]] # "done" \/ cur'[w] \in uncertain'
<1>0. WorkerType /\ DataType /\ Distinct /\ Local(w)
  BY IInvParts
<1>u. uncertain \subseteq uncertain'
  BY StatusSteps DEF StatusStep
<1>1. CASE MarkItemSkipped(w) \/ MarkItemFailed(w)
  <2>1. cur'[w] = cur[w] /\ cur[w] \in Items /\ pc[w] \in {"skip", "fail"}
    BY <1>0, <1>1 DEF MarkItemSkipped, MarkItemFailed, Goto, At, WorkerType
  <2>2. itemStatus[cur[w]] # "done" \/ cur[w] \in uncertain
    BY <1>0, <2>1 DEF Local, OwnSteps
  <2> QED
    BY <1>0, <1>1, <1>u, <2>1, <2>2 DEF MarkItemSkipped, MarkItemFailed, MarkItem, DataType
<1>2. CASE pc[w] \in {"skip.count", "fail.count"} /\ cur'[w] = cur[w]
  <2>1. cur[w] \in Items
    BY <1>0, <1>2 DEF WorkerType
  <2>2. itemStatus[cur[w]] # "done" \/ cur[w] \in uncertain
    BY <1>2 DEF CountInv
  <2>3. itemStatus'[cur[w]] = itemStatus[cur[w]]
    BY <1>2, <2>1, CountingKeepsItem
  <2> QED
    BY <1>2, <1>u, <2>2, <2>3
<1>3. \/ MarkItemSkipped(w) \/ MarkItemFailed(w)
      \/ pc[w] \in {"skip.count", "fail.count"} /\ cur'[w] = cur[w]
  <2>1. CASE UNCHANGED pc /\ UNCHANGED cur
    BY <2>1
  <2>2. ASSUME NEW v \in Workers, Work(v), ~ClaimNextItem(v), pc'[w] # pc[w]
        PROVE  MarkItemSkipped(w) \/ MarkItemFailed(w)
    <3>1. v = w
      BY <1>0, <2>2, WorkItem, WorkMoves, MovesKeep
    <3> QED
      BY <1>0, <2>2, <3>1 DEF Work, LoadTask, MarkOrphan, MarkItemSkipped, CountSkipped, CopyObject,
         VerifyCopy, Swap, DeleteSource, DeleteCopy, MarkItemFailed, CountFailed, CountItems, EndTask,
         At, Goto, Finish, WorkerType
  <2>3. ASSUME NEW v \in Workers, Work(v), ~ClaimNextItem(v), pc'[w] = pc[w]
        PROVE  cur'[w] = cur[w]
    BY <1>0, <2>3, WorkItem, WorkMoves, MovesKeep
  <2>4. ASSUME NEW v \in Workers, ClaimNextItem(v)
        PROVE  pc'[w] = pc[w] /\ cur'[w] = cur[w]
    BY <1>0, <2>4 DEF ClaimNextItem, WorkerType, workerVars
  <2>5. ASSUME NEW v \in Workers, Crash(v)
        PROVE  pc'[w] = pc[w] /\ cur'[w] = cur[w]
    BY <1>0, <2>5 DEF Crash, Finish, WorkerType
  <2>6. \/ UNCHANGED pc /\ UNCHANGED cur
        \/ \E v \in Workers : Work(v) \/ Crash(v)
    BY DEF Next, vars, EnqueueStep, Enumerate, CreateTask, CreateItems, CancelStep, StartCancel,
       CancelTask, SkipPendingItems, workerVars
  <2> QED
    BY <2>1, <2>2, <2>3, <2>4, <2>5, <2>6
<1> QED
  BY <1>1, <1>2, <1>3

LEMMA CountStep == IInv /\ CountInv /\ [Next]_vars => CountInv'
<1> SUFFICES ASSUME IInv, CountInv, [Next]_vars PROVE CountInv'
  OBVIOUS
<1>0. DataType /\ WorkerType /\ StoreInv
  BY IInvParts
<1>1. \A w \in Workers : pc'[w] \in {"skip.count", "fail.count"} =>
        itemStatus'[cur'[w]] # "done" \/ cur'[w] \in uncertain'
  BY CountingStep
<1>2. ASSUME NEW t \in Tasks
      PROVE  /\ Given(t) \subseteq Given(t)' /\ Given(t)' \subseteq ItemsOf(t)
             /\ Cardinality(Given(t)) \in Nat /\ Cardinality(Given(t)') \in Nat
             /\ Cardinality(Given(t)) <= Cardinality(Given(t)')
             /\ \A i \in Given(t)' \ Given(t) : Cardinality(Given(t)) + 1 <= Cardinality(Given(t)')
  <2>1. Given(t) \subseteq Given(t)'
    BY GivenGrows
  <2>2. Given(t)' \subseteq ItemsOf(t)
    BY DEF Given, ItemsOf
  <2>3. ASSUME NEW i \in Given(t)', i \notin Given(t)
        PROVE  Cardinality(Given(t)) + 1 <= Cardinality(Given(t)')
    <3> DEFINE S == Given(t)
               R == Given(t)'
    <3>1. Cardinality(S \cup {i}) = Cardinality(S) + 1
      BY <2>1, <2>2, <2>3, SubsetsCount
    <3>2. Cardinality(S \cup {i}) <= Cardinality(R)
      BY <2>1, <2>2, <2>3, SubsetsCount
    <3> QED
      BY <3>1, <3>2
  <2>4. /\ Cardinality(Given(t)) \in Nat /\ Cardinality(Given(t)') \in Nat
        /\ Cardinality(Given(t)) <= Cardinality(Given(t)')
    BY <2>1, <2>2, SubsetsCount
  <2> QED
    BY <2>1, <2>2, <2>3, <2>4
<1>3. \A t \in Tasks : progress[t].completed \in Nat /\ progress[t].failed \in Nat /\ progress[t].skipped \in Nat
  BY <1>0 DEF DataType, Counters
<1>4. CASE UNCHANGED <<row, progress>>
  <2>1. \A t \in Tasks : MovedOf(t)' = MovedOf(t)
    BY <1>4 DEF MovedOf, ItemsOf, Moved
  <2> QED
    BY <1>1, <1>2, <1>3, <1>4, <2>1 DEF CountInv
<1>5. ASSUME NEW w \in Workers, Swap(w), SwapReference(cur[w]) PROVE CountInv'
  <2>1. PICK i \in Items : cur[w] = i
    BY <1>5, SwapMovesOne
  <2>2. ~Moved(i) /\ \A j \in Items : Moved(j)' <=> Moved(j) \/ j = i
    BY <1>5, <2>1, SwapMovesOne
  <2>3. TaskOf(i) \in Tasks /\ Count(TaskOf(i), "completed") /\ "completed" \in Counters
    BY <1>5, <2>1, ItemParts DEF SwapReference, Counters
  <2>4. MovedOf(TaskOf(i))' = MovedOf(TaskOf(i)) \cup {i} /\ i \notin MovedOf(TaskOf(i))
    BY <2>2 DEF MovedOf, ItemsOf
  <2>5. \A t \in Tasks \ {TaskOf(i)} : MovedOf(t)' = MovedOf(t)
    BY <2>2 DEF MovedOf, ItemsOf
  <2>6. Cardinality(MovedOf(TaskOf(i)) \cup {i}) = Cardinality(MovedOf(TaskOf(i))) + 1
    <3>1. MovedOf(TaskOf(i)) \subseteq ItemsOf(TaskOf(i))
      BY DEF MovedOf
    <3> QED
      BY <2>3, <2>4, <3>1, SubsetsCount
  <2>7. /\ progress'[TaskOf(i)].completed = progress[TaskOf(i)].completed + 1
        /\ progress'[TaskOf(i)].failed = progress[TaskOf(i)].failed
        /\ progress'[TaskOf(i)].skipped = progress[TaskOf(i)].skipped
        /\ \A t \in Tasks \ {TaskOf(i)} : progress'[t] = progress[t]
    BY <1>0, <2>3, CountIs DEF Counters
  <2>8. \A t \in Tasks : progress'[t].completed = Cardinality(MovedOf(t)')
    BY <2>4, <2>5, <2>6, <2>7 DEF CountInv
  <2>9. \A t \in Tasks : progress'[t].failed + progress'[t].skipped <= Cardinality(Given(t)')
    BY <1>2, <1>3, <2>7 DEF CountInv
  <2> QED
    BY <1>1, <2>8, <2>9 DEF CountInv
<1>6. ASSUME NEW w \in Workers, CountSkipped(w) \/ CountFailed(w), ~UNCHANGED progress PROVE CountInv'
  <2>1. PICK i \in Items : cur[w] = i
    BY <1>0, <1>6 DEF CountSkipped, CountFailed, At, WorkerType
  <2>2. TaskOf(i) \in Tasks /\ \E c \in {"failed", "skipped"} : c \in Counters /\ Count(TaskOf(i), c)
    BY <1>6, <2>1, ItemParts DEF CountSkipped, CountFailed, Counters
  <2>3. i \in Given(TaskOf(i))' /\ i \notin Given(TaskOf(i))
    BY <1>6, <2>1, CountedIsGiven
  <2>4. \A t \in Tasks : MovedOf(t)' = MovedOf(t)
    BY <1>6 DEF CountSkipped, CountFailed, storeVars, MovedOf, ItemsOf, Moved
  <2>5. /\ progress'[TaskOf(i)].completed = progress[TaskOf(i)].completed
        /\ progress'[TaskOf(i)].failed + progress'[TaskOf(i)].skipped
             = progress[TaskOf(i)].failed + progress[TaskOf(i)].skipped + 1
        /\ \A t \in Tasks \ {TaskOf(i)} : progress'[t] = progress[t]
    <3>1. PICK c \in {"failed", "skipped"} : c \in Counters /\ Count(TaskOf(i), c)
      BY <2>2
    <3>2. /\ progress'[TaskOf(i)][c] = progress[TaskOf(i)][c] + 1
          /\ \A d \in Counters \ {c} : progress'[TaskOf(i)][d] = progress[TaskOf(i)][d]
          /\ \A t \in Tasks \ {TaskOf(i)} : progress'[t] = progress[t]
      BY <1>0, <2>2, <3>1, CountIs
    <3> QED
      BY <1>3, <2>2, <3>1, <3>2 DEF Counters
  <2>6. \A t \in Tasks : progress'[t].completed = Cardinality(MovedOf(t)')
    BY <2>4, <2>5 DEF CountInv
  <2>7. \A t \in Tasks : progress'[t].failed + progress'[t].skipped <= Cardinality(Given(t)')
    BY <1>2, <1>3, <2>2, <2>3, <2>5 DEF CountInv
  <2> QED
    BY <1>1, <2>6, <2>7 DEF CountInv
<1>7. \/ UNCHANGED <<row, progress>>
      \/ \E w \in Workers : Swap(w) /\ SwapReference(cur[w])
      \/ \E w \in Workers : CountSkipped(w) \/ CountFailed(w)
  BY DEF Next, vars, EnqueueStep, Enumerate, CreateTask, CreateItems, CancelStep,
       StartCancel, CancelTask, SkipPendingItems, Work, ClaimNextItem, LoadTask, MarkOrphan,
       MarkItemSkipped, CopyObject, VerifyCopy, Swap, DeleteSource, DeleteCopy,
       MarkItemFailed, CountItems, EndTask, Crash, storeVars, taskVars
<1> QED
  BY <1>4, <1>5, <1>6, <1>7 DEF CountSkipped, CountFailed, storeVars

\* completed_objects counts exactly the swaps, and no object of a task is counted
\* twice, whatever writes of a worker are lost (ProgressHonest).
THEOREM ProgressIsHonest == Spec => []ProgressHonest
<1>1. IInv /\ CountInv => ProgressHonest
  <2> SUFFICES ASSUME IInv, CountInv, NEW t \in Tasks
               PROVE  /\ progress[t].completed = Cardinality({i \in ItemsOf(t) : row[i] # "none"})
                      /\ progress[t].completed + progress[t].failed + progress[t].skipped
                           <= Cardinality(Planned(t)) + Cardinality(uncertain \cap ItemsOf(t))
    BY DEF ProgressHonest
  <2> DEFINE U == uncertain \cap ItemsOf(t)
  <2>0. DataType /\ ItemInv /\ StoreInv
    BY IInvParts
  <2>1. MovedOf(t) = {i \in ItemsOf(t) : row[i] # "none"}
    BY DEF MovedOf, Moved
  <2>2. MovedOf(t) \subseteq Planned(t) /\ Given(t) \subseteq Planned(t) /\ Planned(t) \subseteq ItemsOf(t)
    BY <2>0 DEF MovedOf, Given, Planned, ItemsOf, ItemInv, StoreInv
  <2>3. MovedOf(t) \cap Given(t) \subseteq U
    BY DEF MovedOf, Given
  <2>4. /\ IsFiniteSet(MovedOf(t)) /\ IsFiniteSet(Given(t))
        /\ Cardinality(MovedOf(t)) \in Nat /\ Cardinality(Given(t)) \in Nat
        /\ Cardinality(Planned(t)) \in Nat /\ Cardinality(U) \in Nat
    BY <2>2, SubsetsCount
  <2>5. Cardinality(MovedOf(t) \cup Given(t))
          = Cardinality(MovedOf(t)) + Cardinality(Given(t)) - Cardinality(MovedOf(t) \cap Given(t))
    BY <2>4, FS_Union
  <2>6. Cardinality(MovedOf(t) \cup Given(t)) \in Nat /\ Cardinality(MovedOf(t) \cup Given(t)) <= Cardinality(Planned(t))
    BY <2>2, SubsetsCount
  <2>7. /\ Cardinality(MovedOf(t) \cap Given(t)) \in Nat
        /\ Cardinality(MovedOf(t) \cap Given(t)) <= Cardinality(U)
    BY <2>3, SubsetsCount
  <2>8. /\ progress[t].completed \in Nat /\ progress[t].failed \in Nat /\ progress[t].skipped \in Nat
        /\ progress[t].completed = Cardinality(MovedOf(t))
        /\ progress[t].failed + progress[t].skipped <= Cardinality(Given(t))
    BY <2>0 DEF DataType, Counters, CountInv
  <2> HIDE DEF U
  <2>9. progress[t].completed + progress[t].failed + progress[t].skipped
          <= Cardinality(Planned(t)) + Cardinality(U)
    BY <2>4, <2>5, <2>6, <2>7, <2>8
  <2> QED
    BY <2>1, <2>8, <2>9 DEF U
<1>2. Init => IInv /\ CountInv
  BY InvInit, CountInit
<1>3. (IInv /\ CountInv) /\ [Next]_vars => (IInv /\ CountInv)'
  BY InvStep, CountStep
<1> QED
  BY <1>1, <1>2, <1>3, PTL DEF Spec
=============================================================================
