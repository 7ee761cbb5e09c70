--------------------------- MODULE UploadSession ---------------------------
(***************************************************************************)
(* Direct uploads: the upload_sessions row, the object and the multipart   *)
(* upload it stands for, the HTTP handlers that work on them (Init, sign,  *)
(* list, renew, Complete, Abort, status) and the background janitor.       *)
(*                                                                         *)
(* A handler or a janitor sweep is a process that takes one action per     *)
(* database statement, database transaction or object-store call, because  *)
(* anything may happen between two of them.  A request can die anywhere    *)
(* (process crash, cancelled context).  Time is relative: lease[s] is the  *)
(* time left until expires_at and Tick lets one unit pass, so that no      *)
(* clock has to be bounded.                                                *)
(***************************************************************************)
EXTENDS Integers, FiniteSets

CONSTANTS
  Sessions,     \* upload ids, one storage key each (both are fresh uuids)
  Multipart,    \* the sessions whose file is above the multipart threshold
  Owner,        \* Owner[s]: the actor the session belongs to
  ClientOps,    \* the clientOperationIds the callers choose
  Requests,     \* slots for HTTP requests being served at the same time
  Janitors,     \* one janitor per running server instance
  NodeIds,      \* ids of the nodes table
  SessionTTL, CompletionClaimMinTTL, CleanupClaimTTL, ReceiptTTL,
  UrlTTL,       \* life of a presigned URL
  SweepTimeout, \* context deadline of one janitor sweep
  SweepLimit    \* rows one sweep lists

NoOp == "none"          \* client_operation_id IS NULL
AbortOp == "abort"      \* "internal:abort:" + id
JanitorOp == "janitor"  \* "internal:janitor:" + id
CleanupOps == {AbortOp, JanitorOp}
NoNode == "no node"
NoSession == "no session"

ASSUME OpsAssumption == ClientOps \cap {NoOp, AbortOp, JanitorOp} = {}
ASSUME SessionsAssumption == NoSession \notin Sessions /\ Multipart \subseteq Sessions
ASSUME NodeIdsAssumption == NoNode \notin NodeIds
ASSUME TTLAssumption ==
  /\ SessionTTL \in Nat /\ CompletionClaimMinTTL \in Nat /\ CleanupClaimTTL \in Nat
  /\ ReceiptTTL \in Nat /\ UrlTTL \in Nat /\ SweepTimeout \in Nat

VARIABLES
  status,    \* upload_sessions.status; "new" before the insert, "gone" after the delete
  opId,      \* upload_sessions.client_operation_id
  lease,     \* time left until upload_sessions.expires_at
  receipt,   \* upload_sessions.completed_node_id / completion_result
  object,    \* what the session's storage key holds
  multipart, \* the multipart upload behind minio_upload_id
  url,       \* time left of the youngest presigned URL of the session
  madeBy,    \* the rows of the nodes table: the session that made a node, or NoSession
  pc,        \* where the handler of each request is
  target,    \* the session each request works on
  op,        \* the operation id each request carries
  sweepPc,   \* where each janitor is
  sweepAge,  \* time since its sweep read now
  duePending, dueCommitted,  \* what it listed and has not come to yet, by listed status
  sweepCur,  \* the session it is reclaiming
  replies    \* history: the successful completion answers clients received

rowVars == <<status, opId, lease, receipt>>
storeVars == <<object, multipart, url>>
reqVars == <<pc, target, op>>
sweepVars == <<sweepPc, sweepAge, duePending, dueCommitted, sweepCur>>
vars == <<status, opId, lease, receipt, object, multipart, url, madeBy,
          pc, target, op, sweepPc, sweepAge, duePending, dueCommitted, sweepCur, replies>>

Sizes == {"declared", "other"}   \* the object has file_size bytes, or not
Steps == {"init.create", "init.undo", "sign", "renew", "claim", "check", "object",
          "stat", "stat.failed", "commit", "release", "abort.check", "abort.multipart",
          "abort.delete", "abort.row"}
AtLeast(x, low) == IF x < low THEN low ELSE x
MinLease == -(SweepTimeout + 1)  \* far enough past for every comparison the code makes

RowType ==
  /\ status \in [Sessions -> {"new", "pending", "committed", "gone"}]
  /\ opId \in [Sessions -> ClientOps \cup CleanupOps \cup {NoOp}]
  /\ receipt \in [Sessions -> NodeIds \cup {NoNode}]

StoreType ==
  /\ object \in [Sessions -> Sizes \cup {"absent"}]
  /\ multipart \in [Sessions -> {"none", "empty", "parts", "closed"}]

NodeType ==
  /\ madeBy \in [NodeIds -> Sessions \cup {NoSession}]
  /\ replies \subseteq Sessions \X ClientOps \X NodeIds

ReqType ==
  /\ pc \in [Requests -> Steps \cup {"idle"}]
  /\ target \in [Requests -> Sessions \cup {NoSession}]
  /\ op \in [Requests -> ClientOps \cup {NoOp, AbortOp}]
  /\ \A r \in Requests : target[r] = NoSession <=> pc[r] = "idle"

SweepType ==
  /\ sweepPc \in [Janitors -> {"idle", "scan", "abort", "delete", "row"}]
  /\ duePending \in [Janitors -> SUBSET Sessions]
  /\ dueCommitted \in [Janitors -> SUBSET Sessions]
  /\ sweepCur \in [Janitors -> Sessions \cup {NoSession}]
  /\ \A j \in Janitors : sweepCur[j] = NoSession <=> sweepPc[j] \in {"idle", "scan"}

ClockType ==
  /\ lease \in [Sessions -> Int]
  /\ url \in [Sessions -> Nat]
  /\ sweepAge \in [Janitors -> Nat]

TypeOK == RowType /\ StoreType /\ NodeType /\ ReqType /\ SweepType /\ ClockType

Init ==
  /\ status = [s \in Sessions |-> "new"]
  /\ opId = [s \in Sessions |-> NoOp]
  /\ lease = [s \in Sessions |-> 0]
  /\ receipt = [s \in Sessions |-> NoNode]
  /\ object = [s \in Sessions |-> "absent"]
  /\ multipart = [s \in Sessions |-> "none"]
  /\ url = [s \in Sessions |-> 0]
  /\ madeBy = [n \in NodeIds |-> NoSession]
  /\ pc = [r \in Requests |-> "idle"]
  /\ target = [r \in Requests |-> NoSession]
  /\ op = [r \in Requests |-> NoOp]
  /\ sweepPc = [j \in Janitors |-> "idle"]
  /\ sweepAge = [j \in Janitors |-> 0]
  /\ duePending = [j \in Janitors |-> {}]
  /\ dueCommitted = [j \in Janitors |-> {}]
  /\ sweepCur = [j \in Janitors |-> NoSession]
  /\ replies = {}

-----------------------------------------------------------------------------
(* Row predicates the handlers and the WHERE clauses share. *)

Expired(s) == lease[s] < 0            \* time.Now().After(expires_at)
Unclaimed(s) == status[s] = "pending" /\ opId[s] = NoOp
ClaimedBy(s, o) == status[s] = "pending" /\ opId[s] = o

\* expires_at <= now, for the now that sweep j read when it started
DueFor_SnapshotTrusted(j, s) == TRUE
DueFor(j, s) == lease[s] + sweepAge[j] <= 0

At(r, step) == pc[r] = step
Goto(r, step) == pc' = [pc EXCEPT ![r] = step] /\ UNCHANGED <<target, op>>
Start(r, step, s, o) ==
  /\ At(r, "idle")
  /\ pc' = [pc EXCEPT ![r] = step]
  /\ target' = [target EXCEPT ![r] = s]
  /\ op' = [op EXCEPT ![r] = o]
Done(r) ==
  /\ pc' = [pc EXCEPT ![r] = "idle"]
  /\ target' = [target EXCEPT ![r] = NoSession]
  /\ op' = [op EXCEPT ![r] = NoOp]

\* The row leaves the table.
DeleteRow(s) ==
  /\ status' = [status EXCEPT ![s] = "gone"]
  /\ opId' = [opId EXCEPT ![s] = NoOp]
  /\ lease' = [lease EXCEPT ![s] = 0]
  /\ receipt' = [receipt EXCEPT ![s] = NoNode]

\* UPDATE ... SET client_operation_id = o, expires_at = now + ttl
ClaimRow(s, o, ttl) ==
  /\ opId' = [opId EXCEPT ![s] = o]
  /\ lease' = [lease EXCEPT ![s] = ttl]
  /\ UNCHANGED <<status, receipt>>

-----------------------------------------------------------------------------
(* Init: start the multipart upload, then insert the row. *)

InitUpload(r, s) ==
  /\ status[s] = "new" /\ multipart[s] = "none"
  /\ \A q \in Requests : target[q] # s
  /\ IF s \in Multipart
       THEN /\ multipart' = [multipart EXCEPT ![s] = "empty"]
            /\ \/ Start(r, "init.create", s, NoOp)
               \/ At(r, "idle") /\ UNCHANGED reqVars     \* started, but the answer is an error
       ELSE Start(r, "init.create", s, NoOp) /\ UNCHANGED multipart
  /\ UNCHANGED <<rowVars, object, url, madeBy, sweepVars, replies>>

CreateRow(r) ==
  LET s == target[r]
      Insert == /\ status' = [status EXCEPT ![s] = "pending"]
                /\ lease' = [lease EXCEPT ![s] = SessionTTL]
                /\ UNCHANGED <<opId, receipt>>
      Undo == IF s \in Multipart THEN Goto(r, "init.undo") ELSE Done(r)
  IN /\ At(r, "init.create")
     /\ \/ Insert /\ Done(r)
        \/ Insert /\ Undo                            \* inserted, but the answer is an error
        \/ Undo /\ UNCHANGED rowVars
     /\ UNCHANGED <<storeVars, madeBy, sweepVars, replies>>

\* Best effort: the error of AbortMultipartUpload is dropped.
UndoMultipart(r) ==
  /\ At(r, "init.undo")
  /\ \/ multipart' = [multipart EXCEPT ![target[r]] = "closed"]
     \/ UNCHANGED multipart
  /\ Done(r)
  /\ UNCHANGED <<rowVars, object, url, madeBy, sweepVars, replies>>

-----------------------------------------------------------------------------
(* SignParts, ListParts and Renew: load the session, then renew its lease. *)

LoadSession(r, s, step) ==
  /\ Unclaimed(s) /\ ~Expired(s)
  /\ Start(r, step, s, NoOp)
  /\ UNCHANGED <<rowVars, storeVars, madeBy, sweepVars, replies>>

\* The URLs reach the client only when the lease was renewed.
RenewLease(r) ==
  LET s == target[r] IN
  /\ pc[r] \in {"sign", "renew"}
  /\ \/ /\ Unclaimed(s)
        /\ lease' = [lease EXCEPT ![s] = SessionTTL]
        /\ url' = IF At(r, "sign") THEN [url EXCEPT ![s] = UrlTTL] ELSE url
     \/ UNCHANGED <<lease, url>>                     \* conflict or database error
  /\ Done(r)
  /\ UNCHANGED <<status, opId, receipt, object, multipart, madeBy, sweepVars, replies>>

\* The client uses a presigned URL; the object store checks only the URL's life.
Put(s) ==
  /\ url[s] > 0
  /\ IF s \in Multipart
       THEN /\ multipart[s] = "empty"
            /\ multipart' = [multipart EXCEPT ![s] = "parts"]
            /\ UNCHANGED object
       ELSE /\ \E size \in Sizes : object' = [object EXCEPT ![s] = size]
            /\ UNCHANGED multipart
  /\ UNCHANGED <<rowVars, url, madeBy, reqVars, sweepVars, replies>>

-----------------------------------------------------------------------------
(* Complete. *)

Answer(s, o, n) == replies' = replies \cup {<<s, o, n>>}

\* The preflight load of a session that is not committed yet.
StartComplete(r, s, o) ==
  /\ status[s] = "pending" /\ ~Expired(s)
  /\ Start(r, "claim", s, o)
  /\ UNCHANGED <<rowVars, storeVars, madeBy, sweepVars, replies>>

ReplayReceipt_AnyOp(s, o) ==
  /\ status[s] = "committed" /\ ~Expired(s)
  /\ Answer(s, o, receipt[s])
  /\ UNCHANGED <<rowVars, storeVars, madeBy, reqVars, sweepVars>>

\* The preflight load finds the receipt of this operation; the status query by
\* operation id finds it in the same states.
ReplayReceipt(s, o) ==
  /\ status[s] = "committed" /\ ~Expired(s) /\ opId[s] = o
  /\ Answer(s, o, receipt[s])
  /\ UNCHANGED <<rowVars, storeVars, madeBy, reqVars, sweepVars>>

\* The unique index on (actor_id, client_operation_id).
OpFree_NoIndex(s, o) == TRUE
OpFree(s, o) == \A t \in Sessions \ {s} : Owner[t] = Owner[s] => opId[t] # o

ClaimCompletion(r) ==
  LET s == target[r]
      o == op[r]
      Refused == \/ status[s] = "gone"
                 \/ Expired(s)
                 \/ opId[s] \notin {NoOp, o}
                 \/ opId[s] = NoOp /\ ~OpFree(s, o)
      Claim == ClaimRow(s, o, AtLeast(lease[s], CompletionClaimMinTTL))
  IN /\ At(r, "claim")
     /\ \/ Refused /\ Done(r) /\ UNCHANGED <<rowVars, replies>>
        \/ /\ status[s] = "committed" /\ ~Refused
           /\ Done(r) /\ Answer(s, o, receipt[s])
           /\ UNCHANGED rowVars
        \/ /\ Unclaimed(s) /\ ~Refused
           /\ Claim
           /\ Goto(r, "check") \/ Done(r)            \* claimed, but the answer is an error
           /\ UNCHANGED replies
        \/ /\ ClaimedBy(s, o) /\ ~Refused            \* a retry joins its own operation
           /\ Goto(r, "check")
           /\ UNCHANGED <<rowVars, replies>>
     /\ UNCHANGED <<storeVars, madeBy, sweepVars>>

\* Strict parent and storage provider: both give up with the claim released.
CheckTarget(r) ==
  /\ At(r, "check")
  /\ \/ Goto(r, "release")
     \/ Goto(r, IF target[r] \in Multipart THEN "object" ELSE "stat")
  /\ UNCHANGED <<rowVars, storeVars, madeBy, sweepVars, replies>>

CompleteMultipartUpload(r) ==
  LET s == target[r]
  IN /\ At(r, "object")
     /\ \/ /\ multipart[s] = "parts"
           /\ multipart' = [multipart EXCEPT ![s] = "closed"]
           /\ \E size \in Sizes : object' = [object EXCEPT ![s] = size]
           /\ Goto(r, "stat") \/ Goto(r, "stat.failed")  \* done, the answer may still be an error
        \/ Goto(r, "stat.failed") /\ UNCHANGED <<multipart, object>>
     /\ UNCHANGED <<rowVars, url, madeBy, sweepVars, replies>>

\* A failed HEAD keeps the claim only when CompleteMultipartUpload failed too.
StatObject(r) ==
  LET s == target[r] IN
  /\ pc[r] \in {"stat", "stat.failed"}
  /\ \/ At(r, "stat.failed") /\ Done(r)             \* HEAD fails: absent, or an error
     \/ At(r, "stat") /\ Goto(r, "release")
     \/ object[s] = "other" /\ Goto(r, "release")
     \/ object[s] = "declared" /\ Goto(r, "commit")
  /\ UNCHANGED <<rowVars, storeVars, madeBy, sweepVars, replies>>

\* The recheck under the row lock, and the WHERE clause of MarkCommitted.
MayCommit_AnyOp(s, o) == status[s] = "pending"
MayCommit_AnyStatus(s, o) == opId[s] = o
MayCommit(s, o) == ClaimedBy(s, o)

\* One transaction on the locked row: recheck the claim, insert the node, write
\* the receipt.
CommitNode(r) ==
  LET s == target[r]
      o == op[r]
      Persist(n) == /\ madeBy' = [madeBy EXCEPT ![n] = s]
                    /\ status' = [status EXCEPT ![s] = "committed"]
                    /\ receipt' = [receipt EXCEPT ![s] = n]
                    /\ lease' = [lease EXCEPT ![s] = ReceiptTTL]
                    /\ UNCHANGED opId
      FreshIds == {n \in NodeIds : madeBy[n] = NoSession}
  IN /\ At(r, "commit")
     /\ \/ /\ MayCommit(s, o)
           /\ \E n \in FreshIds :
                /\ Persist(n)
                /\ \/ Done(r) /\ Answer(s, o, n)
                   \/ Goto(r, "release") /\ UNCHANGED replies  \* outcome of COMMIT unknown
        \/ /\ status[s] = "committed" /\ opId[s] = o
           /\ Done(r) /\ Answer(s, o, receipt[s])
           /\ UNCHANGED <<rowVars, madeBy>>
        \/ /\ Goto(r, "release")                     \* not found, conflict, or rolled back
           /\ UNCHANGED <<rowVars, madeBy, replies>>
     /\ UNCHANGED <<storeVars, sweepVars>>

ReleaseClaim_AnyStatus(r) ==
  LET s == target[r] IN
  /\ At(r, "release")
  /\ opId' = [opId EXCEPT ![s] = IF @ = op[r] THEN NoOp ELSE @]
  /\ Done(r)
  /\ UNCHANGED <<status, lease, receipt, storeVars, madeBy, sweepVars, replies>>

ReleaseClaim_AnyOp(r) ==
  LET s == target[r] IN
  /\ At(r, "release")
  /\ opId' = [opId EXCEPT ![s] = IF status[s] = "pending" THEN NoOp ELSE @]
  /\ Done(r)
  /\ UNCHANGED <<status, lease, receipt, storeVars, madeBy, sweepVars, replies>>

\* ClearClientOperationID under its own 5 s context; a failure is only logged.
ReleaseClaim(r) ==
  LET s == target[r] IN
  /\ At(r, "release")
  /\ \/ /\ ClaimedBy(s, op[r])
        /\ opId' = [opId EXCEPT ![s] = NoOp]
     \/ UNCHANGED opId
  /\ Done(r)
  /\ UNCHANGED <<status, lease, receipt, storeVars, madeBy, sweepVars, replies>>

-----------------------------------------------------------------------------
(* Abort. *)

ClaimAbort(r, s) ==
  /\ Unclaimed(s) /\ ~Expired(s)
  /\ ClaimRow(s, AbortOp, CleanupClaimTTL)
  /\ \/ Start(r, "abort.check", s, AbortOp)
     \/ At(r, "idle") /\ UNCHANGED reqVars               \* claimed, but the answer is an error
  /\ UNCHANGED <<storeVars, madeBy, sweepVars, replies>>

\* registry.Get
CheckAbortProvider(r) ==
  /\ At(r, "abort.check")
  /\ \/ Goto(r, "release")
     \/ Goto(r, IF target[r] \in Multipart THEN "abort.multipart" ELSE "abort.delete")
  /\ UNCHANGED <<rowVars, storeVars, madeBy, sweepVars, replies>>

\* An error of AbortMultipartUpload may mean that the object is there already.
AbortMultipart(r) ==
  LET s == target[r] IN
  /\ At(r, "abort.multipart")
  /\ \/ /\ multipart[s] \in {"empty", "parts"}
        /\ multipart' = [multipart EXCEPT ![s] = "closed"]
        /\ Goto(r, "abort.row") \/ Goto(r, "abort.delete")
     \/ Goto(r, "abort.delete") /\ UNCHANGED multipart
  /\ UNCHANGED <<rowVars, object, url, madeBy, sweepVars, replies>>

AbortDeleteObject_ReleasesOnError(r) ==
  LET Removed == object' = [object EXCEPT ![target[r]] = "absent"] IN
  /\ At(r, "abort.delete")
  /\ \/ Removed /\ Goto(r, "abort.row")
     \/ (Removed \/ UNCHANGED object) /\ Goto(r, "release")
  /\ UNCHANGED <<rowVars, multipart, url, madeBy, sweepVars, replies>>

AbortDeleteObject(r) ==
  LET Removed == object' = [object EXCEPT ![target[r]] = "absent"] IN
  /\ At(r, "abort.delete")
  /\ \/ Removed /\ Goto(r, "abort.row")
     \/ (Removed \/ UNCHANGED object) /\ Done(r)     \* error: the claim stays
  /\ UNCHANGED <<rowVars, multipart, url, madeBy, sweepVars, replies>>

\* DeleteClaimedPending
AbortDeleteRow(r) ==
  LET s == target[r] IN
  /\ At(r, "abort.row")
  /\ \/ ClaimedBy(s, AbortOp) /\ DeleteRow(s)
     \/ UNCHANGED rowVars                            \* state changed, or database error
  /\ Done(r)
  /\ UNCHANGED <<storeVars, madeBy, sweepVars, replies>>

-----------------------------------------------------------------------------
(* The janitor. *)

\* ListExpiredBefore(now, SweepLimit), oldest first.
Oldest(n, S) ==
  {B \in SUBSET S : /\ B = S \/ Cardinality(B) = n
                    /\ Cardinality(B) <= n
                    /\ \A b \in B, x \in S \ B : lease[b] <= lease[x]}

Listed_OnlyPending(s) == status[s] = "pending" /\ lease[s] <= 0
Listed(s) == status[s] \in {"pending", "committed"} /\ lease[s] <= 0

SweepStart(j) ==
  LET due == {s \in Sessions : Listed(s)} IN
  /\ sweepPc[j] = "idle" /\ due # {}
  /\ \E batch \in Oldest(SweepLimit, due) :
       /\ duePending' = [duePending EXCEPT ![j] = {s \in batch : status[s] = "pending"}]
       /\ dueCommitted' = [dueCommitted EXCEPT ![j] = {s \in batch : status[s] = "committed"}]
  /\ sweepPc' = [sweepPc EXCEPT ![j] = "scan"]
  /\ UNCHANGED <<sweepAge, sweepCur, rowVars, storeVars, madeBy, reqVars, replies>>

\* DeleteExpiredCommitted, with the snapshot's now.
SweepReceipt(j, s) ==
  /\ sweepPc[j] = "scan" /\ s \in dueCommitted[j]
  /\ dueCommitted' = [dueCommitted EXCEPT ![j] = @ \ {s}]
  /\ \/ status[s] = "committed" /\ DueFor(j, s) /\ DeleteRow(s)
     \/ UNCHANGED rowVars                            \* no row matches, or database error
  /\ UNCHANGED <<sweepPc, sweepAge, duePending, sweepCur, storeVars, madeBy, reqVars, replies>>

\* The WHERE clause of ClaimExpiredForCleanup.
Reclaimable_Unclaimed(j, s) == Unclaimed(s) /\ DueFor(j, s)
Reclaimable(j, s) == status[s] = "pending" /\ DueFor(j, s)

\* ClaimExpiredForCleanup, with the snapshot's now, whoever holds the claim; a
\* missing provider or a lost answer leaves the row claimed for a later sweep.
SweepClaim(j, s) ==
  LET Reclaim == /\ sweepPc' = [sweepPc EXCEPT ![j] = IF s \in Multipart THEN "abort" ELSE "delete"]
                 /\ sweepCur' = [sweepCur EXCEPT ![j] = s]
      Skip == UNCHANGED <<sweepPc, sweepCur>>
  IN /\ sweepPc[j] = "scan" /\ s \in duePending[j]
     /\ duePending' = [duePending EXCEPT ![j] = @ \ {s}]
     /\ \/ /\ Reclaimable(j, s)
           /\ ClaimRow(s, JanitorOp, CleanupClaimTTL)
           /\ Reclaim \/ Skip
        \/ Skip /\ UNCHANGED rowVars                 \* no row matches, or database error
     /\ UNCHANGED <<sweepAge, dueCommitted, storeVars, madeBy, reqVars, replies>>

\* The error of AbortMultipartUpload is only logged.
SweepAbort(j) ==
  LET s == sweepCur[j] IN
  /\ sweepPc[j] = "abort"
  /\ \/ multipart[s] \in {"empty", "parts"} /\ multipart' = [multipart EXCEPT ![s] = "closed"]
     \/ UNCHANGED multipart
  /\ sweepPc' = [sweepPc EXCEPT ![j] = "delete"]
  /\ UNCHANGED <<sweepCur, sweepAge, duePending, dueCommitted, rowVars, object, url, madeBy, reqVars, replies>>

NextRow_KeepsRow(j) == sweepPc' = [sweepPc EXCEPT ![j] = "scan"] /\ UNCHANGED sweepCur
NextRow(j) ==
  /\ sweepPc' = [sweepPc EXCEPT ![j] = "scan"]
  /\ sweepCur' = [sweepCur EXCEPT ![j] = NoSession]

SweepDelete(j) ==
  LET Removed == object' = [object EXCEPT ![sweepCur[j]] = "absent"] IN
  /\ sweepPc[j] = "delete"
  /\ \/ /\ Removed
        /\ sweepPc' = [sweepPc EXCEPT ![j] = "row"] /\ UNCHANGED sweepCur
     \/ (Removed \/ UNCHANGED object) /\ NextRow(j)  \* error: the claim stays
  /\ UNCHANGED <<sweepAge, duePending, dueCommitted, rowVars, multipart, url, madeBy, reqVars, replies>>

SweepDeleteRow(j) ==
  LET s == sweepCur[j] IN
  /\ sweepPc[j] = "row"
  /\ \/ ClaimedBy(s, JanitorOp) /\ DeleteRow(s)
     \/ UNCHANGED rowVars
  /\ NextRow(j)
  /\ UNCHANGED <<sweepAge, duePending, dueCommitted, storeVars, madeBy, reqVars, replies>>

\* The batch is done, the sweep's context ran out, or its process died.
SweepEnd(j) ==
  /\ sweepPc[j] # "idle"
  /\ sweepPc' = [sweepPc EXCEPT ![j] = "idle"]
  /\ sweepAge' = [sweepAge EXCEPT ![j] = 0]
  /\ duePending' = [duePending EXCEPT ![j] = {}]
  /\ dueCommitted' = [dueCommitted EXCEPT ![j] = {}]
  /\ sweepCur' = [sweepCur EXCEPT ![j] = NoSession]
  /\ UNCHANGED <<rowVars, storeVars, madeBy, reqVars, replies>>

-----------------------------------------------------------------------------
(* The process serving a request dies, and time passes. *)

Die(r) ==
  /\ pc[r] # "idle"
  /\ Done(r)
  /\ UNCHANGED <<rowVars, storeVars, madeBy, sweepVars, replies>>

Live(s) == status[s] \in {"pending", "committed"}

\* A sweep whose context has run out ends before more time passes.
Tick ==
  /\ \A j \in Janitors : sweepAge[j] < SweepTimeout
  /\ lease' = [s \in Sessions |-> IF Live(s) THEN AtLeast(lease[s] - 1, MinLease) ELSE lease[s]]
  /\ url' = [s \in Sessions |-> AtLeast(url[s] - 1, 0)]
  /\ sweepAge' = [j \in Janitors |-> IF sweepPc[j] = "idle" THEN 0 ELSE sweepAge[j] + 1]
  /\ UNCHANGED <<sweepPc, duePending, dueCommitted, sweepCur,
                 status, opId, receipt, object, multipart, madeBy, reqVars, replies>>

InitStep(r) == (\E s \in Sessions : InitUpload(r, s)) \/ CreateRow(r) \/ UndoMultipart(r)

LeaseStep(r) ==
  \/ \E s \in Sessions, step \in {"sign", "renew"} : LoadSession(r, s, step)
  \/ RenewLease(r)

CompleteStep(r) ==
  \/ \E s \in Sessions, o \in ClientOps : StartComplete(r, s, o)
  \/ ClaimCompletion(r) \/ CheckTarget(r) \/ CompleteMultipartUpload(r)
  \/ StatObject(r) \/ CommitNode(r) \/ ReleaseClaim(r)

AbortStep(r) ==
  \/ \E s \in Sessions : ClaimAbort(r, s)
  \/ CheckAbortProvider(r) \/ AbortMultipart(r) \/ AbortDeleteObject(r) \/ AbortDeleteRow(r)

JanitorStep(j) ==
  \/ SweepStart(j) \/ SweepAbort(j) \/ SweepDelete(j) \/ SweepDeleteRow(j) \/ SweepEnd(j)
  \/ \E s \in Sessions : SweepReceipt(j, s) \/ SweepClaim(j, s)

Next ==
  \/ \E r \in Requests : InitStep(r) \/ LeaseStep(r) \/ CompleteStep(r) \/ AbortStep(r) \/ Die(r)
  \/ \E j \in Janitors : JanitorStep(j)
  \/ \E s \in Sessions : Put(s) \/ \E o \in ClientOps : ReplayReceipt(s, o)
  \/ Tick

Spec == Init /\ [][Next]_vars

-----------------------------------------------------------------------------
(* Safety. *)

NodesOf(s) == {n \in NodeIds : madeBy[n] = s}
NoNodes(s) == \A n \in NodeIds : madeBy[n] # s

\* A node made by an upload never points at a missing object: neither Abort nor
\* the janitor takes the object of a session that a completion commits, before or
\* after the commit (claims of Complete, Abort and sweepExpired).
CommittedObjectPresent ==
  \A n \in NodeIds : madeBy[n] # NoSession => object[madeBy[n]] # "absent"

\* However often Complete is retried, joined or answered with an error, a session
\* makes at most one node.
OneNodePerSession ==
  \A m, n \in NodeIds : madeBy[m] = madeBy[n] /\ madeBy[m] # NoSession => m = n

\* Every successful answer (Complete, its replay, the status query) names the node
\* that exists for the session, and one session answers one operation only.
RepliesAgree ==
  /\ \A x \in replies : madeBy[x[3]] = x[1]
  /\ \A x, y \in replies : x[1] = y[1] => x[2] = y[2]

\* Two sessions of one actor never both report success for the same operation
\* while their receipts last, so the status query by operation id has one answer.
OperationHasOneResult ==
  \A x, y \in replies :
    /\ x[2] = y[2] /\ Owner[x[1]] = Owner[y[1]]
    /\ status[x[1]] = "committed" /\ status[y[1]] = "committed"
    => x[3] = y[3]

Reclaiming(s) ==
  NoNodes(s) /\ (status[s] = "gone" \/ \E o \in CleanupOps : ClaimedBy(s, o))

Removing(r) == pc[r] \in {"abort.multipart", "abort.delete", "abort.row"}
Sweeping(j) == sweepPc[j] \in {"abort", "delete", "row"}

\* A request or sweep that is past the point where it may remove the object works
\* on a session that has no node and that no completion holds any more.
CleanupExcludesCompletion ==
  /\ \A r \in Requests : Removing(r) => Reclaiming(target[r])
  /\ \A j \in Janitors : Sweeping(j) => Reclaiming(sweepCur[j])

\* The janitor takes a session over only when its lease has run out now, not when
\* it had in the snapshot the sweep works from (renewals and claims in between).
JanitorRespectsLease ==
  [][\A s \in Sessions : opId'[s] = JanitorOp /\ opId[s] # JanitorOp => lease[s] <= 0]_vars

\* A receipt stays as it was written until its retention has passed: no renewal,
\* release, abort or sweep rewrites it or drops it early.
ReceiptKept ==
  [][\A s \in Sessions : status[s] = "committed" =>
       \/ status'[s] = "committed" /\ opId'[s] = opId[s] /\ receipt'[s] = receipt[s]
       \/ status'[s] = "gone" /\ lease[s] <= 0]_vars

\* docs/architecture/upload-direct-design.md:63 and :87: a cleanup reclaims the
\* multipart upload and the object before the row is deleted.
ReclaimedBeforeRowDelete ==
  [][\A s \in Multipart : status[s] = "pending" /\ status'[s] = "gone" =>
       multipart[s] = "closed"]_vars

\* docs/architecture/upload-direct-design.md:68: a completion that goes ahead has
\* at least CompletionClaimMinTTL before the janitor may take the session over.
CompletionHasMinLease ==
  [][\A r \in Requests : At(r, "claim") /\ pc'[r] = "check" =>
       lease'[target[r]] >= CompletionClaimMinTTL]_vars

-----------------------------------------------------------------------------
(* The inductive invariant behind the safety properties. *)

\* Abort holds the claim but may still give it back.
InHand(r) ==
  \/ At(r, "abort.check")
  \/ At(r, "release") /\ op[r] = AbortOp

\* Claimed for cleanup, and no request can give the claim back any more.
Doomed(s) ==
  \/ ClaimedBy(s, JanitorOp)
  \/ ClaimedBy(s, AbortOp) /\ \A r \in Requests : InHand(r) => target[r] # s

Over(s) == status[s] = "gone" \/ Doomed(s)                     \* no completion can win
Taken(s) == status[s] = "gone" \/ ClaimedBy(s, JanitorOp)
Lost(s) == NoNodes(s) /\ Over(s)
Backed(s) == object[s] # "absent" \/ Over(s)

\* Which operation a request carries at which step.
CompletionSteps == {"claim", "check", "object", "stat", "stat.failed", "commit"}
AbortSteps == {"abort.check", "abort.multipart", "abort.delete", "abort.row"}
Carries(step, o) ==
  /\ step \in CompletionSteps => o \in ClientOps
  /\ step \in AbortSteps => o = AbortOp
  /\ step = "release" => o # NoOp
RequestOps == \A r \in Requests : Carries(pc[r], op[r])

\* A committed row is a complete receipt of a client's operation.
ReceiptComplete ==
  \A s \in Sessions : status[s] = "committed" => receipt[s] \in NodeIds /\ opId[s] \in ClientOps

\* TypeOK made inductive.
ReqInv == ReqType /\ RequestOps
RowInv == RowType /\ ReceiptComplete
TypeInv == RowInv /\ StoreType /\ NodeType /\ ReqInv /\ SweepType /\ ClockType

\* Nodes and rows: none before the commit, the receipt's one while it lasts.
RowNodes ==
  \A s \in Sessions :
    /\ status[s] \in {"new", "pending"} => NoNodes(s)
    /\ status[s] = "committed" => \A n \in NodeIds : madeBy[n] = s <=> n = receipt[s]

\* The row of a session is inserted once, by the only request that knows the id.
InitAlone ==
  \A r \in Requests : pc[r] = "init.create" =>
    /\ status[target[r]] = "new"
    /\ \A q \in Requests \ {r} : target[q] # target[r]

\* An abort that may give its claim back is the only one on its session.
AbortInHand ==
  \A r \in Requests : InHand(r) =>
    /\ Reclaiming(target[r])
    /\ \A q \in Requests : InHand(q) /\ target[q] = target[r] => q = r

\* Past its provider check an abort works on a session that is lost for good, and
\* so does a sweep past its claim.
AbortPastReturn == \A r \in Requests : Removing(r) => Lost(target[r])
SweepPastReturn == \A j \in Janitors : Sweeping(j) => NoNodes(sweepCur[j]) /\ Taken(sweepCur[j])

\* Whoever has seen the object can commit only while it is there.
StatHolds == \A r \in Requests : At(r, "commit") => Backed(target[r])

RepliesNameReceipt ==
  \A x \in replies :
    /\ status[x[1]] \in {"committed", "gone"}
    /\ status[x[1]] = "committed" => x[2] = opId[x[1]]

\* Rows, nodes, objects and answers agree; every step has what it relies on.
DataInv ==
  RowNodes /\ RepliesNameReceipt /\ CommittedObjectPresent /\ OneNodePerSession /\ RepliesAgree
StepInv == InitAlone /\ AbortInHand /\ AbortPastReturn /\ SweepPastReturn /\ StatHolds

IInv == TypeInv /\ DataInv /\ StepInv

-----------------------------------------------------------------------------
(* Refinement: what a session's outcome looks like from outside. *)

Phase(s) ==
  IF status[s] = "new" THEN "absent"
  ELSE IF ~NoNodes(s) THEN "committed"
  ELSE IF Over(s) THEN "discarded" ELSE "open"

Outcome == INSTANCE UploadOutcome WITH
  phase <- [s \in Sessions |-> Phase(s)],
  stored <- [s \in Sessions |-> object[s] # "absent"],
  node <- [s \in Sessions |-> NodesOf(s)]

\* The handlers and the janitor implement UploadOutcome.
OutcomeSpec == Outcome!Spec

-----------------------------------------------------------------------------
(* Liveness: time passes, and a sweep that is tried again and again, with the *)
(* database and the store answering again and again, gets through each step.  *)

SweepFairness(j) ==
  /\ SF_vars(SweepStart(j)) /\ WF_vars(SweepEnd(j)) /\ SF_vars(SweepAbort(j))
  /\ SF_vars(SweepDelete(j) /\ sweepPc'[j] = "row")
  /\ SF_vars(SweepDeleteRow(j) /\ status' # status)
  /\ \A s \in Sessions :
       /\ SF_vars(SweepClaim(j, s) /\ sweepCur'[j] = s)
       /\ SF_vars(SweepReceipt(j, s) /\ status' # status)

FairSpec == Spec /\ SF_vars(Tick) /\ \A j \in Janitors : SweepFairness(j)

\* A cleanup that was started, by Abort or by a sweep that then failed or died, is
\* finished in the end unless the abort gave its claim back.
CleanupCompletes ==
  \A s \in Sessions :
    (\E o \in CleanupOps : ClaimedBy(s, o)) ~> ~(\E o \in CleanupOps : ClaimedBy(s, o))

\* A session nobody works on any more does not stay pending: not after a lost
\* client, not after a claim whose request died.
AbandonedReclaimed ==
  \A s \in Sessions :
    status[s] = "pending" ~> status[s] # "pending" \/ \E r \in Requests : target[r] = s

\* Receipts do not pile up.
ReceiptsExpire == \A s \in Sessions : status[s] = "committed" ~> status[s] = "gone"
=============================================================================
