------------------------ MODULE UploadSessionSafety ------------------------
(***************************************************************************)
(* The safety of direct uploads, for every set of sessions, requests and   *)
(* janitors: IInv is inductive, and with it the properties the runs check. *)
(***************************************************************************)
EXTENDS UploadSession, TLAPS

USE DEF NoOp, AbortOp, JanitorOp, CleanupOps, NoNode, NoSession

-----------------------------------------------------------------------------
(* What the building blocks of the actions do to the types. *)

LEMMA DoneTypes ==
  ASSUME ReqInv, NEW r \in Requests, Done(r)
  PROVE  ReqInv'
<1>1. ReqType'
  BY SessionsAssumption DEF ReqInv, ReqType, Done
<1>2. RequestOps'
  BY DEF ReqInv, ReqType, Done, RequestOps, Carries, CompletionSteps, AbortSteps
<1> QED
  BY <1>1, <1>2 DEF ReqInv

LEMMA GotoTypes ==
  ASSUME ReqInv, NEW r \in Requests, pc[r] # "idle",
         NEW step \in Steps, Carries(step, op[r]), Goto(r, step)
  PROVE  ReqInv'
<1>1. ReqType'
  BY DEF ReqInv, ReqType, Goto, Steps
<1>2. RequestOps'
  BY DEF ReqInv, ReqType, Goto, RequestOps
<1> QED
  BY <1>1, <1>2 DEF ReqInv

LEMMA StartTypes ==
  ASSUME ReqInv, NEW r \in Requests, NEW s \in Sessions,
         NEW step \in Steps, NEW o \in ClientOps \cup {NoOp, AbortOp},
         Carries(step, o), Start(r, step, s, o)
  PROVE  ReqInv'
<1>1. ReqType'
  BY SessionsAssumption DEF ReqInv, ReqType, Start, Steps
<1>2. RequestOps'
  BY DEF ReqInv, ReqType, Start, RequestOps
<1> QED
  BY <1>1, <1>2 DEF ReqInv

LEMMA DeleteRowTypes ==
  ASSUME RowInv, NEW s \in Sessions, DeleteRow(s)
  PROVE  RowInv'
<1>1. RowType'
  BY DEF RowInv, RowType, DeleteRow
<1>2. ReceiptComplete'
  BY DEF RowInv, RowType, ReceiptComplete, DeleteRow
<1> QED
  BY <1>1, <1>2 DEF RowInv

LEMMA ClaimRowTypes ==
  ASSUME RowInv, NEW s \in Sessions, status[s] = "pending",
         NEW o \in ClientOps \cup CleanupOps, NEW ttl \in Int, ClaimRow(s, o, ttl)
  PROVE  RowInv'
<1>1. RowType'
  BY DEF RowInv, RowType, ClaimRow
<1>2. ReceiptComplete'
  BY DEF RowInv, RowType, ReceiptComplete, ClaimRow
<1> QED
  BY <1>1, <1>2 DEF RowInv

LEMMA Frames ==
  /\ RowInv /\ UNCHANGED <<status, opId, receipt>> => RowInv'
  /\ StoreType /\ UNCHANGED <<object, multipart>> => StoreType'
  /\ NodeType /\ UNCHANGED <<madeBy, replies>> => NodeType'
  /\ ReqInv /\ UNCHANGED <<pc, target, op>> => ReqInv'
  /\ SweepType /\ UNCHANGED <<sweepPc, duePending, dueCommitted, sweepCur>> => SweepType'
  /\ ClockType /\ UNCHANGED <<lease, url, sweepAge>> => ClockType'
<1>1. RowInv /\ UNCHANGED <<status, opId, receipt>> => RowInv'
  BY DEF RowInv, RowType, ReceiptComplete
<1>2. StoreType /\ UNCHANGED <<object, multipart>> => StoreType'
  BY DEF StoreType
<1>3. NodeType /\ UNCHANGED <<madeBy, replies>> => NodeType'
  BY DEF NodeType
<1>4. ReqInv /\ UNCHANGED <<pc, target, op>> => ReqInv'
  BY DEF ReqInv, ReqType, RequestOps
<1>5. SweepType /\ UNCHANGED <<sweepPc, duePending, dueCommitted, sweepCur>> => SweepType'
  BY DEF SweepType
<1>6. ClockType /\ UNCHANGED <<lease, url, sweepAge>> => ClockType'
  BY DEF ClockType
<1> QED
  BY <1>1, <1>2, <1>3, <1>4, <1>5, <1>6

\* A row gets a new lease; nothing else about time changes.
LEMMA LeaseTypes ==
  ASSUME ClockType, NEW s \in Sessions, NEW ttl \in Int,
         lease' = [lease EXCEPT ![s] = ttl], UNCHANGED <<url, sweepAge>>
  PROVE  ClockType'
  BY DEF ClockType

\* A row is deleted or left alone.
LEMMA RowLeaves ==
  ASSUME RowInv, ClockType, NEW s \in Sessions, DeleteRow(s) \/ UNCHANGED rowVars,
         UNCHANGED <<url, sweepAge>>
  PROVE  RowInv' /\ ClockType'
<1>1. RowInv'
  BY DeleteRowTypes, Frames DEF rowVars
<1>2. UNCHANGED lease \/ lease' = [lease EXCEPT ![s] = 0]
  BY DEF DeleteRow, rowVars
<1>3. ClockType'
  BY <1>2, LeaseTypes, Frames
<1> QED
  BY <1>1, <1>3

\* A pending row is claimed or left alone.
LEMMA RowClaimed ==
  ASSUME RowInv, ClockType, NEW s \in Sessions, NEW o \in ClientOps \cup CleanupOps,
         NEW ttl \in Int,
         (status[s] = "pending" /\ ClaimRow(s, o, ttl)) \/ UNCHANGED rowVars,
         UNCHANGED <<url, sweepAge>>
  PROVE  RowInv' /\ ClockType'
<1>1. RowInv'
  BY ClaimRowTypes, Frames DEF rowVars
<1>2. UNCHANGED lease \/ lease' = [lease EXCEPT ![s] = ttl]
  BY DEF ClaimRow, rowVars
<1>3. ClockType'
  BY <1>2, LeaseTypes, Frames
<1> QED
  BY <1>1, <1>3

\* A successful answer names a session, a client's operation and a node.
LEMMA AnswerTypes ==
  ASSUME NodeType, NEW s \in Sessions, NEW o \in ClientOps, NEW n \in NodeIds,
         UNCHANGED madeBy \/ madeBy' = [madeBy EXCEPT ![n] = s],
         UNCHANGED replies \/ replies' = replies \cup {<<s, o, n>>}
  PROVE  NodeType'
<1>1. madeBy' \in [NodeIds -> Sessions \cup {NoSession}]
  BY DEF NodeType
<1>2. replies' \subseteq Sessions \X ClientOps \X NodeIds
  <2>1. <<s, o, n>> \in Sessions \X ClientOps \X NodeIds
    OBVIOUS
  <2>2. replies \subseteq Sessions \X ClientOps \X NodeIds
    BY DEF NodeType
  <2>3. \A x \in replies' : x \in replies \/ x = <<s, o, n>>
    OBVIOUS
  <2> QED
    BY <2>1, <2>2, <2>3
<1> QED
  BY <1>1, <1>2 DEF NodeType

-----------------------------------------------------------------------------
(* Every request and every janitor keeps the types. *)

LEMMA InitStepTypes ==
  ASSUME TypeInv, NEW r \in Requests, InitStep(r)
  PROVE  TypeInv'
<1> RowInv /\ StoreType /\ NodeType /\ ReqInv /\ SweepType /\ ClockType
  BY DEF TypeInv
<1>1. ASSUME NEW s \in Sessions, InitUpload(r, s) PROVE TypeInv'
  <2>1. ReqInv'
    <3>1. \/ Start(r, "init.create", s, NoOp)
          \/ UNCHANGED <<pc, target, op>>
      BY <1>1 DEF InitUpload, reqVars
    <3> QED
      BY <3>1, StartTypes, Frames DEF Carries, CompletionSteps, AbortSteps, Steps
  <2>2. StoreType'
    BY <1>1 DEF InitUpload, StoreType
  <2>3. RowInv' /\ NodeType' /\ SweepType' /\ ClockType'
    BY <1>1, Frames DEF InitUpload, rowVars, sweepVars
  <2> QED
    BY <2>1, <2>2, <2>3 DEF TypeInv
<1>2. ASSUME CreateRow(r) PROVE TypeInv'
  <2>1. target[r] \in Sessions /\ pc[r] = "init.create"
    BY <1>2 DEF CreateRow, At, ReqInv, ReqType
  <2>2. ReqInv'
    <3>1. Done(r) \/ Goto(r, "init.undo")
      BY <1>2 DEF CreateRow
    <3> QED
      BY <2>1, <3>1, DoneTypes, GotoTypes DEF Carries, CompletionSteps, AbortSteps, Steps
  <2>3. RowInv'
    BY <1>2, <2>1 DEF CreateRow, rowVars, RowInv, RowType, ReceiptComplete
  <2>4. ClockType'
    <3>1. \/ lease' = [lease EXCEPT ![target[r]] = SessionTTL] /\ UNCHANGED <<url, sweepAge>>
          \/ UNCHANGED <<lease, url, sweepAge>>
      BY <1>2 DEF CreateRow, rowVars, storeVars, sweepVars
    <3> QED
      BY <3>1, <2>1, TTLAssumption, LeaseTypes, Frames
  <2>5. StoreType' /\ NodeType' /\ SweepType'
    BY <1>2, Frames DEF CreateRow, storeVars, sweepVars
  <2> QED
    BY <2>2, <2>3, <2>4, <2>5 DEF TypeInv
<1>3. ASSUME UndoMultipart(r) PROVE TypeInv'
  <2>1. ReqInv'
    BY <1>3, DoneTypes DEF UndoMultipart
  <2>2. StoreType'
    BY <1>3 DEF UndoMultipart, StoreType
  <2>3. RowInv' /\ NodeType' /\ SweepType' /\ ClockType'
    BY <1>3, Frames DEF UndoMultipart, rowVars, sweepVars
  <2> QED
    BY <2>1, <2>2, <2>3 DEF TypeInv
<1> QED
  BY <1>1, <1>2, <1>3 DEF InitStep

LEMMA LeaseStepTypes ==
  ASSUME TypeInv, NEW r \in Requests, LeaseStep(r)
  PROVE  TypeInv'
<1> RowInv /\ StoreType /\ NodeType /\ ReqInv /\ SweepType /\ ClockType
  BY DEF TypeInv
<1>1. ASSUME NEW s \in Sessions, NEW step \in {"sign", "renew"}, LoadSession(r, s, step)
      PROVE  TypeInv'
  <2>1. ReqInv'
    BY <1>1, StartTypes DEF LoadSession, Carries, CompletionSteps, AbortSteps, Steps
  <2>2. RowInv' /\ StoreType' /\ NodeType' /\ SweepType' /\ ClockType'
    BY <1>1, Frames DEF LoadSession, rowVars, storeVars, sweepVars
  <2> QED
    BY <2>1, <2>2 DEF TypeInv
<1>2. ASSUME RenewLease(r) PROVE TypeInv'
  <2>1. ReqInv'
    BY <1>2, DoneTypes DEF RenewLease
  <2>2. ClockType'
    <3>1. \/ UNCHANGED lease
          \/ lease' = [lease EXCEPT ![target[r]] = SessionTTL]
      BY <1>2 DEF RenewLease
    <3>2. \/ UNCHANGED url
          \/ url' = [url EXCEPT ![target[r]] = UrlTTL]
      BY <1>2 DEF RenewLease
    <3>3. UNCHANGED sweepAge
      BY <1>2 DEF RenewLease, sweepVars
    <3> QED
      BY <3>1, <3>2, <3>3, TTLAssumption DEF ClockType
  <2>3. RowInv' /\ StoreType' /\ NodeType' /\ SweepType'
    BY <1>2, Frames DEF RenewLease, sweepVars
  <2> QED
    BY <2>1, <2>2, <2>3 DEF TypeInv
<1> QED
  BY <1>1, <1>2 DEF LeaseStep

LEMMA CompleteStepTypes ==
  ASSUME TypeInv, NEW r \in Requests, CompleteStep(r)
  PROVE  TypeInv'
<1> RowInv /\ StoreType /\ NodeType /\ ReqInv /\ SweepType /\ ClockType
  BY DEF TypeInv
<1>0. /\ pc[r] # "idle" => target[r] \in Sessions
      /\ pc[r] \in CompletionSteps => op[r] \in ClientOps
      /\ op[r] \in ClientOps \cup {NoOp, AbortOp}
  BY DEF ReqInv, ReqType, RequestOps, Carries
<1>1. ASSUME NEW s \in Sessions, NEW o \in ClientOps, StartComplete(r, s, o) PROVE TypeInv'
  <2>1. ReqInv'
    BY <1>1, StartTypes DEF StartComplete, Carries, CompletionSteps, AbortSteps, Steps
  <2>2. RowInv' /\ StoreType' /\ NodeType' /\ SweepType' /\ ClockType'
    BY <1>1, Frames DEF StartComplete, rowVars, storeVars, sweepVars
  <2> QED
    BY <2>1, <2>2 DEF TypeInv
<1>2. ASSUME ClaimCompletion(r) PROVE TypeInv'
  <2>1. /\ pc[r] = "claim" /\ target[r] \in Sessions /\ op[r] \in ClientOps
    BY <1>2, <1>0 DEF ClaimCompletion, At, CompletionSteps
  <2>2. ReqInv'
    <3>1. Done(r) \/ Goto(r, "check")
      BY <1>2 DEF ClaimCompletion
    <3> QED
      BY <2>1, <3>1, DoneTypes, GotoTypes DEF Carries, CompletionSteps, AbortSteps, Steps
  <2>3. \/ UNCHANGED rowVars
        \/ /\ status[target[r]] = "pending"
           /\ ClaimRow(target[r], op[r], AtLeast(lease[target[r]], CompletionClaimMinTTL))
    BY <1>2 DEF ClaimCompletion, Unclaimed
  <2>4. AtLeast(lease[target[r]], CompletionClaimMinTTL) \in Int
    BY <2>1, TTLAssumption DEF AtLeast, ClockType
  <2>5. UNCHANGED <<url, sweepAge>>
    BY <1>2 DEF ClaimCompletion, storeVars, sweepVars
  <2>6. RowInv' /\ ClockType'
    BY <2>1, <2>3, <2>4, <2>5, RowClaimed
  <2>7. NodeType'
    <3>1. UNCHANGED madeBy
      BY <1>2 DEF ClaimCompletion
    <3>2. \/ UNCHANGED replies
          \/ /\ status[target[r]] = "committed"
             /\ replies' = replies \cup {<<target[r], op[r], receipt[target[r]]>>}
      BY <1>2 DEF ClaimCompletion, Answer
    <3>3. status[target[r]] = "committed" => receipt[target[r]] \in NodeIds
      BY <2>1 DEF RowInv, ReceiptComplete
    <3> QED
      BY <2>1, <3>1, <3>2, <3>3, AnswerTypes, Frames
  <2>8. StoreType' /\ SweepType'
    BY <1>2, Frames DEF ClaimCompletion, storeVars, sweepVars
  <2> QED
    BY <2>2, <2>6, <2>7, <2>8 DEF TypeInv
<1>3. ASSUME CheckTarget(r) \/ StatObject(r) PROVE TypeInv'
  <2>1. pc[r] \in {"check", "stat", "stat.failed"} /\ op[r] \in ClientOps
    BY <1>3, <1>0 DEF CheckTarget, StatObject, At, CompletionSteps
  <2>2. ReqInv'
    <3>1. Done(r) \/ \E step \in {"release", "object", "stat", "commit"} : Goto(r, step)
      BY <1>3 DEF CheckTarget, StatObject
    <3> QED
      BY <2>1, <3>1, DoneTypes, GotoTypes, OpsAssumption
      DEF Carries, CompletionSteps, AbortSteps, Steps
  <2>3. RowInv' /\ StoreType' /\ NodeType' /\ SweepType' /\ ClockType'
    BY <1>3, Frames DEF CheckTarget, StatObject, rowVars, storeVars, sweepVars
  <2> QED
    BY <2>2, <2>3 DEF TypeInv
<1>4. ASSUME CompleteMultipartUpload(r) PROVE TypeInv'
  <2>1. pc[r] = "object" /\ op[r] \in ClientOps
    BY <1>4, <1>0 DEF CompleteMultipartUpload, At, CompletionSteps
  <2>2. ReqInv'
    <3>1. Goto(r, "stat") \/ Goto(r, "stat.failed")
      BY <1>4 DEF CompleteMultipartUpload
    <3> QED
      BY <2>1, <3>1, GotoTypes DEF Carries, CompletionSteps, AbortSteps, Steps
  <2>3. StoreType'
    BY <1>4 DEF CompleteMultipartUpload, StoreType
  <2>4. RowInv' /\ NodeType' /\ SweepType' /\ ClockType'
    BY <1>4, Frames DEF CompleteMultipartUpload, rowVars, sweepVars
  <2> QED
    BY <2>2, <2>3, <2>4 DEF TypeInv
<1>5. ASSUME CommitNode(r) PROVE TypeInv'
  <2>1. /\ pc[r] = "commit" /\ target[r] \in Sessions /\ op[r] \in ClientOps
    BY <1>5, <1>0 DEF CommitNode, At, CompletionSteps
  <2>2. ReqInv'
    <3>1. Done(r) \/ Goto(r, "release")
      BY <1>5 DEF CommitNode
    <3> QED
      BY <2>1, <3>1, DoneTypes, GotoTypes, OpsAssumption
      DEF Carries, CompletionSteps, AbortSteps, Steps
  <2>3. \/ /\ UNCHANGED rowVars /\ UNCHANGED madeBy
           /\ \/ UNCHANGED replies
              \/ /\ status[target[r]] = "committed"
                 /\ replies' = replies \cup {<<target[r], op[r], receipt[target[r]]>>}
        \/ \E n \in NodeIds :
             /\ opId[target[r]] = op[r]
             /\ madeBy' = [madeBy EXCEPT ![n] = target[r]]
             /\ status' = [status EXCEPT ![target[r]] = "committed"]
             /\ receipt' = [receipt EXCEPT ![target[r]] = n]
             /\ lease' = [lease EXCEPT ![target[r]] = ReceiptTTL]
             /\ UNCHANGED opId
             /\ \/ UNCHANGED replies
                \/ replies' = replies \cup {<<target[r], op[r], n>>}
    BY <1>5 DEF CommitNode, MayCommit, ClaimedBy, Answer
  <2>4. RowInv'
    <3>1. RowType'
      BY <2>1, <2>3 DEF RowInv, RowType, rowVars
    <3>2. ReceiptComplete'
      BY <2>1, <2>3 DEF RowInv, RowType, ReceiptComplete, rowVars
    <3> QED
      BY <3>1, <3>2 DEF RowInv
  <2>5. NodeType'
    <3>1. status[target[r]] = "committed" => receipt[target[r]] \in NodeIds
      BY <2>1 DEF RowInv, ReceiptComplete
    <3> QED
      BY <2>1, <2>3, <3>1, AnswerTypes, Frames
  <2>6. ClockType'
    <3>1. UNCHANGED <<url, sweepAge>>
      BY <1>5 DEF CommitNode, storeVars, sweepVars
    <3>2. UNCHANGED lease \/ lease' = [lease EXCEPT ![target[r]] = ReceiptTTL]
      BY <2>3 DEF rowVars
    <3> QED
      BY <2>1, <3>1, <3>2, TTLAssumption, LeaseTypes, Frames
  <2>7. StoreType' /\ SweepType'
    BY <1>5, Frames DEF CommitNode, storeVars, sweepVars
  <2> QED
    BY <2>2, <2>4, <2>5, <2>6, <2>7 DEF TypeInv
<1>6. ASSUME ReleaseClaim(r) PROVE TypeInv'
  <2>1. ReqInv'
    BY <1>6, DoneTypes DEF ReleaseClaim
  <2>2. RowInv'
    <3>1. /\ UNCHANGED <<status, receipt>>
          /\ \/ UNCHANGED opId
             \/ /\ status[target[r]] = "pending"
                /\ opId' = [opId EXCEPT ![target[r]] = NoOp]
      BY <1>6 DEF ReleaseClaim, ClaimedBy
    <3>2. RowType'
      BY <3>1 DEF RowInv, RowType
    <3>3. ReceiptComplete'
      BY <3>1 DEF RowInv, RowType, ReceiptComplete
    <3> QED
      BY <3>2, <3>3 DEF RowInv
  <2>3. StoreType' /\ NodeType' /\ SweepType' /\ ClockType'
    BY <1>6, Frames DEF ReleaseClaim, storeVars, sweepVars
  <2> QED
    BY <2>1, <2>2, <2>3 DEF TypeInv
<1> QED
  BY <1>1, <1>2, <1>3, <1>4, <1>5, <1>6 DEF CompleteStep

LEMMA AbortStepTypes ==
  ASSUME TypeInv, NEW r \in Requests, AbortStep(r)
  PROVE  TypeInv'
<1> RowInv /\ StoreType /\ NodeType /\ ReqInv /\ SweepType /\ ClockType
  BY DEF TypeInv
<1>0. /\ pc[r] # "idle" => target[r] \in Sessions
      /\ pc[r] \in AbortSteps => op[r] = AbortOp
  BY DEF ReqInv, ReqType, RequestOps, Carries
<1>1. ASSUME NEW s \in Sessions, ClaimAbort(r, s) PROVE TypeInv'
  <2>1. ReqInv'
    <3>1. Start(r, "abort.check", s, AbortOp) \/ UNCHANGED <<pc, target, op>>
      BY <1>1 DEF ClaimAbort, reqVars
    <3> QED
      BY <3>1, StartTypes, Frames DEF Carries, CompletionSteps, AbortSteps, Steps
  <2>2. status[s] = "pending" /\ ClaimRow(s, AbortOp, CleanupClaimTTL)
    BY <1>1 DEF ClaimAbort, Unclaimed
  <2>3. UNCHANGED <<url, sweepAge>>
    BY <1>1 DEF ClaimAbort, storeVars, sweepVars
  <2>4. RowInv' /\ ClockType'
    <3>1. CleanupClaimTTL \in Int
      BY TTLAssumption
    <3> QED
      BY <2>2, <2>3, <3>1, RowClaimed
  <2>5. StoreType' /\ NodeType' /\ SweepType'
    BY <1>1, Frames DEF ClaimAbort, storeVars, sweepVars
  <2> QED
    BY <2>1, <2>4, <2>5 DEF TypeInv
<1>2. ASSUME CheckAbortProvider(r) PROVE TypeInv'
  <2>1. pc[r] = "abort.check" /\ op[r] = AbortOp
    BY <1>2, <1>0 DEF CheckAbortProvider, At, AbortSteps
  <2>2. ReqInv'
    <3>1. \E step \in {"release", "abort.multipart", "abort.delete"} : Goto(r, step)
      BY <1>2 DEF CheckAbortProvider
    <3> QED
      BY <2>1, <3>1, GotoTypes DEF Carries, CompletionSteps, AbortSteps, Steps
  <2>3. RowInv' /\ StoreType' /\ NodeType' /\ SweepType' /\ ClockType'
    BY <1>2, Frames DEF CheckAbortProvider, rowVars, storeVars, sweepVars
  <2> QED
    BY <2>2, <2>3 DEF TypeInv
<1>3. ASSUME AbortMultipart(r) PROVE TypeInv'
  <2>1. pc[r] = "abort.multipart" /\ op[r] = AbortOp
    BY <1>3, <1>0 DEF AbortMultipart, At, AbortSteps
  <2>2. ReqInv'
    <3>1. Goto(r, "abort.row") \/ Goto(r, "abort.delete")
      BY <1>3 DEF AbortMultipart
    <3> QED
      BY <2>1, <3>1, GotoTypes DEF Carries, CompletionSteps, AbortSteps, Steps
  <2>3. StoreType'
    BY <1>3 DEF AbortMultipart, StoreType
  <2>4. RowInv' /\ NodeType' /\ SweepType' /\ ClockType'
    BY <1>3, Frames DEF AbortMultipart, rowVars, sweepVars
  <2> QED
    BY <2>2, <2>3, <2>4 DEF TypeInv
<1>4. ASSUME AbortDeleteObject(r) PROVE TypeInv'
  <2>1. pc[r] = "abort.delete" /\ op[r] = AbortOp
    BY <1>4, <1>0 DEF AbortDeleteObject, At, AbortSteps
  <2>2. ReqInv'
    <3>1. Goto(r, "abort.row") \/ Done(r)
      BY <1>4 DEF AbortDeleteObject
    <3> QED
      BY <2>1, <3>1, GotoTypes, DoneTypes DEF Carries, CompletionSteps, AbortSteps, Steps
  <2>3. StoreType'
    BY <1>4 DEF AbortDeleteObject, StoreType
  <2>4. RowInv' /\ NodeType' /\ SweepType' /\ ClockType'
    BY <1>4, Frames DEF AbortDeleteObject, rowVars, sweepVars
  <2> QED
    BY <2>2, <2>3, <2>4 DEF TypeInv
<1>5. ASSUME AbortDeleteRow(r) PROVE TypeInv'
  <2>1. target[r] \in Sessions
    BY <1>5, <1>0 DEF AbortDeleteRow, At
  <2>2. DeleteRow(target[r]) \/ UNCHANGED rowVars
    BY <1>5 DEF AbortDeleteRow
  <2>3. UNCHANGED <<url, sweepAge>>
    BY <1>5 DEF AbortDeleteRow, storeVars, sweepVars
  <2>4. RowInv' /\ ClockType'
    BY <2>1, <2>2, <2>3, RowLeaves
  <2>5. ReqInv' /\ StoreType' /\ NodeType' /\ SweepType'
    BY <1>5, DoneTypes, Frames DEF AbortDeleteRow, storeVars, sweepVars
  <2> QED
    BY <2>4, <2>5 DEF TypeInv
<1> QED
  BY <1>1, <1>2, <1>3, <1>4, <1>5 DEF AbortStep

LEMMA JanitorStepTypes ==
  ASSUME TypeInv, NEW j \in Janitors, JanitorStep(j)
  PROVE  TypeInv'
<1> RowInv /\ StoreType /\ NodeType /\ ReqInv /\ SweepType /\ ClockType
  BY DEF TypeInv
<1>0. sweepPc[j] \notin {"idle", "scan"} => sweepCur[j] \in Sessions
  BY DEF SweepType
<1>1. ASSUME SweepStart(j) PROVE TypeInv'
  <2>1. SweepType'
    <3>1. PICK batch \in SUBSET Sessions :
            /\ duePending' = [duePending EXCEPT ![j] = {s \in batch : status[s] = "pending"}]
            /\ dueCommitted' = [dueCommitted EXCEPT ![j] = {s \in batch : status[s] = "committed"}]
      BY <1>1 DEF SweepStart, Oldest
    <3>2. sweepPc[j] = "idle" /\ sweepPc' = [sweepPc EXCEPT ![j] = "scan"] /\ UNCHANGED sweepCur
      BY <1>1 DEF SweepStart
    <3> QED
      BY <3>1, <3>2 DEF SweepType
  <2>2. RowInv' /\ StoreType' /\ NodeType' /\ ReqInv' /\ ClockType'
    BY <1>1, Frames DEF SweepStart, rowVars, storeVars, reqVars
  <2> QED
    BY <2>1, <2>2 DEF TypeInv
<1>2. ASSUME SweepAbort(j) PROVE TypeInv'
  <2>1. SweepType'
    BY <1>2 DEF SweepAbort, SweepType
  <2>2. StoreType'
    BY <1>2 DEF SweepAbort, StoreType
  <2>3. RowInv' /\ NodeType' /\ ReqInv' /\ ClockType'
    BY <1>2, Frames DEF SweepAbort, rowVars, reqVars
  <2> QED
    BY <2>1, <2>2, <2>3 DEF TypeInv
<1>3. ASSUME SweepDelete(j) PROVE TypeInv'
  <2>1. SweepType'
    BY <1>3, SessionsAssumption DEF SweepDelete, NextRow, SweepType
  <2>2. StoreType'
    BY <1>3 DEF SweepDelete, StoreType
  <2>3. RowInv' /\ NodeType' /\ ReqInv' /\ ClockType'
    BY <1>3, Frames DEF SweepDelete, rowVars, reqVars
  <2> QED
    BY <2>1, <2>2, <2>3 DEF TypeInv
<1>4. ASSUME SweepDeleteRow(j) PROVE TypeInv'
  <2>1. SweepType'
    BY <1>4 DEF SweepDeleteRow, NextRow, SweepType
  <2>2. sweepCur[j] \in Sessions /\ (DeleteRow(sweepCur[j]) \/ UNCHANGED rowVars)
    BY <1>4, <1>0 DEF SweepDeleteRow
  <2>3. RowInv' /\ ClockType'
    <3>1. UNCHANGED <<url, sweepAge>>
      BY <1>4 DEF SweepDeleteRow, storeVars
    <3> QED
      BY <2>2, <3>1, RowLeaves
  <2>4. StoreType' /\ NodeType' /\ ReqInv'
    BY <1>4, Frames DEF SweepDeleteRow, storeVars, reqVars
  <2> QED
    BY <2>1, <2>3, <2>4 DEF TypeInv
<1>5. ASSUME SweepEnd(j) PROVE TypeInv'
  <2>1. SweepType'
    BY <1>5 DEF SweepEnd, SweepType
  <2>2. ClockType'
    <3>1. UNCHANGED <<lease, url>> /\ sweepAge' = [sweepAge EXCEPT ![j] = 0]
      BY <1>5 DEF SweepEnd, rowVars, storeVars
    <3> QED
      BY <3>1 DEF ClockType
  <2>3. RowInv' /\ StoreType' /\ NodeType' /\ ReqInv'
    BY <1>5, Frames DEF SweepEnd, rowVars, storeVars, reqVars
  <2> QED
    BY <2>1, <2>2, <2>3 DEF TypeInv
<1>6. ASSUME NEW s \in Sessions, SweepReceipt(j, s) PROVE TypeInv'
  <2>1. SweepType'
    BY <1>6 DEF SweepReceipt, SweepType
  <2>2. RowInv' /\ ClockType'
    <3>1. DeleteRow(s) \/ UNCHANGED rowVars
      BY <1>6 DEF SweepReceipt
    <3>2. UNCHANGED <<url, sweepAge>>
      BY <1>6 DEF SweepReceipt, storeVars
    <3> QED
      BY <3>1, <3>2, RowLeaves
  <2>3. StoreType' /\ NodeType' /\ ReqInv'
    BY <1>6, Frames DEF SweepReceipt, storeVars, reqVars
  <2> QED
    BY <2>1, <2>2, <2>3 DEF TypeInv
<1>7. ASSUME NEW s \in Sessions, SweepClaim(j, s) PROVE TypeInv'
  <2>1. SweepType'
    <3>1. sweepPc[j] = "scan" /\ duePending' = [duePending EXCEPT ![j] = @ \ {s}]
      BY <1>7 DEF SweepClaim
    <3>2. \/ UNCHANGED <<sweepPc, sweepCur>>
          \/ \E step \in {"abort", "delete"} :
               /\ sweepPc' = [sweepPc EXCEPT ![j] = step]
               /\ sweepCur' = [sweepCur EXCEPT ![j] = s]
      BY <1>7 DEF SweepClaim
    <3>3. UNCHANGED dueCommitted
      BY <1>7 DEF SweepClaim
    <3> QED
      BY <3>1, <3>2, <3>3, SessionsAssumption DEF SweepType
  <2>2. \/ status[s] = "pending" /\ ClaimRow(s, JanitorOp, CleanupClaimTTL)
        \/ UNCHANGED rowVars
    BY <1>7 DEF SweepClaim, Reclaimable
  <2>3. UNCHANGED <<url, sweepAge>>
    BY <1>7 DEF SweepClaim, storeVars
  <2>4. RowInv' /\ ClockType'
    <3>1. CleanupClaimTTL \in Int
      BY TTLAssumption
    <3> QED
      BY <2>2, <2>3, <3>1, RowClaimed
  <2>5. StoreType' /\ NodeType' /\ ReqInv'
    BY <1>7, Frames DEF SweepClaim, storeVars, reqVars
  <2> QED
    BY <2>1, <2>4, <2>5 DEF TypeInv
<1> QED
  BY <1>1, <1>2, <1>3, <1>4, <1>5, <1>6, <1>7 DEF JanitorStep

LEMMA InitTypes == Init => TypeInv
<1> SUFFICES ASSUME Init PROVE TypeInv
  OBVIOUS
<1>1. RowInv
  BY DEF Init, RowInv, RowType, ReceiptComplete
<1>2. StoreType
  BY DEF Init, StoreType
<1>3. NodeType
  BY DEF Init, NodeType
<1>4. ReqInv
  <2>1. /\ pc = [r \in Requests |-> "idle"]
        /\ target = [r \in Requests |-> NoSession]
        /\ op = [r \in Requests |-> NoOp]
    BY DEF Init
  <2>2. ReqType
    BY <2>1 DEF ReqType
  <2>3. RequestOps
    BY <2>1 DEF RequestOps, Carries, CompletionSteps, AbortSteps
  <2> QED
    BY <2>2, <2>3 DEF ReqInv
<1>5. SweepType
  BY DEF Init, SweepType
<1>6. ClockType
  <2>1. /\ lease = [s \in Sessions |-> 0]
        /\ url = [s \in Sessions |-> 0]
        /\ sweepAge = [j \in Janitors |-> 0]
    BY DEF Init
  <2> QED
    BY <2>1 DEF ClockType
<1> QED
  BY <1>1, <1>2, <1>3, <1>4, <1>5, <1>6 DEF TypeInv

LEMMA NextTypes == TypeInv /\ [Next]_vars => TypeInv'
<1> SUFFICES ASSUME TypeInv, [Next]_vars PROVE TypeInv'
  OBVIOUS
<1> RowInv /\ StoreType /\ NodeType /\ ReqInv /\ SweepType /\ ClockType
  BY DEF TypeInv
<1>1. ASSUME NEW r \in Requests, Die(r) PROVE TypeInv'
  <2>1. ReqInv'
    BY <1>1, DoneTypes DEF Die
  <2>2. RowInv' /\ StoreType' /\ NodeType' /\ SweepType' /\ ClockType'
    BY <1>1, Frames DEF Die, rowVars, storeVars, sweepVars
  <2> QED
    BY <2>1, <2>2 DEF TypeInv
<1>2. ASSUME NEW s \in Sessions, Put(s) PROVE TypeInv'
  <2>1. StoreType'
    BY <1>2 DEF Put, StoreType
  <2>2. RowInv' /\ NodeType' /\ ReqInv' /\ SweepType' /\ ClockType'
    BY <1>2, Frames DEF Put, rowVars, reqVars, sweepVars
  <2> QED
    BY <2>1, <2>2 DEF TypeInv
<1>3. ASSUME NEW s \in Sessions, NEW o \in ClientOps, ReplayReceipt(s, o) PROVE TypeInv'
  <2>1. NodeType'
    <3>1. receipt[s] \in NodeIds
      BY <1>3 DEF ReplayReceipt, RowInv, ReceiptComplete
    <3>2. UNCHANGED madeBy /\ replies' = replies \cup {<<s, o, receipt[s]>>}
      BY <1>3 DEF ReplayReceipt, Answer
    <3> QED
      BY <3>1, <3>2, AnswerTypes
  <2>2. RowInv' /\ StoreType' /\ ReqInv' /\ SweepType' /\ ClockType'
    BY <1>3, Frames DEF ReplayReceipt, rowVars, storeVars, reqVars, sweepVars
  <2> QED
    BY <2>1, <2>2 DEF TypeInv
<1>4. ASSUME Tick PROVE TypeInv'
  <2>1. ClockType'
    <3>1. MinLease \in Int
      BY TTLAssumption DEF MinLease
    <3>2. lease' \in [Sessions -> Int]
      BY <1>4, <3>1 DEF Tick, ClockType, AtLeast
    <3>3. url' \in [Sessions -> Nat]
      BY <1>4 DEF Tick, ClockType, AtLeast
    <3>4. sweepAge' \in [Janitors -> Nat]
      BY <1>4 DEF Tick, ClockType
    <3> QED
      BY <3>2, <3>3, <3>4 DEF ClockType
  <2>2. RowInv' /\ StoreType' /\ NodeType' /\ ReqInv' /\ SweepType'
    BY <1>4, Frames DEF Tick, reqVars
  <2> QED
    BY <2>1, <2>2 DEF TypeInv
<1>5. ASSUME UNCHANGED vars PROVE TypeInv'
  <2>1. RowInv' /\ StoreType' /\ NodeType' /\ ReqInv' /\ SweepType' /\ ClockType'
    BY <1>5, Frames DEF vars
  <2> QED
    BY <2>1 DEF TypeInv
<1> QED
  BY <1>1, <1>2, <1>3, <1>4, <1>5, InitStepTypes, LeaseStepTypes, CompleteStepTypes,
     AbortStepTypes, JanitorStepTypes DEF Next

\* Every variable keeps its type; a request that works on a session knows it and
\* carries the operation its step needs, and a committed row is a full receipt.
THEOREM TypeInvariant == Spec => []TypeInv
<1> QED
  BY InitTypes, NextTypes, PTL DEF Spec

\* The type invariant the runs check.
THEOREM TypeCorrect == Spec => []TypeOK
<1>1. TypeInv => TypeOK
  BY DEF TypeInv, TypeOK, RowInv, ReqInv
<1> QED
  BY <1>1, TypeInvariant, PTL

-----------------------------------------------------------------------------
(* What a step has to show for StepInv and for DataInv. *)

\* An operation name of the server is never a client's.
LEMMA OverExcludesClients ==
  ASSUME NEW s, NEW o \in ClientOps \cup {NoOp}, ClaimedBy(s, o)
  PROVE  ~Over(s)
  BY OpsAssumption DEF Over, Doomed, ClaimedBy

\* A session that is over stays over: its row is left alone or taken, and no
\* request gets its claim in hand.
LEMMA OverLasts ==
  ASSUME NEW s, Over(s),
         UNCHANGED <<status[s], opId[s]>> \/ Taken(s)',
         \A q \in Requests : InHand(q)' /\ target'[q] = s => InHand(q) /\ target[q] = s
  PROVE  Over(s)'
<1>1. CASE Taken(s)'
  BY <1>1 DEF Taken, Over, Doomed
<1>2. CASE UNCHANGED <<status[s], opId[s]>>
  <2>1. Doomed(s) => Doomed(s)'
    BY <1>2 DEF Doomed, ClaimedBy
  <2> QED
    BY <1>2, <2>1 DEF Over
<1> QED
  BY <1>1, <1>2

\* One requirement per clause of StepInv: keep what you had, or have it afresh.
RowsSettle ==
  \A s \in Sessions :
    /\ Over(s) => UNCHANGED <<status[s], opId[s]>> \/ Taken(s)'
    /\ Lost(s) => NoNodes(s)'
    /\ Reclaiming(s) => Reclaiming(s)' \/ \A q \in Requests : InHand(q)' => target'[q] # s
    /\ status[s] = "new" =>
         status'[s] = "new" \/ \A q \in Requests : pc'[q] = "init.create" => target'[q] # s

RequestsSettle ==
  \A q \in Requests :
    /\ pc'[q] = "init.create" =>
         \/ pc[q] = "init.create" /\ target'[q] = target[q]
         \/ /\ status'[target'[q]] = "new"
            /\ \A p \in Requests \ {q} : target'[p] # target'[q]
    /\ \/ target'[q] \in {target[q], NoSession}
       \/ \A p \in Requests \ {q} : pc'[p] = "init.create" => target'[p] # target'[q]
    /\ InHand(q)' =>
         \/ InHand(q) /\ target'[q] = target[q]
         \/ /\ ~Over(target'[q]) /\ Reclaiming(target[q])'
            /\ \A p \in Requests : InHand(p)' /\ target'[p] = target'[q] => p = q
    /\ Removing(q)' => (Removing(q) /\ target'[q] = target[q]) \/ Lost(target[q])'
    /\ pc'[q] = "commit" => target'[q] = target[q] /\ Backed(target[q])

SweepsSettle ==
  \A j \in Janitors : Sweeping(j)' =>
    \/ Sweeping(j) /\ sweepCur'[j] = sweepCur[j]
    \/ NoNodes(sweepCur[j])' /\ Taken(sweepCur[j])'

\* Only a session that is lost loses its object.
ObjectsKept == \A s \in Sessions : object[s] # "absent" => object'[s] # "absent" \/ Lost(s)

LEMMA Settle ==
  ASSUME TypeInv, TypeInv', StepInv, RowsSettle, RequestsSettle, SweepsSettle, ObjectsKept
  PROVE  StepInv'
<1>1. /\ \A q \in Requests : pc[q] # "idle" => target[q] \in Sessions
      /\ \A q \in Requests : pc'[q] # "idle" => target'[q] \in Sessions
      /\ \A j \in Janitors : Sweeping(j) => sweepCur[j] \in Sessions
      /\ \A j \in Janitors : Sweeping(j)' => sweepCur'[j] \in Sessions
  <2>1. \A q \in Requests : pc[q] # "idle" => target[q] \in Sessions
    BY DEF TypeInv, ReqInv, ReqType
  <2>2. \A q \in Requests : pc'[q] # "idle" => target'[q] \in Sessions
    BY DEF TypeInv, ReqInv, ReqType
  <2>3. \A j \in Janitors : Sweeping(j) => sweepCur[j] \in Sessions
    BY DEF TypeInv, SweepType, Sweeping
  <2>4. \A j \in Janitors : Sweeping(j)' => sweepCur'[j] \in Sessions
    BY DEF TypeInv, SweepType, Sweeping
  <2> QED
    BY <2>1, <2>2, <2>3, <2>4
<1>2. ASSUME NEW s \in Sessions PROVE Over(s) => Over(s)'
  <2> SUFFICES ASSUME Over(s) PROVE Over(s)'
    OBVIOUS
  <2>1. UNCHANGED <<status[s], opId[s]>> \/ Taken(s)'
    BY DEF RowsSettle
  <2>2. \A q \in Requests : InHand(q)' /\ target'[q] = s => InHand(q) /\ target[q] = s
    BY DEF RequestsSettle
  <2> QED
    BY <2>1, <2>2, OverLasts
<1>3. ASSUME NEW s \in Sessions PROVE Lost(s) => Lost(s)'
  BY <1>2 DEF Lost, RowsSettle
<1>4. ASSUME NEW s \in Sessions PROVE Backed(s) => Backed(s)'
  BY <1>2 DEF Backed, ObjectsKept, Lost
<1>5. ASSUME NEW s \in Sessions, NoNodes(s), Taken(s) PROVE NoNodes(s)' /\ Taken(s)'
  <2>1. Over(s)
    BY <1>5 DEF Over, Taken, Doomed
  <2>2. NoNodes(s)'
    BY <1>5, <2>1 DEF RowsSettle, Lost
  <2>3. UNCHANGED <<status[s], opId[s]>> \/ Taken(s)'
    BY <2>1 DEF RowsSettle
  <2> QED
    BY <1>5, <2>2, <2>3 DEF Taken, ClaimedBy
<1>6. InitAlone'
  <2> SUFFICES ASSUME NEW q \in Requests, pc'[q] = "init.create"
               PROVE  /\ status'[target'[q]] = "new"
                      /\ \A p \in Requests \ {q} : target'[p] # target'[q]
    BY DEF InitAlone
  <2>1. target'[q] \in Sessions
    BY <1>1
  <2>2. CASE pc[q] = "init.create" /\ target'[q] = target[q]
    <3>1. status'[target'[q]] = "new"
      BY <2>1, <2>2 DEF RowsSettle, StepInv, InitAlone
    <3>2. ASSUME NEW p \in Requests \ {q} PROVE target'[p] # target'[q]
      <4>1. target[p] # target[q]
        BY <2>2 DEF StepInv, InitAlone
      <4>2. CASE target'[p] \in {target[p], NoSession}
        BY <2>1, <2>2, <4>1, <4>2, SessionsAssumption
      <4>3. CASE target'[p] \notin {target[p], NoSession}
        BY <4>3 DEF RequestsSettle
      <4> QED
        BY <4>2, <4>3
    <3> QED
      BY <3>1, <3>2
  <2> QED
    BY <2>2 DEF RequestsSettle
<1>7. AbortInHand'
  <2> SUFFICES ASSUME NEW q \in Requests, InHand(q)'
               PROVE  /\ Reclaiming(target[q])'
                      /\ \A p \in Requests : InHand(p)' /\ target'[p] = target'[q] => p = q
    BY DEF AbortInHand
  <2>1. target'[q] \in Sessions
    BY <1>1 DEF InHand, At
  <2>2. CASE InHand(q) /\ target'[q] = target[q]
    <3>1. Reclaiming(target[q]) /\ target[q] \in Sessions
      BY <2>1, <2>2 DEF StepInv, AbortInHand
    <3>2. Reclaiming(target[q])'
      BY <2>2, <3>1 DEF RowsSettle
    <3>3. ASSUME NEW p \in Requests, InHand(p)', target'[p] = target'[q] PROVE p = q
      <4>1. CASE InHand(p) /\ target'[p] = target[p]
        BY <2>2, <3>3, <4>1 DEF StepInv, AbortInHand
      <4>2. CASE ~(InHand(p) /\ target'[p] = target[p])
        BY <3>3, <4>2 DEF RequestsSettle
      <4> QED
        BY <4>1, <4>2
    <3> QED
      BY <3>2, <3>3
  <2> QED
    BY <2>2 DEF RequestsSettle
<1>8. AbortPastReturn'
  <2> SUFFICES ASSUME NEW q \in Requests, Removing(q)' PROVE Lost(target[q])'
    BY DEF AbortPastReturn
  <2>1. CASE Removing(q) /\ target'[q] = target[q]
    <3>1. Lost(target[q]) /\ target[q] \in Sessions
      BY <1>1, <2>1 DEF StepInv, AbortPastReturn, Removing
    <3> QED
      BY <1>3, <2>1, <3>1
  <2> QED
    BY <2>1 DEF RequestsSettle
<1>9. SweepPastReturn'
  <2> SUFFICES ASSUME NEW j \in Janitors, Sweeping(j)'
               PROVE  NoNodes(sweepCur[j])' /\ Taken(sweepCur[j])'
    BY DEF SweepPastReturn
  <2>1. CASE Sweeping(j) /\ sweepCur'[j] = sweepCur[j]
    <3>1. NoNodes(sweepCur[j]) /\ Taken(sweepCur[j]) /\ sweepCur[j] \in Sessions
      BY <1>1, <2>1 DEF StepInv, SweepPastReturn
    <3> QED
      BY <1>5, <2>1, <3>1
  <2> QED
    BY <2>1 DEF SweepsSettle
<1>10. StatHolds'
  <2> SUFFICES ASSUME NEW q \in Requests, pc'[q] = "commit" PROVE Backed(target[q])'
    BY DEF StatHolds, At
  <2>1. target'[q] = target[q] /\ Backed(target[q]) /\ target'[q] \in Sessions
    BY <1>1 DEF RequestsSettle
  <2> QED
    BY <1>4, <2>1
<1> QED
  BY <1>6, <1>7, <1>8, <1>9, <1>10 DEF StepInv

\* Rows are left alone, inserted, claimed, released or deleted: nothing is decided.
RowsUndecided ==
  \A s \in Sessions :
    \/ UNCHANGED <<status[s], opId[s], receipt[s]>>
    \/ status[s] \in {"new", "pending"} /\ status'[s] = "pending"
    \/ status'[s] = "gone"

LEMMA DataFrame ==
  ASSUME TypeInv, DataInv, RowsUndecided, ObjectsKept, UNCHANGED <<madeBy, replies>>
  PROVE  DataInv'
<1>1. RowNodes'
  BY DEF DataInv, RowNodes, RowsUndecided, NoNodes
<1>2. RepliesNameReceipt'
  <2>1. \A x \in replies : x[1] \in Sessions
    BY DEF TypeInv, NodeType
  <2>2. ASSUME NEW x \in replies
        PROVE  /\ status'[x[1]] \in {"committed", "gone"}
               /\ status'[x[1]] = "committed" => x[2] = opId'[x[1]]
    <3>1. /\ status[x[1]] \in {"committed", "gone"}
          /\ status[x[1]] = "committed" => x[2] = opId[x[1]]
      BY DEF DataInv, RepliesNameReceipt
    <3> QED
      BY <2>1, <3>1 DEF RowsUndecided
  <2> QED
    BY <2>2 DEF RepliesNameReceipt
<1>3. CommittedObjectPresent'
  <2>1. \A n \in NodeIds : madeBy[n] # NoSession => madeBy[n] \in Sessions
    BY DEF TypeInv, NodeType
  <2> QED
    BY <2>1 DEF DataInv, CommittedObjectPresent, ObjectsKept, Lost, NoNodes
<1>4. OneNodePerSession' /\ RepliesAgree'
  BY DEF DataInv, OneNodePerSession, RepliesAgree
<1> QED
  BY <1>1, <1>2, <1>3, <1>4 DEF DataInv

\* A step that touches no row, node or answer.
LEMMA Quiet ==
  ASSUME IInv, TypeInv', UNCHANGED <<status, opId, receipt, madeBy, replies>>,
         ObjectsKept, RequestsSettle, SweepsSettle
  PROVE  IInv'
<1>1. RowsSettle
  BY DEF RowsSettle, Lost, NoNodes, Reclaiming, ClaimedBy
<1>2. RowsUndecided
  BY DEF RowsUndecided
<1> QED
  BY <1>1, <1>2, Settle, DataFrame DEF IInv

-----------------------------------------------------------------------------
(* Moves of requests and sweeps. *)

LEMMA OneMoves ==
  ASSUME TypeInv, StepInv, NEW r \in Requests,
         \A q \in Requests \ {r} : UNCHANGED <<pc[q], target[q], op[q]>>,
         pc'[r] # "init.create",
         \/ target'[r] \in {target[r], NoSession}
         \/ \A p \in Requests \ {r} : pc[p] = "init.create" => target[p] # target'[r],
         InHand(r)' =>
           \/ InHand(r) /\ target'[r] = target[r]
           \/ /\ ~Over(target'[r]) /\ Reclaiming(target[r])'
              /\ \A p \in Requests \ {r} : InHand(p) => target[p] # target'[r],
         Removing(r)' => (Removing(r) /\ target'[r] = target[r]) \/ Lost(target[r])',
         pc'[r] = "commit" => target'[r] = target[r] /\ Backed(target[r])
  PROVE  RequestsSettle
<1>1. \A q \in Requests \ {r} : (InHand(q)' <=> InHand(q)) /\ (Removing(q)' <=> Removing(q))
  BY DEF InHand, At, Removing
<1>2. \A q \in Requests : pc[q] = "commit" => Backed(target[q])
  BY DEF StepInv, StatHolds, At
<1>3. \A p \in Requests \ {r} : pc'[p] = pc[p] /\ target'[p] = target[p]
  OBVIOUS
<1> SUFFICES ASSUME NEW q \in Requests
             PROVE  RequestsSettle!(q)
  BY DEF RequestsSettle
<1> QED
  BY <1>1, <1>2, <1>3

LEMMA Idle ==
  ASSUME StepInv, UNCHANGED <<pc, target, op>>
  PROVE  RequestsSettle
<1>1. \A q \in Requests : pc[q] = "commit" => Backed(target[q])
  BY DEF StepInv, StatHolds, At
<1>2. \A q \in Requests : (InHand(q)' <=> InHand(q)) /\ (Removing(q)' <=> Removing(q))
  BY DEF InHand, At, Removing
<1> QED
  BY <1>1, <1>2 DEF RequestsSettle

LEMMA DoneSettles ==
  ASSUME TypeInv, StepInv, NEW r \in Requests, Done(r)
  PROVE  RequestsSettle
<1>1. /\ \A q \in Requests \ {r} : UNCHANGED <<pc[q], target[q], op[q]>>
      /\ pc'[r] = "idle" /\ target'[r] = NoSession
  BY DEF Done, TypeInv, ReqInv, ReqType
<1>2. ~InHand(r)' /\ ~Removing(r)'
  BY <1>1 DEF InHand, At, Removing
<1> QED
  BY <1>1, <1>2, OneMoves

LEMMA GotoSettles ==
  ASSUME TypeInv, StepInv, NEW r \in Requests, NEW step \in Steps, Goto(r, step),
         step \notin {"init.create", "abort.check"},
         step = "release" /\ op[r] = AbortOp => InHand(r),
         step \in {"abort.multipart", "abort.delete", "abort.row"} =>
           Removing(r) \/ Lost(target[r])',
         step = "commit" => Backed(target[r])
  PROVE  RequestsSettle
<1>1. /\ \A q \in Requests \ {r} : UNCHANGED <<pc[q], target[q], op[q]>>
      /\ pc'[r] = step /\ target'[r] = target[r] /\ op'[r] = op[r]
  BY DEF Goto, TypeInv, ReqInv, ReqType
<1>2. InHand(r)' => InHand(r)
  BY <1>1 DEF InHand, At
<1>3. Removing(r)' => Removing(r) \/ Lost(target[r])'
  BY <1>1 DEF Removing
<1> QED
  BY <1>1, <1>2, <1>3, OneMoves

LEMMA StartSettles ==
  ASSUME TypeInv, StepInv, NEW r \in Requests, NEW s \in Sessions,
         NEW step \in {"sign", "renew", "claim"}, NEW o \in ClientOps \cup {NoOp},
         status[s] # "new", Start(r, step, s, o)
  PROVE  RequestsSettle
<1>1. /\ \A q \in Requests \ {r} : UNCHANGED <<pc[q], target[q], op[q]>>
      /\ pc'[r] = step /\ target'[r] = s /\ op'[r] = o
  BY DEF Start, TypeInv, ReqInv, ReqType
<1>2. ~InHand(r)' /\ ~Removing(r)'
  BY <1>1 DEF InHand, At, Removing
<1>3. \A p \in Requests \ {r} : pc[p] = "init.create" => target[p] # s
  BY DEF StepInv, InitAlone
<1> QED
  BY <1>1, <1>2, <1>3, OneMoves

LEMMA NoSweepMoves == UNCHANGED <<sweepPc, sweepCur>> => SweepsSettle
  BY DEF SweepsSettle, Sweeping

LEMMA ObjectStays ==
  \/ UNCHANGED object
  \/ \E s \in Sessions, size \in Sizes : object' = [object EXCEPT ![s] = size]
  => (TypeInv => ObjectsKept)
  BY DEF ObjectsKept, TypeInv, StoreType, Sizes

-----------------------------------------------------------------------------
(* Every action keeps IInv. *)

LEMMA InitStepSafe ==
  ASSUME IInv, TypeInv', NEW r \in Requests, InitStep(r)
  PROVE  IInv'
<1> TypeInv /\ StepInv /\ DataInv
  BY DEF IInv
<1>1. ASSUME NEW s \in Sessions, InitUpload(r, s) PROVE IInv'
  <2>1. UNCHANGED <<status, opId, receipt, madeBy, replies, object, sweepPc, sweepCur>>
    BY <1>1 DEF InitUpload, rowVars, sweepVars
  <2>2. RequestsSettle
    <3>1. CASE UNCHANGED <<pc, target, op>>
      BY <3>1, Idle
    <3>2. CASE Start(r, "init.create", s, NoOp)
      <4>1. /\ \A q \in Requests \ {r} : UNCHANGED <<pc[q], target[q], op[q]>>
            /\ pc'[r] = "init.create" /\ target'[r] = s
        BY <3>2 DEF Start, TypeInv, ReqInv, ReqType
      <4>2. status'[s] = "new" /\ \A q \in Requests : target[q] # s
        BY <1>1, <2>1 DEF InitUpload
      <4>3. ~InHand(r)' /\ ~Removing(r)'
        BY <4>1 DEF InHand, At, Removing
      <4>4. \A q \in Requests \ {r} :
              (InHand(q)' <=> InHand(q)) /\ (Removing(q)' <=> Removing(q))
        BY <4>1 DEF InHand, At, Removing
      <4>5. \A q \in Requests : pc[q] = "commit" => Backed(target[q])
        BY DEF StepInv, StatHolds, At
      <4> SUFFICES ASSUME NEW q \in Requests PROVE RequestsSettle!(q)
        BY DEF RequestsSettle
      <4>6. CASE q = r
        BY <4>1, <4>2, <4>3, <4>6
      <4>7. CASE q # r
        BY <4>1, <4>2, <4>4, <4>5, <4>7
      <4> QED
        BY <4>6, <4>7
    <3> QED
      BY <1>1, <3>1, <3>2 DEF InitUpload, reqVars
  <2> QED
    BY <2>1, <2>2, ObjectStays, NoSweepMoves, Quiet
<1>2. ASSUME CreateRow(r) PROVE IInv'
  <2>1. UNCHANGED <<opId, receipt, madeBy, replies, object, sweepPc, sweepCur>>
    BY <1>2 DEF CreateRow, rowVars, storeVars, sweepVars
  <2>2. pc[r] = "init.create" /\ target[r] \in Sessions /\ status[target[r]] = "new"
    BY <1>2 DEF CreateRow, At, StepInv, InitAlone, TypeInv, ReqInv, ReqType
  <2>3. Done(r) \/ Goto(r, "init.undo")
    BY <1>2 DEF CreateRow
  <2>4. UNCHANGED status \/ status' = [status EXCEPT ![target[r]] = "pending"]
    BY <1>2 DEF CreateRow, rowVars
  <2>5. RequestsSettle
    BY <2>3, DoneSettles, GotoSettles DEF Steps
  <2>6. pc'[r] # "init.create"
    BY <2>3 DEF Done, Goto, TypeInv, ReqInv, ReqType
  <2>7. \A q \in Requests \ {r} : target'[q] # target[r] /\ pc'[q] = pc[q]
    <3>1. \A q \in Requests \ {r} : target[q] # target[r]
      BY <2>2 DEF StepInv, InitAlone
    <3>2. \A q \in Requests \ {r} : target'[q] = target[q] /\ pc'[q] = pc[q]
      BY <2>3 DEF Done, Goto, TypeInv, ReqInv, ReqType
    <3> QED
      BY <3>1, <3>2
  <2>8. \A s \in Sessions : UNCHANGED status[s] \/ (s = target[r] /\ status'[s] = "pending")
    BY <2>2, <2>4 DEF TypeInv, RowInv, RowType
  <2>9. RowsUndecided
    BY <2>1, <2>2, <2>8 DEF RowsUndecided
  <2>10. ~Over(target[r]) /\ ~Reclaiming(target[r])
    BY <2>2 DEF Over, Doomed, Reclaiming, ClaimedBy
  <2>11. RowsSettle
    <3> SUFFICES ASSUME NEW s \in Sessions PROVE RowsSettle!(s)
      BY DEF RowsSettle
    <3>1. CASE s = target[r]
      BY <2>1, <2>6, <2>7, <2>10, <3>1 DEF Lost
    <3>2. CASE s # target[r]
      BY <2>1, <2>8, <3>2 DEF NoNodes, Reclaiming, ClaimedBy, Lost
    <3> QED
      BY <3>1, <3>2
  <2> QED
    BY <2>1, <2>5, <2>9, <2>11, ObjectStays, NoSweepMoves, Settle, DataFrame DEF IInv
<1>3. ASSUME UndoMultipart(r) PROVE IInv'
  <2>1. UNCHANGED <<status, opId, receipt, madeBy, replies, object, sweepPc, sweepCur>>
    BY <1>3 DEF UndoMultipart, rowVars, sweepVars
  <2>2. RequestsSettle
    BY <1>3, DoneSettles DEF UndoMultipart
  <2> QED
    BY <2>1, <2>2, ObjectStays, NoSweepMoves, Quiet
<1> QED
  BY <1>1, <1>2, <1>3 DEF InitStep

LEMMA LeaseStepSafe ==
  ASSUME IInv, TypeInv', NEW r \in Requests, LeaseStep(r)
  PROVE  IInv'
<1> TypeInv /\ StepInv
  BY DEF IInv
<1>1. UNCHANGED <<status, opId, receipt, madeBy, replies, object, sweepPc, sweepCur>>
  BY DEF LeaseStep, LoadSession, RenewLease, rowVars, storeVars, sweepVars
<1>2. RequestsSettle
  <2>1. ASSUME NEW s \in Sessions, NEW step \in {"sign", "renew"}, LoadSession(r, s, step)
        PROVE  RequestsSettle
    BY <2>1, StartSettles DEF LoadSession, Unclaimed
  <2>2. RenewLease(r) => RequestsSettle
    BY DoneSettles DEF RenewLease
  <2> QED
    BY <2>1, <2>2 DEF LeaseStep
<1> QED
  BY <1>1, <1>2, ObjectStays, NoSweepMoves, Quiet

\* An answer that names the receipt of a committed row.
LEMMA AnswerSafe ==
  ASSUME TypeInv, DataInv, NEW s \in Sessions,
         UNCHANGED <<status, opId, receipt, madeBy, object>>,
         \/ UNCHANGED replies
         \/ status[s] = "committed" /\ Answer(s, opId[s], receipt[s])
  PROVE  DataInv'
<1>1. RowNodes' /\ CommittedObjectPresent' /\ OneNodePerSession'
  BY DEF DataInv, RowNodes, CommittedObjectPresent, OneNodePerSession, NoNodes
<1>2. CASE UNCHANGED replies
  BY <1>1, <1>2 DEF DataInv, RepliesNameReceipt, RepliesAgree
<1>3. CASE status[s] = "committed" /\ Answer(s, opId[s], receipt[s])
  <2>1. DEFINE x0 == <<s, opId[s], receipt[s]>>
  <2>2. x0[1] = s /\ x0[2] = opId[s] /\ x0[3] = receipt[s]
    OBVIOUS
  <2>3. \A x \in replies' : x \in replies \/ x = x0
    BY <1>3 DEF Answer
  <2>4. madeBy[receipt[s]] = s
    BY <1>3 DEF TypeInv, RowInv, ReceiptComplete, DataInv, RowNodes
  <2>5. \A x \in replies : x[1] = s => x[2] = opId[s]
    BY <1>3 DEF DataInv, RepliesNameReceipt
  <2> HIDE DEF x0
  <2>6. RepliesNameReceipt'
    BY <1>3, <2>2, <2>3 DEF DataInv, RepliesNameReceipt
  <2>7. RepliesAgree'
    <3>1. \A x \in replies : madeBy[x[3]] = x[1]
      BY DEF DataInv, RepliesAgree
    <3>2. \A x, y \in replies : x[1] = y[1] => x[2] = y[2]
      BY DEF DataInv, RepliesAgree
    <3>3. \A x \in replies' : madeBy'[x[3]] = x[1]
      BY <2>2, <2>3, <2>4, <3>1
    <3>4. \A x, y \in replies' : x[1] = y[1] => x[2] = y[2]
      BY <2>2, <2>3, <2>5, <3>2
    <3> QED
      BY <3>3, <3>4 DEF RepliesAgree
  <2> QED
    BY <1>1, <2>6, <2>7 DEF DataInv
<1> QED
  BY <1>2, <1>3

\* A pending row that nobody cleans up is claimed, or released by its claimant.
LEMMA RowChangesHands ==
  ASSUME IInv, TypeInv', NEW s \in Sessions, status[s] = "pending",
         \A t \in Sessions \ {s} : UNCHANGED opId[t],
         UNCHANGED <<status, receipt, madeBy, replies, object>>,
         ~Over(s), Reclaiming(s) => \A q \in Requests : InHand(q)' => target'[q] # s,
         RequestsSettle, SweepsSettle
  PROVE  IInv'
<1>1. RowsUndecided
  BY DEF RowsUndecided
<1>2. RowsSettle
  <2> SUFFICES ASSUME NEW t \in Sessions PROVE RowsSettle!(t)
    BY DEF RowsSettle
  <2>1. CASE t = s
    BY <2>1 DEF Lost
  <2>2. CASE t # s
    BY <2>2 DEF NoNodes, Reclaiming, ClaimedBy, Lost
  <2> QED
    BY <2>1, <2>2
<1> QED
  BY <1>1, <1>2, ObjectStays, Settle, DataFrame DEF IInv

\* The commit transaction inserts the one node of a session whose object is there.
LEMMA PersistSafe ==
  ASSUME IInv, TypeInv', NEW r \in Requests, NEW s \in Sessions, NEW o \in ClientOps,
         NEW n \in NodeIds, madeBy[n] = NoSession, ClaimedBy(s, o), object[s] # "absent",
         madeBy' = [madeBy EXCEPT ![n] = s],
         status' = [status EXCEPT ![s] = "committed"],
         receipt' = [receipt EXCEPT ![s] = n],
         Answer(s, o, n) \/ UNCHANGED replies,
         UNCHANGED <<opId, object>>, RequestsSettle, SweepsSettle
  PROVE  IInv'
<1> TypeInv /\ StepInv /\ DataInv
  BY DEF IInv
<1>1. /\ \A t \in Sessions \ {s} : UNCHANGED <<status[t], receipt[t]>>
      /\ status'[s] = "committed" /\ receipt'[s] = n
      /\ \A m \in NodeIds \ {n} : UNCHANGED madeBy[m]
      /\ madeBy'[n] = s
  <2>1. /\ status \in [Sessions -> {"new", "pending", "committed", "gone"}]
        /\ receipt \in [Sessions -> NodeIds \cup {NoNode}]
        /\ madeBy \in [NodeIds -> Sessions \cup {NoSession}]
    BY DEF TypeInv, RowInv, RowType, NodeType
  <2>2. /\ \A t \in Sessions \ {s} : UNCHANGED <<status[t], receipt[t]>>
        /\ status'[s] = "committed" /\ receipt'[s] = n
    BY <2>1
  <2>3. (\A m \in NodeIds \ {n} : UNCHANGED madeBy[m]) /\ madeBy'[n] = s
    BY <2>1
  <2> QED
    BY <2>2, <2>3
<1>2. ~Over(s) /\ ~Reclaiming(s) /\ status[s] = "pending" /\ opId[s] = o
  BY OpsAssumption DEF Over, Doomed, Reclaiming, ClaimedBy
<1>3. NoNodes(s)
  BY <1>2 DEF DataInv, RowNodes
<1>4. s # NoSession /\ n # NoNode
  BY SessionsAssumption, NodeIdsAssumption
<1>5. ObjectsKept
  BY DEF ObjectsKept
<1>6. \A t \in Sessions \ {s} : NoNodes(t) => NoNodes(t)'
  BY <1>1 DEF NoNodes
<1>7. RowsSettle
  <2> SUFFICES ASSUME NEW t \in Sessions PROVE RowsSettle!(t)
    BY DEF RowsSettle
  <2>1. CASE t = s
    BY <1>2, <2>1 DEF Lost
  <2>2. CASE t # s
    BY <1>1, <1>6, <2>2 DEF Reclaiming, ClaimedBy, Lost
  <2> QED
    BY <2>1, <2>2
<1>8. RowNodes'
  <2>1. \A m \in NodeIds : madeBy'[m] = s <=> m = n
    BY <1>1, <1>3 DEF NoNodes
  <2>2. ASSUME NEW t \in Sessions \ {s}
        PROVE  /\ status'[t] \in {"new", "pending"} => NoNodes(t)'
               /\ status'[t] = "committed" =>
                    \A m \in NodeIds : madeBy'[m] = t <=> m = receipt'[t]
    <3>1. status'[t] = status[t] /\ receipt'[t] = receipt[t]
      BY <1>1
    <3>2. madeBy[n] # t /\ madeBy'[n] # t
      BY <1>1, SessionsAssumption
    <3>3. \A m \in NodeIds : madeBy'[m] = t <=> madeBy[m] = t
      BY <1>1, <3>2
    <3>4. status[t] \in {"new", "pending"} => NoNodes(t)
      BY DEF DataInv, RowNodes
    <3>5. status[t] = "committed" => \A m \in NodeIds : madeBy[m] = t <=> m = receipt[t]
      BY DEF DataInv, RowNodes
    <3> QED
      BY <3>1, <3>3, <3>4, <3>5 DEF NoNodes
  <2>3. status'[s] \notin {"new", "pending"} /\ \A m \in NodeIds : madeBy'[m] = s <=> m = receipt'[s]
    BY <1>1, <2>1
  <2> QED
    BY <2>1, <2>2, <2>3 DEF RowNodes
<1>9. CommittedObjectPresent'
  BY <1>1 DEF DataInv, CommittedObjectPresent
<1>10. OneNodePerSession'
  <2> SUFFICES ASSUME NEW k \in NodeIds, NEW m \in NodeIds,
                      madeBy'[k] = madeBy'[m], madeBy'[k] # NoSession
               PROVE  k = m
    BY DEF OneNodePerSession
  <2>1. CASE k = n \/ m = n
    BY <1>1, <1>3, <2>1 DEF NoNodes
  <2>2. CASE k # n /\ m # n
    <3>1. madeBy'[k] = madeBy[k] /\ madeBy'[m] = madeBy[m]
      BY <1>1, <2>2
    <3>2. madeBy[k] = madeBy[m] /\ madeBy[k] # NoSession
      BY <3>1
    <3> QED
      BY <3>2 DEF DataInv, OneNodePerSession
  <2> QED
    BY <2>1, <2>2
<1>11. \A x \in replies' : x \in replies \/ x = <<s, o, n>>
  BY DEF Answer
<1>12. \A x \in replies : x[1] \in Sessions /\ x[1] # s /\ x[3] \in NodeIds
  BY <1>2 DEF TypeInv, NodeType, DataInv, RepliesNameReceipt
<1>13. DEFINE x0 == <<s, o, n>>
<1>14. x0[1] = s /\ x0[2] = o /\ x0[3] = n
  OBVIOUS
<1>15. \A x \in replies' : x \in replies \/ x = x0
  BY <1>11
<1> HIDE DEF x0
<1>16. RepliesNameReceipt'
  BY <1>1, <1>2, <1>12, <1>14, <1>15 DEF DataInv, RepliesNameReceipt
<1>17. RepliesAgree'
  <2>1. \A x \in replies : madeBy[x[3]] = x[1] /\ x[3] # n
    BY <1>12, SessionsAssumption DEF DataInv, RepliesAgree
  <2>2. \A x \in replies' : madeBy'[x[3]] = x[1]
    BY <1>1, <1>12, <1>14, <1>15, <2>1
  <2>3. \A x, y \in replies : x[1] = y[1] => x[2] = y[2]
    BY DEF DataInv, RepliesAgree
  <2>4. \A x, y \in replies' : x[1] = y[1] => x[2] = y[2]
    BY <1>12, <1>14, <1>15, <2>3
  <2> QED
    BY <2>2, <2>4 DEF RepliesAgree
<1>18. DataInv'
  BY <1>8, <1>9, <1>10, <1>16, <1>17 DEF DataInv
<1>19. StepInv'
  BY <1>5, <1>7, Settle
<1> QED
  BY <1>18, <1>19 DEF IInv

LEMMA CompleteStepSafe ==
  ASSUME IInv, TypeInv', NEW r \in Requests, CompleteStep(r)
  PROVE  IInv'
<1> TypeInv /\ StepInv /\ DataInv
  BY DEF IInv
<1>0. /\ pc[r] # "idle" => target[r] \in Sessions
      /\ pc[r] \in CompletionSteps => op[r] \in ClientOps
      /\ pc[r] = "release" => op[r] \in ClientOps \cup {AbortOp}
  BY DEF TypeInv, ReqInv, ReqType, RequestOps, Carries
<1>1. ASSUME NEW s \in Sessions, NEW o \in ClientOps, StartComplete(r, s, o) PROVE IInv'
  <2>1. UNCHANGED <<status, opId, receipt, madeBy, replies, object, sweepPc, sweepCur>>
    BY <1>1 DEF StartComplete, rowVars, storeVars, sweepVars
  <2>2. RequestsSettle
    BY <1>1, StartSettles DEF StartComplete
  <2> QED
    BY <2>1, <2>2, ObjectStays, NoSweepMoves, Quiet
<1>2. ASSUME ClaimCompletion(r) PROVE IInv'
  <2>1. pc[r] = "claim" /\ target[r] \in Sessions /\ op[r] \in ClientOps
    BY <1>2, <1>0 DEF ClaimCompletion, At, CompletionSteps
  <2>2. UNCHANGED <<madeBy, object, sweepPc, sweepCur>>
    BY <1>2 DEF ClaimCompletion, storeVars, sweepVars
  <2>3. RequestsSettle
    <3>1. Done(r) \/ Goto(r, "check")
      BY <1>2 DEF ClaimCompletion
    <3> QED
      BY <3>1, DoneSettles, GotoSettles DEF Steps
  <2>4. CASE UNCHANGED rowVars
    <3>1. \/ UNCHANGED replies
          \/ /\ status[target[r]] = "committed" /\ opId[target[r]] \in {NoOp, op[r]}
             /\ Answer(target[r], op[r], receipt[target[r]])
      BY <1>2 DEF ClaimCompletion
    <3>2. status[target[r]] = "committed" => opId[target[r]] # NoOp
      BY <2>1, OpsAssumption DEF TypeInv, RowInv, ReceiptComplete
    <3>3. DataInv'
      BY <2>1, <2>2, <2>4, <3>1, <3>2, AnswerSafe DEF rowVars
    <3>4. StepInv'
      <4>1. RowsSettle
        BY <2>2, <2>4 DEF RowsSettle, Lost, NoNodes, Reclaiming, ClaimedBy, rowVars
      <4> QED
        BY <2>2, <2>3, <4>1, ObjectStays, NoSweepMoves, Settle
    <3> QED
      BY <3>3, <3>4 DEF IInv
  <2>5. CASE ~UNCHANGED rowVars
    <3>1. /\ Unclaimed(target[r])
          /\ ClaimRow(target[r], op[r], AtLeast(lease[target[r]], CompletionClaimMinTTL))
          /\ UNCHANGED replies
      BY <1>2, <2>5 DEF ClaimCompletion
    <3>2. /\ status[target[r]] = "pending" /\ UNCHANGED <<status, receipt>>
          /\ \A t \in Sessions \ {target[r]} : UNCHANGED opId[t]
      BY <3>1 DEF Unclaimed, ClaimRow, TypeInv, RowInv, RowType
    <3>3. ~Over(target[r]) /\ ~Reclaiming(target[r])
      BY <3>1 DEF Unclaimed, Over, Doomed, Reclaiming, ClaimedBy
    <3> QED
      BY <2>1, <2>2, <2>3, <3>1, <3>2, <3>3, NoSweepMoves, RowChangesHands
  <2> QED
    BY <2>4, <2>5
<1>3. ASSUME CheckTarget(r) \/ StatObject(r) PROVE IInv'
  <2>1. UNCHANGED <<status, opId, receipt, madeBy, replies, object, sweepPc, sweepCur>>
    BY <1>3 DEF CheckTarget, StatObject, rowVars, storeVars, sweepVars
  <2>2. op[r] # AbortOp
    BY <1>0, <1>3, OpsAssumption DEF CheckTarget, StatObject, At, CompletionSteps
  <2>3. \/ Done(r)
        \/ \E step \in {"release", "object", "stat"} : Goto(r, step)
        \/ object[target[r]] = "declared" /\ Goto(r, "commit")
    BY <1>3 DEF CheckTarget, StatObject
  <2>4. RequestsSettle
    BY <2>2, <2>3, DoneSettles, GotoSettles DEF Steps, Backed
  <2> QED
    BY <2>1, <2>4, ObjectStays, NoSweepMoves, Quiet
<1>4. ASSUME CompleteMultipartUpload(r) PROVE IInv'
  <2>1. UNCHANGED <<status, opId, receipt, madeBy, replies, sweepPc, sweepCur>>
    BY <1>4 DEF CompleteMultipartUpload, rowVars, sweepVars
  <2>2. \/ UNCHANGED object
        \/ \E size \in Sizes : object' = [object EXCEPT ![target[r]] = size]
    BY <1>4 DEF CompleteMultipartUpload
  <2>3. target[r] \in Sessions
    BY <1>0, <1>4 DEF CompleteMultipartUpload, At
  <2>4. RequestsSettle
    <3>1. Goto(r, "stat") \/ Goto(r, "stat.failed")
      BY <1>4 DEF CompleteMultipartUpload
    <3> QED
      BY <3>1, GotoSettles DEF Steps
  <2> QED
    BY <2>1, <2>2, <2>3, <2>4, ObjectStays, NoSweepMoves, Quiet
<1>5. ASSUME CommitNode(r) PROVE IInv'
  <2>1. pc[r] = "commit" /\ target[r] \in Sessions /\ op[r] \in ClientOps
    BY <1>5, <1>0 DEF CommitNode, At, CompletionSteps
  <2>2. UNCHANGED <<object, sweepPc, sweepCur>>
    BY <1>5 DEF CommitNode, storeVars, sweepVars
  <2>3. RequestsSettle
    <3>1. Done(r) \/ Goto(r, "release")
      BY <1>5 DEF CommitNode
    <3>2. op[r] # AbortOp
      BY <2>1, OpsAssumption
    <3> QED
      BY <3>1, <3>2, DoneSettles, GotoSettles DEF Steps
  <2>4. \/ /\ UNCHANGED rowVars /\ UNCHANGED madeBy
           /\ \/ UNCHANGED replies
              \/ /\ status[target[r]] = "committed" /\ opId[target[r]] = op[r]
                 /\ Answer(target[r], op[r], receipt[target[r]])
        \/ \E n \in NodeIds :
             /\ madeBy[n] = NoSession /\ ClaimedBy(target[r], op[r])
             /\ madeBy' = [madeBy EXCEPT ![n] = target[r]]
             /\ status' = [status EXCEPT ![target[r]] = "committed"]
             /\ receipt' = [receipt EXCEPT ![target[r]] = n]
             /\ UNCHANGED opId
             /\ Answer(target[r], op[r], n) \/ UNCHANGED replies
    BY <1>5 DEF CommitNode, MayCommit
  <2>5. CASE UNCHANGED rowVars /\ UNCHANGED madeBy
    <3>1. \/ UNCHANGED replies
          \/ /\ status[target[r]] = "committed" /\ opId[target[r]] = op[r]
             /\ Answer(target[r], op[r], receipt[target[r]])
          \/ \E n \in NodeIds : madeBy[n] = NoSession /\ madeBy' = [madeBy EXCEPT ![n] = target[r]]
      BY <2>4
    <3>2. ~\E n \in NodeIds : madeBy[n] = NoSession /\ madeBy' = [madeBy EXCEPT ![n] = target[r]]
      BY <2>1, <2>5, SessionsAssumption DEF TypeInv, NodeType
    <3>3. DataInv'
      BY <2>1, <2>2, <2>5, <3>1, <3>2, AnswerSafe DEF rowVars
    <3>4. RowsSettle
      BY <2>2, <2>5 DEF RowsSettle, Lost, NoNodes, Reclaiming, ClaimedBy, rowVars
    <3>5. StepInv'
      BY <2>2, <2>3, <3>4, ObjectStays, NoSweepMoves, Settle
    <3> QED
      BY <3>3, <3>5 DEF IInv
  <2>6. CASE ~(UNCHANGED rowVars /\ UNCHANGED madeBy)
    <3>1. object[target[r]] # "absent" \/ Over(target[r])
      BY <2>1 DEF StepInv, StatHolds, At, Backed
    <3>2. ClaimedBy(target[r], op[r]) => ~Over(target[r])
      BY <2>1, OverExcludesClients
    <3> QED
      BY <2>1, <2>2, <2>3, <2>4, <2>6, <3>1, <3>2, NoSweepMoves, PersistSafe
  <2> QED
    BY <2>5, <2>6
<1>6. ASSUME ReleaseClaim(r) PROVE IInv'
  <2>1. /\ pc[r] = "release" /\ target[r] \in Sessions
        /\ op[r] \in ClientOps \cup {AbortOp}
    BY <1>6, <1>0 DEF ReleaseClaim, At
  <2>2. UNCHANGED <<status, receipt, madeBy, replies, object, sweepPc, sweepCur>>
    BY <1>6 DEF ReleaseClaim, storeVars, sweepVars
  <2>3. RequestsSettle
    BY <1>6, DoneSettles DEF ReleaseClaim
  <2>4. CASE UNCHANGED opId
    BY <2>2, <2>3, <2>4, ObjectStays, NoSweepMoves, Quiet
  <2>5. CASE /\ ClaimedBy(target[r], op[r])
             /\ opId' = [opId EXCEPT ![target[r]] = NoOp]
    <3>1. /\ status[target[r]] = "pending"
          /\ \A t \in Sessions \ {target[r]} : UNCHANGED opId[t]
      BY <2>5 DEF ClaimedBy, TypeInv, RowInv, RowType
    <3>2. ~Over(target[r])
      <4>1. CASE op[r] \in ClientOps
        BY <2>5, <4>1, OverExcludesClients
      <4>2. CASE op[r] = AbortOp
        BY <2>1, <2>5, <4>2 DEF Over, Doomed, ClaimedBy, InHand, At
      <4> QED
        BY <2>1, <4>1, <4>2
    <3>3. \A q \in Requests : InHand(q)' => q # r /\ InHand(q) /\ target'[q] = target[q]
      BY <1>6 DEF ReleaseClaim, Done, InHand, At, TypeInv, ReqInv, ReqType
    <3>4. Reclaiming(target[r]) => \A q \in Requests : InHand(q)' => target'[q] # target[r]
      <4> SUFFICES ASSUME Reclaiming(target[r]), NEW q \in Requests, InHand(q)'
                   PROVE  target'[q] # target[r]
        OBVIOUS
      <4>1. op[r] = AbortOp
        BY <2>5, <2>1, OpsAssumption DEF Reclaiming, ClaimedBy
      <4>2. InHand(r)
        BY <2>1, <4>1 DEF InHand, At
      <4> QED
        BY <3>3, <4>2 DEF StepInv, AbortInHand
    <3> QED
      BY <2>1, <2>2, <2>3, <3>1, <3>2, <3>4, NoSweepMoves, RowChangesHands
  <2> QED
    BY <1>6, <2>4, <2>5 DEF ReleaseClaim
<1> QED
  BY <1>1, <1>2, <1>3, <1>4, <1>5, <1>6 DEF CompleteStep

LEMMA RowDies ==
  ASSUME IInv, TypeInv', NEW s \in Sessions, status[s] # "new", DeleteRow(s),
         UNCHANGED <<madeBy, replies, object>>, RequestsSettle, SweepsSettle
  PROVE  IInv'
<1>1. /\ status'[s] = "gone"
      /\ \A t \in Sessions \ {s} : UNCHANGED <<status[t], opId[t], receipt[t]>>
  <2>1. /\ status \in [Sessions -> {"new", "pending", "committed", "gone"}]
        /\ opId \in [Sessions -> ClientOps \cup CleanupOps \cup {NoOp}]
        /\ receipt \in [Sessions -> NodeIds \cup {NoNode}]
    BY DEF IInv, TypeInv, RowInv, RowType
  <2>2. /\ status' = [status EXCEPT ![s] = "gone"]
        /\ opId' = [opId EXCEPT ![s] = NoOp]
        /\ receipt' = [receipt EXCEPT ![s] = NoNode]
    BY DEF DeleteRow
  <2> QED
    BY <2>1, <2>2
<1>2. RowsUndecided
  BY <1>1 DEF RowsUndecided
<1>3. RowsSettle
  <2> SUFFICES ASSUME NEW t \in Sessions PROVE RowsSettle!(t)
    BY DEF RowsSettle
  <2>1. NoNodes(t) => NoNodes(t)'
    BY DEF NoNodes
  <2>2. CASE t = s
    BY <1>1, <2>1, <2>2 DEF Lost, Taken, Reclaiming
  <2>3. CASE t # s
    BY <1>1, <2>1, <2>3 DEF Reclaiming, ClaimedBy, Lost
  <2> QED
    BY <2>2, <2>3
<1> QED
  BY <1>2, <1>3, ObjectStays, Settle, DataFrame DEF IInv

LEMMA AbortStepSafe ==
  ASSUME IInv, TypeInv', NEW r \in Requests, AbortStep(r)
  PROVE  IInv'
<1> TypeInv /\ StepInv /\ DataInv
  BY DEF IInv
<1>0. /\ pc[r] # "idle" => target[r] \in Sessions
      /\ pc[r] \in AbortSteps => op[r] = AbortOp
  BY DEF TypeInv, ReqInv, ReqType, RequestOps, Carries
<1>1. ASSUME NEW s \in Sessions, ClaimAbort(r, s) PROVE IInv'
  <2>1. UNCHANGED <<status, receipt, madeBy, replies, object, sweepPc, sweepCur>>
    BY <1>1 DEF ClaimAbort, ClaimRow, storeVars, sweepVars
  <2>2. status[s] = "pending" /\ opId[s] = NoOp /\ opId' = [opId EXCEPT ![s] = AbortOp]
    BY <1>1 DEF ClaimAbort, Unclaimed, ClaimRow
  <2>3. opId'[s] = AbortOp /\ \A t \in Sessions \ {s} : UNCHANGED opId[t]
    BY <2>2 DEF TypeInv, RowInv, RowType
  <2>4. ~Over(s) /\ ~Reclaiming(s)
    BY <2>2 DEF Over, Doomed, Reclaiming, ClaimedBy
  <2>5. Reclaiming(s)'
    <3>1. NoNodes(s)
      BY <2>2 DEF DataInv, RowNodes
    <3>2. ClaimedBy(s, AbortOp)'
      BY <2>1, <2>2, <2>3 DEF ClaimedBy
    <3> QED
      BY <2>1, <3>1, <3>2 DEF Reclaiming, NoNodes
  <2>6. RequestsSettle
    <3>1. CASE UNCHANGED <<pc, target, op>>
      BY <3>1, Idle
    <3>2. CASE Start(r, "abort.check", s, AbortOp)
      <4>1. /\ \A q \in Requests \ {r} : UNCHANGED <<pc[q], target[q], op[q]>>
            /\ pc'[r] = "abort.check" /\ target'[r] = s
        BY <3>2 DEF Start, TypeInv, ReqInv, ReqType
      <4>2. ~Removing(r)'
        BY <4>1 DEF Removing
      <4>3. \A p \in Requests \ {r} : pc[p] = "init.create" => target[p] # s
        BY <2>2 DEF StepInv, InitAlone
      <4>4. \A p \in Requests \ {r} : InHand(p) => target[p] # s
        BY <2>4 DEF StepInv, AbortInHand
      <4> QED
        BY <2>4, <2>5, <4>1, <4>2, <4>3, <4>4, OneMoves
    <3> QED
      BY <1>1, <3>1, <3>2 DEF ClaimAbort, reqVars
  <2> QED
    BY <2>1, <2>2, <2>3, <2>4, <2>6, NoSweepMoves, RowChangesHands
<1>2. ASSUME CheckAbortProvider(r) PROVE IInv'
  <2>1. UNCHANGED <<status, opId, receipt, madeBy, replies, object, sweepPc, sweepCur>>
    BY <1>2 DEF CheckAbortProvider, rowVars, storeVars, sweepVars
  <2>2. InHand(r)
    BY <1>2 DEF CheckAbortProvider, InHand
  <2>3. CASE Goto(r, "release")
    BY <2>1, <2>2, <2>3, GotoSettles, ObjectStays, NoSweepMoves, Quiet DEF Steps
  <2>4. ASSUME NEW step \in {"abort.multipart", "abort.delete"}, Goto(r, step) PROVE IInv'
    <3>1. /\ \A q \in Requests \ {r} : UNCHANGED <<pc[q], target[q], op[q]>>
          /\ pc'[r] = step /\ target'[r] = target[r]
      BY <2>4 DEF Goto, TypeInv, ReqInv, ReqType
    <3>2. \A q \in Requests : InHand(q)' => q # r /\ InHand(q) /\ target'[q] = target[q]
      BY <3>1 DEF InHand, At
    <3>3. Reclaiming(target[r]) /\ \A q \in Requests : InHand(q)' => target'[q] # target'[r]
      BY <2>2, <3>1, <3>2 DEF StepInv, AbortInHand
    <3>4. Lost(target[r])'
      <4>1. NoNodes(target[r])'
        BY <2>1, <3>1, <3>3 DEF Reclaiming, NoNodes
      <4>2. Over(target[r])'
        BY <2>1, <3>1, <3>3 DEF Reclaiming, ClaimedBy, Over, Doomed
      <4> QED
        BY <4>1, <4>2 DEF Lost
    <3>5. RequestsSettle
      BY <2>4, <3>4, GotoSettles DEF Steps
    <3> QED
      BY <2>1, <3>5, ObjectStays, NoSweepMoves, Quiet
  <2> QED
    BY <1>2, <2>3, <2>4 DEF CheckAbortProvider
<1>3. ASSUME AbortMultipart(r) PROVE IInv'
  <2>1. UNCHANGED <<status, opId, receipt, madeBy, replies, object, sweepPc, sweepCur>>
    BY <1>3 DEF AbortMultipart, rowVars, sweepVars
  <2>2. Removing(r)
    BY <1>3 DEF AbortMultipart, At, Removing
  <2>3. Goto(r, "abort.row") \/ Goto(r, "abort.delete")
    BY <1>3 DEF AbortMultipart
  <2>4. RequestsSettle
    BY <2>2, <2>3, GotoSettles DEF Steps
  <2> QED
    BY <2>1, <2>4, ObjectStays, NoSweepMoves, Quiet
<1>4. ASSUME AbortDeleteObject(r) PROVE IInv'
  <2>1. UNCHANGED <<status, opId, receipt, madeBy, replies, sweepPc, sweepCur>>
    BY <1>4 DEF AbortDeleteObject, rowVars, sweepVars
  <2>2. Removing(r) /\ target[r] \in Sessions
    BY <1>0, <1>4 DEF AbortDeleteObject, At, Removing
  <2>3. Goto(r, "abort.row") \/ Done(r)
    BY <1>4 DEF AbortDeleteObject
  <2>4. RequestsSettle
    BY <2>2, <2>3, GotoSettles, DoneSettles DEF Steps
  <2>5. UNCHANGED object \/ object' = [object EXCEPT ![target[r]] = "absent"]
    BY <1>4 DEF AbortDeleteObject
  <2>6. Lost(target[r])
    BY <2>2 DEF StepInv, AbortPastReturn
  <2>7. ObjectsKept
    BY <2>5, <2>6 DEF ObjectsKept, TypeInv, StoreType
  <2> QED
    BY <2>1, <2>4, <2>7, NoSweepMoves, Quiet
<1>5. ASSUME AbortDeleteRow(r) PROVE IInv'
  <2>1. UNCHANGED <<madeBy, replies, object, sweepPc, sweepCur>>
    BY <1>5 DEF AbortDeleteRow, storeVars, sweepVars
  <2>2. RequestsSettle
    BY <1>5, DoneSettles DEF AbortDeleteRow
  <2>3. target[r] \in Sessions
    BY <1>0, <1>5 DEF AbortDeleteRow, At
  <2>4. CASE ClaimedBy(target[r], AbortOp) /\ DeleteRow(target[r])
    <3>1. status[target[r]] # "new"
      BY <2>4 DEF ClaimedBy
    <3> QED
      BY <2>1, <2>2, <2>3, <2>4, <3>1, NoSweepMoves, RowDies
  <2>5. CASE UNCHANGED rowVars
    <3>1. UNCHANGED <<status, opId, receipt>>
      BY <2>5 DEF rowVars
    <3> QED
      BY <2>1, <2>2, <3>1, ObjectStays, NoSweepMoves, Quiet
  <2> QED
    BY <1>5, <2>4, <2>5 DEF AbortDeleteRow
<1> QED
  BY <1>1, <1>2, <1>3, <1>4, <1>5 DEF AbortStep

LEMMA JanitorStepSafe ==
  ASSUME IInv, TypeInv', NEW j \in Janitors, JanitorStep(j)
  PROVE  IInv'
<1> TypeInv /\ StepInv /\ DataInv
  BY DEF IInv
<1>0. UNCHANGED <<pc, target, op, madeBy, replies>>
  BY DEF JanitorStep, SweepStart, SweepAbort, SweepDelete, SweepDeleteRow, SweepEnd,
         SweepReceipt, SweepClaim, reqVars
<1>1. RequestsSettle
  BY <1>0, Idle
<1>2. ASSUME SweepStart(j) \/ SweepAbort(j) \/ SweepEnd(j) PROVE IInv'
  <2>1. UNCHANGED <<status, opId, receipt, object>>
    BY <1>2 DEF SweepStart, SweepAbort, SweepEnd, rowVars, storeVars
  <2>2. SweepsSettle
    BY <1>2 DEF SweepStart, SweepAbort, SweepEnd, SweepsSettle, Sweeping, TypeInv, SweepType
  <2> QED
    BY <1>0, <1>1, <2>1, <2>2, ObjectStays, Quiet
<1>3. ASSUME SweepDelete(j) PROVE IInv'
  <2>1. UNCHANGED <<status, opId, receipt>>
    BY <1>3 DEF SweepDelete, rowVars
  <2>2. SweepsSettle
    BY <1>3 DEF SweepDelete, NextRow, SweepsSettle, Sweeping, TypeInv, SweepType
  <2>3. Sweeping(j) /\ sweepCur[j] \in Sessions
    BY <1>3 DEF SweepDelete, Sweeping, TypeInv, SweepType
  <2>4. Lost(sweepCur[j])
    BY <2>3 DEF StepInv, SweepPastReturn, Lost, Over, Taken, Doomed
  <2>5. UNCHANGED object \/ object' = [object EXCEPT ![sweepCur[j]] = "absent"]
    BY <1>3 DEF SweepDelete
  <2>6. ObjectsKept
    BY <2>3, <2>4, <2>5 DEF ObjectsKept, TypeInv, StoreType
  <2> QED
    BY <1>0, <1>1, <2>1, <2>2, <2>6, Quiet
<1>4. ASSUME SweepDeleteRow(j) PROVE IInv'
  <2>1. UNCHANGED object
    BY <1>4 DEF SweepDeleteRow, storeVars
  <2>2. SweepsSettle
    BY <1>4 DEF SweepDeleteRow, NextRow, SweepsSettle, Sweeping, TypeInv, SweepType
  <2>3. sweepCur[j] \in Sessions
    BY <1>4 DEF SweepDeleteRow, TypeInv, SweepType
  <2>4. CASE ClaimedBy(sweepCur[j], JanitorOp) /\ DeleteRow(sweepCur[j])
    <3>1. status[sweepCur[j]] # "new"
      BY <2>4 DEF ClaimedBy
    <3> QED
      BY <1>0, <1>1, <2>1, <2>2, <2>3, <2>4, <3>1, RowDies
  <2>5. CASE UNCHANGED rowVars
    <3>1. UNCHANGED <<status, opId, receipt>>
      BY <2>5 DEF rowVars
    <3> QED
      BY <1>0, <1>1, <2>1, <2>2, <3>1, ObjectStays, Quiet
  <2> QED
    BY <1>4, <2>4, <2>5 DEF SweepDeleteRow
<1>5. ASSUME NEW s \in Sessions, SweepReceipt(j, s) PROVE IInv'
  <2>1. UNCHANGED <<object, sweepPc, sweepCur>>
    BY <1>5 DEF SweepReceipt, storeVars
  <2>2. CASE status[s] = "committed" /\ DeleteRow(s)
    <3>1. status[s] # "new"
      BY <2>2
    <3> QED
      BY <1>0, <1>1, <2>1, <2>2, <3>1, NoSweepMoves, RowDies
  <2>3. CASE UNCHANGED rowVars
    <3>1. UNCHANGED <<status, opId, receipt>>
      BY <2>3 DEF rowVars
    <3> QED
      BY <1>0, <1>1, <2>1, <3>1, ObjectStays, NoSweepMoves, Quiet
  <2> QED
    BY <1>5, <2>2, <2>3 DEF SweepReceipt
<1>6. ASSUME NEW s \in Sessions, SweepClaim(j, s) PROVE IInv'
  <2>1. UNCHANGED object /\ sweepPc[j] = "scan"
    BY <1>6 DEF SweepClaim, storeVars
  <2>2. CASE UNCHANGED <<sweepPc, sweepCur>> /\ UNCHANGED rowVars
    <3>1. UNCHANGED <<status, opId, receipt>>
      BY <2>2 DEF rowVars
    <3> QED
      BY <1>0, <1>1, <2>1, <2>2, <3>1, ObjectStays, NoSweepMoves, Quiet
  <2>3. CASE status[s] = "pending" /\ ClaimRow(s, JanitorOp, CleanupClaimTTL)
    <3>1. UNCHANGED <<status, receipt>> /\ opId' = [opId EXCEPT ![s] = JanitorOp]
      BY <2>3 DEF ClaimRow
    <3>2. opId'[s] = JanitorOp /\ \A t \in Sessions \ {s} : UNCHANGED opId[t]
      BY <3>1 DEF TypeInv, RowInv, RowType
    <3>3. Taken(s)'
      BY <2>3, <3>1, <3>2 DEF Taken, ClaimedBy
    <3>4. \A t \in Sessions : NoNodes(t) => NoNodes(t)'
      BY <1>0 DEF NoNodes
    <3>5. NoNodes(s)'
      BY <2>3, <3>4 DEF DataInv, RowNodes
    <3>6. Reclaiming(s)'
      BY <3>3, <3>5 DEF Reclaiming, Taken
    <3>7. RowsUndecided
      BY <2>3, <3>1, <3>2 DEF RowsUndecided
    <3>8. RowsSettle
      <4> SUFFICES ASSUME NEW t \in Sessions PROVE RowsSettle!(t)
        BY DEF RowsSettle
      <4>1. CASE t = s
        BY <3>1, <3>3, <3>5, <3>6, <4>1
      <4>2. CASE t # s
        BY <3>1, <3>2, <3>4, <4>2 DEF Reclaiming, ClaimedBy, Lost
      <4> QED
        BY <4>1, <4>2
    <3>9. SweepsSettle
      <4>1. \/ UNCHANGED <<sweepPc, sweepCur>>
            \/ /\ sweepCur' = [sweepCur EXCEPT ![j] = s]
               /\ \A k \in Janitors \ {j} : UNCHANGED sweepPc[k]
        BY <1>6 DEF SweepClaim, TypeInv, SweepType
      <4>2. CASE UNCHANGED <<sweepPc, sweepCur>>
        BY <4>2, NoSweepMoves
      <4>3. CASE /\ sweepCur' = [sweepCur EXCEPT ![j] = s]
                 /\ \A k \in Janitors \ {j} : UNCHANGED sweepPc[k]
        <5>1. sweepCur'[j] = s /\ \A k \in Janitors \ {j} : UNCHANGED sweepCur[k]
          BY <4>3 DEF TypeInv, SweepType
        <5>2. NoNodes(sweepCur[j])' /\ Taken(sweepCur[j])'
          BY <3>3, <3>5, <5>1
        <5> QED
          BY <4>3, <5>1, <5>2 DEF SweepsSettle, Sweeping
      <4> QED
        BY <4>1, <4>2, <4>3
    <3> QED
      BY <1>0, <1>1, <2>1, <3>7, <3>8, <3>9, ObjectStays, Settle, DataFrame DEF IInv
  <2> QED
    BY <1>6, <2>2, <2>3 DEF SweepClaim, Reclaimable
<1> QED
  BY <1>2, <1>3, <1>4, <1>5, <1>6 DEF JanitorStep

LEMMA InitSafe == Init => IInv
<1> SUFFICES ASSUME Init PROVE IInv
  OBVIOUS
<1>1. TypeInv
  BY InitTypes
<1>2. DataInv
  BY SessionsAssumption
  DEF Init, DataInv, RowNodes, NoNodes, RepliesNameReceipt, CommittedObjectPresent,
      OneNodePerSession, RepliesAgree
<1>3. StepInv
  BY DEF Init, StepInv, InitAlone, AbortInHand, AbortPastReturn, SweepPastReturn, StatHolds,
         InHand, At, Removing, Sweeping
<1> QED
  BY <1>1, <1>2, <1>3 DEF IInv

LEMMA NextSafe == IInv /\ [Next]_vars => IInv'
<1> SUFFICES ASSUME IInv, [Next]_vars PROVE IInv'
  OBVIOUS
<1> TypeInv /\ StepInv /\ DataInv
  BY DEF IInv
<1>1. TypeInv'
  BY NextTypes
<1>2. ASSUME NEW r \in Requests, Die(r) PROVE IInv'
  <2>1. UNCHANGED <<status, opId, receipt, madeBy, replies, object, sweepPc, sweepCur>>
    BY <1>2 DEF Die, rowVars, storeVars, sweepVars
  <2>2. RequestsSettle
    BY <1>2, DoneSettles DEF Die
  <2> QED
    BY <1>1, <2>1, <2>2, ObjectStays, NoSweepMoves, Quiet
<1>3. ASSUME NEW s \in Sessions, Put(s) PROVE IInv'
  <2>1. UNCHANGED <<status, opId, receipt, madeBy, replies, pc, target, op, sweepPc, sweepCur>>
    BY <1>3 DEF Put, rowVars, reqVars, sweepVars
  <2>2. UNCHANGED object \/ \E size \in Sizes : object' = [object EXCEPT ![s] = size]
    BY <1>3 DEF Put
  <2> QED
    BY <1>1, <2>1, <2>2, Idle, ObjectStays, NoSweepMoves, Quiet
<1>4. ASSUME NEW s \in Sessions, NEW o \in ClientOps, ReplayReceipt(s, o) PROVE IInv'
  <2>1. UNCHANGED <<status, opId, receipt, madeBy, object, pc, target, op, sweepPc, sweepCur>>
    BY <1>4 DEF ReplayReceipt, rowVars, storeVars, reqVars, sweepVars
  <2>2. status[s] = "committed" /\ Answer(s, opId[s], receipt[s])
    BY <1>4 DEF ReplayReceipt
  <2>3. DataInv'
    BY <2>1, <2>2, AnswerSafe
  <2>4. RowsSettle
    BY <2>1 DEF RowsSettle, Lost, NoNodes, Reclaiming, ClaimedBy
  <2>5. StepInv'
    BY <1>1, <2>1, <2>4, Idle, ObjectStays, NoSweepMoves, Settle
  <2> QED
    BY <1>1, <2>3, <2>5 DEF IInv
<1>5. ASSUME Tick \/ UNCHANGED vars PROVE IInv'
  <2>1. UNCHANGED <<status, opId, receipt, madeBy, replies, object, pc, target, op, sweepPc, sweepCur>>
    BY <1>5 DEF Tick, vars, reqVars
  <2> QED
    BY <1>1, <2>1, Idle, ObjectStays, NoSweepMoves, Quiet
<1> QED
  BY <1>1, <1>2, <1>3, <1>4, <1>5, InitStepSafe, LeaseStepSafe, CompleteStepSafe,
     AbortStepSafe, JanitorStepSafe DEF Next

\* The inductive invariant of the upload protocol.
THEOREM Inductive == Spec => []IInv
<1> QED
  BY InitSafe, NextSafe, PTL DEF Spec

\* Whatever is retried, aborted, swept or cut short, no node made by an upload
\* points at an object that is gone.
THEOREM CommittedObjectAlwaysPresent == Spec => []CommittedObjectPresent
<1>1. IInv => CommittedObjectPresent
  BY DEF IInv, DataInv
<1> QED
  BY <1>1, Inductive, PTL

\* A session makes at most one node, however many completions race on it.
THEOREM AtMostOneNode == Spec => []OneNodePerSession
<1>1. IInv => OneNodePerSession
  BY DEF IInv, DataInv
<1> QED
  BY <1>1, Inductive, PTL

\* All successful answers of a session name its node and one operation.
THEOREM AnswersAgree == Spec => []RepliesAgree
<1>1. IInv => RepliesAgree
  BY DEF IInv, DataInv
<1> QED
  BY <1>1, Inductive, PTL

\* Who removes objects never works on a session that a completion may commit.
THEOREM CleanupIsAlone == Spec => []CleanupExcludesCompletion
<1>1. IInv => CleanupExcludesCompletion
  BY DEF IInv, StepInv, AbortPastReturn, SweepPastReturn, CleanupExcludesCompletion,
         Lost, Over, Doomed, Taken, Reclaiming
<1> QED
  BY <1>1, Inductive, PTL

-----------------------------------------------------------------------------
(* What a step may do to a row: the two action properties, and more. *)

RowKept(s) == UNCHANGED <<status[s], opId[s], receipt[s]>>

RowMoves(s) ==
  \/ RowKept(s)
  \/ /\ status[s] # "committed" /\ status'[s] # "new"
     /\ opId'[s] = JanitorOp => opId[s] = JanitorOp
  \/ status[s] = "pending" /\ status'[s] # "new" /\ lease[s] <= 0
  \/ status'[s] = "gone" /\ opId'[s] = NoOp /\ lease[s] <= 0

LEMMA OneRowMoves ==
  ASSUME TypeInv, NEW s \in Sessions,
         UNCHANGED status \/ \E v : status' = [status EXCEPT ![s] = v],
         UNCHANGED opId \/ \E v : opId' = [opId EXCEPT ![s] = v],
         UNCHANGED receipt \/ \E v : receipt' = [receipt EXCEPT ![s] = v],
         RowMoves(s)
  PROVE  \A t \in Sessions : RowMoves(t)
<1>1. ASSUME NEW t \in Sessions \ {s} PROVE RowKept(t)
  BY DEF RowKept, TypeInv, RowInv, RowType
<1> QED
  BY <1>1 DEF RowMoves

LEMMA RequestMovesRows ==
  ASSUME IInv, NEW r \in Requests,
         InitStep(r) \/ LeaseStep(r) \/ CompleteStep(r) \/ AbortStep(r) \/ Die(r)
  PROVE  \A s \in Sessions : RowMoves(s)
<1> TypeInv /\ StepInv
  BY DEF IInv
<1>0. /\ pc[r] # "idle" => target[r] \in Sessions
      /\ pc[r] \in CompletionSteps => op[r] \in ClientOps
  BY DEF TypeInv, ReqInv, ReqType, RequestOps, Carries
<1>1. ASSUME UNCHANGED <<status, opId, receipt>> PROVE \A s \in Sessions : RowMoves(s)
  BY <1>1 DEF RowMoves, RowKept
<1>2. CASE InitStep(r)
  <2>1. CASE UNCHANGED <<status, opId, receipt>>
    BY <1>1, <2>1
  <2>2. CASE CreateRow(r) /\ status' = [status EXCEPT ![target[r]] = "pending"]
    <3>1. target[r] \in Sessions /\ status[target[r]] = "new" /\ UNCHANGED <<opId, receipt>>
      BY <1>0, <2>2 DEF CreateRow, At, StepInv, InitAlone, rowVars
    <3>2. RowMoves(target[r])
      BY <2>2, <3>1 DEF RowMoves, TypeInv, RowInv, RowType
    <3> QED
      BY <2>2, <3>1, <3>2, OneRowMoves
  <2> QED
    BY <1>2, <2>1, <2>2 DEF InitStep, InitUpload, CreateRow, UndoMultipart, rowVars
<1>3. CASE LeaseStep(r) \/ Die(r)
  BY <1>1, <1>3 DEF LeaseStep, LoadSession, RenewLease, Die, rowVars
<1>4. CASE CompleteStep(r)
  <2>1. CASE UNCHANGED <<status, opId, receipt>>
    BY <1>1, <2>1
  <2>2. CASE ClaimCompletion(r) /\ ~UNCHANGED rowVars
    <3>1. target[r] \in Sessions /\ op[r] \in ClientOps
      BY <1>0, <2>2 DEF ClaimCompletion, At, CompletionSteps
    <3>2. /\ status[target[r]] = "pending" /\ UNCHANGED <<status, receipt>>
          /\ opId' = [opId EXCEPT ![target[r]] = op[r]]
      BY <2>2 DEF ClaimCompletion, Unclaimed, ClaimRow
    <3>3. opId'[target[r]] # JanitorOp
      BY <3>1, <3>2, OpsAssumption DEF TypeInv, RowInv, RowType
    <3>4. RowMoves(target[r])
      BY <3>2, <3>3 DEF RowMoves
    <3> QED
      BY <3>1, <3>2, <3>4, OneRowMoves
  <2>3. CASE CommitNode(r) /\ ~UNCHANGED rowVars
    <3>1. target[r] \in Sessions
      BY <1>0, <2>3 DEF CommitNode, At
    <3>2. /\ status[target[r]] = "pending" /\ UNCHANGED opId
          /\ status' = [status EXCEPT ![target[r]] = "committed"]
          /\ \E n \in NodeIds : receipt' = [receipt EXCEPT ![target[r]] = n]
      BY <2>3 DEF CommitNode, MayCommit, ClaimedBy
    <3>3. RowMoves(target[r])
      BY <3>1, <3>2 DEF RowMoves, TypeInv, RowInv, RowType
    <3> QED
      BY <3>1, <3>2, <3>3, OneRowMoves
  <2>4. CASE ReleaseClaim(r) /\ ~UNCHANGED opId
    <3>1. target[r] \in Sessions
      BY <1>0, <2>4 DEF ReleaseClaim, At
    <3>2. /\ status[target[r]] = "pending" /\ UNCHANGED <<status, receipt>>
          /\ opId' = [opId EXCEPT ![target[r]] = NoOp]
      BY <2>4 DEF ReleaseClaim, ClaimedBy
    <3>3. RowMoves(target[r])
      BY <3>1, <3>2 DEF RowMoves, TypeInv, RowInv, RowType
    <3> QED
      BY <3>1, <3>2, <3>3, OneRowMoves
  <2>5. ASSUME NEW s \in Sessions, NEW o \in ClientOps, StartComplete(r, s, o)
        PROVE  UNCHANGED <<status, opId, receipt>>
    BY <2>5 DEF StartComplete, rowVars
  <2>6. CheckTarget(r) \/ StatObject(r) \/ CompleteMultipartUpload(r)
        => UNCHANGED <<status, opId, receipt>>
    BY DEF CheckTarget, StatObject, CompleteMultipartUpload, rowVars
  <2>7. UNCHANGED rowVars => UNCHANGED <<status, opId, receipt>>
    BY DEF rowVars
  <2>8. ReleaseClaim(r) => UNCHANGED <<status, receipt>>
    BY DEF ReleaseClaim
  <2> QED
    BY <1>4, <2>1, <2>2, <2>3, <2>4, <2>5, <2>6, <2>7, <2>8 DEF CompleteStep
<1>5. CASE AbortStep(r)
  <2>1. ASSUME NEW s \in Sessions, ClaimAbort(r, s) PROVE \A t \in Sessions : RowMoves(t)
    <3>1. /\ status[s] = "pending" /\ UNCHANGED <<status, receipt>>
          /\ opId' = [opId EXCEPT ![s] = AbortOp]
      BY <2>1 DEF ClaimAbort, Unclaimed, ClaimRow
    <3>2. RowMoves(s)
      BY <3>1 DEF RowMoves, TypeInv, RowInv, RowType
    <3> QED
      BY <3>1, <3>2, OneRowMoves
  <2>2. CheckAbortProvider(r) \/ AbortMultipart(r) \/ AbortDeleteObject(r)
        => UNCHANGED <<status, opId, receipt>>
    BY DEF CheckAbortProvider, AbortMultipart, AbortDeleteObject, rowVars
  <2>3. CASE AbortDeleteRow(r)
    <3>1. CASE UNCHANGED rowVars
      BY <1>1, <3>1 DEF rowVars
    <3>2. CASE ClaimedBy(target[r], AbortOp) /\ DeleteRow(target[r])
      <4>1. target[r] \in Sessions
        BY <1>0, <2>3 DEF AbortDeleteRow, At
      <4>2. /\ status[target[r]] = "pending"
            /\ status' = [status EXCEPT ![target[r]] = "gone"]
            /\ opId' = [opId EXCEPT ![target[r]] = NoOp]
            /\ receipt' = [receipt EXCEPT ![target[r]] = NoNode]
        BY <3>2 DEF ClaimedBy, DeleteRow
      <4>3. RowMoves(target[r])
        BY <4>1, <4>2 DEF RowMoves, TypeInv, RowInv, RowType
      <4> QED
        BY <4>1, <4>2, <4>3, OneRowMoves
    <3> QED
      BY <2>3, <3>1, <3>2 DEF AbortDeleteRow
  <2> QED
    BY <1>1, <1>5, <2>1, <2>2, <2>3 DEF AbortStep
<1> QED
  BY <1>2, <1>3, <1>4, <1>5

LEMMA JanitorMovesRows ==
  ASSUME IInv, NEW j \in Janitors, JanitorStep(j)
  PROVE  \A s \in Sessions : RowMoves(s)
<1> TypeInv
  BY DEF IInv
<1>1. ASSUME UNCHANGED <<status, opId, receipt>> PROVE \A s \in Sessions : RowMoves(s)
  BY <1>1 DEF RowMoves, RowKept
<1>2. CASE SweepStart(j) \/ SweepAbort(j) \/ SweepDelete(j) \/ SweepEnd(j)
  BY <1>1, <1>2 DEF SweepStart, SweepAbort, SweepDelete, SweepEnd, rowVars
<1>3. \A s \in Sessions : DueFor(j, s) => lease[s] <= 0
  BY DEF DueFor, TypeInv, ClockType
<1>4. ASSUME NEW s \in Sessions, DeleteRow(s), status[s] = "pending" \/ lease[s] <= 0
      PROVE  \A t \in Sessions : RowMoves(t)
  <2>1. /\ status' = [status EXCEPT ![s] = "gone"]
        /\ opId' = [opId EXCEPT ![s] = NoOp]
        /\ receipt' = [receipt EXCEPT ![s] = NoNode]
    BY <1>4 DEF DeleteRow
  <2>2. status'[s] = "gone" /\ opId'[s] = NoOp
    BY <2>1 DEF TypeInv, RowInv, RowType
  <2>3. RowMoves(s)
    BY <1>4, <2>2 DEF RowMoves
  <2> QED
    BY <2>1, <2>3, OneRowMoves
<1>5. CASE SweepDeleteRow(j)
  <2>1. sweepCur[j] \in Sessions
    BY <1>5 DEF SweepDeleteRow, TypeInv, SweepType
  <2>2. CASE UNCHANGED rowVars
    BY <1>1, <2>2 DEF rowVars
  <2> QED
    BY <1>4, <1>5, <2>1, <2>2 DEF SweepDeleteRow, ClaimedBy
<1>6. ASSUME NEW s \in Sessions, SweepReceipt(j, s) PROVE \A t \in Sessions : RowMoves(t)
  <2>1. CASE UNCHANGED rowVars
    BY <1>1, <2>1 DEF rowVars
  <2> QED
    BY <1>3, <1>4, <1>6, <2>1 DEF SweepReceipt
<1>7. ASSUME NEW s \in Sessions, SweepClaim(j, s) PROVE \A t \in Sessions : RowMoves(t)
  <2>1. CASE UNCHANGED rowVars
    BY <1>1, <2>1 DEF rowVars
  <2>2. CASE Reclaimable(j, s) /\ ClaimRow(s, JanitorOp, CleanupClaimTTL)
    <3>1. UNCHANGED <<status, receipt>> /\ opId' = [opId EXCEPT ![s] = JanitorOp]
      BY <2>2 DEF ClaimRow
    <3>2. RowMoves(s)
      BY <1>3, <2>2, <3>1 DEF Reclaimable, RowMoves
    <3> QED
      BY <3>1, <3>2, OneRowMoves
  <2> QED
    BY <1>7, <2>1, <2>2 DEF SweepClaim
<1> QED
  BY <1>2, <1>5, <1>6, <1>7 DEF JanitorStep

LEMMA NextMovesRows == IInv /\ [Next]_vars => \A s \in Sessions : RowMoves(s)
<1> SUFFICES ASSUME IInv, [Next]_vars PROVE \A s \in Sessions : RowMoves(s)
  OBVIOUS
<1>1. ASSUME UNCHANGED <<status, opId, receipt>> PROVE \A s \in Sessions : RowMoves(s)
  BY <1>1 DEF RowMoves, RowKept
<1>2. UNCHANGED vars \/ Tick => UNCHANGED <<status, opId, receipt>>
  BY DEF vars, Tick
<1>3. ASSUME NEW s \in Sessions, Put(s) \/ \E o \in ClientOps : ReplayReceipt(s, o)
      PROVE  UNCHANGED <<status, opId, receipt>>
  BY <1>3 DEF Put, ReplayReceipt, rowVars
<1> QED
  BY <1>1, <1>2, <1>3, RequestMovesRows, JanitorMovesRows DEF Next

\* A row that is not inserted yet has no claim.
NewUnclaimed == \A s \in Sessions : status[s] = "new" => opId[s] = NoOp

LEMMA NewStaysUnclaimed == Spec => []NewUnclaimed
<1>1. Init => NewUnclaimed
  <2>1. Init => opId = [s \in Sessions |-> NoOp]
    BY DEF Init
  <2> QED
    BY <2>1 DEF NewUnclaimed
<1>2. IInv /\ NewUnclaimed /\ [Next]_vars => NewUnclaimed'
  BY NextMovesRows DEF RowMoves, RowKept, NewUnclaimed
<1> QED
  BY <1>1, <1>2, Inductive, PTL DEF Spec

\* The janitor takes a session over only after its lease has run out.
THEOREM LeaseRespected == Spec => JanitorRespectsLease
<1>1. IInv /\ [Next]_vars =>
        [\A s \in Sessions : opId'[s] = JanitorOp /\ opId[s] # JanitorOp => lease[s] <= 0]_vars
  BY NextMovesRows DEF RowMoves, RowKept
<1> QED
  BY <1>1, Inductive, PTL DEF Spec, JanitorRespectsLease

\* A receipt stays as it was written until its retention has passed.
THEOREM ReceiptsAreKept == Spec => ReceiptKept
<1>1. IInv /\ [Next]_vars =>
        [\A s \in Sessions : status[s] = "committed" =>
           \/ status'[s] = "committed" /\ opId'[s] = opId[s] /\ receipt'[s] = receipt[s]
           \/ status'[s] = "gone" /\ lease[s] <= 0]_vars
  BY NextMovesRows DEF RowMoves, RowKept
<1> QED
  BY <1>1, Inductive, PTL DEF Spec, ReceiptKept

-----------------------------------------------------------------------------
(* The unique index, and the status query by operation id that rests on it. *)

\* No two sessions of one actor carry the same client operation.
UniqueOps ==
  \A s, t \in Sessions : s # t /\ Owner[s] = Owner[t] /\ opId[s] = opId[t] => opId[s] \notin ClientOps

LEMMA OneOpMoves ==
  ASSUME TypeInv, UniqueOps,
         \/ UNCHANGED opId
         \/ \E s \in Sessions : \E o :
              opId' = [opId EXCEPT ![s] = o] /\ (o \in ClientOps => OpFree(s, o))
  PROVE  UniqueOps'
<1>1. CASE UNCHANGED opId
  BY <1>1 DEF UniqueOps
<1>2. ASSUME NEW s \in Sessions, NEW o, opId' = [opId EXCEPT ![s] = o],
             o \in ClientOps => OpFree(s, o)
      PROVE  UniqueOps'
  <2>1. opId'[s] = o /\ \A t \in Sessions \ {s} : opId'[t] = opId[t]
    BY <1>2 DEF TypeInv, RowInv, RowType
  <2>2. o \in ClientOps => \A t \in Sessions \ {s} : Owner[t] = Owner[s] => opId'[t] # o
    BY <1>2, <2>1 DEF OpFree
  <2> SUFFICES ASSUME NEW t \in Sessions, NEW u \in Sessions,
                      t # u, Owner[t] = Owner[u], opId'[t] = opId'[u]
               PROVE  opId'[t] \notin ClientOps
    BY DEF UniqueOps
  <2>3. CASE t = s \/ u = s
    BY <2>1, <2>2, <2>3
  <2>4. CASE t # s /\ u # s
    BY <2>1, <2>4 DEF UniqueOps
  <2> QED
    BY <2>3, <2>4
<1> QED
  BY <1>1, <1>2

LEMMA OpsStayUnique == TypeInv /\ UniqueOps /\ [Next]_vars => UniqueOps'
<1> SUFFICES ASSUME TypeInv, UniqueOps, [Next]_vars PROVE UniqueOps'
  OBVIOUS
<1>0. /\ \A r \in Requests : pc[r] # "idle" => target[r] \in Sessions
      /\ \A j \in Janitors : sweepPc[j] = "row" => sweepCur[j] \in Sessions
  BY DEF TypeInv, ReqInv, ReqType, SweepType
<1>1. NoOp \notin ClientOps /\ AbortOp \notin ClientOps /\ JanitorOp \notin ClientOps
  BY OpsAssumption
<1>2. ASSUME NEW s \in Sessions, NEW o, o \notin ClientOps, opId' = [opId EXCEPT ![s] = o]
      PROVE  UniqueOps'
  BY <1>2, OneOpMoves
<1>3. UNCHANGED opId => UniqueOps'
  BY OneOpMoves
<1>4. ASSUME NEW s \in Sessions, DeleteRow(s) PROVE UniqueOps'
  BY <1>1, <1>2, <1>4 DEF DeleteRow
<1>5. ASSUME NEW r \in Requests, ClaimCompletion(r) PROVE UniqueOps'
  <2>1. target[r] \in Sessions
    BY <1>0, <1>5 DEF ClaimCompletion, At
  <2>2. \/ UNCHANGED opId
        \/ /\ opId' = [opId EXCEPT ![target[r]] = op[r]]
           /\ OpFree(target[r], op[r])
    BY <1>5 DEF ClaimCompletion, Unclaimed, ClaimRow, rowVars
  <2> QED
    BY <2>1, <2>2, OneOpMoves
<1>6. ASSUME NEW r \in Requests, ReleaseClaim(r) \/ AbortDeleteRow(r) PROVE UniqueOps'
  <2>1. target[r] \in Sessions
    BY <1>0, <1>6 DEF ReleaseClaim, AbortDeleteRow, At
  <2> QED
    BY <1>1, <1>2, <1>3, <1>4, <1>6, <2>1 DEF ReleaseClaim, AbortDeleteRow, rowVars
<1>7. ASSUME NEW r \in Requests, NEW s \in Sessions, ClaimAbort(r, s) PROVE UniqueOps'
  BY <1>1, <1>2, <1>7 DEF ClaimAbort, ClaimRow
<1>8. ASSUME NEW r \in Requests, InitStep(r) \/ LeaseStep(r) \/ Die(r) PROVE UniqueOps'
  BY <1>3, <1>8 DEF InitStep, InitUpload, CreateRow, UndoMultipart, LeaseStep, LoadSession,
                    RenewLease, Die, rowVars
<1>9. ASSUME NEW r \in Requests, CompleteStep(r) PROVE UniqueOps'
  <2>1. ASSUME \E s \in Sessions, o \in ClientOps : StartComplete(r, s, o) PROVE UNCHANGED opId
    BY <2>1 DEF StartComplete, rowVars
  <2>2. CheckTarget(r) \/ CompleteMultipartUpload(r) \/ StatObject(r) \/ CommitNode(r)
        => UNCHANGED opId
    BY DEF CheckTarget, CompleteMultipartUpload, StatObject, CommitNode, rowVars
  <2> QED
    BY <1>3, <1>5, <1>6, <1>9, <2>1, <2>2 DEF CompleteStep
<1>10. ASSUME NEW r \in Requests, AbortStep(r) PROVE UniqueOps'
  <2>1. CheckAbortProvider(r) \/ AbortMultipart(r) \/ AbortDeleteObject(r) => UNCHANGED opId
    BY DEF CheckAbortProvider, AbortMultipart, AbortDeleteObject, rowVars
  <2> QED
    BY <1>3, <1>6, <1>7, <1>10, <2>1 DEF AbortStep
<1>11. ASSUME NEW j \in Janitors, JanitorStep(j) PROVE UniqueOps'
  <2>1. SweepStart(j) \/ SweepAbort(j) \/ SweepDelete(j) \/ SweepEnd(j) => UNCHANGED opId
    BY DEF SweepStart, SweepAbort, SweepDelete, SweepEnd, rowVars
  <2>2. ASSUME SweepDeleteRow(j) PROVE UniqueOps'
    BY <1>0, <1>3, <1>4, <2>2 DEF SweepDeleteRow, rowVars
  <2>3. ASSUME NEW s \in Sessions, SweepReceipt(j, s) \/ SweepClaim(j, s) PROVE UniqueOps'
    BY <1>1, <1>2, <1>3, <1>4, <2>3 DEF SweepReceipt, SweepClaim, ClaimRow, rowVars
  <2> QED
    BY <1>3, <1>11, <2>1, <2>2, <2>3 DEF JanitorStep
<1>12. ASSUME \/ UNCHANGED vars
              \/ Tick
              \/ \E s \in Sessions : Put(s) \/ \E o \in ClientOps : ReplayReceipt(s, o)
       PROVE  UNCHANGED opId
  BY <1>12 DEF vars, Tick, Put, ReplayReceipt, rowVars
<1> QED
  BY <1>3, <1>8, <1>9, <1>10, <1>11, <1>12 DEF Next

\* While their receipts last, two sessions of one actor never both report success
\* for one operation: the status query by operation id has one answer.
THEOREM OneResultPerOperation == Spec => []OperationHasOneResult
<1>1. Init => UniqueOps
  <2>1. Init => opId = [s \in Sessions |-> NoOp]
    BY DEF Init
  <2>2. NoOp \notin ClientOps
    BY OpsAssumption
  <2> QED
    BY <2>1, <2>2 DEF UniqueOps
<1>2. Spec => []UniqueOps
  BY <1>1, OpsStayUnique, TypeInvariant, PTL DEF Spec
<1>3. IInv /\ UniqueOps => OperationHasOneResult
  <2> SUFFICES ASSUME IInv, UniqueOps, NEW x \in replies, NEW y \in replies,
                      x[2] = y[2], Owner[x[1]] = Owner[y[1]],
                      status[x[1]] = "committed", status[y[1]] = "committed"
               PROVE  x[3] = y[3]
    BY DEF OperationHasOneResult
  <2>1. /\ x[1] \in Sessions /\ x[2] \in ClientOps /\ x[3] \in NodeIds
        /\ y[1] \in Sessions /\ y[3] \in NodeIds
    BY DEF IInv, TypeInv, NodeType
  <2>2. x[2] = opId[x[1]] /\ y[2] = opId[y[1]]
    BY DEF IInv, DataInv, RepliesNameReceipt
  <2>3. x[1] = y[1]
    BY <2>1, <2>2 DEF UniqueOps
  <2>4. madeBy[x[3]] = x[1] /\ madeBy[y[3]] = y[1]
    BY DEF IInv, DataInv, RepliesAgree
  <2> QED
    BY <2>1, <2>3, <2>4, SessionsAssumption DEF IInv, DataInv, OneNodePerSession
<1> QED
  BY <1>2, <1>3, Inductive, PTL
=============================================================================
