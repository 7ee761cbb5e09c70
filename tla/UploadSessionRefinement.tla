----------------------- MODULE UploadSessionRefinement -----------------------
(***************************************************************************)
(* The handlers and the janitor implement UploadOutcome: every step of     *)
(* theirs changes at most one session, and the way UploadOutcome allows.   *)
(***************************************************************************)
EXTENDS UploadSessionSafety

USE DEF NoOp, AbortOp, JanitorOp, CleanupOps, NoNode, NoSession

Stored(s) == object[s] # "absent"
Held(s) == \E q \in Requests : InHand(q) /\ target[q] = s

\* Nothing an observer of session s sees changes.
Still(s) == UNCHANGED <<Phase(s), Stored(s), NodesOf(s)>>

-----------------------------------------------------------------------------
(* Phase and Over in terms of the row and of the requests that hold it. *)

LEMMA OverHeld ==
  ASSUME NEW s
  PROVE  Over(s) <=> \/ status[s] = "gone" \/ ClaimedBy(s, JanitorOp)
                     \/ ClaimedBy(s, AbortOp) /\ ~Held(s)
  BY DEF Over, Doomed, Held

LEMMA PhaseKept ==
  ASSUME NEW s, UNCHANGED <<status[s], opId[s], Held(s)>>,
         \A n \in NodeIds : madeBy'[n] = s <=> madeBy[n] = s
  PROVE  Phase(s)' = Phase(s) /\ NodesOf(s)' = NodesOf(s)
<1>1. NoNodes(s)' <=> NoNodes(s)
  BY DEF NoNodes
<1>2. Over(s)' <=> Over(s)
  <2>1. Over(s)' <=> \/ status'[s] = "gone" \/ ClaimedBy(s, JanitorOp)'
                     \/ ClaimedBy(s, AbortOp)' /\ ~Held(s)'
    BY DEF Over, Doomed, Held
  <2> QED
    BY <2>1, OverHeld DEF ClaimedBy
<1> QED
  BY <1>1, <1>2 DEF Phase, NodesOf

\* What one step may do to one session.
Moves(s) ==
  \/ Still(s)
  \/ /\ Phase(s) = "absent" /\ Phase(s)' = "open" /\ UNCHANGED <<Stored(s), NodesOf(s)>>
  \/ /\ Stored(s)' /\ UNCHANGED <<Phase(s), NodesOf(s)>>
  \/ /\ Phase(s) = "open" /\ Phase(s)' = "discarded" /\ UNCHANGED <<Stored(s), NodesOf(s)>>
  \/ /\ Phase(s) = "discarded" /\ ~Stored(s)' /\ UNCHANGED <<Phase(s), NodesOf(s)>>
  \/ /\ Phase(s) = "open" /\ Phase(s)' = "committed" /\ Stored(s) /\ Stored(s)'
     /\ \E n \in NodeIds : (\A t \in Sessions : n \notin NodesOf(t)) /\ NodesOf(s)' = {n}

LEMMA Observed ==
  ASSUME NEW s \in Sessions, Moves(s), \A t \in Sessions \ {s} : Still(t)
  PROVE  Outcome!Next \/ UNCHANGED Outcome!vars
<1> DEFINE ph == [t \in Sessions |-> Phase(t)]
           st == [t \in Sessions |-> Stored(t)]
           nd == [t \in Sessions |-> NodesOf(t)]
<1>1. CASE Still(s)
  <2>1. ph' = ph /\ st' = st /\ nd' = nd
    BY <1>1 DEF Still
  <2> QED
    BY <2>1 DEF Outcome!vars, Stored
<1>2. ASSUME UNCHANGED <<Stored(s), NodesOf(s)>> PROVE st' = st /\ nd' = nd
  BY <1>2 DEF Still
<1>3. ASSUME UNCHANGED <<Phase(s), NodesOf(s)>> PROVE ph' = ph /\ nd' = nd
  BY <1>3 DEF Still
<1>4. ph' = [ph EXCEPT ![s] = Phase(s)']
  BY DEF Still
<1>5. st' = [st EXCEPT ![s] = Stored(s)']
  BY DEF Still
<1>6. nd' = [nd EXCEPT ![s] = NodesOf(s)']
  BY DEF Still
<1>7. ph[s] = Phase(s) /\ st[s] = Stored(s)
  OBVIOUS
<1>8. CASE /\ Phase(s) = "absent" /\ Phase(s)' = "open" /\ UNCHANGED <<Stored(s), NodesOf(s)>>
  <2>1. Outcome!Open(s)
    BY <1>2, <1>4, <1>7, <1>8 DEF Outcome!Open, Stored
  <2> QED
    BY <2>1 DEF Outcome!Next
<1>9. CASE Stored(s)' /\ UNCHANGED <<Phase(s), NodesOf(s)>>
  <2>1. Outcome!Store(s)
    BY <1>3, <1>5, <1>9 DEF Outcome!Store, Stored
  <2> QED
    BY <2>1 DEF Outcome!Next
<1>10. CASE /\ Phase(s) = "open" /\ Phase(s)' = "discarded" /\ UNCHANGED <<Stored(s), NodesOf(s)>>
  <2>1. Outcome!Discard(s)
    BY <1>2, <1>4, <1>7, <1>10 DEF Outcome!Discard, Stored
  <2> QED
    BY <2>1 DEF Outcome!Next
<1>11. CASE Phase(s) = "discarded" /\ ~Stored(s)' /\ UNCHANGED <<Phase(s), NodesOf(s)>>
  <2>1. Outcome!Remove(s)
    BY <1>3, <1>5, <1>7, <1>11 DEF Outcome!Remove, Stored
  <2> QED
    BY <2>1 DEF Outcome!Next
<1>12. ASSUME Phase(s) = "open", Phase(s)' = "committed", Stored(s), Stored(s)',
              NEW n \in NodeIds, \A t \in Sessions : n \notin NodesOf(t), NodesOf(s)' = {n}
       PROVE  Outcome!Next
  <2>1. Outcome!Commit(s, n)
    <3>1. st' = st
      BY <1>5, <1>7, <1>12
    <3>2. \A t \in Sessions : n \notin nd[t]
      BY <1>12
    <3> QED
      BY <1>4, <1>6, <1>7, <1>12, <3>1, <3>2 DEF Outcome!Commit, Stored
  <2> QED
    BY <2>1 DEF Outcome!Next
<1> QED
  BY <1>1, <1>8, <1>9, <1>10, <1>11, <1>12 DEF Moves

-----------------------------------------------------------------------------
(* The shapes a step takes. *)

Observable == Outcome!Next \/ UNCHANGED Outcome!vars

\* Nobody but request r moves.
Alone(r) == \A q \in Requests \ {r} : UNCHANGED <<pc[q], target[q], op[q]>>
HeldKept == \A s \in Sessions : Held(s)' = Held(s)
RowsKept == UNCHANGED <<status, opId, madeBy>>

LEMMA AllStill == (\A s \in Sessions : Still(s)) => UNCHANGED Outcome!vars
  BY DEF Still, Stored, Outcome!vars

LEMMA HeldAlone ==
  ASSUME NEW r \in Requests, Alone(r), NEW s,
         (InHand(r) /\ target[r] = s) <=> (InHand(r)' /\ target'[r] = s)
  PROVE  Held(s)' = Held(s)
<1>1. \A q \in Requests \ {r} : (InHand(q)' <=> InHand(q)) /\ target'[q] = target[q]
  BY DEF Alone, InHand, At
<1> QED
  BY <1>1 DEF Held

\* No claim is in hand before or after.
LEMMA NothingInHand ==
  ASSUME NEW r \in Requests, Alone(r), ~InHand(r), ~InHand(r)'
  PROVE  HeldKept
  BY HeldAlone DEF HeldKept

LEMMA NobodyMoves == UNCHANGED <<pc, target, op>> => HeldKept
  BY DEF HeldKept, Held, InHand, At

LEMMA DoneAlone ==
  ASSUME TypeInv, NEW r \in Requests, Done(r)
  PROVE  Alone(r) /\ ~InHand(r)' /\ target'[r] = NoSession
<1>1. Alone(r) /\ pc'[r] = "idle" /\ target'[r] = NoSession
  BY DEF Done, Alone, TypeInv, ReqInv, ReqType
<1> QED
  BY <1>1 DEF InHand, At

LEMMA GotoAlone ==
  ASSUME TypeInv, NEW r \in Requests, NEW step \in Steps, Goto(r, step)
  PROVE  /\ Alone(r) /\ pc'[r] = step /\ target'[r] = target[r] /\ op'[r] = op[r]
         /\ InHand(r)' <=> step = "abort.check" \/ (step = "release" /\ op[r] = AbortOp)
<1>1. Alone(r) /\ pc'[r] = step /\ target'[r] = target[r] /\ op'[r] = op[r]
  BY DEF Goto, Alone, TypeInv, ReqInv, ReqType
<1> QED
  BY <1>1 DEF InHand, At

LEMMA StartAlone ==
  ASSUME TypeInv, NEW r \in Requests, NEW s \in Sessions, NEW step \in Steps,
         NEW o \in ClientOps \cup {NoOp, AbortOp}, Start(r, step, s, o)
  PROVE  /\ Alone(r) /\ target'[r] = s /\ ~InHand(r)
         /\ InHand(r)' <=> step = "abort.check" \/ (step = "release" /\ o = AbortOp)
<1>1. Alone(r) /\ pc[r] = "idle" /\ pc'[r] = step /\ target'[r] = s /\ op'[r] = o
  BY DEF Start, At, Alone, TypeInv, ReqInv, ReqType
<1> QED
  BY <1>1 DEF InHand, At

\* Rows, nodes and claims in hand stay: only the store may have changed.
LEMMA StoreStep ==
  ASSUME TypeInv, HeldKept, RowsKept,
         \/ UNCHANGED object
         \/ \E s \in Sessions, size \in Sizes : object' = [object EXCEPT ![s] = size]
         \/ \E s \in Sessions : Phase(s) = "discarded" /\ object' = [object EXCEPT ![s] = "absent"]
  PROVE  Observable
<1>1. \A s \in Sessions : UNCHANGED <<Phase(s), NodesOf(s)>>
  BY PhaseKept DEF HeldKept, RowsKept
<1>2. CASE UNCHANGED object
  BY <1>1, <1>2, AllStill DEF Still, Stored, Observable
<1>3. ASSUME NEW s \in Sessions, NEW v \in Sizes \cup {"absent"},
             object' = [object EXCEPT ![s] = v], v # "absent" \/ Phase(s) = "discarded"
      PROVE  Observable
  <2>1. \A t \in Sessions \ {s} : Still(t)
    BY <1>1, <1>3 DEF Still, Stored, TypeInv, StoreType
  <2>2. Stored(s)' <=> v # "absent"
    BY <1>3 DEF Stored, TypeInv, StoreType
  <2>3. Moves(s)
    BY <1>1, <1>3, <2>2 DEF Moves
  <2> QED
    BY <2>1, <2>3, Observed DEF Observable
<1> QED
  BY <1>2, <1>3 DEF Sizes

\* One session's row or holder changes, and the store does not.
LEMMA RowStep ==
  ASSUME NEW s \in Sessions, UNCHANGED <<madeBy, object>>,
         \A t \in Sessions \ {s} : UNCHANGED <<status[t], opId[t], Held(t)>>,
         \/ Phase(s)' = Phase(s)
         \/ Phase(s) = "absent" /\ Phase(s)' = "open"
         \/ Phase(s) = "open" /\ Phase(s)' = "discarded"
  PROVE  Observable
<1>1. \A t \in Sessions : UNCHANGED <<Stored(t), NodesOf(t)>>
  BY DEF Stored, NodesOf
<1>2. \A t \in Sessions \ {s} : Still(t)
  BY <1>1, PhaseKept DEF Still
<1>3. Moves(s)
  BY <1>1 DEF Moves, Still
<1> QED
  BY <1>2, <1>3, Observed DEF Observable

\* The phase of a session, by its row.
LEMMA PhaseByRow ==
  ASSUME IInv, NEW s \in Sessions
  PROVE  /\ status[s] = "new" => Phase(s) = "absent"
         /\ status[s] = "pending" => Phase(s) = IF Over(s) THEN "discarded" ELSE "open"
         /\ status[s] = "committed" => Phase(s) = "committed"
         /\ status[s] = "gone" => Phase(s) = IF NoNodes(s) THEN "discarded" ELSE "committed"
<1>1. /\ status[s] = "pending" => NoNodes(s)
      /\ status[s] = "committed" => ~NoNodes(s)
  BY DEF IInv, DataInv, TypeInv, RowInv, RowNodes, ReceiptComplete, NoNodes
<1>2. status[s] = "gone" => Over(s)
  BY DEF Over
<1> QED
  BY <1>1, <1>2 DEF Phase

LEMMA PhaseByRowNext ==
  ASSUME IInv', NEW s \in Sessions
  PROVE  /\ status'[s] = "pending" => Phase(s)' = IF Over(s)' THEN "discarded" ELSE "open"
         /\ status'[s] = "committed" => Phase(s)' = "committed"
         /\ status'[s] = "gone" => Phase(s)' = IF NoNodes(s)' THEN "discarded" ELSE "committed"
<1>1. /\ status'[s] = "pending" => NoNodes(s)'
      /\ status'[s] = "committed" => ~NoNodes(s)'
  BY DEF IInv, DataInv, TypeInv, RowInv, RowNodes, ReceiptComplete, NoNodes
<1>2. status'[s] = "gone" => Over(s)'
  BY DEF Over
<1> QED
  BY <1>1, <1>2 DEF Phase

\* When a request lets go of the claim of an abort, it has given it back or the
\* session is discarded.
LEMMA PhaseInHand ==
  ASSUME IInv, IInv', NEW r \in Requests, NEW s \in Sessions, s = target[r], InHand(r),
         UNCHANGED <<status, madeBy>>,
         UNCHANGED opId \/ (ClaimedBy(s, AbortOp) /\ opId' = [opId EXCEPT ![s] = NoOp])
  PROVE  Phase(s)' = Phase(s) \/ (Phase(s) = "open" /\ Phase(s)' = "discarded")
<1>1. Reclaiming(s)
  BY DEF IInv, StepInv, AbortInHand
<1>2. CASE status[s] = "gone"
  <2>1. NoNodes(s) /\ Over(s)
    BY <1>1, <1>2 DEF Reclaiming, ClaimedBy, Over
  <2>2. Phase(s) = "discarded"
    BY <1>2, <2>1, PhaseByRow
  <2>3. UNCHANGED opId
    BY <1>2 DEF ClaimedBy
  <2> QED
    BY <1>2, <2>1, <2>2, PhaseByRowNext DEF NoNodes
<1>3. CASE status[s] = "pending"
  <2>1. Phase(s) \in {"open", "discarded"} /\ Phase(s)' \in {"open", "discarded"}
    BY <1>3, PhaseByRow, PhaseByRowNext
  <2>2. ASSUME Over(s) PROVE Over(s)'
    <3>1. ClaimedBy(s, JanitorOp)
      BY <1>3, <2>2 DEF Over, Doomed
    <3>2. status'[s] = "pending" /\ opId'[s] = JanitorOp
      BY <3>1 DEF ClaimedBy
    <3> QED
      BY <3>2 DEF Over, Doomed, ClaimedBy
  <2> QED
    BY <1>3, <2>1, <2>2, PhaseByRow, PhaseByRowNext
<1> QED
  BY <1>1, <1>2, <1>3 DEF Reclaiming, ClaimedBy

-----------------------------------------------------------------------------
(* Every action. *)

LEMMA InitObserved ==
  ASSUME IInv, IInv', NewUnclaimed, NEW r \in Requests, InitStep(r)
  PROVE  Observable
<1> TypeInv /\ StepInv
  BY DEF IInv
<1>1. ASSUME NEW s \in Sessions, InitUpload(r, s) PROVE Observable
  <2>1. RowsKept /\ UNCHANGED object
    BY <1>1 DEF InitUpload, rowVars, RowsKept
  <2>2. CASE Start(r, "init.create", s, NoOp)
    <3>1. HeldKept
      BY <2>2, StartAlone, NothingInHand DEF Steps
    <3> QED
      BY <2>1, <3>1, StoreStep
  <2>3. CASE UNCHANGED reqVars
    BY <2>1, <2>3, NobodyMoves, StoreStep DEF reqVars
  <2> QED
    BY <1>1, <2>2, <2>3 DEF InitUpload
<1>2. ASSUME CreateRow(r) PROVE Observable
  <2>1. UNCHANGED <<madeBy, object, opId>> /\ ~InHand(r)
    BY <1>2 DEF CreateRow, rowVars, storeVars, InHand, At
  <2>2. target[r] \in Sessions /\ status[target[r]] = "new"
    BY <1>2 DEF CreateRow, At, StepInv, InitAlone, TypeInv, ReqInv, ReqType
  <2>3. HeldKept
    BY <1>2, <2>1, DoneAlone, GotoAlone, NothingInHand DEF CreateRow, Steps
  <2>4. CASE UNCHANGED status
    BY <2>1, <2>3, <2>4, StoreStep DEF RowsKept
  <2>5. ASSUME NEW s \in Sessions, s = target[r], status' = [status EXCEPT ![s] = "pending"]
        PROVE  Observable
    <3>1. status'[s] = "pending" /\ \A t \in Sessions \ {s} : status'[t] = status[t]
      BY <2>5 DEF TypeInv, RowInv, RowType
    <3>2. status[s] = "new" /\ opId'[s] = NoOp
      BY <2>1, <2>2, <2>5 DEF NewUnclaimed
    <3>3. ~Over(s)'
      BY <3>1, <3>2 DEF Over, Doomed, ClaimedBy
    <3>4. Phase(s) = "absent" /\ Phase(s)' = "open"
      BY <3>1, <3>2, <3>3, PhaseByRow, PhaseByRowNext
    <3> QED
      BY <2>1, <2>3, <3>1, <3>4, RowStep DEF HeldKept
  <2> QED
    BY <1>2, <2>2, <2>4, <2>5 DEF CreateRow, rowVars
<1>3. ASSUME UndoMultipart(r) PROVE Observable
  <2>1. RowsKept /\ UNCHANGED object /\ ~InHand(r)
    BY <1>3 DEF UndoMultipart, rowVars, RowsKept, InHand, At
  <2>2. HeldKept
    BY <1>3, <2>1, DoneAlone, NothingInHand DEF UndoMultipart
  <2> QED
    BY <2>1, <2>2, StoreStep
<1> QED
  BY <1>1, <1>2, <1>3 DEF InitStep

LEMMA LeaseObserved ==
  ASSUME IInv, NEW r \in Requests, LeaseStep(r)
  PROVE  Observable
<1> TypeInv
  BY DEF IInv
<1>1. RowsKept /\ UNCHANGED object
  BY DEF LeaseStep, LoadSession, RenewLease, rowVars, storeVars, RowsKept
<1>2. HeldKept
  <2>1. ASSUME NEW s \in Sessions, NEW step \in {"sign", "renew"}, LoadSession(r, s, step)
        PROVE  HeldKept
    <3>1. Start(r, step, s, NoOp)
      BY <2>1 DEF LoadSession
    <3>2. step \in Steps /\ step \notin {"abort.check", "release"}
      BY DEF Steps
    <3> QED
      BY <3>1, <3>2, StartAlone, NothingInHand
  <2>2. ASSUME RenewLease(r) PROVE HeldKept
    <3>1. Done(r) /\ ~InHand(r)
      BY <2>2 DEF RenewLease, InHand, At
    <3> QED
      BY <3>1, DoneAlone, NothingInHand
  <2> QED
    BY <2>1, <2>2 DEF LeaseStep
<1> QED
  BY <1>1, <1>2, StoreStep

LEMMA CompleteObserved ==
  ASSUME IInv, IInv', NEW r \in Requests, CompleteStep(r)
  PROVE  Observable
<1> TypeInv /\ DataInv /\ StepInv
  BY DEF IInv
<1>0. /\ pc[r] # "idle" => target[r] \in Sessions
      /\ pc[r] \in CompletionSteps => op[r] \in ClientOps
  BY DEF TypeInv, ReqInv, ReqType, RequestOps, Carries
<1>1. ASSUME NEW s \in Sessions, NEW o \in ClientOps, StartComplete(r, s, o) PROVE Observable
  <2>1. RowsKept /\ UNCHANGED object /\ Start(r, "claim", s, o)
    BY <1>1 DEF StartComplete, rowVars, storeVars, RowsKept
  <2>2. HeldKept
    BY <2>1, StartAlone, NothingInHand DEF Steps
  <2> QED
    BY <2>1, <2>2, StoreStep
\* At its completion steps a request has no claim of Abort, and goes on without one.
<1>2. ASSUME NEW step \in Steps \ {"abort.check"}, Goto(r, step) \/ Done(r),
             pc[r] \in CompletionSteps
      PROVE  HeldKept
  <2>1. ~InHand(r) /\ op[r] # AbortOp
    BY <1>0, <1>2, OpsAssumption DEF CompletionSteps, InHand, At
  <2>2. CASE Goto(r, step)
    BY <2>1, <2>2, GotoAlone, NothingInHand
  <2>3. CASE Done(r)
    BY <2>1, <2>3, DoneAlone, NothingInHand
  <2> QED
    BY <1>2, <2>2, <2>3
<1>3. ASSUME ClaimCompletion(r) PROVE Observable
  <2>1. target[r] \in Sessions /\ op[r] \in ClientOps
    BY <1>0, <1>3 DEF ClaimCompletion, At, CompletionSteps
  <2>2. HeldKept
    BY <1>2, <1>3 DEF ClaimCompletion, At, CompletionSteps, Steps
  <2>3. UNCHANGED <<status, madeBy, object>>
    BY <1>3 DEF ClaimCompletion, ClaimRow, rowVars, storeVars
  <2>4. CASE UNCHANGED opId
    BY <2>2, <2>3, <2>4, StoreStep DEF RowsKept
  <2>5. ASSUME NEW s \in Sessions, s = target[r], Unclaimed(s), opId' = [opId EXCEPT ![s] = op[r]]
        PROVE  Observable
    <3>1. /\ status[s] = "pending" /\ opId[s] = NoOp /\ opId'[s] = op[r]
          /\ \A t \in Sessions \ {s} : opId'[t] = opId[t]
      BY <2>5 DEF Unclaimed, TypeInv, RowInv, RowType
    <3>2. ~Over(s)
      BY <3>1 DEF Over, Doomed, ClaimedBy
    <3>3. ~Over(s)'
      BY <2>1, <2>3, <3>1, OpsAssumption DEF Over, Doomed, ClaimedBy
    <3>4. Phase(s)' = Phase(s)
      BY <2>3, <3>1, <3>2, <3>3, PhaseByRow, PhaseByRowNext
    <3> QED
      BY <2>2, <2>3, <3>1, <3>4, RowStep DEF HeldKept
  <2> QED
    BY <1>3, <2>1, <2>4, <2>5 DEF ClaimCompletion, ClaimRow, rowVars
<1>4. ASSUME CheckTarget(r) \/ StatObject(r) PROVE Observable
  <2>1. RowsKept /\ UNCHANGED object
    BY <1>4 DEF CheckTarget, StatObject, rowVars, storeVars, RowsKept
  <2>2. HeldKept
    BY <1>2, <1>4 DEF CheckTarget, StatObject, At, CompletionSteps, Steps
  <2> QED
    BY <2>1, <2>2, StoreStep
<1>5. ASSUME CompleteMultipartUpload(r) PROVE Observable
  <2>1. RowsKept /\ target[r] \in Sessions
    BY <1>0, <1>5 DEF CompleteMultipartUpload, At, rowVars, RowsKept
  <2>2. HeldKept
    BY <1>2, <1>5 DEF CompleteMultipartUpload, At, CompletionSteps, Steps
  <2>3. \/ UNCHANGED object
        \/ \E s \in Sessions, size \in Sizes : object' = [object EXCEPT ![s] = size]
    BY <1>5, <2>1 DEF CompleteMultipartUpload
  <2> QED
    BY <2>1, <2>2, <2>3, StoreStep
<1>6. ASSUME CommitNode(r) PROVE Observable
  <2>1. target[r] \in Sessions /\ op[r] \in ClientOps /\ UNCHANGED <<object, opId>>
    BY <1>0, <1>6 DEF CommitNode, At, CompletionSteps, rowVars, storeVars
  <2>2. HeldKept
    BY <1>2, <1>6 DEF CommitNode, At, CompletionSteps, Steps
  <2>3. CASE RowsKept
    BY <2>1, <2>2, <2>3, StoreStep
  <2>4. ASSUME NEW s \in Sessions, s = target[r], ClaimedBy(s, op[r]),
               NEW n \in NodeIds, madeBy[n] = NoSession,
               status' = [status EXCEPT ![s] = "committed"],
               madeBy' = [madeBy EXCEPT ![n] = s]
        PROVE  Observable
    <3>1. /\ status[s] = "pending" /\ status'[s] = "committed"
          /\ \A t \in Sessions \ {s} : status'[t] = status[t]
      BY <2>4 DEF ClaimedBy, TypeInv, RowInv, RowType
    <3>2. /\ madeBy'[n] = s /\ n \in NodeIds
          /\ \A m \in NodeIds \ {n} : madeBy'[m] = madeBy[m]
      BY <2>4 DEF TypeInv, NodeType
    <3>3. NoNodes(s)
      BY <3>1 DEF DataInv, RowNodes
    <3>4. NodesOf(s)' = {n}
      BY <3>2, <3>3 DEF NodesOf, NoNodes
    <3>5. \A t \in Sessions : n \notin NodesOf(t)
      BY <2>4, SessionsAssumption DEF NodesOf
    <3>6. ~Over(s)
      BY <2>1, <2>4, OverExcludesClients
    <3>7. Stored(s) /\ Stored(s)'
      <4>1. Backed(s)
        BY <1>6, <2>4 DEF CommitNode, StepInv, StatHolds
      <4> QED
        BY <2>1, <3>6, <4>1 DEF Backed, Stored
    <3>8. Phase(s) = "open" /\ Phase(s)' = "committed"
      BY <3>1, <3>6, PhaseByRow, PhaseByRowNext
    <3>9. Moves(s)
      BY <3>4, <3>5, <3>7, <3>8 DEF Moves
    <3>10. ASSUME NEW t \in Sessions \ {s} PROVE Still(t)
      <4>1. UNCHANGED <<status[t], opId[t], Held(t), Stored(t)>>
        BY <2>1, <2>2, <3>1 DEF HeldKept, Stored
      <4>2. \A m \in NodeIds : madeBy'[m] = t <=> madeBy[m] = t
        BY <2>4, <3>2, SessionsAssumption
      <4> QED
        BY <4>1, <4>2, PhaseKept DEF Still
    <3> QED
      BY <3>9, <3>10, Observed DEF Observable
  <2>5. ASSUME MayCommit(target[r], op[r]), NEW n \in {m \in NodeIds : madeBy[m] = NoSession},
               status' = [status EXCEPT ![target[r]] = "committed"],
               madeBy' = [madeBy EXCEPT ![n] = target[r]]
        PROVE  Observable
    BY <2>1, <2>4, <2>5 DEF MayCommit
  <2> QED
    BY <1>6, <2>1, <2>3, <2>5 DEF CommitNode, RowsKept, rowVars
<1>7. ASSUME ReleaseClaim(r) PROVE Observable
  <2>1. /\ UNCHANGED <<status, madeBy, object>> /\ target[r] \in Sessions /\ Done(r)
        /\ op[r] # NoOp
    BY <1>0, <1>7 DEF ReleaseClaim, storeVars, At, TypeInv, ReqInv, RequestOps, Carries
  <2>2. ASSUME NEW s \in Sessions, s = target[r] PROVE Observable
    <3>1. /\ Alone(r) /\ ~InHand(r)' /\ target'[r] = NoSession
          /\ \A t \in Sessions \ {s} : Held(t)' = Held(t)
      BY <2>1, <2>2, DoneAlone, HeldAlone
    <3>2. \/ UNCHANGED opId
          \/ ClaimedBy(s, op[r]) /\ opId' = [opId EXCEPT ![s] = NoOp]
      BY <1>7, <2>2 DEF ReleaseClaim
    <3>3. \A t \in Sessions \ {s} : UNCHANGED <<status[t], opId[t], Held(t)>>
      BY <2>1, <3>1, <3>2 DEF TypeInv, RowInv, RowType
    <3>4. CASE op[r] # AbortOp
      <4>1. ~InHand(r)
        BY <1>7, <3>4 DEF ReleaseClaim, InHand, At
      <4>2. HeldKept
        BY <3>1, <4>1, NothingInHand
      <4>3. CASE UNCHANGED opId
        BY <2>1, <4>2, <4>3, StoreStep DEF RowsKept
      <4>4. CASE ClaimedBy(s, op[r]) /\ opId' = [opId EXCEPT ![s] = NoOp]
        <5>1. op[r] # JanitorOp
          BY OpsAssumption DEF TypeInv, ReqInv, ReqType
        <5>2. ~Over(s)
          BY <3>4, <4>4, <5>1 DEF ClaimedBy, Over, Doomed
        <5>3. status[s] = "pending" /\ opId'[s] = NoOp
          BY <4>4 DEF ClaimedBy, TypeInv, RowInv, RowType
        <5>4. ~Over(s)'
          BY <2>1, <5>3 DEF ClaimedBy, Over, Doomed
        <5>5. Phase(s)' = Phase(s)
          BY <2>1, <5>2, <5>3, <5>4, PhaseByRow, PhaseByRowNext
        <5> QED
          BY <2>1, <3>3, <5>5, RowStep
      <4> QED
        BY <3>2, <4>3, <4>4
    <3>5. CASE op[r] = AbortOp
      <4>1. InHand(r)
        BY <1>7, <3>5 DEF ReleaseClaim, InHand, At
      <4>2. Phase(s)' = Phase(s) \/ (Phase(s) = "open" /\ Phase(s)' = "discarded")
        <5>1. UNCHANGED <<status, madeBy>>
          BY <2>1
        <5>2. UNCHANGED opId \/ (ClaimedBy(s, AbortOp) /\ opId' = [opId EXCEPT ![s] = NoOp])
          BY <3>2, <3>5
        <5> QED
          BY <2>2, <4>1, <5>1, <5>2, PhaseInHand
      <4> QED
        BY <2>1, <3>3, <4>2, RowStep
    <3> QED
      BY <3>4, <3>5
  <2> QED
    BY <2>1, <2>2
<1> QED
  BY <1>1, <1>3, <1>4, <1>5, <1>6, <1>7 DEF CompleteStep

\* A session that is lost is seen as discarded.
LEMMA LostDiscarded ==
  ASSUME IInv, NEW s \in Sessions, Lost(s), status[s] # "new"
  PROVE  Phase(s) = "discarded"
  BY DEF Lost, Phase

LEMMA OverInserted == \A s : Over(s) => status[s] # "new"
  BY DEF Over, Doomed, ClaimedBy

\* A row with no completion left is deleted, or its receipt is: nobody sees it.
LEMMA DeleteObserved ==
  ASSUME IInv, IInv', NEW s \in Sessions, DeleteRow(s), UNCHANGED <<madeBy, object>>,
         HeldKept, status[s] = "committed" \/ Lost(s)
  PROVE  Observable
<1>1. /\ status'[s] = "gone"
      /\ \A t \in Sessions \ {s} : UNCHANGED <<status[t], opId[t]>>
  BY DEF DeleteRow, IInv, TypeInv, RowInv, RowType
<1>2. NoNodes(s)' <=> NoNodes(s)
  BY DEF NoNodes
<1>3. CASE status[s] = "committed"
  <2>1. ~NoNodes(s)
    BY <1>3 DEF IInv, DataInv, TypeInv, RowInv, RowNodes, ReceiptComplete, NoNodes
  <2>2. Phase(s)' = Phase(s)
    BY <1>1, <1>2, <1>3, <2>1, PhaseByRow, PhaseByRowNext
  <2> QED
    BY <1>1, <2>2, RowStep DEF HeldKept
<1>4. CASE Lost(s)
  <2>1. Phase(s) = "discarded"
    BY <1>4, LostDiscarded, OverInserted DEF Lost
  <2>2. Phase(s)' = "discarded"
    BY <1>1, <1>2, <1>4, PhaseByRowNext DEF Lost
  <2> QED
    BY <1>1, <2>1, <2>2, RowStep DEF HeldKept
<1> QED
  BY <1>3, <1>4

\* A request lets go of what it has in hand, and nothing else happens.
LEMMA LetGoObserved ==
  ASSUME IInv, IInv', NEW r \in Requests, Alone(r), ~InHand(r)', pc[r] # "idle",
         UNCHANGED <<status, opId, madeBy, object>>
  PROVE  Observable
<1>1. ASSUME NEW s \in Sessions, s = target[r], InHand(r) PROVE Observable
  <2>1. \A t \in Sessions \ {s} : Held(t)' = Held(t)
    BY <1>1, HeldAlone
  <2>2. Phase(s)' = Phase(s) \/ (Phase(s) = "open" /\ Phase(s)' = "discarded")
    BY <1>1, PhaseInHand
  <2> QED
    BY <2>1, <2>2, RowStep
<1>2. CASE ~InHand(r)
  BY <1>2, NothingInHand, StoreStep DEF IInv, RowsKept
<1> QED
  BY <1>1, <1>2 DEF IInv, TypeInv, ReqInv, ReqType

LEMMA AbortObserved ==
  ASSUME IInv, IInv', NEW r \in Requests, AbortStep(r)
  PROVE  Observable
<1> TypeInv /\ DataInv /\ StepInv
  BY DEF IInv
<1>0. pc[r] # "idle" => target[r] \in Sessions
  BY DEF TypeInv, ReqInv, ReqType
<1>1. ASSUME NEW s \in Sessions, ClaimAbort(r, s) PROVE Observable
  <2>1. /\ UNCHANGED <<status, madeBy, object>> /\ Unclaimed(s) /\ ~InHand(r)
        /\ opId' = [opId EXCEPT ![s] = AbortOp]
    BY <1>1 DEF ClaimAbort, ClaimRow, storeVars, Start, InHand, At
  <2>2. /\ status[s] = "pending" /\ opId[s] = NoOp
        /\ \A t \in Sessions \ {s} : UNCHANGED <<status[t], opId[t]>>
    BY <2>1 DEF Unclaimed, TypeInv, RowInv, RowType
  <2>3. \A t \in Sessions \ {s} : Held(t)' = Held(t)
    <3>1. CASE Start(r, "abort.check", s, AbortOp)
      <4>1. Alone(r) /\ target'[r] = s
        BY <3>1, StartAlone DEF Steps
      <4> QED
        BY <2>1, <4>1, HeldAlone
    <3>2. CASE UNCHANGED reqVars
      BY <3>2, NobodyMoves DEF reqVars, HeldKept
    <3> QED
      BY <1>1, <3>1, <3>2 DEF ClaimAbort
  <2>4. ~Over(s)
    BY <2>2 DEF Over, Doomed, ClaimedBy
  <2>5. Phase(s) = "open"
    BY <2>2, <2>4, PhaseByRow
  <2>6. Phase(s)' \in {"open", "discarded"}
    BY <2>1, <2>2, PhaseByRowNext
  <2> QED
    BY <2>1, <2>2, <2>3, <2>5, <2>6, RowStep
<1>2. ASSUME CheckAbortProvider(r) PROVE Observable
  <2>1. RowsKept /\ UNCHANGED object /\ InHand(r) /\ pc[r] # "idle"
    BY <1>2 DEF CheckAbortProvider, rowVars, storeVars, RowsKept, InHand, At
  <2>2. op[r] = AbortOp
    BY <1>2 DEF CheckAbortProvider, At, TypeInv, ReqInv, RequestOps, Carries, AbortSteps
  <2>3. CASE Goto(r, "release")
    <3>1. HeldKept
      BY <2>1, <2>2, <2>3, GotoAlone, HeldAlone DEF HeldKept, Steps
    <3> QED
      BY <2>1, <3>1, StoreStep
  <2>4. ASSUME NEW step \in {"abort.multipart", "abort.delete"}, Goto(r, step) PROVE Observable
    <3>1. Alone(r) /\ ~InHand(r)'
      BY <2>4, GotoAlone DEF Steps
    <3> QED
      BY <2>1, <3>1, LetGoObserved DEF RowsKept
  <2> QED
    BY <1>2, <2>3, <2>4 DEF CheckAbortProvider
\* Past the provider check the session is lost.
<1>3. ASSUME NEW step \in {"abort.delete", "abort.row"}, Goto(r, step) \/ Done(r), Removing(r)
      PROVE  HeldKept
  <2>1. ~InHand(r)
    BY <1>3 DEF Removing, InHand, At
  <2> QED
    BY <1>3, <2>1, GotoAlone, DoneAlone, NothingInHand DEF Steps
<1>4. ASSUME Removing(r) PROVE target[r] \in Sessions /\ Lost(target[r])
  BY <1>0, <1>4 DEF Removing, StepInv, AbortPastReturn
<1>5. ASSUME AbortMultipart(r) PROVE Observable
  <2>1. RowsKept /\ UNCHANGED object
    BY <1>5 DEF AbortMultipart, rowVars, RowsKept
  <2>2. HeldKept
    BY <1>3, <1>5 DEF AbortMultipart, Removing, At
  <2> QED
    BY <2>1, <2>2, StoreStep
<1>6. ASSUME AbortDeleteObject(r) PROVE Observable
  <2>1. RowsKept /\ Removing(r)
    BY <1>6 DEF AbortDeleteObject, rowVars, RowsKept, Removing, At
  <2>2. HeldKept
    BY <1>3, <1>6, <2>1 DEF AbortDeleteObject
  <2>3. target[r] \in Sessions /\ Phase(target[r]) = "discarded"
    BY <1>4, <2>1, LostDiscarded, OverInserted DEF Lost
  <2>4. UNCHANGED object \/ object' = [object EXCEPT ![target[r]] = "absent"]
    BY <1>6 DEF AbortDeleteObject
  <2> QED
    BY <2>1, <2>2, <2>3, <2>4, StoreStep
<1>7. ASSUME AbortDeleteRow(r) PROVE Observable
  <2>1. Removing(r) /\ Done(r) /\ UNCHANGED <<madeBy, object>>
    BY <1>7 DEF AbortDeleteRow, storeVars, Removing, At
  <2>2. HeldKept
    BY <1>3, <2>1
  <2>3. CASE UNCHANGED rowVars
    BY <2>1, <2>2, <2>3, StoreStep DEF rowVars, RowsKept
  <2>4. CASE DeleteRow(target[r])
    BY <1>4, <2>1, <2>2, <2>4, DeleteObserved
  <2> QED
    BY <1>7, <2>3, <2>4 DEF AbortDeleteRow
<1> QED
  BY <1>1, <1>2, <1>5, <1>6, <1>7 DEF AbortStep

LEMMA JanitorObserved ==
  ASSUME IInv, IInv', NEW j \in Janitors, JanitorStep(j)
  PROVE  Observable
<1> TypeInv /\ DataInv /\ StepInv
  BY DEF IInv
<1>0. HeldKept /\ UNCHANGED madeBy
  BY NobodyMoves DEF JanitorStep, SweepStart, SweepReceipt, SweepClaim, SweepAbort, SweepDelete,
     SweepDeleteRow, SweepEnd, reqVars
<1>1. ASSUME Sweeping(j)
      PROVE  sweepCur[j] \in Sessions /\ Lost(sweepCur[j]) /\ status[sweepCur[j]] # "new"
  <2>1. sweepCur[j] \in Sessions
    BY <1>1 DEF Sweeping, TypeInv, SweepType
  <2>2. Lost(sweepCur[j])
    BY <1>1 DEF StepInv, SweepPastReturn, Lost, Taken, Over, Doomed
  <2> QED
    BY <2>1, <2>2, OverInserted DEF Lost
<1>2. ASSUME SweepStart(j) \/ SweepAbort(j) \/ SweepEnd(j) PROVE Observable
  <2>1. RowsKept /\ UNCHANGED object
    BY <1>0, <1>2 DEF SweepStart, SweepAbort, SweepEnd, rowVars, storeVars, RowsKept
  <2> QED
    BY <1>0, <2>1, StoreStep
<1>3. ASSUME NEW s \in Sessions, SweepReceipt(j, s) PROVE Observable
  <2>1. UNCHANGED object
    BY <1>3 DEF SweepReceipt, storeVars
  <2>2. CASE UNCHANGED rowVars
    BY <1>0, <2>1, <2>2, StoreStep DEF rowVars, RowsKept
  <2>3. CASE status[s] = "committed" /\ DeleteRow(s)
    BY <1>0, <2>1, <2>3, DeleteObserved
  <2> QED
    BY <1>3, <2>2, <2>3 DEF SweepReceipt
<1>4. ASSUME NEW s \in Sessions, SweepClaim(j, s) PROVE Observable
  <2>1. UNCHANGED <<object, status>>
    BY <1>4 DEF SweepClaim, ClaimRow, rowVars, storeVars
  <2>2. CASE UNCHANGED rowVars
    BY <1>0, <2>1, <2>2, StoreStep DEF rowVars, RowsKept
  <2>3. CASE status[s] = "pending" /\ opId' = [opId EXCEPT ![s] = JanitorOp]
    <3>1. /\ opId'[s] = JanitorOp /\ status'[s] = "pending"
          /\ \A t \in Sessions \ {s} : UNCHANGED <<status[t], opId[t]>>
      BY <2>1, <2>3 DEF TypeInv, RowInv, RowType
    <3>2. Over(s)'
      BY <3>1 DEF Over, Doomed, ClaimedBy
    <3>3. Phase(s) \in {"open", "discarded"} /\ Phase(s)' = "discarded"
      BY <2>3, <3>1, <3>2, PhaseByRow, PhaseByRowNext
    <3> QED
      BY <1>0, <2>1, <3>1, <3>3, RowStep DEF HeldKept
  <2> QED
    BY <1>4, <2>2, <2>3 DEF SweepClaim, Reclaimable, ClaimRow
<1>5. ASSUME SweepDelete(j) PROVE Observable
  <2>1. RowsKept /\ Sweeping(j)
    BY <1>0, <1>5 DEF SweepDelete, rowVars, RowsKept, Sweeping
  <2>2. sweepCur[j] \in Sessions /\ Phase(sweepCur[j]) = "discarded"
    BY <1>1, <2>1, LostDiscarded
  <2>3. UNCHANGED object \/ object' = [object EXCEPT ![sweepCur[j]] = "absent"]
    BY <1>5 DEF SweepDelete
  <2> QED
    BY <1>0, <2>1, <2>2, <2>3, StoreStep
<1>6. ASSUME SweepDeleteRow(j) PROVE Observable
  <2>1. UNCHANGED object /\ Sweeping(j)
    BY <1>6 DEF SweepDeleteRow, storeVars, Sweeping
  <2>2. CASE UNCHANGED rowVars
    BY <1>0, <2>1, <2>2, StoreStep DEF rowVars, RowsKept
  <2>3. CASE DeleteRow(sweepCur[j])
    BY <1>0, <1>1, <2>1, <2>3, DeleteObserved
  <2> QED
    BY <1>6, <2>2, <2>3 DEF SweepDeleteRow
<1> QED
  BY <1>2, <1>3, <1>4, <1>5, <1>6 DEF JanitorStep

-----------------------------------------------------------------------------
LEMMA InitRefines == Init => Outcome!Init
<1> SUFFICES ASSUME Init PROVE Outcome!Init
  OBVIOUS
<1>1. \A s \in Sessions : Phase(s) = "absent" /\ ~Stored(s)
  <2>1. status = [s \in Sessions |-> "new"] /\ object = [s \in Sessions |-> "absent"]
    BY DEF Init
  <2> QED
    BY <2>1 DEF Phase, Stored
<1>2. \A s \in Sessions : NodesOf(s) = {}
  <2>1. madeBy = [n \in NodeIds |-> NoSession]
    BY DEF Init
  <2> QED
    BY <2>1, SessionsAssumption DEF NodesOf
<1> QED
  BY <1>1, <1>2 DEF Outcome!Init, Stored

LEMMA NextRefines ==
  IInv /\ IInv' /\ NewUnclaimed /\ [Next]_vars => [Outcome!Next]_(Outcome!vars)
<1> SUFFICES ASSUME IInv, IInv', NewUnclaimed, [Next]_vars PROVE Observable
  BY DEF Observable
<1> TypeInv
  BY DEF IInv
<1>1. ASSUME NEW r \in Requests, Die(r) PROVE Observable
  <2>1. Alone(r) /\ ~InHand(r)'
    BY <1>1, DoneAlone DEF Die
  <2> QED
    BY <1>1, <2>1, LetGoObserved DEF Die, rowVars, storeVars
<1>2. ASSUME NEW s \in Sessions, Put(s) PROVE Observable
  <2>1. RowsKept /\ UNCHANGED reqVars
    BY <1>2 DEF Put, rowVars, RowsKept
  <2>2. UNCHANGED object \/ \E size \in Sizes : object' = [object EXCEPT ![s] = size]
    BY <1>2 DEF Put
  <2> QED
    BY <2>1, <2>2, NobodyMoves, StoreStep DEF reqVars
<1>3. ASSUME \/ UNCHANGED vars \/ Tick
             \/ \E s \in Sessions, o \in ClientOps : ReplayReceipt(s, o)
      PROVE  Observable
  <2>1. RowsKept /\ UNCHANGED <<object, pc, target, op>>
    BY <1>3 DEF vars, Tick, ReplayReceipt, rowVars, storeVars, reqVars, RowsKept
  <2> QED
    BY <2>1, NobodyMoves, StoreStep
<1> QED
  BY <1>1, <1>2, <1>3, InitObserved, LeaseObserved, CompleteObserved, AbortObserved,
     JanitorObserved DEF Next

\* Handlers, retries, crashes and sweeps implement the promise of UploadOutcome: a
\* session is decided once, and only a discarded one loses its object.
THEOREM Refinement == Spec => OutcomeSpec
<1> QED
  BY InitRefines, NextRefines, Inductive, NewStaysUnclaimed, PTL DEF Spec, OutcomeSpec, Outcome!Spec
=============================================================================
