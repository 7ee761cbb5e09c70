----------------------------- MODULE UploadClient -----------------------------
(***************************************************************************)
(* The command `of upload file`: the main goroutine opens a session, puts  *)
(* the parts in batches and completes; a signal goroutine cancels it and   *)
(* aborts the session.  The server is the abstract UploadOutcome.          *)
(***************************************************************************)
EXTENDS Naturals, FiniteSets

CONSTANTS
  PartCount,   \* number of parts of the file
  BatchSize,   \* presignBatchConcurrency
  NodeMade     \* the node that a completion makes

ASSUME UploadPartsAssumption == PartCount \in Nat \ {0} /\ BatchSize \in Nat \ {0}

Part == 1 .. PartCount

\* Requests that change the server's state, and what a caller sees of one.
UploadCall == {"init", "complete", "status", "abort"}
Seen == {"none", "ok", "refused", "unsure"}

VARIABLES
  upPhase, upStored, upNode,  \* the session at the server
  inFlight,    \* requests that the server may still handle
  seen,        \* what came back to the process, for each request
  partAt,      \* for each part: "todo", "sent", "done" or "failed"
  heldParts,   \* the parts that the store holds
  mainAt,      \* where the main goroutine is
  signalAt,    \* where the signal goroutine is
  interrupted, \* did a signal arrive
  onceBy,      \* the goroutine that entered abortOnce
  told         \* what the command reported

serverVars == <<upPhase, upStored, upNode>>
uploadVars == <<serverVars, inFlight, seen, partAt, heldParts, mainAt, signalAt, interrupted,
                onceBy, told>>

Server == INSTANCE UploadOutcome
            WITH Sessions <- {"session"}, NodeIds <- {NodeMade},
                 phase <- upPhase, stored <- upStored, node <- upNode

ThePhase == upPhase["session"]

MainPoint == {"start", "init", "batch", "put", "complete", "status", "abort", "end"}
SignalPoint == {"absent", "waiting", "cancelled", "abort", "gone"}

UploadClientTypeOK ==
  /\ ThePhase \in {"absent", "open", "committed", "discarded"}
  /\ inFlight \subseteq UploadCall
  /\ seen \in [UploadCall -> Seen]
  /\ partAt \in [Part -> {"todo", "sent", "done", "failed"}]
  /\ heldParts \subseteq Part
  /\ mainAt \in MainPoint /\ signalAt \in SignalPoint
  /\ interrupted \in BOOLEAN
  /\ onceBy \in {"nobody", "main", "signal"}
  /\ told \in {"nothing", "uploaded", "failed", "uncertain"}

UploadClientStart ==
  /\ Server!Init
  /\ inFlight = {} /\ seen = [q \in UploadCall |-> "none"]
  /\ partAt = [p \in Part |-> "todo"] /\ heldParts = {}
  /\ mainAt = "start" /\ signalAt = "absent" /\ interrupted = FALSE
  /\ onceBy = "nobody" /\ told = "nothing"

-----------------------------------------------------------------------------
\* A request is sent once; the answer that counts is the first one seen.
Ask(q) ==
  /\ inFlight' = inFlight \cup {q}
  /\ UNCHANGED seen

ComesBack(q, outcome) ==
  /\ inFlight' = inFlight \ {q}
  /\ seen' = IF seen[q] = "none" THEN [seen EXCEPT ![q] = outcome] ELSE seen

\* The process gives up waiting: the client's own deadline of 20 seconds, a
\* broken connection, or the cancelled context of the upload.  The request
\* may still be handled.
GiveUp(q) ==
  /\ seen[q] = "none"
  /\ mainAt # "end"
  /\ \/ q \in {"init", "complete", "status"} /\ mainAt = q
     \/ q = "abort" /\ onceBy # "nobody" /\ "abort" \in {mainAt, signalAt}
  /\ seen' = [seen EXCEPT ![q] = "unsure"]
  /\ UNCHANGED <<serverVars, inFlight, partAt, heldParts, mainAt, signalAt, interrupted,
                 onceBy, told>>

Cancelled == signalAt \in {"cancelled", "abort", "gone"}

Exit(result) ==
  /\ mainAt' = "end"
  /\ told' = result

\* The main goroutine, from here on.
SendInit ==
  /\ mainAt = "start"
  /\ mainAt' = "init"
  /\ Ask("init")
  /\ UNCHANGED <<serverVars, partAt, heldParts, signalAt, interrupted, onceBy, told>>

\* Only now is there anybody to hear a signal.
Opened ==
  /\ mainAt = "init" /\ seen["init"] = "ok"
  /\ mainAt' = "batch" /\ signalAt' = "waiting"
  /\ UNCHANGED <<serverVars, inFlight, seen, partAt, heldParts, interrupted, onceBy, told>>

NotOpened ==
  /\ mainAt = "init" /\ seen["init"] \in {"refused", "unsure"}
  /\ Exit("failed")
  /\ UNCHANGED <<serverVars, inFlight, seen, partAt, heldParts, signalAt, interrupted, onceBy>>

Waiting == {p \in Part : partAt[p] = "todo"}
NextBatch == {p \in Waiting : Cardinality({t \in Waiting : t < p}) < BatchSize}

\* URLs for a batch: asking for them renews the lease and changes nothing else,
\* and the server answers with a URL for every part or with an error.
SignBatch ==
  /\ mainAt = "batch" /\ Waiting # {} /\ ~Cancelled
  /\ mainAt' = "put"
  /\ partAt' = [p \in Part |-> IF p \in NextBatch THEN "sent" ELSE partAt[p]]
  /\ UNCHANGED <<serverVars, inFlight, seen, heldParts, signalAt, interrupted, onceBy, told>>

\* A client that leaves the session behind when it gets no URLs.
SignFails_NoAbort ==
  /\ mainAt = "batch" /\ Waiting # {}
  /\ Exit("failed")
  /\ UNCHANGED <<serverVars, inFlight, seen, partAt, heldParts, signalAt, interrupted, onceBy>>

\* The loop finds the context cancelled, or the URLs do not come.
SignFails ==
  /\ mainAt = "batch" /\ Waiting # {}
  /\ mainAt' = "abort"
  /\ UNCHANGED <<serverVars, inFlight, seen, partAt, heldParts, signalAt, interrupted, onceBy,
                 told>>

\* One goroutine per part of the batch; a part that failed may have arrived.
PutPart(p) ==
  /\ mainAt = "put" /\ partAt[p] = "sent"
  /\ \E outcome \in {"done", "failed"} :
       /\ partAt' = [partAt EXCEPT ![p] = outcome]
       /\ heldParts' \in IF outcome = "done" THEN {heldParts \cup {p}}
                         ELSE {heldParts, heldParts \cup {p}}
  /\ UNCHANGED <<serverVars, inFlight, seen, mainAt, signalAt, interrupted, onceBy, told>>

\* wg.Wait, then the first error if there is one.
BatchPut ==
  /\ mainAt = "put" /\ \A p \in Part : partAt[p] # "sent"
  /\ mainAt' = IF \E p \in Part : partAt[p] = "failed" THEN "abort" ELSE "batch"
  /\ UNCHANGED <<serverVars, inFlight, seen, partAt, heldParts, signalAt, interrupted, onceBy,
                 told>>

SendComplete ==
  /\ mainAt = "batch" /\ Waiting = {}
  /\ mainAt' = "complete"
  /\ IF Cancelled THEN /\ seen' = [seen EXCEPT !["complete"] = "unsure"]
                       /\ UNCHANGED inFlight
                  ELSE Ask("complete")
  /\ UNCHANGED <<serverVars, partAt, heldParts, signalAt, interrupted, onceBy, told>>

\* uploadCompletionOutcomeUncertain: anything but a definite refusal.
OutcomeUncertain(answer) == answer = "unsure"

Completed ==
  /\ mainAt = "complete" /\ seen["complete"] = "ok"
  /\ Exit("uploaded")
  /\ UNCHANGED <<serverVars, inFlight, seen, partAt, heldParts, signalAt, interrupted, onceBy>>

Reconcile ==
  /\ mainAt = "complete" /\ seen["complete"] # "none" /\ seen["complete"] # "ok"
  /\ OutcomeUncertain(seen["complete"])
  /\ mainAt' = "status"
  /\ Ask("status")
  /\ UNCHANGED <<serverVars, partAt, heldParts, signalAt, interrupted, onceBy, told>>

GivesUp ==
  /\ mainAt = "complete" /\ seen["complete"] # "none" /\ seen["complete"] # "ok"
  /\ ~OutcomeUncertain(seen["complete"])
  /\ mainAt' = "abort"
  /\ UNCHANGED <<serverVars, inFlight, seen, partAt, heldParts, signalAt, interrupted, onceBy,
                 told>>

\* Without a committed answer the command ends and leaves the session as it
\* is, whether or not the signal goroutine is still aborting it.
Reconciled ==
  /\ mainAt = "status" /\ seen["status"] # "none"
  /\ Exit(IF seen["status"] = "ok" THEN "uploaded" ELSE "uncertain")
  /\ UNCHANGED <<serverVars, inFlight, seen, partAt, heldParts, signalAt, interrupted, onceBy>>

\* abortOnce: the goroutine that enters sends the request, the other one waits.
EnterAbort(who) ==
  /\ onceBy = "nobody"
  /\ onceBy' = who
  /\ Ask("abort")

MainAborts ==
  /\ mainAt = "abort"
  /\ EnterAbort("main")
  /\ UNCHANGED <<serverVars, partAt, heldParts, mainAt, signalAt, interrupted, told>>

MainAborted ==
  /\ mainAt = "abort" /\ onceBy # "nobody" /\ seen["abort"] # "none"
  /\ Exit("failed")
  /\ UNCHANGED <<serverVars, inFlight, seen, partAt, heldParts, signalAt, interrupted, onceBy>>

\* The signal goroutine, as long as the process runs.
Interrupt ==
  /\ ~interrupted /\ mainAt # "end"
  /\ interrupted' = TRUE
  /\ UNCHANGED <<serverVars, inFlight, seen, partAt, heldParts, mainAt, signalAt, onceBy, told>>

SignalCancels ==
  /\ signalAt = "waiting" /\ interrupted /\ mainAt # "end"
  /\ signalAt' = "cancelled"
  /\ UNCHANGED <<serverVars, inFlight, seen, partAt, heldParts, mainAt, interrupted, onceBy,
                 told>>

SignalAborts ==
  /\ signalAt = "cancelled" /\ mainAt # "end"
  /\ \/ EnterAbort("signal") /\ signalAt' = "abort"
     \/ onceBy # "nobody" /\ signalAt' = "gone" /\ UNCHANGED <<onceBy, inFlight, seen>>
  /\ UNCHANGED <<serverVars, partAt, heldParts, mainAt, interrupted, told>>

-----------------------------------------------------------------------------
\* The server.  Any request may fail there before or after it took effect.
HandleInit ==
  /\ "init" \in inFlight
  /\ \/ Server!Open("session") /\ \E a \in {"ok", "unsure"} : ComesBack("init", a)
     \/ UNCHANGED serverVars /\ \E a \in {"refused", "unsure"} : ComesBack("init", a)
  /\ UNCHANGED <<partAt, heldParts, mainAt, signalAt, interrupted, onceBy, told>>

\* The object appears, of one PUT or assembled from the parts.
StoreObject ==
  /\ "complete" \in inFlight /\ ThePhase = "open" /\ heldParts = Part /\ ~upStored["session"]
  /\ Server!Store("session")
  /\ UNCHANGED <<inFlight, seen, partAt, heldParts, mainAt, signalAt, interrupted, onceBy, told>>

HandleComplete ==
  /\ "complete" \in inFlight
  /\ \/ /\ Server!Commit("session", NodeMade)
        /\ \E a \in {"ok", "unsure"} : ComesBack("complete", a)
     \/ UNCHANGED serverVars /\ \E a \in {"refused", "unsure"} : ComesBack("complete", a)
  /\ UNCHANGED <<partAt, heldParts, mainAt, signalAt, interrupted, onceBy, told>>

\* What is not committed is "unknown", since it may be on its way.
HandleStatus ==
  /\ "status" \in inFlight
  /\ \E a \in {"refused", "unsure"} \cup (IF ThePhase = "committed" THEN {"ok"} ELSE {}) :
       ComesBack("status", a)
  /\ UNCHANGED <<serverVars, partAt, heldParts, mainAt, signalAt, interrupted, onceBy, told>>

\* An abort of a committed session is answered like a successful one.
HandleAbort ==
  /\ "abort" \in inFlight
  /\ \/ Server!Discard("session") /\ \E a \in {"ok", "unsure"} : ComesBack("abort", a)
     \/ ThePhase = "committed" /\ UNCHANGED serverVars /\ ComesBack("abort", "ok")
     \/ UNCHANGED serverVars /\ \E a \in {"refused", "unsure"} : ComesBack("abort", a)
  /\ UNCHANGED <<partAt, heldParts, mainAt, signalAt, interrupted, onceBy, told>>

\* The janitor, hours later or under a client that sleeps.
LeaseEnds ==
  /\ ThePhase = "open" /\ Server!Discard("session")
  /\ UNCHANGED <<inFlight, seen, partAt, heldParts, mainAt, signalAt, interrupted, onceBy, told>>

UploadClientNext ==
  \/ SendInit \/ Opened \/ NotOpened \/ SignBatch \/ SignFails \/ BatchPut
  \/ \E p \in Part : PutPart(p)
  \/ SendComplete \/ Completed \/ Reconcile \/ GivesUp \/ Reconciled
  \/ MainAborts \/ MainAborted \/ Interrupt \/ SignalCancels \/ SignalAborts
  \/ \E q \in UploadCall : GiveUp(q)
  \/ HandleInit \/ StoreObject \/ HandleComplete \/ HandleStatus \/ HandleAbort \/ LeaseEnds

UploadClientSpec == UploadClientStart /\ [][UploadClientNext]_uploadVars

-----------------------------------------------------------------------------
\* What the command reports is true and stays true: a file reported as
\* uploaded has its node, a file reported as failed never gets one, and a
\* session known to a command that failed was aborted, unless the abort
\* itself got no good answer.  Only "uncertain" leaves both open.
ToldTheTruth ==
  /\ told = "uploaded" => ThePhase = "committed" /\ upNode["session"] = {NodeMade}
  /\ told = "failed" => ThePhase # "committed"
  /\ told = "failed" /\ seen["init"] = "ok" =>
       ThePhase = "discarded" \/ seen["abort"] \in {"refused", "unsure"}
=============================================================================
