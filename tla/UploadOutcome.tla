--------------------------- MODULE UploadOutcome ---------------------------
(***************************************************************************)
(* What direct upload promises about one upload session, whatever requests *)
(* are repeated, lost or cut short: a session is decided once, either as   *)
(* one node whose object is never taken away, or as discarded, and only a  *)
(* discarded session's object may be removed.                              *)
(***************************************************************************)
CONSTANTS Sessions, NodeIds

VARIABLES
  phase,   \* "absent", "open", "committed" or "discarded"
  stored,  \* is there an object under the session's key
  node     \* the nodes that were made for the session

vars == <<phase, stored, node>>

Init ==
  /\ phase = [s \in Sessions |-> "absent"]
  /\ stored = [s \in Sessions |-> FALSE]
  /\ node = [s \in Sessions |-> {}]

Open(s) ==
  /\ phase[s] = "absent"
  /\ phase' = [phase EXCEPT ![s] = "open"]
  /\ UNCHANGED <<stored, node>>

\* Clients hold upload URLs, so an object may appear at any time.
Store(s) ==
  /\ stored' = [stored EXCEPT ![s] = TRUE]
  /\ UNCHANGED <<phase, node>>

Commit(s, n) ==
  /\ phase[s] = "open" /\ stored[s]
  /\ \A t \in Sessions : n \notin node[t]
  /\ phase' = [phase EXCEPT ![s] = "committed"]
  /\ node' = [node EXCEPT ![s] = {n}]
  /\ UNCHANGED stored

Discard(s) ==
  /\ phase[s] = "open"
  /\ phase' = [phase EXCEPT ![s] = "discarded"]
  /\ UNCHANGED <<stored, node>>

Remove(s) ==
  /\ phase[s] = "discarded"
  /\ stored' = [stored EXCEPT ![s] = FALSE]
  /\ UNCHANGED <<phase, node>>

Next ==
  \E s \in Sessions :
    \/ Open(s) \/ Store(s) \/ Discard(s) \/ Remove(s)
    \/ \E n \in NodeIds : Commit(s, n)

Spec == Init /\ [][Next]_vars
=============================================================================
