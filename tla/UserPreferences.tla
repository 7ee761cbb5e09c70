--------------------------- MODULE UserPreferences ---------------------------
(***************************************************************************)
(* The preferences of one user in one namespace, kept in step between      *)
(* devices by a revision: a device sends what it wants stored with the     *)
(* revision it started from.  Statements of one request and those of       *)
(* others interleave; a device may not get the answer to a commit.         *)
(***************************************************************************)
EXTENDS Integers

CONSTANTS
  Device,         \* devices of the user
  Value,          \* contents of the preferences
  NoValue,        \* no row
  MaxRevision     \* bound: revisions a behaviour reaches

ASSUME PreferenceNoValue == NoValue \notin Value
ASSUME PreferenceBound   == MaxRevision \in Nat

VARIABLES
  row,     \* the committed row, revision 0 if there is none
  base,    \* the version a device has seen last
  put,     \* the request of each device
  fresh    \* a row a transaction has written but not committed, and by whom

prefVars == <<row, base, put, fresh>>

Version0 == [rev |-> 0, val |-> NoValue]
PrefVersion == [rev : {0}, val : {NoValue}] \cup [rev : Nat \ {0}, val : Value]

PutIdle == [step |-> "idle"]
PutState == [step : {"idle"}] \cup [step : {"sent", "written", "stored"}, rev : Nat, val : Value, dry : BOOLEAN]

PutAt(d, s) == put[d].step = s
PutEnds(d) == put' = [put EXCEPT ![d] = PutIdle]
PutGoes(d, s) == put' = [put EXCEPT ![d].step = s]

NoWrite == [by |-> "nobody"]

-----------------------------------------------------------------------------
\* Get (or List): the device sees the committed row, or that there is none.
PrefGet(d) ==
  /\ PutAt(d, "idle")
  /\ base' = [base EXCEPT ![d] = row]
  /\ UNCHANGED <<row, put, fresh>>

\* Upsert: the device sends a value with the revision it has seen.
PrefSend(d, v, dry) ==
  /\ PutAt(d, "idle")
  /\ base[d].rev < MaxRevision
  /\ put' = [put EXCEPT ![d] = [step |-> "sent", rev |-> base[d].rev, val |-> v, dry |-> dry]]
  /\ UNCHANGED <<row, base, fresh>>

\* The row, or its key in the unique index, is locked by whoever wrote it.
RowFree == fresh = NoWrite

\* A PrefCreate that overwrites a row that is there.
PrefCreate_Upsert(d) ==
  /\ PutAt(d, "sent")
  /\ put[d].rev = 0
  /\ RowFree
  /\ fresh' = [by |-> d, to |-> [rev |-> 1, val |-> put[d].val]]
  /\ PutGoes(d, "written")
  /\ UNCHANGED <<row, base>>

\* Create if the device has seen no row: the insert conflicts with one that is
\* there.
PrefCreate(d) ==
  /\ PutAt(d, "sent")
  /\ put[d].rev = 0
  /\ RowFree
  /\ IF row.rev = 0
       THEN fresh' = [by |-> d, to |-> [rev |-> 1, val |-> put[d].val]] /\ PutGoes(d, "written")
       ELSE PutEnds(d) /\ UNCHANGED fresh
  /\ UNCHANGED <<row, base>>

\* UpdateByRevision if it has seen one: no row is updated if the revision is
\* another one now, which is a conflict too.
PrefUpdate(d) ==
  /\ PutAt(d, "sent")
  /\ put[d].rev > 0
  /\ RowFree
  /\ IF row.rev = put[d].rev
       THEN fresh' = [by |-> d, to |-> [rev |-> row.rev + 1, val |-> put[d].val]] /\ PutGoes(d, "written")
       ELSE PutEnds(d) /\ UNCHANGED fresh
  /\ UNCHANGED <<row, base>>

\* The transaction commits, and the device may see its answer.
PrefCommit(d) ==
  /\ PutAt(d, "written")
  /\ ~put[d].dry
  /\ row' = fresh.to
  /\ fresh' = NoWrite
  /\ PutGoes(d, "stored")
  /\ UNCHANGED base

\* The answer holds what was stored, which another device may have replaced.
\* A device that does not get it has seen nothing new.
PrefAnswer(d) ==
  /\ PutAt(d, "stored")
  /\ \/ base' = [base EXCEPT ![d] = [rev |-> put[d].rev + 1, val |-> put[d].val]]
     \/ UNCHANGED base
  /\ PutEnds(d)
  /\ UNCHANGED <<row, fresh>>

\* A dry run or an error: the transaction is rolled back.
PrefRollback(d) ==
  /\ put[d].step \in {"sent", "written"}
  /\ PutEnds(d)
  /\ fresh' = IF PutAt(d, "written") THEN NoWrite ELSE fresh
  /\ UNCHANGED <<row, base>>

-----------------------------------------------------------------------------
\* The row may be there; no device has seen it.
PrefStart ==
  /\ row \in {Version0} \cup [rev : {1}, val : Value]
  /\ base = [d \in Device |-> Version0]
  /\ put = [d \in Device |-> PutIdle]
  /\ fresh = NoWrite

PrefNext ==
  \E d \in Device :
    \/ PrefGet(d)
    \/ \E v \in Value, dry \in BOOLEAN : PrefSend(d, v, dry)
    \/ PrefCreate(d)
    \/ PrefUpdate(d)
    \/ PrefCommit(d)
    \/ PrefAnswer(d)
    \/ PrefRollback(d)

PrefSpec == PrefStart /\ [][PrefNext]_prefVars

-----------------------------------------------------------------------------
(* Properties. *)

PrefTypeOK ==
  /\ row \in PrefVersion
  /\ base \in [Device -> PrefVersion]
  /\ put \in [Device -> PutState]
  /\ fresh = NoWrite \/ fresh \in [by : Device, to : PrefVersion]

\* The version a device stored and waits to hear about.
Awaited(d) ==
  IF PutAt(d, "stored") THEN [rev |-> put[d].rev + 1, val |-> put[d].val]
  ELSE [rev |-> -1, val |-> NoValue]

Register == INSTANCE PreferenceRegister
              WITH current <- row, seen <- base, reply <- [d \in Device |-> Awaited(d)]

\* Whatever devices send at the same time, and whether
\* or not they get their answers, a device's preferences replace only the
\* version that it had seen: none is ever overwritten unseen.
PreferencesAreRegister == Register!RegisterSpec
=============================================================================
