----------------------------- MODULE FileMappings -----------------------------
(***************************************************************************)
(* The browser file mappings of one user: which site opens files with an   *)
(* extension (the sites are left out).  Creations and updates look for     *)
(* another mapping of the extension and then write, without a lock; what   *)
(* two of them do at the same time is decided by the index of the table.   *)
(***************************************************************************)
EXTENDS Naturals

CONSTANTS
  MappingCount,  \* ids are 1 .. MappingCount
  FileExt,       \* extensions, after normalizeBrowserFileExt
  MappingCall,   \* concurrent requests
  MaxMappingCalls

ASSUME MappingBounds == MappingCount \in Nat /\ MaxMappingCalls \in Nat

Mapping == 1 .. MappingCount

VARIABLES
  mapping,      \* id -> row
  mapCall,      \* request -> what it does
  mappingCalls  \* requests so far

mappingVars == <<mapping, mapCall, mappingCalls>>

MappingRow == [state : {"live", "deleted"}, ext : FileExt]
NoMapping == [state |-> "none"]
NoMapCall == [step |-> "idle", id |-> 0, row |-> NoMapping]

LiveMappings == {m \in Mapping : mapping[m].state = "live"}

\* The id of the next row.
FreeMappings ==
  {m \in Mapping : \A k \in Mapping : mapping[k] = NoMapping <=> k >= m}

FileMappingsTypeOK ==
  /\ mapping \in [Mapping -> MappingRow \cup {NoMapping}]
  /\ mapCall \in [MappingCall ->
       [step : {"idle", "check", "write"}, id : {0} \cup Mapping,
        row : MappingRow \cup {NoMapping}]]
  /\ mappingCalls \in 0 .. MaxMappingCalls

MappingStart ==
  /\ mapping = [m \in Mapping |-> NoMapping]
  /\ mapCall = [c \in MappingCall |-> NoMapCall]
  /\ mappingCalls = 0

-----------------------------------------------------------------------------
MappingBegins(c) ==
  /\ mapCall[c].step = "idle"
  /\ mappingCalls < MaxMappingCalls
  /\ mappingCalls' = mappingCalls + 1

MappingEnds(c) == mapCall' = [mapCall EXCEPT ![c] = NoMapCall] /\ UNCHANGED mappingCalls

\* Create; id 0 stands for a row that does not exist yet.
MappingCreate(c) ==
  /\ MappingBegins(c)
  /\ \E x \in FileExt :
       mapCall' = [mapCall EXCEPT ![c] =
         [step |-> "check", id |-> 0, row |-> [state |-> "live", ext |-> x]]]
  /\ UNCHANGED mapping

\* Update finds the row first.
MappingUpdate(c) ==
  /\ MappingBegins(c)
  /\ \E m \in LiveMappings, x \in FileExt :
       mapCall' = [mapCall EXCEPT ![c] =
         [step |-> "check", id |-> m, row |-> [state |-> "live", ext |-> x]]]
  /\ UNCHANGED mapping

\* ExistsFileExt: a conflict ends the call.
MappingCheck(c) ==
  LET taken == \E m \in LiveMappings \ {mapCall[c].id} : mapping[m].ext = mapCall[c].row.ext
  IN /\ mapCall[c].step = "check"
     /\ IF taken THEN MappingEnds(c)
        ELSE mapCall' = [mapCall EXCEPT ![c].step = "write"] /\ UNCHANGED mappingCalls
     /\ UNCHANGED mapping

\* A table without the index.
ExtFree_NoIndex(m, x) == TRUE

\* uq_browser_file_mappings_owner_ext_live lets row m have extension x.
ExtFree(m, x) == \A k \in LiveMappings \ {m} : mapping[k].ext # x

\* The row is written and the transaction commits.  It does not when the index
\* refuses it (a conflict), when it was deleted since (not found), when the
\* database fails, or on a dry run.
MappingWrite(c) ==
  LET id == mapCall[c].id
  IN /\ mapCall[c].step = "write"
     /\ \/ \E m \in IF id = 0 THEN FreeMappings ELSE {id} \cap LiveMappings :
             /\ ExtFree(m, mapCall[c].row.ext)
             /\ mapping' = [mapping EXCEPT ![m] = mapCall[c].row]
        \/ UNCHANGED mapping
     /\ MappingEnds(c)

\* Delete is one statement.
MappingDelete(c) ==
  /\ MappingBegins(c)
  /\ \E m \in LiveMappings : mapping' = [mapping EXCEPT ![m].state = "deleted"]
  /\ UNCHANGED mapCall

MappingNext ==
  \E c \in MappingCall :
    \/ MappingCreate(c) \/ MappingUpdate(c) \/ MappingCheck(c) \/ MappingWrite(c)
    \/ MappingDelete(c)

MappingSpec == MappingStart /\ [][MappingNext]_mappingVars

-----------------------------------------------------------------------------
\* An extension resolves to one mapping at most, also when two requests found
\* it free at the same time.
MappingsUnique ==
  \A m, k \in LiveMappings : mapping[m].ext = mapping[k].ext => m = k
=============================================================================
