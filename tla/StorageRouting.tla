---------------------------- MODULE StorageRouting ----------------------------
(***************************************************************************)
(* How a file comes to its storage provider and back: which provider a     *)
(* name stands for, what a routing rule picks, what is recorded with the   *)
(* file, and where it is looked for later.                                 *)
(*                                                                         *)
(* A provider is found by its alias, else by another spelling of it, else  *)
(* by its type if it is the only one of that type.  A request asks more    *)
(* than once, and the configuration may be reloaded in between.  Requests  *)
(* share nothing else: one of them is followed.  A reload is one step, as  *)
(* StorageRegistry shows that it takes effect at once.                     *)
(***************************************************************************)
EXTENDS FiniteSets

CONSTANTS
  RoutedAlias,  \* aliases of providers
  AskedName,    \* names providers are asked for: aliases, their spellings, types
  Folded,       \* the name in lower case
  Place,        \* what a provider connects to
  PlaceType     \* the type of a provider, in lower case, by what it connects to

ASSUME RoutingAliases == RoutedAlias \subseteq AskedName /\ IsFiniteSet(RoutedAlias)
ASSUME RoutingFolds == DOMAIN Folded = AskedName
ASSUME RoutingTypes == DOMAIN PlaceType = Place

VARIABLES
  inForce,   \* the providers in force: what each alias connects to
  placing    \* the file that is followed

routingVars == <<inForce, placing>>

ProviderTable == UNION {[A -> Place] : A \in (SUBSET RoutedAlias) \ {{}}}

Unplaced == [step |-> "unplaced"]
PlacingState ==
  {Unplaced}
  \cup [step : {"routed"}, name : RoutedAlias, for : {"session", "content"}, via : {"rule", "name"}]
  \cup [step : {"found"}, name : AskedName, home : RoutedAlias, place : Place, calm : BOOLEAN]
  \cup [step : {"session"}, name : AskedName, via : {"rule", "name"}, put : SUBSET Place]
  \cup [step : {"stored"}, name : AskedName, via : {"rule", "name", "content"},
        home : RoutedAlias, place : Place, kept : BOOLEAN]

-----------------------------------------------------------------------------
(* Looking up a provider. *)

\* The alias a name stands for, if any.  Which of several spellings comes first
\* does not matter, only that it is always the same.
LookUp(table, n) ==
  LET spelled == {a \in DOMAIN table : Folded[a] = Folded[n]}
      typed   == {a \in DOMAIN table : PlaceType[table[a]] = Folded[n]}
  IN IF n \in DOMAIN table THEN {n}
     ELSE IF spelled # {} THEN {CHOOSE a \in spelled : TRUE}
     ELSE IF Cardinality(typed) = 1 THEN typed ELSE {}

\* Get returns the store, ProviderConfigByAlias the alias: there is one store for
\* each configured alias.
ProviderGet(n) == LookUp(inForce, n)
ProviderConfigByAlias(n) == LookUp(inForce, n)

FileGoes(rec) == placing' = rec /\ UNCHANGED inForce

\* The file is now at the provider a, which n led to just now; n is recorded.
StoredAt(a, n, via) ==
  FileGoes([step |-> "stored", name |-> n, via |-> via, home |-> a, place |-> inForce[a], kept |-> TRUE])

-----------------------------------------------------------------------------
(* Resolve: a rule is picked, then its provider is looked up. *)

\* A valid configuration names providers it has in its rules and as its default;
\* which of them it is for this file is left open.
MatchRoutingRules == DOMAIN inForce

Route(for) ==
  /\ placing = Unplaced
  /\ \E a \in MatchRoutingRules :
       FileGoes([step |-> "routed", name |-> a, for |-> for, via |-> "rule"])

\* A provider that is no longer found refuses the request.
RouteGet ==
  /\ placing.step = "routed"
  /\ \/ ProviderGet(placing.name) = {} /\ FileGoes(Unplaced)
     \/ \E a \in ProviderGet(placing.name) :
          IF placing.for = "content"
          THEN StoredAt(a, placing.name, placing.via)
          ELSE FileGoes([step |-> "session", name |-> placing.name, via |-> placing.via, put |-> {}])

-----------------------------------------------------------------------------
(* Upload sessions and migrations record the name as it was asked for, and *)
(* look the store up again each time they use it.                          *)

\* resolveProvider with a provider the client names; also a migration's target.
SessionAsks(n) ==
  /\ placing = Unplaced
  /\ ProviderGet(n) # {}
  /\ FileGoes([step |-> "session", name |-> n, via |-> "name", put |-> {}])

SessionPut ==
  /\ placing.step = "session"
  /\ \E a \in ProviderGet(placing.name) :
       FileGoes([placing EXCEPT !.put = @ \cup {inForce[a]}])

\* Complete finds the object where the name leads now, or fails.
SessionComplete ==
  /\ placing.step = "session"
  /\ \E a \in ProviderGet(placing.name) :
       /\ inForce[a] \in placing.put
       /\ StoredAt(a, placing.name, placing.via)

-----------------------------------------------------------------------------
(* UpdateFileContent of a file that has no content yet, and of one that has. *)

ContentAsks(n) ==
  /\ placing = Unplaced
  /\ \E a \in ProviderGet(n) :
       FileGoes([step |-> "found", name |-> n, home |-> a, place |-> inForce[a], calm |-> TRUE])

\* The alias to record, or the name itself if there is none.
CanonicalName(n) ==
  IF ProviderConfigByAlias(n) = {} THEN n ELSE CHOOSE a \in ProviderConfigByAlias(n) : TRUE

\* The store found before is written to, whatever is in force now.
ContentFirst ==
  /\ placing.step = "found"
  /\ FileGoes([step |-> "stored", name |-> CanonicalName(placing.name), via |-> "content",
           home |-> placing.home, place |-> placing.place, kept |-> placing.calm])

\* Later content goes where the recorded name leads, and the name stays.
ContentAgain ==
  /\ placing.step = "stored"
  /\ \E a \in ProviderGet(placing.name) : StoredAt(a, placing.name, "name")

\* A file that is deleted, or a request that failed.
Forgotten ==
  /\ placing # Unplaced
  /\ FileGoes(Unplaced)

-----------------------------------------------------------------------------
\* Any valid configuration may come into force.  A rule that was picked before is
\* then a mere name, what was found before is old, and a stored file is kept if its
\* provider is still what it was.
Reloaded(table) ==
  /\ inForce' = table
  /\ \/ placing = Unplaced /\ UNCHANGED placing
     \/ /\ placing.step \in {"routed", "session"}
        /\ placing' = [placing EXCEPT !.via = "name"]
     \/ /\ placing.step = "found"
        /\ placing' = [placing EXCEPT !.calm = FALSE]
     \/ /\ placing.step = "stored"
        /\ placing' = IF placing.home \in DOMAIN table /\ table[placing.home] = placing.place
                      THEN placing ELSE [placing EXCEPT !.kept = FALSE]

RoutingStart ==
  /\ inForce \in ProviderTable
  /\ placing = Unplaced

RoutingNext ==
  \/ \E for \in {"session", "content"} : Route(for)
  \/ RouteGet
  \/ \E n \in AskedName : SessionAsks(n)
  \/ SessionPut
  \/ SessionComplete
  \/ \E n \in AskedName : ContentAsks(n)
  \/ ContentFirst
  \/ ContentAgain
  \/ Forgotten
  \/ \E table \in ProviderTable : Reloaded(table)

RoutingSpec == RoutingStart /\ [][RoutingNext]_routingVars

-----------------------------------------------------------------------------
(* Properties. *)

RoutingTypeOK ==
  /\ inForce \in ProviderTable
  /\ placing \in PlacingState

\* A stored file is found where it was written for as long as its provider stays
\* configured, whatever other providers come and go, if a rule picked the provider
\* or the file got its first content there, or else if the name recorded with it
\* is an alias.  A reload between the two lookups of a request is excluded.
FoundWhereWritten ==
  (placing.step = "stored" /\ placing.kept
     /\ (placing.via \in {"rule", "content"} \/ placing.name = placing.home))
  => ProviderGet(placing.name) = {placing.home}
=============================================================================
