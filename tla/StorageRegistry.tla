--------------------------- MODULE StorageRegistry ---------------------------
(***************************************************************************)
(* The storage registry of a server: the provider configuration in force   *)
(* and the stores built for it, the file storage.yaml it comes from, the   *)
(* watcher of that file and the administration requests that edit it.      *)
(*                                                                         *)
(* A reload reads what is in force, builds the stores that changed and     *)
(* swaps everything in; several may be under way at the same time, in      *)
(* requests and in the timers of the watcher.                              *)
(***************************************************************************)
EXTENDS Integers

CONSTANTS
  Alias,       \* provider aliases
  Connection,  \* what providerConfigEqual compares
  Unusable,    \* connections of types that the factory refuses
  Public,      \* public endpoints, which it does not compare
  Reloader,    \* administration requests and watcher timers
  MaxEdits     \* bound: edits of the file in a behaviour

ASSUME RegistryUnusable == Unusable \subseteq Connection
ASSUME RegistryEdits == MaxEdits \in Nat

VARIABLES
  conf,      \* the configuration in force
  store,     \* the configuration each store in force was built from
  disk,      \* storage.yaml
  armed,     \* whether the watcher has a timer that will fire
  reload,    \* what each request and timer is doing
  edits,     \* edits so far
  crossed    \* history: the file was written while another write or reload was under way

registryVars == <<conf, store, disk, armed, reload, edits, crossed>>

ProviderConfig == [conn : Connection, public : Public]
ProviderMap == UNION {[A -> ProviderConfig] : A \in (SUBSET Alias) \ {{}}}

\* StorageConfig.Validate: the default and every rule name a provider there is.
StorageConfig ==
  {c \in [providers : ProviderMap, default : Alias, rules : SUBSET Alias] :
     c.rules \cup {c.default} \subseteq DOMAIN c.providers}

\* A file that does not load: being written, or mixed up by two writers.
Torn == [torn |-> TRUE]

ReloadIdle == [step |-> "idle"]
ReloadState == [step : {"idle"}] \cup [step : {"edited", "saving", "saved"}, to : StorageConfig]
               \cup [step : {"built"}, to : StorageConfig, stores : ProviderMap]

ReloadAt(p, s) == reload[p].step = s
ReloadGoes(p, rec) == reload' = [reload EXCEPT ![p] = rec]

-----------------------------------------------------------------------------
(* Editing: each operation on a copy of the configuration in force. *)

WithProviders(c, A) == [c EXCEPT !.providers = [a \in A |-> c.providers[a]]]

Added(c) ==
  {[c EXCEPT !.providers = [x \in DOMAIN c.providers \cup {a} |-> IF x = a THEN f ELSE c.providers[x]]] :
     a \in Alias \ DOMAIN c.providers, f \in ProviderConfig}
Updated(c) == {[c EXCEPT !.providers[a] = f] : a \in DOMAIN c.providers, f \in ProviderConfig}
\* A Removed that also removes the default provider.
Removed_AnyProvider(c) ==
  {[WithProviders(c, DOMAIN c.providers \ {a}) EXCEPT !.rules = @ \ {a}] : a \in DOMAIN c.providers}

Removed(c) ==
  {[WithProviders(c, DOMAIN c.providers \ {a}) EXCEPT !.rules = @ \ {a}] :
     a \in DOMAIN c.providers \ {c.default}}
Redefaulted(c) == {[c EXCEPT !.default = a] : a \in DOMAIN c.providers}
Rerouted(c) == {[c EXCEPT !.rules = A] : A \in SUBSET DOMAIN c.providers}

Edited(c) == Added(c) \cup Updated(c) \cup Removed(c) \cup Redefaulted(c) \cup Rerouted(c)

\* A write of the file crosses those that write it or have it to apply.
Crosses(P) == crossed' = (crossed \/ \E p \in P : reload[p].step \in {"saving", "saved", "built"})

\* RawStorageConfig and the edit.
EditBegin(p, c) ==
  /\ ReloadAt(p, "idle")
  /\ edits < MaxEdits
  /\ c \in Edited(conf)
  /\ edits' = edits + 1
  /\ ReloadGoes(p, [step |-> "edited", to |-> c])
  /\ UNCHANGED <<conf, store, disk, armed, crossed>>

\* SaveStorageConfig truncates the file ...
EditTruncate(p) ==
  /\ ReloadAt(p, "edited")
  /\ disk' = Torn
  /\ armed' = TRUE
  /\ ReloadGoes(p, [reload[p] EXCEPT !.step = "saving"])
  /\ Crosses(Reloader \ {p})
  /\ UNCHANGED <<conf, store, edits>>

\* ... and writes it, over what another may have written since.
EditWrite(p) ==
  /\ ReloadAt(p, "saving")
  /\ disk' = reload[p].to \/ (disk # Torn /\ disk' = Torn)
  /\ armed' = TRUE
  /\ ReloadGoes(p, [reload[p] EXCEPT !.step = "saved"])
  /\ UNCHANGED <<conf, store, edits, crossed>>

\* An operator edits the file by hand.
ManualEdit ==
  /\ edits < MaxEdits
  /\ edits' = edits + 1
  /\ disk' \in Edited(conf) \cup {Torn}
  /\ armed' = TRUE
  /\ Crosses(Reloader)
  /\ UNCHANGED <<conf, store, reload>>

-----------------------------------------------------------------------------
(* Reload. *)

\* A SameProvider that keeps every store whose alias is known.
SameProvider_AnyChange(f, g) == TRUE

\* providerConfigEqual
SameProvider(f, g) == f.conn = g.conn

\* A store in force is kept if the configuration it is in force for did not
\* change; any other is built.
Kept(c) == {a \in DOMAIN c.providers \cap DOMAIN conf.providers :
              SameProvider(conf.providers[a], c.providers[a])}
Stores(c) == [a \in DOMAIN c.providers |-> IF a \in Kept(c) THEN store[a] ELSE c.providers[a]]
Refused(c) == \E a \in DOMAIN c.providers \ Kept(c) : c.providers[a].conn \in Unusable

\* The stores are built from a snapshot of what is in force; if the factory
\* refuses one, nothing changes.
Build(p, c) ==
  ReloadGoes(p, IF Refused(c) THEN ReloadIdle ELSE [step |-> "built", to |-> c, stores |-> Stores(c)])

EditBuild(p) ==
  /\ ReloadAt(p, "saved")
  /\ Build(p, reload[p].to)
  /\ UNCHANGED <<conf, store, disk, armed, edits, crossed>>

\* reloadFromFile, when the file has been quiet for a while: one that does not
\* load is ignored.
WatcherFires(p) ==
  /\ armed
  /\ ReloadAt(p, "idle")
  /\ armed' = FALSE
  /\ IF disk = Torn THEN UNCHANGED reload ELSE Build(p, disk)
  /\ UNCHANGED <<conf, store, disk, edits, crossed>>

Swap(p) ==
  /\ ReloadAt(p, "built")
  /\ conf' = reload[p].to
  /\ store' = reload[p].stores
  /\ ReloadGoes(p, ReloadIdle)
  /\ UNCHANGED <<disk, armed, edits, crossed>>

-----------------------------------------------------------------------------
\* The server has loaded the file.
RegistryStart ==
  /\ \E a \in Alias, f \in ProviderConfig :
       /\ f.conn \notin Unusable
       /\ conf = [providers |-> [x \in {a} |-> f], default |-> a, rules |-> {}]
  /\ store = conf.providers
  /\ disk = conf
  /\ armed = FALSE
  /\ reload = [p \in Reloader |-> ReloadIdle]
  /\ edits = 0
  /\ crossed = FALSE

RegistryNext ==
  \/ \E p \in Reloader :
       \/ \E c \in Edited(conf) : EditBegin(p, c)
       \/ EditTruncate(p)
       \/ EditWrite(p)
       \/ EditBuild(p)
       \/ WatcherFires(p)
       \/ Swap(p)
  \/ ManualEdit

RegistrySpec == RegistryStart /\ [][RegistryNext]_registryVars

-----------------------------------------------------------------------------
(* Properties. *)

RegistryTypeOK ==
  /\ conf \in StorageConfig
  /\ store \in ProviderMap
  /\ disk \in StorageConfig \cup {Torn}
  /\ armed \in BOOLEAN
  /\ reload \in [Reloader -> ReloadState]
  /\ edits \in 0 .. MaxEdits
  /\ crossed \in BOOLEAN

Usable(c) == \A a \in DOMAIN c.providers : c.providers[a].conn \notin Unusable

\* However reloads overlap, the stores in force are those of the configuration
\* in force, each built with the connection it names; and once everything is
\* quiet, a usable file is in force, unless writes of it crossed.
RegistrySound ==
  /\ DOMAIN store = DOMAIN conf.providers
  /\ \A a \in DOMAIN store : store[a].conn = conf.providers[a].conn
  /\ (~crossed /\ ~armed /\ (\A p \in Reloader : ReloadAt(p, "idle")) /\ disk # Torn /\ Usable(disk))
       => conf = disk
=============================================================================
