------------------------------- MODULE Tagging -------------------------------
(***************************************************************************)
(* The tags of one owner and the tags of one node.  A tag that is saved is *)
(* checked for duplicates under transaction-scoped advisory locks on its   *)
(* name and its target.  The node's tags are rows of node_tag_rel, and its *)
(* metadata repeats them as tagIds; both are written by a tag delta and by *)
(* a metadata update, and the metadata alone by the warm-up of archives,   *)
(* which writes back what it read before.                                  *)
(*                                                                         *)
(* A tag name stands for the name with its scope, dimension and type.      *)
(***************************************************************************)
EXTENDS Integers

CONSTANTS
  TagCount,      \* bound: rows of the table tags ever created
  TagName,
  TagTarget,     \* target keys
  NoTarget,      \* no target key
  TagCall,       \* requests in progress at the same time
  MaxTagCalls    \* bound: requests made in a behaviour

ASSUME TagNoTarget == NoTarget \notin TagTarget
ASSUME TagBound == MaxTagCalls \in Nat /\ TagCount \in Nat

Tag == 1 .. TagCount

VARIABLES
  tag,        \* the committed rows
  rel,        \* the tags of the node in node_tag_rel
  meta,       \* tagIds of its view_meta, if there is such a field
  tagging,    \* what each request is doing
  tagCalls,   \* requests made so far
  staleMeta   \* history: a warm-up put metadata back that had been replaced

taggingVars == <<tag, rel, meta, tagging, tagCalls, staleMeta>>

\* A row: binds tells whether the tag is enabled and one of its bind policies
\* names a target kind of the node.
TagRow == [st : {"live", "deleted"}, name : TagName, target : TagTarget \cup {NoTarget},
           binds : BOOLEAN]
NoTag == [st |-> "free"]

NoIds == [has |-> FALSE]
TagIds == [has : {FALSE}] \cup [has : {TRUE}, ids : SUBSET Tag]
Ids(S) == [has |-> TRUE, ids |-> S]

TagIdle == [step |-> "idle"]
TaggingState == [step : {"idle"}] \cup [step : {"save"}, id : Tag, to : TagRow]
                \cup [step : {"delta"}, add : SUBSET Tag, remove : SUBSET Tag]
                \cup [step : {"deltaChecked"}, add : SUBSET Tag, remove : SUBSET Tag, ids : SUBSET Tag]
                \cup [step : {"meta", "metaChecked", "warm"}, ids : TagIds]

TagAt(c, s) == tagging[c].step = s
TagGoes(c, rec) == tagging' = [tagging EXCEPT ![c] = rec] /\ UNCHANGED <<tagCalls, staleMeta>>
TagEnds(c) == tagging' = [tagging EXCEPT ![c] = TagIdle] /\ UNCHANGED tagCalls
TagBegins(c, rec) ==
  /\ TagAt(c, "idle")
  /\ tagCalls < MaxTagCalls
  /\ tagCalls' = tagCalls + 1
  /\ tagging' = [tagging EXCEPT ![c] = rec]
  /\ UNCHANGED <<tag, rel, meta, staleMeta>>

LiveTags == {t \in Tag : tag[t].st = "live"}
UsedTags == {t \in Tag : tag[t].st # "free"}

\* ensureBindableTags
Bindable == {t \in LiveTags : tag[t].binds}

-----------------------------------------------------------------------------
(* Saving and deleting tags. *)

SameTarget(r, s) == r.target = s.target /\ r.target # NoTarget

\* LockScopes: nobody else holds the lock of that name or of that target.
ScopesFree(c, r) ==
  \A d \in TagCall \ {c} :
    TagAt(d, "save") => tagging[d].to.name # r.name /\ ~SameTarget(tagging[d].to, r)

\* uq_tags_scope_name_live
IndexAllows(t, r) ==
  \A u \in LiveTags \ {t} : tag[u].name # r.name \/ tag[u].target # r.target

\* Ids nobody has or is about to get: the sequence hands out the smallest.
FreeTags == {t \in Tag \ UsedTags : \A d \in TagCall : TagAt(d, "save") => tagging[d].id # t}

\* Create of the next row or Update of a live one: the locks, then the checks
\* for the name and for the target.
TagSave(c, t, r) ==
  /\ t \in LiveTags \/ (t \in FreeTags /\ \A u \in FreeTags : t <= u)
  /\ ScopesFree(c, r)
  /\ \A u \in LiveTags \ {t} : tag[u].name # r.name /\ ~SameTarget(tag[u], r)
  /\ TagBegins(c, [step |-> "save", id |-> t, to |-> r])

\* A ShareLocked without the share locks of a delta.
ShareLocked_Never(t) == FALSE

\* The rows a tag delta has share locks on.
ShareLocked(t) == \E d \in TagCall : TagAt(d, "deltaChecked") /\ t \in tagging[d].add \cup tagging[d].remove

\* The row and its bind policies are written, and the transaction commits.
TagSaveWrite(c) ==
  /\ TagAt(c, "save")
  /\ LET t == tagging[c].id IN
       /\ tag[t].st # "deleted"
       /\ ~ShareLocked(t)
       /\ IndexAllows(t, tagging[c].to)
       /\ tag' = [tag EXCEPT ![t] = tagging[c].to]
  /\ TagEnds(c)
  /\ UNCHANGED <<rel, meta, staleMeta>>

TagDelete(t) ==
  /\ t \in LiveTags
  /\ ~ShareLocked(t)
  /\ tag' = [tag EXCEPT ![t].st = "deleted"]
  /\ UNCHANGED <<rel, meta, tagging, tagCalls, staleMeta>>

-----------------------------------------------------------------------------
(* The tags of the node. *)

\* Whoever updates the row of the node holds its lock until the commit.
NodeFree == \A d \in TagCall : tagging[d].step \notin {"delta", "deltaChecked", "meta", "metaChecked"}

\* A TagDelta that does not lock the node.
TagDelta_NoLock(c, add, remove) ==
  /\ add \cap remove = {}
  /\ add \cup remove # {}
  /\ TagBegins(c, [step |-> "delta", add |-> add, remove |-> remove])

\* ApplyNodeTagDelta locks the node ...
TagDelta(c, add, remove) ==
  /\ add \cap remove = {}
  /\ add \cup remove # {}
  /\ NodeFree
  /\ TagBegins(c, [step |-> "delta", add |-> add, remove |-> remove])

\* ... and share-locks the tags, deleted ones included; those to add must be
\* bindable.  The ids for the metadata are what the relation will hold.
TagDeltaCheck(c) ==
  LET call == tagging[c] IN
  /\ TagAt(c, "delta")
  /\ call.add \cup call.remove \subseteq UsedTags
  /\ call.add \subseteq Bindable
  /\ TagGoes(c, [step |-> "deltaChecked", add |-> call.add, remove |-> call.remove,
                 ids |-> (rel \ call.remove) \cup call.add])
  /\ UNCHANGED <<tag, rel, meta>>

TagDeltaCommit(c) ==
  /\ TagAt(c, "deltaChecked")
  /\ rel' = (rel \ tagging[c].remove) \cup tagging[c].add
  /\ meta' = Ids(tagging[c].ids)
  /\ TagEnds(c)
  /\ UNCHANGED <<tag, staleMeta>>

\* Update with new metadata writes the row of the node ...
MetaUpdate(c, ids) ==
  /\ NodeFree
  /\ TagBegins(c, [step |-> "meta", ids |-> ids])

\* ... checks the tags that the metadata names, without a lock ...
MetaCheck(c) ==
  /\ TagAt(c, "meta")
  /\ tagging[c].ids.has => tagging[c].ids.ids \subseteq Bindable
  /\ TagGoes(c, [tagging[c] EXCEPT !.step = "metaChecked"])
  /\ UNCHANGED <<tag, rel, meta>>

\* ... and makes them the tags of the node.
MetaCommit(c) ==
  /\ TagAt(c, "metaChecked")
  /\ meta' = tagging[c].ids
  /\ rel' = IF meta'.has THEN meta'.ids ELSE rel
  /\ TagEnds(c)
  /\ UNCHANGED <<tag, staleMeta>>

\* The warm-up of an archive has the metadata from a listing and writes it
\* back with a cover or a duration added, up to minutes later.
WarmupRead(c) == TagBegins(c, [step |-> "warm", ids |-> meta])

WarmupWrite(c) ==
  /\ TagAt(c, "warm")
  /\ NodeFree
  /\ meta' = tagging[c].ids
  /\ staleMeta' = (staleMeta \/ meta' # meta)
  /\ TagEnds(c)
  /\ UNCHANGED <<tag, rel>>

\* An error, a violated index or a dry run: the transaction is rolled back.
TagAbandon(c) ==
  /\ ~TagAt(c, "idle")
  /\ TagEnds(c)
  /\ UNCHANGED <<tag, rel, meta, staleMeta>>

-----------------------------------------------------------------------------
NewRow == {r \in TagRow : r.st = "live"}

\* The owner may have tags; the node has none.
TaggingStart ==
  /\ tag \in [Tag -> {NoTag} \cup NewRow]
  /\ \A t, u \in LiveTags : t # u => tag[t].name # tag[u].name /\ ~SameTarget(tag[t], tag[u])
  /\ rel = {}
  /\ meta = NoIds
  /\ tagging = [c \in TagCall |-> TagIdle]
  /\ tagCalls = 0
  /\ staleMeta = FALSE

TaggingNext ==
  \/ \E c \in TagCall :
       \/ \E t \in Tag, r \in NewRow : TagSave(c, t, r)
       \/ TagSaveWrite(c)
       \/ \E add, remove \in SUBSET Tag : TagDelta(c, add, remove)
       \/ TagDeltaCheck(c)
       \/ TagDeltaCommit(c)
       \/ \E ids \in TagIds : MetaUpdate(c, ids)
       \/ MetaCheck(c)
       \/ MetaCommit(c)
       \/ WarmupRead(c)
       \/ WarmupWrite(c)
       \/ TagAbandon(c)
  \/ \E t \in Tag : TagDelete(t)

TaggingSpec == TaggingStart /\ [][TaggingNext]_taggingVars

-----------------------------------------------------------------------------
(* Properties. *)

TaggingTypeOK ==
  /\ tag \in [Tag -> TagRow \cup {NoTag}]
  /\ rel \in SUBSET Tag
  /\ meta \in TagIds
  /\ tagging \in [TagCall -> TaggingState]
  /\ tagCalls \in 0 .. MaxTagCalls
  /\ staleMeta \in BOOLEAN

\* No two tags of an owner share a name or a target, whoever saves tags at
\* the same time: the index of the table alone allows both.
TagsUnique ==
  \A t, u \in LiveTags : t # u => tag[t].name # tag[u].name /\ ~SameTarget(tag[t], tag[u])

\* The tags in the metadata of a node are those of node_tag_rel, whatever
\* deltas and metadata updates overlap, until a warm-up puts old ones back.
MetaAgrees == (~staleMeta /\ meta.has) => meta.ids = rel

\* A tag delta binds only tags that are live, enabled and meant for the node
\* when it commits, even if they are edited or deleted at the same time.
DeltaBindsBindable ==
  [][\A c \in TagCall : TagAt(c, "deltaChecked") /\ ~TagAt(c, "deltaChecked")' =>
       rel' \ rel \subseteq Bindable]_taggingVars
=============================================================================
