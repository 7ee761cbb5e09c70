----------------------------- MODULE FileContent -----------------------------
(***************************************************************************)
(* The stored content of file nodes: its replacement in place, the copy of *)
(* files to new nodes, and a storage migration that moves it to another    *)
(* provider meanwhile.                                                     *)
(*                                                                         *)
(* The database binds a node to a storage row, and the row names the       *)
(* provider and the key of an object.  The object is written before the    *)
(* row and deleted after it, by calls that may fail on their own; the      *)
(* server may die between two of them, and may not learn whether a         *)
(* transaction was committed.                                              *)
(***************************************************************************)
EXTENDS Integers, FiniteSets

CONSTANTS
  ContentFile,  \* file nodes that exist from the start
  Request,      \* bound: calls made in a behaviour, each of them once
  First,        \* stands for the uploads that stored the initial content
  Moved,        \* stands for the migrations that move it
  Provider,     \* provider aliases
  Migrating     \* bound: files that are migrated

ASSUME ContentMakers == First # Moved /\ Request \cap {First, Moved} = {}

\* Every object key is fresh (a UUID): it is named by who makes it and the file
\* it is made for.  A node that is a copy is named the same way.
ObjectKey   == (Request \cup {First, Moved}) \X ContentFile
ContentNode == (Request \cup {First}) \X ContentFile
Object      == Provider \X ObjectKey

NewKey(r, n) == <<r, n[2]>>

\* No such node; a node without stored content; or the row it is bound to.  A
\* migration binds the node to a new row and soft-deletes the old one.
Binding == [row : {"none", "empty"}] \cup [row : {"first", "moved"}, at : Provider, key : ObjectKey]
Absent == [row |-> "none"]
Empty  == [row |-> "empty"]
HasContent(b) == b.row \in {"first", "moved"}
Located(b) == <<b.at, b.key>>

\* The state of a request.  A replacement keeps the binding its condition was
\* checked against (Absent: the client gave no condition).
IdleReq == [step : {"new", "over"}]
Replacing == [step : {"begun", "uploaded", "locked", "replaced", "undo"}, node : ContentNode,
              expect : Binding, at : Provider, read : Binding]
Copying == [step : {"copying", "uncopy"}, todo : SUBSET Object, made : SUBSET Object]

VARIABLES
  bind,     \* what each node is bound to
  object,   \* objects in the stores
  req,      \* the state of each request
  mig,      \* the migration of each node: the binding it copied, and its step
  excused   \* history: a fault left an object behind, or a migration met a call

contentVars == <<bind, object, req, mig, excused>>

Aliases(b) == IF HasContent(b) THEN {b.at} ELSE Provider

ReqAt(r, s) == req[r].step = s
OpenRequests == {r \in Request : req[r].step \notin {"new", "over"}}
ReqGoes(r, rec) == req' = [req EXCEPT ![r] = rec]
ReqEnds(r) == ReqGoes(r, [step |-> "over"])

-----------------------------------------------------------------------------
(* UpdateFileContent. *)

\* The node is read; a condition the client gave names the key it must have
\* (or that it has no content).  The object goes to the provider of the
\* content there is, or to one chosen for the first content.
ReplaceBegin(r, n, expect) ==
  /\ ReqAt(r, "new")
  /\ bind[n] # Absent
  /\ expect \in {Absent, bind[n]}
  /\ \E p \in Aliases(bind[n]) :
       ReqGoes(r, [step |-> "begun", node |-> n, expect |-> expect, at |-> p, read |-> Absent])
  /\ UNCHANGED <<bind, object, mig, excused>>

\* store.Upload under a new key; an error may leave the object behind.
ReplaceUpload(r) ==
  LET new == <<req[r].at, NewKey(r, req[r].node)>> IN
  /\ ReqAt(r, "begun")
  /\ \/ /\ object' = object \cup {new}
        /\ ReqGoes(r, [req[r] EXCEPT !.step = "uploaded"])
        /\ UNCHANGED excused
     \/ /\ object' \in {object, object \cup {new}}
        /\ excused' = (excused \/ object' # object)
        /\ ReqEnds(r)
  /\ UNCHANGED <<bind, mig>>

\* What is bound is what the condition names: nothing, or an object by its key.
SameContent(b, e) == HasContent(b) = HasContent(e) /\ (HasContent(b) => b.key = e.key)

\* An Expected without the check under the lock.
Expected_NotChecked(r, b) == TRUE
Expected(r, b) == req[r].expect = Absent \/ SameContent(b, req[r].expect)

\* ReplaceFileStorage locks the node, reads its binding and checks the
\* condition again.
ReplaceLock(r) ==
  /\ ReqAt(r, "uploaded")
  /\ \A s \in Request \ {r} : ~(ReqAt(s, "locked") /\ req[s].node = req[r].node)
  /\ LET b == bind[req[r].node] IN
     ReqGoes(r, [req[r] EXCEPT !.step = IF Expected(r, b) THEN "locked" ELSE "undo", !.read = b])
  /\ UNCHANGED <<bind, object, mig, excused>>

\* The row that was read gets the new object; no row is updated if it was
\* soft-deleted since.  A node without content gets its first row.
Rebound(r) ==
  LET n == req[r].node
      new(row) == [row |-> row, at |-> req[r].at, key |-> NewKey(r, n)]
  IN IF ~HasContent(req[r].read) THEN [bind EXCEPT ![n] = new("first")]
     ELSE IF bind[n].row = req[r].read.row THEN [bind EXCEPT ![n] = new(bind[n].row)]
     ELSE bind

\* A ReplaceCommit that takes an unknown outcome for a rollback.
ReplaceCommit_UnknownUndone(r) ==
  /\ ReqAt(r, "locked")
  /\ \/ bind' = Rebound(r) /\ ReqGoes(r, [req[r] EXCEPT !.step = "replaced"])
     \/ bind' \in {bind, Rebound(r)} /\ ReqGoes(r, [req[r] EXCEPT !.step = "undo"])
  /\ UNCHANGED <<object, mig, excused>>

\* The transaction commits, fails, or ends without the server knowing: then
\* the new object is kept.
ReplaceCommit(r) ==
  /\ ReqAt(r, "locked")
  /\ \/ bind' = Rebound(r) /\ ReqGoes(r, [req[r] EXCEPT !.step = "replaced"]) /\ UNCHANGED excused
     \/ UNCHANGED <<bind, excused>> /\ ReqGoes(r, [req[r] EXCEPT !.step = "undo"])
     \/ bind' \in {bind, Rebound(r)} /\ ReqEnds(r) /\ excused' = TRUE
  /\ UNCHANGED <<object, mig>>

\* A deletion whose error is ignored.
DeleteObject(o) ==
  \/ object' = object \ {o} /\ UNCHANGED excused
  \/ UNCHANGED object /\ excused' = TRUE

\* The replaced object is deleted from the store the new one went to, which is
\* not where it is when two calls chose providers for the first content.
ReplaceCleanup(r) ==
  /\ ReqAt(r, "replaced")
  /\ LET old == req[r].read IN
     IF HasContent(old) /\ old.at = req[r].at THEN DeleteObject(Located(old))
     ELSE UNCHANGED object /\ excused' = (excused \/ HasContent(old))
  /\ ReqEnds(r)
  /\ UNCHANGED <<bind, mig>>

\* The new object of a replacement that failed is deleted.
ReplaceUndo(r) ==
  /\ ReqAt(r, "undo")
  /\ DeleteObject(<<req[r].at, NewKey(r, req[r].node)>>)
  /\ ReqEnds(r)
  /\ UNCHANGED <<bind, mig>>

-----------------------------------------------------------------------------
(* Copy. *)

Original(f) == <<First, f>>

\* planNodeCopy: every file of the subtree has content, and its object is
\* there.  The transaction stays open, with the new nodes inserted in it.
CopyBegin(r, S) ==
  /\ ReqAt(r, "new")
  /\ S # {}
  /\ \A f \in S : HasContent(bind[Original(f)]) /\ Located(bind[Original(f)]) \in object
  /\ ReqGoes(r, [step |-> "copying", todo |-> {Located(bind[Original(f)]) : f \in S}, made |-> {}])
  /\ UNCHANGED <<bind, object, mig, excused>>

\* Where the request puts its copy of an object: at the same provider.
CopyOf(r, o) == <<o[1], NewKey(r, o[2])>>

\* An object is copied to its new key: it may be gone since the plan, and the
\* upload may fail and leave the copy behind.
CopyObject(r, o) ==
  /\ ReqAt(r, "copying")
  /\ o \in req[r].todo
  /\ \/ /\ o \in object
        /\ object' = object \cup {CopyOf(r, o)}
        /\ ReqGoes(r, [req[r] EXCEPT !.todo = @ \ {o}, !.made = @ \cup {CopyOf(r, o)}])
     \/ /\ object' \in {object, object \cup {CopyOf(r, o)}}
        /\ ReqGoes(r, [req[r] EXCEPT !.step = "uncopy", !.made = @ \cup {CopyOf(r, o)}])
  /\ UNCHANGED <<bind, mig, excused>>

\* The new nodes, bound to the copies.
Copied(r) ==
  [n \in ContentNode |-> IF \E o \in req[r].made : o[2] = n
                    THEN LET o == CHOOSE x \in req[r].made : x[2] = n
                         IN  [row |-> "first", at |-> o[1], key |-> o[2]]
                    ELSE bind[n]]

\* The transaction commits, or ends without the server knowing: then the
\* copies are kept.
CopyCommit(r) ==
  /\ ReqAt(r, "copying")
  /\ req[r].todo = {}
  /\ \/ bind' = Copied(r) /\ UNCHANGED excused
     \/ bind' \in {bind, Copied(r)} /\ excused' = TRUE
  /\ ReqEnds(r)
  /\ UNCHANGED <<object, mig>>

\* A CopyUndo that stops after the first object.
CopyUndo_First(r) ==
  /\ ReqAt(r, "uncopy")
  /\ \E o \in req[r].made : DeleteObject(o)
  /\ ReqEnds(r)
  /\ UNCHANGED <<bind, mig>>

\* cleanupNodeCopies, after the transaction was rolled back.
CopyUndo(r) ==
  /\ ReqAt(r, "uncopy")
  /\ \E o \in req[r].made :
       /\ DeleteObject(o)
       /\ IF req[r].made = {o} THEN ReqEnds(r) ELSE ReqGoes(r, [req[r] EXCEPT !.made = @ \ {o}])
  /\ UNCHANGED <<bind, mig>>

\* The server dies in the middle of a call: nothing uncommitted survives.
CrashRequest(r) ==
  /\ r \in OpenRequests
  /\ ReqEnds(r)
  /\ excused' = TRUE
  /\ UNCHANGED <<bind, object, mig>>

-----------------------------------------------------------------------------
(* A storage migration of a file (processItem), without its own failures. *)

Unmoved == [step |-> "idle"]
Moving  == [step : {"copied", "swapped"}, from : Object, to : Provider]

\* The object is copied to the target provider ...
MigrateCopy(n, p) ==
  /\ n \in {First} \X Migrating
  /\ mig[n].step = "idle"
  /\ bind[n].row = "first"
  /\ bind[n].at # p
  /\ Located(bind[n]) \in object
  /\ mig' = [mig EXCEPT ![n] = [step |-> "copied", from |-> Located(bind[n]), to |-> p]]
  /\ object' = object \cup {<<p, <<Moved, n[2]>>>>}
  /\ UNCHANGED <<bind, req, excused>>

\* ... the node is bound to a row for the copy, whatever its old row says now,
\* and the old row is soft-deleted ...
MigrateSwap(n) ==
  /\ mig[n].step = "copied"
  /\ bind' = [bind EXCEPT ![n] = [row |-> "moved", at |-> mig[n].to, key |-> <<Moved, n[2]>>]]
  /\ mig' = [mig EXCEPT ![n].step = "swapped"]
  /\ excused' = (excused \/ Located(bind[n]) # mig[n].from \/ \E r \in OpenRequests : ~ReqAt(r, "copying") /\ ~ReqAt(r, "uncopy") /\ req[r].node = n)
  /\ UNCHANGED <<object, req>>

\* ... and the object that was copied is deleted.
MigrateDelete(n) ==
  /\ mig[n].step = "swapped"
  /\ DeleteObject(mig[n].from)
  /\ mig' = [mig EXCEPT ![n] = Unmoved]
  /\ UNCHANGED <<bind, req>>

-----------------------------------------------------------------------------
\* The files that exist have content at some provider, or none yet.
ContentStart ==
  /\ \E stored \in SUBSET ContentFile, home \in [ContentFile -> Provider] :
       bind = [n \in ContentNode |-> IF n[1] # First THEN Absent
                              ELSE IF n[2] \notin stored THEN Empty
                              ELSE [row |-> "first", at |-> home[n[2]], key |-> n]]
  /\ object = {Located(bind[n]) : n \in {m \in ContentNode : HasContent(bind[m])}}
  /\ req = [r \in Request |-> [step |-> "new"]]
  /\ mig = [n \in ContentNode |-> Unmoved]
  /\ excused = FALSE

ContentNext ==
  \/ \E r \in Request :
       \/ \E n \in ContentNode : ReplaceBegin(r, n, Absent) \/ ReplaceBegin(r, n, bind[n])
       \/ ReplaceUpload(r)
       \/ ReplaceLock(r)
       \/ ReplaceCommit(r)
       \/ ReplaceCleanup(r)
       \/ ReplaceUndo(r)
       \/ \E S \in SUBSET ContentFile : CopyBegin(r, S)
       \/ \E o \in Object : CopyObject(r, o)
       \/ CopyCommit(r)
       \/ CopyUndo(r)
       \/ CrashRequest(r)
  \/ \E n \in ContentNode :
       \/ \E p \in Provider : MigrateCopy(n, p)
       \/ MigrateSwap(n)
       \/ MigrateDelete(n)

ContentSpec == ContentStart /\ [][ContentNext]_contentVars

-----------------------------------------------------------------------------
(* Properties. *)

ContentTypeOK ==
  /\ bind \in [ContentNode -> Binding]
  /\ object \subseteq Object
  /\ req \in [Request -> IdleReq \cup Replacing \cup Copying]
  /\ mig \in [ContentNode -> {Unmoved} \cup Moving]
  /\ excused \in BOOLEAN

\* Whatever replacements, copies and migrations overlap, fail half-way or lose
\* the outcome of a commit, the object a node is bound to is in its store.
BoundObjectExists == \A n \in ContentNode : HasContent(bind[n]) => Located(bind[n]) \in object

\* A replacement that names the content it was made from never overwrites
\* other content, however many are under way.
NoUnseenContentOverwritten ==
  [][\A r \in Request, n \in ContentNode :
       (/\ ReqAt(r, "locked") /\ req[r].node = n /\ req[r].expect # Absent
        /\ bind'[n] # bind[n]
        /\ HasContent(bind'[n]) /\ bind'[n].key = NewKey(r, n))
       => SameContent(bind[n], req[r].expect)]_contentVars

\* When no call and no migration is under way, no fault was met and no
\* migration crossed a call, the stores hold exactly the objects that nodes
\* are bound to: every replaced, failed or copied object was accounted for.
NothingLeaks ==
  (OpenRequests = {} /\ ~excused /\ \A n \in ContentNode : mig[n] = Unmoved) =>
    object = {Located(bind[n]) : n \in {m \in ContentNode : HasContent(bind[m])}}
=============================================================================
