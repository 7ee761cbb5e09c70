---------------------------- MODULE StorageProofs -----------------------------
(***************************************************************************)
(* No row is bound to an object that is gone, no unseen content is         *)
(* overwritten and nothing leaks: files and avatars, for every set of      *)
(* files, requests, providers and uploads.                                 *)
(*                                                                         *)
(* A file is found where it was written, whatever names, types and places  *)
(* the providers have and however often the configuration is reloaded, and *)
(* the stores in force are those the configuration describes.              *)
(***************************************************************************)
EXTENDS FileContent, UserAvatar, StorageRouting, StorageRegistry, FiniteSetTheorems, TLAPS

-----------------------------------------------------------------------------
(* Files.                                                                  *)

\* Files and requests of the model, and what a fault has not touched.
Pending(r) == req[r].step \notin {"replaced", "over"}
Holding(r) == req[r].step \in {"locked", "replaced"}

\* The keys the server may act on for a node: the one it is bound to, those that
\* replacements have read under its lock, and the one a migration copied from.
Known(n, k) ==
  \/ HasContent(bind[n]) /\ bind[n].key = k
  \/ \E r \in Request :
       Holding(r) /\ req[r].node = n /\ HasContent(req[r].read) /\ req[r].read.key = k
  \/ mig[n].step # "idle" /\ mig[n].from[2] = k

\* A key is known for one node only, one of its file; only a node that was
\* moved knows a key of the migration; and nobody knows the key of a request that
\* has not committed, nor is there any copy it made.
KeysOwned ==
  /\ \A n \in ContentNode, k \in ObjectKey : Known(n, k) =>
       k[2] = n[2] /\ (k[1] = Moved => n[1] = First /\ bind[n].row = "moved")
  /\ \A n, m \in ContentNode, k \in ObjectKey : Known(n, k) /\ Known(m, k) => n = m
KeysFresh ==
  \A r \in Request : Pending(r) =>
    /\ \A f \in ContentFile : bind[<<r, f>>] = Absent
    /\ \A n \in ContentNode, k \in ObjectKey : Known(n, k) => k[1] # r

\* The key of a first row is none of the migration.
FirstRow(b) == b.row = "first" => b.key[1] # Moved

\* What a replacement has read under the lock is what its node is bound to, until
\* a migration has moved it.
LockHolds(r) ==
  LET n == req[r].node IN
  /\ req[r].expect = Absent \/ SameContent(req[r].read, req[r].expect)
  /\ FirstRow(req[r].read)
  /\ \/ bind[n] = req[r].read
     \/ req[r].read.row = "first" /\ bind[n].row = "moved" /\ bind[n].key[1] = Moved /\ excused
  /\ \A s \in Request \ {r} : ReqAt(s, "locked") => req[s].node # n
NodesHeld ==
  /\ \A r \in Request : req[r].step \in {"begun", "uploaded", "locked", "replaced"} =>
                         bind[req[r].node] # Absent
  /\ \A r \in Request : ReqAt(r, "locked") => LockHolds(r)
  /\ \A n \in ContentNode : FirstRow(bind[n])

\* Whoever is about to delete an object has unbound it.
KeysRetired ==
  /\ \A r \in Request : ReqAt(r, "replaced") /\ HasContent(req[r].read) =>
       ~(HasContent(bind[req[r].node]) /\ bind[req[r].node].key = req[r].read.key)
  /\ \A n \in ContentNode :
       /\ mig[n].step = "copied" => n[1] = First /\ bind[n].row = "first" /\ mig[n].from[2][1] # Moved
       /\ mig[n].step = "swapped" => bind[n].row = "moved" /\ bind[n].key # mig[n].from[2]

\* Where a replacement puts its object, and the copy a migration makes.
NewObject(r) == <<req[r].at, NewKey(r, req[r].node)>>
MovedObject(n) == <<mig[n].to, <<Moved, n[2]>>>>

\* Whatever is to be bound is in its store.
ObjectsReady ==
  /\ BoundObjectExists
  /\ \A r \in Request : req[r].step \in {"uploaded", "locked"} => NewObject(r) \in object
  /\ \A r \in Request : ReqAt(r, "copying") => req[r].made \subseteq object
  /\ \A n \in ContentNode : mig[n].step = "copied" => MovedObject(n) \in object

\* A copy takes one object of each file, and none twice.
CopiesDistinct ==
  \A r \in Request :
    /\ req[r].step \in {"copying", "uncopy"} => \A o \in req[r].made : o[2][1] = r
    /\ ReqAt(r, "copying") =>
         /\ \A o, q \in req[r].todo : o[2][2] = q[2][2] => o = q
         /\ \A o, q \in req[r].made : o[2][2] = q[2][2] => o = q
         /\ \A o \in req[r].todo, q \in req[r].made : o[2][2] # q[2][2]

\* Every object in the stores is bound or will be, or somebody will delete it.
BoundTo(o) == \E n \in ContentNode : HasContent(bind[n]) /\ Located(bind[n]) = o
RequestMinds(r, o) ==
  \/ req[r].step \in {"uploaded", "locked", "undo"} /\ o = NewObject(r)
  \/ req[r].step \in {"copying", "uncopy"} /\ o \in req[r].made
  \/ ReqAt(r, "replaced") /\ HasContent(req[r].read) /\ o = Located(req[r].read)
MigrationMinds(n, o) ==
  \/ mig[n].step = "copied" /\ o = MovedObject(n)
  \/ mig[n].step = "swapped" /\ o = mig[n].from
Minded(o) ==
  \/ BoundTo(o)
  \/ \E r \in Request : RequestMinds(r, o)
  \/ \E n \in ContentNode : MigrationMinds(n, o)
ObjectsMinded == excused \/ \A o \in object : Minded(o)

ContentInv ==
  /\ ContentTypeOK
  /\ KeysOwned /\ KeysFresh
  /\ NodesHeld
  /\ KeysRetired
  /\ ObjectsReady
  /\ CopiesDistinct
  /\ ObjectsMinded

-----------------------------------------------------------------------------
(* Types. *)

\* A step tells what kind of call a request is, and a migration has its fields
\* once it has begun.
LEMMA ReqKinds ==
  ASSUME ContentTypeOK, NEW r \in Request
  PROVE  /\ req[r] \in IdleReq \cup Replacing \cup Copying
         /\ req[r].step \in {"begun", "uploaded", "locked", "replaced", "undo"} => req[r] \in Replacing
         /\ req[r].step \in {"copying", "uncopy"} => req[r] \in Copying
BY DEF ContentTypeOK, IdleReq, Replacing, Copying

LEMMA MigKinds ==
  ASSUME ContentTypeOK, NEW n \in ContentNode
  PROVE  mig[n].step # "idle" => mig[n] \in Moving
BY DEF ContentTypeOK, Unmoved, Moving

LEMMA KeyTypes ==
  /\ \A r \in Request, n \in ContentNode : NewKey(r, n) \in ObjectKey
  /\ \A n \in ContentNode : <<Moved, n[2]>> \in ObjectKey /\ n \in ObjectKey
  /\ \A k \in ObjectKey : k[2] \in ContentFile
BY DEF NewKey, ObjectKey, ContentNode

LEMMA BindingTypes ==
  /\ Absent \in Binding /\ Empty \in Binding
  /\ \A b \in Binding : HasContent(b) => b.at \in Provider /\ b.key \in ObjectKey /\ Located(b) \in Object
  /\ \A p \in Provider, k \in ObjectKey :
       /\ [row |-> "first", at |-> p, key |-> k] \in Binding
       /\ [row |-> "moved", at |-> p, key |-> k] \in Binding
BY DEF Binding, Absent, Empty, HasContent, Located, Object

\* What Rebound and Copied bind.
LEMMA ReboundIs ==
  ASSUME ContentTypeOK, NEW r \in Request, ReqAt(r, "locked")
  PROVE  LET n == req[r].node
             b == [row |-> IF HasContent(req[r].read) THEN bind[n].row ELSE "first",
                   at |-> req[r].at, key |-> NewKey(r, n)]
         IN  Rebound(r) = IF HasContent(req[r].read) /\ bind[n].row # req[r].read.row
                          THEN bind ELSE [bind EXCEPT ![n] = b]
<1>1. req[r] \in Replacing
  BY ReqKinds DEF ReqAt
<1> QED BY <1>1 DEF Rebound, ReqAt

-----------------------------------------------------------------------------
(* What may be deleted. *)

\* The object is bound, or it will be by a migration or by one of the requests R.
NeededBy(R, o) ==
  \/ BoundTo(o)
  \/ \E s \in R : req[s].step \in {"uploaded", "locked"} /\ o = NewObject(s)
  \/ \E s \in R : ReqAt(s, "copying") /\ o \in req[s].made
  \/ \E n \in ContentNode : mig[n].step = "copied" /\ o = MovedObject(n)

\* Nobody else needs what is under a key of a request that has not committed.
LEMMA OwnObjectFree ==
  ASSUME ContentInv, NEW r \in Request, Pending(r), NEW o \in Object, o[2][1] = r
  PROVE  ~NeededBy(Request \ {r}, o)
<1>1. ~BoundTo(o)
  BY BindingTypes DEF ContentInv, ContentTypeOK, BoundTo, KeysFresh, Known, Located
<1>2. ASSUME NEW s \in Request \ {r}, req[s].step \in {"uploaded", "locked"} PROVE o # NewObject(s)
  BY <1>2 DEF NewObject, NewKey
<1>3. ASSUME NEW s \in Request \ {r}, ReqAt(s, "copying"), o \in req[s].made PROVE FALSE
  BY <1>3 DEF ContentInv, CopiesDistinct, ReqAt
<1>4. ASSUME NEW n \in ContentNode PROVE o # MovedObject(n)
  BY ContentMakers DEF MovedObject
<1> QED BY <1>1, <1>2, <1>3, <1>4 DEF NeededBy

\* Nobody needs an object under a key that is known but not bound, unless it is
\* the target of a migration under way.
LEMMA KnownObjectFree ==
  ASSUME ContentInv, NEW n \in ContentNode, NEW o \in Object, Known(n, o[2]),
         ~(HasContent(bind[n]) /\ bind[n].key = o[2])
  PROVE  ~NeededBy(Request, o)
<1>k. o[2] \in ObjectKey
  BY DEF Object
<1>1. ASSUME NEW m \in ContentNode, HasContent(bind[m]), Located(bind[m]) = o PROVE FALSE
  <2>1. Known(m, o[2]) /\ bind[m].key = o[2]
    BY <1>1 DEF Known, Located
  <2>2. m = n
    BY <2>1, <1>k DEF ContentInv, KeysOwned
  <2> QED BY <1>1, <2>1, <2>2
<1>2. ASSUME NEW s \in Request, Pending(s) PROVE o[2][1] # s
  BY <1>2, <1>k DEF ContentInv, KeysFresh
<1>3. ASSUME NEW s \in Request, req[s].step \in {"uploaded", "locked"} PROVE o # NewObject(s)
  BY <1>2, <1>3 DEF NewObject, NewKey, Pending
<1>4. ASSUME NEW s \in Request, ReqAt(s, "copying"), o \in req[s].made PROVE FALSE
  BY <1>2, <1>4 DEF ContentInv, CopiesDistinct, ReqAt, Pending
<1>5. ASSUME NEW m \in ContentNode, mig[m].step = "copied", o = MovedObject(m) PROVE FALSE
  <2>1. o[2] = <<Moved, m[2]>>
    BY <1>5 DEF MovedObject
  <2>2. n[1] = First /\ bind[n].row = "moved" /\ n[2] = m[2]
    BY <2>1, <1>k DEF ContentInv, KeysOwned
  <2>3. m[1] = First /\ bind[m].row = "first"
    BY <1>5 DEF ContentInv, KeysRetired
  <2>4. m = n
    BY <2>2, <2>3 DEF ContentNode
  <2> QED BY <2>2, <2>3, <2>4
<1> QED BY <1>1, <1>3, <1>4, <1>5 DEF NeededBy, BoundTo

\* The object a committed replacement has replaced, and the one a migration has
\* copied, are needed by nobody.
LEMMA ReplacedObjectFree ==
  ASSUME ContentInv, NEW r \in Request, ReqAt(r, "replaced"), HasContent(req[r].read)
  PROVE  ~NeededBy(Request, Located(req[r].read))
<1>1. req[r] \in Replacing
  BY ReqKinds DEF ContentInv, ReqAt
<1>2. Located(req[r].read) \in Object /\ Located(req[r].read)[2] = req[r].read.key
  BY <1>1, BindingTypes DEF Replacing, Located
<1>3. Known(req[r].node, req[r].read.key)
  BY DEF Known, Holding, ReqAt
<1>4. req[r].node \in ContentNode
  BY <1>1 DEF Replacing
<1> QED BY <1>2, <1>3, <1>4, KnownObjectFree DEF ContentInv, KeysRetired

LEMMA MigratedObjectFree ==
  ASSUME ContentInv, NEW n \in ContentNode, mig[n].step = "swapped"
  PROVE  ~NeededBy(Request, mig[n].from)
<1>1. mig[n].from \in Object
  BY MigKinds DEF ContentInv, Moving
<1>2. Known(n, mig[n].from[2])
  BY DEF Known
<1> QED BY <1>1, <1>2, KnownObjectFree DEF ContentInv, KeysRetired

-----------------------------------------------------------------------------
(* Steps of a request that bind nothing and hold no node. *)

LEMMA RequestStep ==
  ASSUME ContentInv, NEW r \in Request, NEW rec \in IdleReq \cup Replacing \cup Copying,
         ReqGoes(r, rec), rec.step \notin {"locked", "replaced"}, rec.step # "over" => Pending(r),
         UNCHANGED <<bind, mig>>, object' \subseteq Object,
         excused' \in {excused, TRUE},
         rec.step \in {"begun", "uploaded"} => bind[rec.node] # Absent,
         \A o \in object \ object' : ~NeededBy(Request \ {r}, o),
         rec.step = "uploaded" => <<rec.at, NewKey(r, rec.node)>> \in object',
         rec.step = "copying" => rec.made \subseteq object',
         rec.step \in {"copying", "uncopy"} => \A o \in rec.made : o[2][1] = r,
         rec.step = "copying" =>
           /\ \A o, q \in rec.todo : o[2][2] = q[2][2] => o = q
           /\ \A o, q \in rec.made : o[2][2] = q[2][2] => o = q
           /\ \A o \in rec.todo, q \in rec.made : o[2][2] # q[2][2],
         \/ excused' = TRUE
         \/ \A o \in object' : \/ o \in object /\ ~RequestMinds(r, o)
                               \/ RequestMinds(r, o)'
                               \/ BoundTo(o)
  PROVE  ContentInv'
<1>t. ContentTypeOK
  BY DEF ContentInv
<1>r. /\ req' \in [Request -> IdleReq \cup Replacing \cup Copying]
      /\ req'[r] = rec /\ \A s \in Request \ {r} : req'[s] = req[s]
  BY <1>t DEF ReqGoes, ContentTypeOK
<1>e. excused => excused'
  BY <1>t DEF ContentTypeOK
<1>1. ContentTypeOK'
  BY <1>t, <1>r DEF ContentTypeOK
<1>2. \A n \in ContentNode, k \in ObjectKey : Known(n, k)' => Known(n, k)
  BY <1>r DEF Known, Holding
<1>3. \A s \in Request : Pending(s)' => Pending(s)
  BY <1>r DEF Pending
<1>4. (KeysOwned /\ KeysFresh)'
  BY <1>2, <1>3 DEF ContentInv, KeysOwned, KeysFresh
<1>5. NodesHeld'
  BY <1>r, <1>e DEF ContentInv, NodesHeld, LockHolds, ReqAt, FirstRow, SameContent
<1>6. KeysRetired'
  BY <1>r DEF ContentInv, KeysRetired, ReqAt
<1>7. ObjectsReady'
  <2>1. BoundObjectExists'
    BY DEF ContentInv, ObjectsReady, BoundObjectExists, NeededBy, BoundTo, Located
  <2>2. ASSUME NEW s \in Request, req'[s].step \in {"uploaded", "locked"} PROVE NewObject(s)' \in object'
    <3>1. CASE s = r
      BY <1>r, <2>2, <3>1 DEF NewObject, NewKey
    <3>2. CASE s # r
      <4>1. NewObject(s) \in object /\ NewObject(s)' = NewObject(s)
        BY <1>r, <2>2, <3>2 DEF ContentInv, ObjectsReady, NewObject, NewKey
      <4> QED BY <1>r, <2>2, <3>2, <4>1 DEF NeededBy
    <3> QED BY <3>1, <3>2
  <2>3. ASSUME NEW s \in Request, ReqAt(s, "copying")' PROVE req'[s].made \subseteq object'
    <3>1. CASE s = r
      BY <1>r, <2>3, <3>1 DEF ReqAt
    <3>2. CASE s # r
      <4>1. ReqAt(s, "copying") /\ req'[s].made = req[s].made /\ req[s].made \subseteq object
        BY <1>r, <2>3, <3>2 DEF ContentInv, ObjectsReady, ReqAt
      <4> QED BY <3>2, <4>1 DEF NeededBy
    <3> QED BY <3>1, <3>2
  <2>4. ASSUME NEW n \in ContentNode, mig'[n].step = "copied" PROVE MovedObject(n)' \in object'
    BY <2>4 DEF ContentInv, ObjectsReady, MovedObject, NeededBy
  <2> QED BY <2>1, <2>2, <2>3, <2>4 DEF ObjectsReady
<1>8. CopiesDistinct'
  BY <1>r DEF ContentInv, CopiesDistinct, ReqAt
<1>9. ObjectsMinded'
  <2> SUFFICES ASSUME ~excused', NEW o \in object' PROVE Minded(o)'
    BY DEF ObjectsMinded
  <2>1. BoundTo(o) => BoundTo(o)'
    BY DEF BoundTo
  <2>2. ASSUME NEW s \in Request, RequestMinds(s, o), s # r PROVE RequestMinds(s, o)'
    BY <1>r, <2>2 DEF RequestMinds, ReqAt, NewObject, NewKey, Located
  <2>3. ASSUME NEW n \in ContentNode, MigrationMinds(n, o) PROVE MigrationMinds(n, o)'
    BY <2>3 DEF MigrationMinds, MovedObject
  <2>4. o \in object => Minded(o)
    BY DEF ContentInv, ObjectsMinded
  <2> QED BY <2>1, <2>2, <2>3, <2>4 DEF Minded
<1> QED BY <1>1, <1>4, <1>5, <1>6, <1>7, <1>8, <1>9 DEF ContentInv

LEMMA ReplaceBeginKeeps ==
  ASSUME ContentInv, NEW r \in Request, NEW n \in ContentNode,
         NEW expect \in {Absent, bind[n]}, ReplaceBegin(r, n, expect)
  PROVE  ContentInv'
<1>t. ContentTypeOK
  BY DEF ContentInv
<1>1. PICK p \in Aliases(bind[n]) :
        ReqGoes(r, [step |-> "begun", node |-> n, expect |-> expect, at |-> p, read |-> Absent])
  BY DEF ReplaceBegin
<1> DEFINE rec == [step |-> "begun", node |-> n, expect |-> expect, at |-> p, read |-> Absent]
<1>2. bind[n] \in Binding
  BY <1>t DEF ContentTypeOK
<1>3. p \in Provider
  BY <1>2, BindingTypes DEF Aliases
<1>4. rec \in Replacing
  BY <1>2, <1>3, BindingTypes DEF Replacing
<1>5. ReqAt(r, "new") /\ bind[n] # Absent /\ UNCHANGED <<bind, object, mig, excused>>
  BY DEF ReplaceBegin
<1>6. Pending(r) /\ \A o \in object : ~RequestMinds(r, o)
  BY <1>5 DEF Pending, RequestMinds, ReqAt
<1> QED BY <1>t, <1>1, <1>4, <1>5, <1>6, RequestStep DEF ContentTypeOK

LEMMA ReplaceUploadKeeps ==
  ASSUME ContentInv, NEW r \in Request, ReplaceUpload(r)
  PROVE  ContentInv'
<1> DEFINE new == <<req[r].at, NewKey(r, req[r].node)>>
<1>t. ContentTypeOK
  BY DEF ContentInv
<1>1. ReqAt(r, "begun") /\ UNCHANGED <<bind, mig>>
  BY DEF ReplaceUpload
<1>2. req[r] \in Replacing /\ new \in Object /\ bind[req[r].node] # Absent
  BY <1>t, <1>1, ReqKinds, KeyTypes DEF ReqAt, Replacing, Object, ContentInv, NodesHeld
<1>3. Pending(r) /\ \A o \in object : ~RequestMinds(r, o)
  BY <1>1 DEF Pending, RequestMinds, ReqAt
<1>4. CASE object' = object \cup {new} /\ ReqGoes(r, [req[r] EXCEPT !.step = "uploaded"]) /\ UNCHANGED excused
  <2> DEFINE rec == [req[r] EXCEPT !.step = "uploaded"]
  <2>1. /\ rec \in Replacing /\ rec.step = "uploaded" /\ rec.node = req[r].node /\ rec.at = req[r].at
    BY <1>2 DEF Replacing
  <2>2. req'[r] = rec
    BY <1>t, <1>4 DEF ReqGoes, ContentTypeOK
  <2>3. \A o : o = new => RequestMinds(r, o)'
    BY <2>1, <2>2 DEF RequestMinds, NewObject, NewKey
  <2>4. ReqGoes(r, rec) /\ new \in object' /\ object' \subseteq Object /\ object \ object' = {}
    BY <1>t, <1>2, <1>4 DEF ContentTypeOK
  <2>5. \A o \in object' : (o \in object /\ ~RequestMinds(r, o)) \/ RequestMinds(r, o)'
    BY <1>3, <1>4, <2>3
  <2>6. /\ <<rec.at, NewKey(r, rec.node)>> \in object' /\ bind[rec.node] # Absent
        /\ excused' \in {excused, TRUE}
    BY <1>t, <1>2, <1>4, <2>1, <2>4 DEF ContentTypeOK
  <2> HIDE DEF rec, new
  <2> QED BY <1>1, <1>3, <2>1, <2>4, <2>5, <2>6, RequestStep
<1>5. CASE /\ object' \in {object, object \cup {new}}
           /\ excused' = (excused \/ object' # object)
           /\ ReqEnds(r)
  <2>1. [step |-> "over"] \in IdleReq
    BY DEF IdleReq
  <2> QED BY <1>t, <1>1, <1>2, <1>3, <1>5, <2>1, RequestStep DEF ContentTypeOK, ReqEnds
<1> QED BY <1>4, <1>5 DEF ReplaceUpload

LEMMA ReplaceCleanupKeeps ==
  ASSUME ContentInv, NEW r \in Request, ReplaceCleanup(r)
  PROVE  ContentInv'
<1> DEFINE old == req[r].read
<1>t. ContentTypeOK
  BY DEF ContentInv
<1>1. ReqAt(r, "replaced") /\ UNCHANGED <<bind, mig>> /\ ReqEnds(r)
  BY DEF ReplaceCleanup
<1>2. [step |-> "over"] \in IdleReq
  BY DEF IdleReq
<1>3. \A o \in object : RequestMinds(r, o) => HasContent(old) /\ o = Located(old)
  BY <1>1 DEF RequestMinds, ReqAt
<1>4. CASE HasContent(old) /\ DeleteObject(Located(old))
  <2>1. ~NeededBy(Request \ {r}, Located(old))
    BY <1>1, <1>4, ReplacedObjectFree DEF NeededBy
  <2>2. object' \subseteq Object /\ excused' \in {excused, TRUE}
    BY <1>t, <1>4 DEF DeleteObject, ContentTypeOK
  <2>3. \A o \in object \ object' : ~NeededBy(Request \ {r}, o)
    BY <1>t, <1>4, <2>1 DEF DeleteObject, ContentTypeOK
  <2>4. excused' = TRUE \/ \A o \in object' : o \in object /\ ~RequestMinds(r, o)
    BY <1>t, <1>3, <1>4 DEF DeleteObject, ContentTypeOK
  <2> QED BY <1>1, <1>2, <2>2, <2>3, <2>4, RequestStep DEF ReqEnds
<1>5. CASE UNCHANGED object /\ excused' = (excused \/ HasContent(old))
  BY <1>t, <1>1, <1>2, <1>3, <1>5, RequestStep DEF ContentTypeOK, ReqEnds
<1> QED BY <1>4, <1>5 DEF ReplaceCleanup

LEMMA ReplaceUndoKeeps ==
  ASSUME ContentInv, NEW r \in Request, ReplaceUndo(r)
  PROVE  ContentInv'
<1> DEFINE own == NewObject(r)
<1>t. ContentTypeOK
  BY DEF ContentInv
<1>1. ReqAt(r, "undo") /\ UNCHANGED <<bind, mig>> /\ ReqEnds(r) /\ DeleteObject(own)
  BY DEF ReplaceUndo, NewObject
<1>2. [step |-> "over"] \in IdleReq /\ Pending(r)
  BY <1>1 DEF IdleReq, Pending, ReqAt
<1>3. own \in Object /\ own[2][1] = r
  BY <1>t, <1>1, ReqKinds, KeyTypes DEF ReqAt, Replacing, Object, NewObject, NewKey
<1>4. \A o \in object : RequestMinds(r, o) => o = own
  BY <1>1 DEF RequestMinds, ReqAt
<1>5. ~NeededBy(Request \ {r}, own)
  BY <1>2, <1>3, OwnObjectFree
<1> HIDE DEF own
<1>6. object' \subseteq Object /\ excused' \in {excused, TRUE}
  BY <1>t, <1>1 DEF DeleteObject, ContentTypeOK
<1>7. \A o \in object \ object' : ~NeededBy(Request \ {r}, o)
  BY <1>t, <1>1, <1>5 DEF DeleteObject, ContentTypeOK
<1>8. excused' = TRUE \/ \A o \in object' : o \in object /\ ~RequestMinds(r, o)
  BY <1>t, <1>1, <1>4 DEF DeleteObject, ContentTypeOK
<1> QED BY <1>1, <1>2, <1>6, <1>7, <1>8, RequestStep DEF ReqEnds

LEMMA CrashRequestKeeps ==
  ASSUME ContentInv, NEW r \in Request, CrashRequest(r)
  PROVE  ContentInv'
<1>1. [step |-> "over"] \in IdleReq
  BY DEF IdleReq
<1> QED BY <1>1, RequestStep DEF CrashRequest, ReqEnds, ContentInv, ContentTypeOK

LEMMA CopyBeginKeeps ==
  ASSUME ContentInv, NEW r \in Request, NEW S \in SUBSET ContentFile, CopyBegin(r, S)
  PROVE  ContentInv'
<1> DEFINE todo == {Located(bind[Original(f)]) : f \in S}
           rec == [step |-> "copying", todo |-> todo, made |-> {}]
<1>t. ContentTypeOK
  BY DEF ContentInv
<1>1. ReqAt(r, "new") /\ ReqGoes(r, rec) /\ UNCHANGED <<bind, object, mig, excused>>
  BY DEF CopyBegin
<1>2. ASSUME NEW f \in S
      PROVE  /\ Original(f) \in ContentNode /\ HasContent(bind[Original(f)])
             /\ Located(bind[Original(f)]) \in Object
             /\ Located(bind[Original(f)])[2][2] = f
  <2>1. Original(f) \in ContentNode /\ Original(f)[2] = f /\ HasContent(bind[Original(f)])
    BY DEF Original, ContentNode, CopyBegin
  <2>2. Located(bind[Original(f)]) \in Object /\ bind[Original(f)].key \in ObjectKey
    BY <1>t, <2>1, BindingTypes DEF ContentTypeOK
  <2>3. Known(Original(f), bind[Original(f)].key)
    BY <2>1 DEF Known
  <2> QED BY <2>1, <2>2, <2>3 DEF ContentInv, KeysOwned, Located
<1>3. todo \subseteq Object /\ \A o, q \in todo : o[2][2] = q[2][2] => o = q
  BY <1>2
<1>4. Pending(r) /\ \A o \in object : ~RequestMinds(r, o)
  BY <1>1 DEF Pending, RequestMinds, ReqAt
<1> HIDE DEF todo
<1>5. rec \in Copying
  BY <1>3 DEF Copying
<1> QED BY <1>t, <1>1, <1>3, <1>4, <1>5, RequestStep DEF ContentTypeOK

LEMMA CopyObjectKeeps ==
  ASSUME ContentInv, NEW r \in Request, NEW o \in Object, CopyObject(r, o)
  PROVE  ContentInv'
<1> DEFINE copy == CopyOf(r, o)
<1>t. ContentTypeOK
  BY DEF ContentInv
<1>1. ReqAt(r, "copying") /\ o \in req[r].todo /\ UNCHANGED <<bind, mig, excused>>
  BY DEF CopyObject
<1>2. /\ req[r] \in Copying /\ Pending(r)
      /\ \A q \in object : RequestMinds(r, q) <=> q \in req[r].made
  BY <1>t, <1>1, ReqKinds DEF ReqAt, Pending, RequestMinds
<1>3. copy \in Object /\ copy[2][1] = r /\ copy[2][2] = o[2][2]
  BY DEF CopyOf, NewKey, Object, ObjectKey
<1>4. CASE /\ object' = object \cup {copy}
           /\ ReqGoes(r, [req[r] EXCEPT !.todo = @ \ {o}, !.made = @ \cup {copy}])
  <2> DEFINE rec == [req[r] EXCEPT !.todo = @ \ {o}, !.made = @ \cup {copy}]
  <2>1. /\ rec \in Copying /\ rec.step = "copying"
        /\ rec.todo = req[r].todo \ {o} /\ rec.made = req[r].made \cup {copy}
    BY <1>1, <1>2, <1>3 DEF Copying, ReqAt
  <2>2. req'[r] = rec /\ ReqGoes(r, rec)
    BY <1>t, <1>4 DEF ReqGoes, ContentTypeOK
  <2>3. \A q \in object' : RequestMinds(r, q)' <=> q \in rec.made
    BY <2>1, <2>2 DEF RequestMinds, ReqAt
  <2> HIDE DEF rec, copy
  <2>4. \A q \in object' : (q \in object /\ ~RequestMinds(r, q)) \/ RequestMinds(r, q)'
    BY <1>2, <1>4, <2>1, <2>3
  <2>5. rec.made \subseteq object' /\ object' \subseteq Object /\ object \ object' = {}
    BY <1>t, <1>1, <1>3, <1>4, <2>1 DEF ContentInv, ObjectsReady, ContentTypeOK
  <2>6. \A q \in rec.made : q[2][1] = r
    BY <1>1, <1>3, <2>1 DEF ContentInv, CopiesDistinct, ReqAt
  <2>7. /\ \A p, q \in rec.todo : p[2][2] = q[2][2] => p = q
        /\ \A p, q \in rec.made : p[2][2] = q[2][2] => p = q
        /\ \A p \in rec.todo, q \in rec.made : p[2][2] # q[2][2]
    BY <1>1, <1>3, <2>1 DEF ContentInv, CopiesDistinct
  <2> QED BY <1>t, <1>1, <1>2, <2>1, <2>2, <2>4, <2>5, <2>6, <2>7, RequestStep DEF ContentTypeOK
<1>5. CASE /\ object' \in {object, object \cup {copy}}
           /\ ReqGoes(r, [req[r] EXCEPT !.step = "uncopy", !.made = @ \cup {copy}])
  <2> DEFINE rec == [req[r] EXCEPT !.step = "uncopy", !.made = @ \cup {copy}]
  <2>1. rec \in Copying /\ rec.step = "uncopy" /\ rec.made = req[r].made \cup {copy}
    BY <1>1, <1>2, <1>3 DEF Copying, ReqAt
  <2>2. req'[r] = rec /\ ReqGoes(r, rec)
    BY <1>t, <1>5 DEF ReqGoes, ContentTypeOK
  <2>3. \A q \in object' : RequestMinds(r, q)' <=> q \in rec.made
    BY <2>1, <2>2 DEF RequestMinds, ReqAt
  <2> HIDE DEF rec, copy
  <2>4. \A q \in object' : (q \in object /\ ~RequestMinds(r, q)) \/ RequestMinds(r, q)'
    BY <1>2, <1>5, <2>1, <2>3
  <2>5. object' \subseteq Object /\ object \ object' = {}
    BY <1>t, <1>3, <1>5 DEF ContentTypeOK
  <2>6. \A q \in rec.made : q[2][1] = r
    BY <1>1, <1>3, <2>1 DEF ContentInv, CopiesDistinct, ReqAt
  <2> QED BY <1>t, <1>1, <1>2, <2>1, <2>2, <2>4, <2>5, <2>6, RequestStep DEF ContentTypeOK
<1> QED BY <1>4, <1>5 DEF CopyObject

LEMMA CopyUndoKeeps ==
  ASSUME ContentInv, NEW r \in Request, CopyUndo(r)
  PROVE  ContentInv'
<1>t. ContentTypeOK
  BY DEF ContentInv
<1>1. ReqAt(r, "uncopy") /\ UNCHANGED <<bind, mig>>
  BY DEF CopyUndo
<1>2. PICK o \in req[r].made :
        /\ DeleteObject(o)
        /\ IF req[r].made = {o} THEN ReqEnds(r) ELSE ReqGoes(r, [req[r] EXCEPT !.made = @ \ {o}])
  BY DEF CopyUndo
<1>3. /\ req[r] \in Copying /\ Pending(r) /\ o \in Object /\ o[2][1] = r
      /\ \A q \in req[r].made : q[2][1] = r
      /\ \A q \in object : RequestMinds(r, q) <=> q \in req[r].made
  BY <1>t, <1>1, ReqKinds DEF ReqAt, Pending, RequestMinds, Copying, ContentInv, CopiesDistinct
<1>4. object' \subseteq Object /\ excused' \in {excused, TRUE}
  BY <1>t, <1>2 DEF DeleteObject, ContentTypeOK
<1>5. \A q \in object \ object' : ~NeededBy(Request \ {r}, q)
  BY <1>t, <1>2, <1>3, OwnObjectFree DEF DeleteObject, ContentTypeOK
<1>6. CASE req[r].made = {o} /\ ReqEnds(r)
  <2>1. [step |-> "over"] \in IdleReq
    BY DEF IdleReq
  <2>2. excused' = TRUE \/ \A q \in object' : q \in object /\ ~RequestMinds(r, q)
    BY <1>t, <1>2, <1>3, <1>6 DEF DeleteObject, ContentTypeOK
  <2> QED BY <1>1, <1>4, <1>5, <1>6, <2>1, <2>2, RequestStep DEF ReqEnds
<1>7. CASE ReqGoes(r, [req[r] EXCEPT !.made = @ \ {o}])
  <2> DEFINE rec == [req[r] EXCEPT !.made = @ \ {o}]
  <2>1. rec \in Copying /\ rec.step = "uncopy" /\ rec.made = req[r].made \ {o}
    BY <1>1, <1>3 DEF Copying, ReqAt
  <2>2. req'[r] = rec /\ ReqGoes(r, rec)
    BY <1>t, <1>7 DEF ReqGoes, ContentTypeOK
  <2>3. \A q \in object' : RequestMinds(r, q)' <=> q \in rec.made
    BY <2>1, <2>2 DEF RequestMinds, ReqAt
  <2> HIDE DEF rec
  <2>4. excused' = TRUE \/ \A q \in object' : (q \in object /\ ~RequestMinds(r, q)) \/ RequestMinds(r, q)'
    BY <1>t, <1>2, <1>3, <2>1, <2>3 DEF DeleteObject, ContentTypeOK
  <2> QED BY <1>1, <1>3, <1>4, <1>5, <2>1, <2>2, <2>4, RequestStep
<1> QED BY <1>2, <1>6, <1>7

-----------------------------------------------------------------------------
(* Steps that hold a node or bind it. *)

LEMMA ReplaceLockKeeps ==
  ASSUME ContentInv, NEW r \in Request, ReplaceLock(r)
  PROVE  ContentInv'
<1> DEFINE n == req[r].node
<1>t. ContentTypeOK
  BY DEF ContentInv
<1>1. ReqAt(r, "uploaded") /\ UNCHANGED <<bind, object, mig, excused>>
  BY DEF ReplaceLock
<1>2. req[r] \in Replacing /\ Pending(r) /\ n \in ContentNode /\ bind[n] \in Binding /\ bind[n] # Absent
  BY <1>t, <1>1, ReqKinds DEF ReqAt, Replacing, Pending, ContentTypeOK, ContentInv, NodesHeld
<1>3. CASE ~Expected(r, bind[n])
  <2> DEFINE rec == [req[r] EXCEPT !.step = "undo", !.read = bind[n]]
  <2>1. ReqGoes(r, rec)
    BY <1>3 DEF ReplaceLock
  <2>2. rec \in Replacing /\ rec.step = "undo" /\ rec.node = n /\ rec.at = req[r].at
    BY <1>2 DEF Replacing
  <2>3. req'[r] = rec
    BY <1>t, <2>1 DEF ReqGoes, ContentTypeOK
  <2>4. \A o \in object : RequestMinds(r, o) => RequestMinds(r, o)'
    BY <1>1, <2>2, <2>3 DEF RequestMinds, ReqAt, NewObject, NewKey
  <2> HIDE DEF rec
  <2> QED BY <1>t, <1>1, <1>2, <2>1, <2>2, <2>4, RequestStep DEF ContentTypeOK
<1>4. CASE Expected(r, bind[n])
  <2> DEFINE rec == [req[r] EXCEPT !.step = "locked", !.read = bind[n]]
  <2>1. ReqGoes(r, rec)
    BY <1>4 DEF ReplaceLock
  <2>2. /\ rec \in Replacing /\ rec.step = "locked" /\ rec.node = n /\ rec.at = req[r].at
        /\ rec.read = bind[n] /\ rec.expect = req[r].expect
    BY <1>2 DEF Replacing
  <2> HIDE DEF rec
  <2>3. /\ req' \in [Request -> IdleReq \cup Replacing \cup Copying]
        /\ req'[r] = rec /\ \A s \in Request \ {r} : req'[s] = req[s]
    BY <1>t, <2>1, <2>2 DEF ReqGoes, ContentTypeOK
  <2>4. ContentTypeOK'
    BY <1>t, <1>1, <2>3 DEF ContentTypeOK
  <2>5. \A m \in ContentNode, k \in ObjectKey : Known(m, k)' => Known(m, k)
    BY <1>1, <2>2, <2>3 DEF Known, Holding
  <2>6. (KeysOwned /\ KeysFresh)'
    <3>1. \A s \in Request : Pending(s)' => Pending(s)
      BY <1>2, <2>3 DEF Pending
    <3> QED BY <1>1, <2>5, <3>1 DEF ContentInv, KeysOwned, KeysFresh
  <2>7. NodesHeld'
    <3>1. \A s \in Request : req'[s].step \in {"begun", "uploaded", "locked", "replaced"} =>
                               bind'[req'[s].node] # Absent
      BY <1>1, <1>2, <2>2, <2>3 DEF ContentInv, NodesHeld
    <3>2. LockHolds(r)'
      <4>1. rec.expect = Absent \/ SameContent(rec.read, rec.expect)
        BY <1>4, <2>2 DEF Expected
      <4>2. \A s \in Request \ {r} : ReqAt(s, "locked") => req[s].node # n
        BY DEF ReplaceLock
      <4>3. FirstRow(bind[n])
        BY <1>2 DEF ContentInv, NodesHeld
      <4> QED BY <1>1, <2>2, <2>3, <4>1, <4>2, <4>3 DEF LockHolds, ReqAt, FirstRow, SameContent, HasContent
    <3>3. ASSUME NEW s \in Request \ {r}, ReqAt(s, "locked")' PROVE LockHolds(s)'
      <4>1. ReqAt(s, "locked") /\ LockHolds(s) /\ req[s].node # n
        BY <2>3, <3>3 DEF ReqAt, ContentInv, NodesHeld, ReplaceLock
      <4> QED BY <1>1, <2>2, <2>3, <4>1 DEF LockHolds, ReqAt, FirstRow, SameContent, HasContent
    <3>4. \A m \in ContentNode : FirstRow(bind[m])'
      BY <1>1 DEF ContentInv, NodesHeld, FirstRow
    <3> QED BY <3>1, <3>2, <3>3, <3>4 DEF NodesHeld
  <2>8. KeysRetired'
    BY <1>1, <2>2, <2>3 DEF ContentInv, KeysRetired, ReqAt, HasContent
  <2>9. ObjectsReady'
    BY <1>1, <2>2, <2>3 DEF ContentInv, ObjectsReady, ReqAt, NewObject, NewKey, MovedObject,
         BoundObjectExists, HasContent, Located
  <2>10. CopiesDistinct'
    BY <2>2, <2>3 DEF ContentInv, CopiesDistinct, ReqAt
  <2>11. ObjectsMinded'
    <3>1. ASSUME NEW o \in object, NEW s \in Request, RequestMinds(s, o) PROVE RequestMinds(s, o)'
      BY <1>1, <2>2, <2>3, <3>1 DEF RequestMinds, ReqAt, NewObject, NewKey, Located, HasContent
    <3>2. ASSUME NEW o \in object, Minded(o) PROVE Minded(o)'
      BY <1>1, <3>1, <3>2 DEF Minded, BoundTo, MigrationMinds, MovedObject
    <3> QED BY <1>1, <3>2 DEF ContentInv, ObjectsMinded
  <2> QED BY <2>4, <2>6, <2>7, <2>8, <2>9, <2>10, <2>11 DEF ContentInv
<1> QED BY <1>3, <1>4

\* The commit of a replacement, whether or not the server learns of it.
LEMMA RebindingKeeps ==
  ASSUME ContentInv, NEW r \in Request, ReqAt(r, "locked"), bind' = Rebound(r),
         NEW rec \in IdleReq \cup Replacing \cup Copying, ReqGoes(r, rec),
         \/ rec = [req[r] EXCEPT !.step = "replaced"] /\ excused' = excused
         \/ rec.step = "over" /\ excused' = TRUE,
         UNCHANGED <<object, mig>>
  PROVE  ContentInv'
<1> DEFINE n == req[r].node
           read == req[r].read
           key == NewKey(r, n)
<1>t. ContentTypeOK
  BY DEF ContentInv
<1>1. /\ req[r] \in Replacing /\ n \in ContentNode /\ read \in Binding
      /\ bind[n] # Absent /\ LockHolds(r) /\ Pending(r)
  BY <1>t, ReqKinds DEF ReqAt, Replacing, ContentInv, NodesHeld, Pending
<1>2. key \in ObjectKey /\ key[1] = r /\ key[2] = n[2] /\ r # Moved /\ r # First
  BY <1>1, KeyTypes, ContentMakers DEF NewKey
<1>3. \/ rec.step = "replaced" /\ rec.node = n /\ rec.read = read
      \/ rec.step = "over" /\ excused' = TRUE
  BY <1>1 DEF Replacing
<1>4. /\ req' \in [Request -> IdleReq \cup Replacing \cup Copying]
      /\ req'[r] = rec /\ \A s \in Request \ {r} : req'[s] = req[s]
  BY <1>t DEF ReqGoes, ContentTypeOK
<1>5. /\ \A s \in Request : Pending(s)' => Pending(s) /\ s # r
      /\ excused' \in BOOLEAN /\ excused => excused'
  BY <1>t, <1>3, <1>4 DEF Pending, ContentTypeOK
<1>6. \A s \in Request \ {r} : ReqAt(s, "locked") => req[s].node # n
  BY <1>1 DEF LockHolds
<1>7. CopiesDistinct'
  BY <1>3, <1>4 DEF ContentInv, CopiesDistinct, ReqAt
<1>8. CASE HasContent(read) /\ bind[n].row # read.row
  <2>1. bind' = bind /\ excused /\ read.key[1] # Moved /\ bind[n].key[1] = Moved
    BY <1>1, <1>8, ReboundIs, <1>t DEF LockHolds, FirstRow, ReqAt
  <2>2. ContentTypeOK'
    BY <1>t, <1>4, <1>5, <2>1 DEF ContentTypeOK
  <2>3. \A m \in ContentNode, k \in ObjectKey : Known(m, k)' => Known(m, k)
    BY <1>3, <1>4, <2>1 DEF Known, Holding, ReqAt
  <2>4. (KeysOwned /\ KeysFresh)'
    BY <1>5, <2>1, <2>3 DEF ContentInv, KeysOwned, KeysFresh
  <2>5. NodesHeld'
    <3>1. \A s \in Request : req'[s].step \in {"begun", "uploaded", "locked", "replaced"} =>
                               bind'[req'[s].node] # Absent
      BY <1>1, <1>3, <1>4, <2>1 DEF ContentInv, NodesHeld, ReqAt
    <3>2. ASSUME NEW s \in Request, ReqAt(s, "locked")' PROVE LockHolds(s)'
      <4>1. s # r /\ ReqAt(s, "locked") /\ req'[s] = req[s] /\ LockHolds(s)
        BY <1>3, <1>4, <3>2 DEF ReqAt, ContentInv, NodesHeld
      <4>2. \A q \in Request : ReqAt(q, "locked")' => ReqAt(q, "locked") /\ req'[q].node = req[q].node
        BY <1>3, <1>4 DEF ReqAt
      <4> QED BY <1>5, <2>1, <4>1, <4>2 DEF LockHolds, FirstRow, SameContent, HasContent
    <3>3. \A m \in ContentNode : FirstRow(bind[m])'
      BY <2>1 DEF ContentInv, NodesHeld, FirstRow
    <3> QED BY <3>1, <3>2, <3>3 DEF NodesHeld
  <2>6. KeysRetired'
    BY <1>3, <1>4, <2>1 DEF ContentInv, KeysRetired, ReqAt, HasContent
  <2>7. ObjectsReady'
    BY <1>3, <1>4, <2>1 DEF ContentInv, ObjectsReady, ReqAt, NewObject, NewKey, MovedObject,
         BoundObjectExists, HasContent, Located
  <2>8. ObjectsMinded'
    BY <1>5, <2>1 DEF ObjectsMinded
  <2> QED BY <1>7, <2>2, <2>4, <2>5, <2>6, <2>7, <2>8 DEF ContentInv
<1>9. CASE ~(HasContent(read) /\ bind[n].row # read.row)
  <2> DEFINE b == [row |-> IF HasContent(read) THEN bind[n].row ELSE "first",
                   at |-> req[r].at, key |-> key]
  <2>1. bind' = [bind EXCEPT ![n] = b] /\ bind[n] = read
    BY <1>1, <1>9, ReboundIs, <1>t DEF LockHolds, HasContent
  <2>2. b \in Binding /\ b.key = key /\ HasContent(b) /\ b.at = req[r].at /\ b # Absent
    <3>1. b.row \in {"first", "moved"}
      BY <2>1 DEF HasContent
    <3>2. req[r].at \in Provider
      BY <1>1 DEF Replacing
    <3> QED BY <1>2, <3>1, <3>2 DEF HasContent, Binding, Absent
  <2>3. (bind[n].row = "moved" => b.row = "moved") /\ (bind[n].row = "first" => b.row = "first")
    BY <2>1 DEF HasContent
  <2> HIDE DEF b
  <2>4. bind' \in [ContentNode -> Binding] /\ bind'[n] = b /\ \A m \in ContentNode \ {n} : bind'[m] = bind[m]
    BY <1>t, <1>1, <2>1, <2>2 DEF ContentTypeOK
  <2>5. ContentTypeOK'
    BY <1>t, <1>4, <1>5, <2>4 DEF ContentTypeOK
  <2>6. \A m \in ContentNode, k \in ObjectKey : Known(m, k)' => Known(m, k) \/ (m = n /\ k = key)
    BY <1>3, <1>4, <2>2, <2>4 DEF Known, Holding, ReqAt
  <2>7. \A m \in ContentNode, k \in ObjectKey : Known(m, k) => k[1] # r
    BY <1>1 DEF ContentInv, KeysFresh
  <2>8. KeysOwned'
    <3>1. ASSUME NEW m \in ContentNode, NEW k \in ObjectKey, Known(m, k)'
          PROVE  k[2] = m[2] /\ (k[1] = Moved => m[1] = First /\ bind'[m].row = "moved")
      BY <1>2, <2>3, <2>4, <2>6, <3>1 DEF ContentInv, KeysOwned
    <3>2. ASSUME NEW m \in ContentNode, NEW q \in ContentNode, NEW k \in ObjectKey,
                 Known(m, k)', Known(q, k)'
          PROVE  m = q
      BY <1>2, <2>6, <2>7, <3>2 DEF ContentInv, KeysOwned
    <3> QED BY <3>1, <3>2 DEF KeysOwned
  <2>9. KeysFresh'
    <3> SUFFICES ASSUME NEW s \in Request, Pending(s)'
                 PROVE  /\ \A f \in ContentFile : bind'[<<s, f>>] = Absent
                        /\ \A m \in ContentNode, k \in ObjectKey : Known(m, k)' => k[1] # s
      BY DEF KeysFresh
    <3>1. Pending(s) /\ s # r
      BY <1>5
    <3>2. \A f \in ContentFile : <<s, f>> \in ContentNode /\ bind[<<s, f>>] = Absent
      BY <3>1 DEF ContentInv, KeysFresh, ContentNode
    <3> QED BY <1>1, <1>2, <2>4, <2>6, <3>1, <3>2 DEF ContentInv, KeysFresh
  <2>10. NodesHeld'
    <3>1. ASSUME NEW s \in Request, req'[s].step \in {"begun", "uploaded", "locked", "replaced"}
          PROVE  bind'[req'[s].node] # Absent
      <4>1. req'[s].node = req[s].node /\ req[s].step \in {"begun", "uploaded", "locked", "replaced"}
        BY <1>3, <1>4, <3>1 DEF ReqAt
      <4>2. req[s].node \in ContentNode /\ bind[req[s].node] # Absent
        BY <1>t, <4>1, ReqKinds DEF ContentInv, NodesHeld, Replacing
      <4> QED BY <2>2, <2>4, <4>1, <4>2
    <3>2. ASSUME NEW s \in Request, ReqAt(s, "locked")' PROVE LockHolds(s)'
      <4>1. s # r /\ ReqAt(s, "locked") /\ req'[s] = req[s] /\ LockHolds(s) /\ req[s].node # n
        BY <1>3, <1>4, <1>6, <3>2 DEF ReqAt, ContentInv, NodesHeld
      <4>2. req[s].node \in ContentNode /\ bind'[req[s].node] = bind[req[s].node]
        BY <1>t, <2>4, <4>1, ReqKinds DEF ReqAt, Replacing
      <4>3. \A q \in Request : ReqAt(q, "locked")' => ReqAt(q, "locked") /\ req'[q].node = req[q].node
        BY <1>3, <1>4 DEF ReqAt
      <4> QED BY <1>5, <4>1, <4>2, <4>3 DEF LockHolds, FirstRow, SameContent, HasContent
    <3>3. \A m \in ContentNode : FirstRow(bind[m])'
      BY <1>2, <2>2, <2>4 DEF ContentInv, NodesHeld, FirstRow
    <3> QED BY <3>1, <3>2, <3>3 DEF NodesHeld
  <2>11. KeysRetired'
    <3>1. ASSUME NEW s \in Request, ReqAt(s, "replaced")', HasContent(req[s].read)'
          PROVE  ~(HasContent(bind[req[s].node]) /\ bind[req[s].node].key = req[s].read.key)'
      <4>1. /\ req'[s].node = req[s].node /\ req'[s].read = req[s].read
            /\ req[s].step \in {"locked", "replaced"} /\ (s # r => ReqAt(s, "replaced"))
        BY <1>3, <1>4, <3>1 DEF ReqAt
      <4>2. req[s].node \in ContentNode /\ req[s].read \in Binding
        BY <1>t, <4>1, ReqKinds DEF Replacing
      <4>3. HasContent(req[s].read) /\ req[s].read.key \in ObjectKey
        BY <3>1, <4>1, <4>2, BindingTypes DEF HasContent
      <4>4. req[s].read.key[1] # r
        BY <2>7, <4>1, <4>2, <4>3 DEF Known, Holding
      <4>5. CASE req[s].node = n
        BY <1>2, <2>2, <2>4, <4>1, <4>4, <4>5
      <4>6. CASE req[s].node # n
        <5>1. ReqAt(s, "replaced") /\ bind'[req[s].node] = bind[req[s].node]
          BY <2>4, <4>1, <4>2, <4>6
        <5> QED BY <4>1, <4>3, <5>1 DEF ContentInv, KeysRetired, HasContent
      <4> QED BY <4>5, <4>6
    <3>2. ASSUME NEW m \in ContentNode, mig[m].step = "copied"
          PROVE  m[1] = First /\ bind'[m].row = "first" /\ mig[m].from[2][1] # Moved
      BY <2>3, <2>4, <3>2 DEF ContentInv, KeysRetired
    <3>3. ASSUME NEW m \in ContentNode, mig[m].step = "swapped"
          PROVE  bind'[m].row = "moved" /\ bind'[m].key # mig[m].from[2]
      <4>1. mig[m].from[2] \in ObjectKey /\ Known(m, mig[m].from[2])
        BY <1>t, <3>3, MigKinds DEF Known, Moving, Object
      <4> QED BY <1>2, <2>2, <2>3, <2>4, <2>7, <3>3, <4>1 DEF ContentInv, KeysRetired
    <3> QED BY <3>1, <3>2, <3>3 DEF KeysRetired
  <2>12. ObjectsReady'
    <3>1. BoundObjectExists'
      <4>1. Located(b) = NewObject(r) /\ NewObject(r) \in object
        BY <2>2 DEF Located, NewObject, ContentInv, ObjectsReady, ReqAt
      <4> QED BY <2>4, <4>1 DEF ContentInv, ObjectsReady, BoundObjectExists, HasContent, Located
    <3>2. ASSUME NEW s \in Request, req'[s].step \in {"uploaded", "locked"} PROVE NewObject(s)' \in object'
      BY <1>3, <1>4, <3>2 DEF ContentInv, ObjectsReady, NewObject, NewKey
    <3>3. ASSUME NEW s \in Request, ReqAt(s, "copying")' PROVE req'[s].made \subseteq object'
      BY <1>3, <1>4, <3>3 DEF ContentInv, ObjectsReady, ReqAt
    <3>4. \A m \in ContentNode : mig'[m].step = "copied" => MovedObject(m)' \in object'
      BY DEF ContentInv, ObjectsReady, MovedObject
    <3> QED BY <3>1, <3>2, <3>3, <3>4 DEF ObjectsReady
  <2>13. ObjectsMinded'
    <3> SUFFICES ASSUME ~excused', NEW o \in object PROVE Minded(o)'
      BY DEF ObjectsMinded
    <3>1. Minded(o) /\ rec.step = "replaced" /\ rec.read = read
      BY <1>3, <1>5 DEF ContentInv, ObjectsMinded
    <3>2. CASE BoundTo(o)
      <4>1. PICK m \in ContentNode : HasContent(bind[m]) /\ Located(bind[m]) = o
        BY <3>2 DEF BoundTo
      <4>2. CASE m = n
        <5>1. RequestMinds(r, o)'
          BY <1>4, <2>1, <3>1, <4>1, <4>2 DEF RequestMinds, ReqAt, HasContent, Located
        <5> QED BY <5>1 DEF Minded
      <4>3. CASE m # n
        BY <2>4, <4>1, <4>3 DEF Minded, BoundTo, HasContent, Located
      <4> QED BY <4>2, <4>3
    <3>3. CASE RequestMinds(r, o)
      <4>1. o = <<req[r].at, key>>
        BY <3>3 DEF RequestMinds, ReqAt, NewObject
      <4> QED BY <1>1, <2>2, <2>4, <4>1 DEF Minded, BoundTo, HasContent, Located
    <3>4. ASSUME NEW s \in Request \ {r}, RequestMinds(s, o) PROVE Minded(o)'
      <4>1. RequestMinds(s, o)'
        BY <1>4, <3>4 DEF RequestMinds, ReqAt, NewObject, NewKey, HasContent, Located
      <4> QED BY <4>1 DEF Minded
    <3>5. ASSUME NEW m \in ContentNode, MigrationMinds(m, o) PROVE Minded(o)'
      BY <3>5 DEF Minded, MigrationMinds, MovedObject
    <3> QED BY <3>1, <3>2, <3>3, <3>4, <3>5 DEF Minded
  <2> QED BY <1>7, <2>5, <2>8, <2>9, <2>10, <2>11, <2>12, <2>13 DEF ContentInv
<1> QED BY <1>8, <1>9

LEMMA ReplaceCommitKeeps ==
  ASSUME ContentInv, NEW r \in Request, ReplaceCommit(r)
  PROVE  ContentInv'
<1>t. ContentTypeOK
  BY DEF ContentInv
<1>1. ReqAt(r, "locked") /\ UNCHANGED <<object, mig>>
  BY DEF ReplaceCommit
<1>2. req[r] \in Replacing /\ Pending(r) /\ [step |-> "over"] \in IdleReq
  BY <1>t, <1>1, ReqKinds DEF ReqAt, Pending, IdleReq
<1>3. CASE bind' = Rebound(r) /\ ReqGoes(r, [req[r] EXCEPT !.step = "replaced"]) /\ UNCHANGED excused
  <2>1. [req[r] EXCEPT !.step = "replaced"] \in Replacing
    BY <1>2 DEF Replacing
  <2> QED BY <1>1, <1>3, <2>1, RebindingKeeps
<1>4. CASE UNCHANGED <<bind, excused>> /\ ReqGoes(r, [req[r] EXCEPT !.step = "undo"])
  <2> DEFINE rec == [req[r] EXCEPT !.step = "undo"]
  <2>1. rec \in Replacing /\ rec.step = "undo" /\ rec.node = req[r].node /\ rec.at = req[r].at
    BY <1>2 DEF Replacing
  <2>2. req'[r] = rec /\ ReqGoes(r, rec)
    BY <1>t, <1>4 DEF ReqGoes, ContentTypeOK
  <2>3. \A o \in object : RequestMinds(r, o) => RequestMinds(r, o)'
    BY <1>1, <2>1, <2>2 DEF RequestMinds, ReqAt, NewObject, NewKey
  <2> HIDE DEF rec
  <2> QED BY <1>t, <1>1, <1>2, <1>4, <2>1, <2>2, <2>3, RequestStep DEF ContentTypeOK
<1>5. CASE bind' = bind /\ ReqEnds(r) /\ excused' = TRUE
  BY <1>t, <1>1, <1>2, <1>5, RequestStep DEF ContentTypeOK, ReqEnds
<1>6. CASE bind' = Rebound(r) /\ ReqEnds(r) /\ excused' = TRUE
  BY <1>1, <1>2, <1>6, RebindingKeeps DEF ReqEnds
<1> QED BY <1>3, <1>4, <1>5, <1>6 DEF ReplaceCommit

\* The new nodes of a copy are its own, each bound to the copy of its name.
LEMMA CopiedIs ==
  ASSUME ContentInv, NEW r \in Request, ReqAt(r, "copying")
  PROVE  /\ Copied(r) \in [ContentNode -> Binding]
         /\ \A n \in ContentNode : Copied(r)[n] = bind[n] \/
              /\ n[1] = r /\ bind[n] = Absent
              /\ \E o \in req[r].made : o[2] = n /\ Copied(r)[n] = [row |-> "first", at |-> o[1], key |-> n]
         /\ \A o \in req[r].made :
              o[2] \in ContentNode /\ Copied(r)[o[2]] = [row |-> "first", at |-> o[1], key |-> o[2]]
<1>t. ContentTypeOK
  BY DEF ContentInv
<1>1. req[r] \in Copying /\ Pending(r)
  BY <1>t, ReqKinds DEF ReqAt, Pending
<1>2. ASSUME NEW o \in req[r].made
      PROVE  /\ o \in Object /\ o[1] \in Provider /\ o[2] \in ObjectKey /\ o[2] \in ContentNode
             /\ o[2][1] = r /\ o = <<o[1], o[2]>>
  <2>1. o \in Object /\ o[2][1] = r
    BY <1>1 DEF Copying, ContentInv, CopiesDistinct, ReqAt
  <2> QED BY <2>1 DEF Object, ObjectKey, ContentNode
<1>3. \A o, q \in req[r].made : o[2] = q[2] => o = q
  BY DEF ContentInv, CopiesDistinct
<1>4. ASSUME NEW o \in req[r].made
      PROVE  Copied(r)[o[2]] = [row |-> "first", at |-> o[1], key |-> o[2]]
  <2>1. (CHOOSE x \in req[r].made : x[2] = o[2]) = o
    BY <1>3
  <2> QED BY <1>2, <2>1 DEF Copied
<1>5. ASSUME NEW n \in ContentNode
      PROVE  Copied(r)[n] = bind[n] \/
              /\ n[1] = r /\ bind[n] = Absent
              /\ \E o \in req[r].made : o[2] = n /\ Copied(r)[n] = [row |-> "first", at |-> o[1], key |-> n]
  <2>1. CASE \E o \in req[r].made : o[2] = n
    <3>1. PICK o \in req[r].made : o[2] = n
      BY <2>1
    <3>2. n[1] = r /\ n = <<r, n[2]>> /\ n[2] \in ContentFile
      BY <1>2, <3>1 DEF ContentNode
    <3>3. bind[n] = Absent
      BY <1>1, <3>2 DEF ContentInv, KeysFresh
    <3> QED BY <1>4, <3>1, <3>2, <3>3
  <2>2. CASE ~\E o \in req[r].made : o[2] = n
    BY <2>2 DEF Copied
  <2> QED BY <2>1, <2>2
<1>6. ASSUME NEW n \in ContentNode PROVE Copied(r)[n] \in Binding
  <2>1. CASE Copied(r)[n] = bind[n]
    BY <1>t, <2>1 DEF ContentTypeOK
  <2>2. CASE \E o \in req[r].made : o[2] = n /\ Copied(r)[n] = [row |-> "first", at |-> o[1], key |-> n]
    BY <1>2, <2>2, BindingTypes
  <2> QED BY <1>5, <2>1, <2>2
<1>7. Copied(r) \in [ContentNode -> Binding]
  BY <1>6 DEF Copied
<1> QED BY <1>2, <1>4, <1>5, <1>7

LEMMA CopyCommitKeeps ==
  ASSUME ContentInv, NEW r \in Request, CopyCommit(r)
  PROVE  ContentInv'
<1>t. ContentTypeOK
  BY DEF ContentInv
<1>1. ReqAt(r, "copying") /\ UNCHANGED <<object, mig>> /\ ReqEnds(r) /\ excused' \in {excused, TRUE}
  BY DEF CopyCommit
<1>2. req[r] \in Copying /\ Pending(r) /\ [step |-> "over"] \in IdleReq /\ r # Moved /\ r # First
  BY <1>t, <1>1, ReqKinds, ContentMakers DEF ReqAt, Pending, IdleReq
<1>3. CASE bind' = bind /\ excused' = TRUE
  BY <1>t, <1>1, <1>2, <1>3, RequestStep DEF ContentTypeOK, ReqEnds
<1>4. CASE bind' = Copied(r)
  <2>1. /\ req' \in [Request -> IdleReq \cup Replacing \cup Copying]
        /\ req'[r] = [step |-> "over"] /\ \A s \in Request \ {r} : req'[s] = req[s]
    BY <1>t, <1>1, <1>2 DEF ReqEnds, ReqGoes, ContentTypeOK
  <2>2. \A s \in Request : Pending(s)' => Pending(s) /\ s # r
    BY <2>1 DEF Pending
  <2>e. excused => excused'
    BY <1>t, <1>1 DEF ContentTypeOK
  <2>3. ContentTypeOK'
    BY <1>t, <1>1, <1>4, <2>1, CopiedIs DEF ContentTypeOK
  <2>4. \A n \in ContentNode : bind'[n] = bind[n] \/
          /\ n[1] = r /\ bind[n] = Absent /\ n \in ObjectKey
          /\ \E o \in req[r].made : o = <<o[1], n>> /\ bind'[n] = [row |-> "first", at |-> o[1], key |-> n]
    <3>1. \A o \in req[r].made : o = <<o[1], o[2]>>
      BY <1>2 DEF Copying, Object
    <3>2. ASSUME NEW n \in ContentNode, bind'[n] # bind[n]
          PROVE  /\ n[1] = r /\ bind[n] = Absent
                 /\ \E o \in req[r].made : o[2] = n /\ bind'[n] = [row |-> "first", at |-> o[1], key |-> n]
      BY <1>1, <1>4, <3>2, CopiedIs
    <3>3. ASSUME NEW n \in ContentNode, n[1] = r PROVE n \in ObjectKey
      BY <3>3 DEF ContentNode, ObjectKey
    <3> QED BY <3>1, <3>2, <3>3
  <2>5. \A n \in ContentNode : bind[n] # Absent => bind'[n] = bind[n]
    BY <2>4
  <2>k. ASSUME NEW n \in ContentNode PROVE bind'[n] = bind[n] \/ (n[1] = r /\ bind'[n].key = n)
    <3>1. ASSUME NEW o, bind'[n] = [row |-> "first", at |-> o[1], key |-> n] PROVE bind'[n].key = n
      BY <3>1
    <3> QED BY <2>4, <3>1
  <2>6. \A n \in ContentNode, k \in ObjectKey : Known(n, k)' => Known(n, k) \/ (n[1] = r /\ k = n)
    <3> SUFFICES ASSUME NEW n \in ContentNode, NEW k \in ObjectKey, Known(n, k)', ~Known(n, k)
                 PROVE  n[1] = r /\ k = n
      OBVIOUS
    <3>1. HasContent(bind'[n]) /\ bind'[n].key = k /\ bind'[n] # bind[n]
      BY <1>1, <2>1 DEF Known, Holding, HasContent
    <3> QED BY <2>k, <3>1
  <2>7. \A n \in ContentNode, k \in ObjectKey : Known(n, k) => k[1] # r
    BY <1>2 DEF ContentInv, KeysFresh
  <2>8. KeysOwned'
    <3>1. ASSUME NEW n \in ContentNode, NEW k \in ObjectKey, Known(n, k)'
          PROVE  k[2] = n[2] /\ (k[1] = Moved => n[1] = First /\ bind'[n].row = "moved")
      <4>1. CASE Known(n, k)
        BY <1>2, <2>4, <4>1 DEF ContentInv, KeysOwned
      <4>2. CASE n[1] = r /\ k = n
        BY <1>2, <4>2
      <4> QED BY <2>6, <3>1, <4>1, <4>2
    <3>2. ASSUME NEW n \in ContentNode, NEW m \in ContentNode, NEW k \in ObjectKey,
                 Known(n, k)', Known(m, k)'
          PROVE  n = m
      BY <2>6, <2>7, <3>2 DEF ContentInv, KeysOwned
    <3> QED BY <3>1, <3>2 DEF KeysOwned
  <2>9. KeysFresh'
    <3> SUFFICES ASSUME NEW s \in Request, Pending(s)'
                 PROVE  /\ \A f \in ContentFile : bind'[<<s, f>>] = Absent
                        /\ \A m \in ContentNode, k \in ObjectKey : Known(m, k)' => k[1] # s
      BY DEF KeysFresh
    <3>1. Pending(s) /\ s # r
      BY <2>2
    <3>2. \A f \in ContentFile : <<s, f>> \in ContentNode /\ bind[<<s, f>>] = Absent /\ <<s, f>>[1] # r
      BY <3>1 DEF ContentInv, KeysFresh, ContentNode
    <3>3. \A f \in ContentFile : bind'[<<s, f>>] = Absent
      BY <2>4, <3>2
    <3> QED BY <2>6, <3>1, <3>3 DEF ContentInv, KeysFresh
  <2>10. NodesHeld'
    <3>1. ASSUME NEW s \in Request, req'[s].step \in {"begun", "uploaded", "locked", "replaced"}
          PROVE  /\ s # r /\ req'[s] = req[s] /\ req[s].node \in ContentNode
                 /\ bind'[req[s].node] = bind[req[s].node] /\ bind'[req[s].node] # Absent
      <4>1. s # r /\ req'[s] = req[s] /\ req[s] \in Replacing
        BY <1>t, <2>1, <3>1, ReqKinds
      <4> QED BY <2>5, <3>1, <4>1 DEF ContentInv, NodesHeld, Replacing
    <3>2. ASSUME NEW s \in Request, ReqAt(s, "locked")' PROVE LockHolds(s)'
      <4>1. ReqAt(s, "locked") /\ LockHolds(s) /\ req'[s] = req[s] /\ bind'[req[s].node] = bind[req[s].node]
        BY <3>1, <3>2 DEF ReqAt, ContentInv, NodesHeld
      <4>2. \A q \in Request : ReqAt(q, "locked")' => ReqAt(q, "locked") /\ req'[q].node = req[q].node
        BY <2>1 DEF ReqAt
      <4> QED BY <2>e, <4>1, <4>2 DEF LockHolds, FirstRow, SameContent, HasContent
    <3>3. ASSUME NEW n \in ContentNode PROVE FirstRow(bind[n])'
      <4>1. CASE bind'[n] = bind[n]
        BY <4>1 DEF ContentInv, NodesHeld, FirstRow
      <4>2. CASE n[1] = r /\ bind'[n].key = n
        BY <1>2, <4>2 DEF FirstRow
      <4> QED BY <2>k, <4>1, <4>2
    <3> QED BY <3>1, <3>2, <3>3 DEF NodesHeld
  <2>11. KeysRetired'
    <3>1. ASSUME NEW s \in Request, ReqAt(s, "replaced")', HasContent(req[s].read)'
          PROVE  ~(HasContent(bind[req[s].node]) /\ bind[req[s].node].key = req[s].read.key)'
      <4>1. s # r /\ req'[s] = req[s] /\ ReqAt(s, "replaced") /\ HasContent(req[s].read) /\ req[s] \in Replacing
        BY <1>t, <2>1, <3>1, ReqKinds DEF ReqAt, HasContent
      <4>2. bind'[req[s].node] = bind[req[s].node]
        BY <2>5, <4>1 DEF ContentInv, NodesHeld, ReqAt, Replacing
      <4> QED BY <4>1, <4>2 DEF ContentInv, KeysRetired, HasContent
    <3>2. ASSUME NEW n \in ContentNode, mig[n].step \in {"copied", "swapped"} PROVE bind'[n] = bind[n]
      BY <2>5, <3>2 DEF ContentInv, KeysRetired, Absent
    <3> QED BY <1>1, <3>1, <3>2 DEF ContentInv, KeysRetired
  <2>12. ObjectsReady'
    <3>1. BoundObjectExists'
      <4> SUFFICES ASSUME NEW n \in ContentNode, HasContent(bind'[n])
                   PROVE  Located(bind'[n]) \in object
        BY <1>1 DEF BoundObjectExists, HasContent, Located
      <4>1. CASE bind'[n] = bind[n]
        BY <4>1 DEF ContentInv, ObjectsReady, BoundObjectExists, HasContent, Located
      <4>2. CASE \E o \in req[r].made : o = <<o[1], n>> /\ bind'[n] = [row |-> "first", at |-> o[1], key |-> n]
        BY <1>1, <4>2 DEF ContentInv, ObjectsReady, Located
      <4> QED BY <2>4, <4>1, <4>2
    <3>2. ASSUME NEW s \in Request, req'[s].step \in {"uploaded", "locked"} PROVE NewObject(s)' \in object'
      BY <1>1, <2>1, <3>2 DEF ContentInv, ObjectsReady, NewObject, NewKey
    <3>3. ASSUME NEW s \in Request, ReqAt(s, "copying")' PROVE req'[s].made \subseteq object'
      BY <1>1, <2>1, <3>3 DEF ContentInv, ObjectsReady, ReqAt
    <3>4. \A n \in ContentNode : mig'[n].step = "copied" => MovedObject(n)' \in object'
      BY <1>1 DEF ContentInv, ObjectsReady, MovedObject
    <3> QED BY <3>1, <3>2, <3>3, <3>4 DEF ObjectsReady
  <2>13. CopiesDistinct'
    BY <2>1 DEF ContentInv, CopiesDistinct, ReqAt
  <2>14. ObjectsMinded'
    <3> SUFFICES ASSUME ~excused', NEW o \in object PROVE Minded(o)'
      BY <1>1 DEF ObjectsMinded
    <3>1. Minded(o)
      BY <2>e DEF ContentInv, ObjectsMinded
    <3>2. CASE BoundTo(o)
      <4>1. PICK n \in ContentNode : HasContent(bind[n]) /\ Located(bind[n]) = o
        BY <3>2 DEF BoundTo
      <4>2. bind'[n] = bind[n]
        BY <2>5, <4>1 DEF HasContent, Absent
      <4> QED BY <4>1, <4>2 DEF Minded, BoundTo, HasContent, Located
    <3>3. CASE RequestMinds(r, o)
      <4>1. o \in req[r].made
        BY <1>1, <3>3 DEF RequestMinds, ReqAt
      <4>2. /\ o[2] \in ContentNode /\ o = <<o[1], o[2]>>
            /\ bind'[o[2]] = [row |-> "first", at |-> o[1], key |-> o[2]]
        BY <1>1, <1>2, <1>4, <4>1, CopiedIs DEF Copying, Object
      <4>3. HasContent(bind'[o[2]]) /\ Located(bind'[o[2]]) = o
        BY <4>2 DEF HasContent, Located
      <4> QED BY <4>2, <4>3 DEF Minded, BoundTo, HasContent, Located
    <3>4. ASSUME NEW s \in Request \ {r}, RequestMinds(s, o) PROVE Minded(o)'
      <4>1. RequestMinds(s, o)'
        BY <2>1, <3>4 DEF RequestMinds, ReqAt, NewObject, NewKey, HasContent, Located
      <4> QED BY <4>1 DEF Minded
    <3>5. ASSUME NEW n \in ContentNode, MigrationMinds(n, o) PROVE Minded(o)'
      BY <1>1, <3>5 DEF Minded, MigrationMinds, MovedObject
    <3> QED BY <3>1, <3>2, <3>3, <3>4, <3>5 DEF Minded
  <2> QED BY <2>3, <2>8, <2>9, <2>10, <2>11, <2>12, <2>13, <2>14 DEF ContentInv
<1> QED BY <1>3, <1>4 DEF CopyCommit

-----------------------------------------------------------------------------
(* Steps of a migration. *)

LEMMA MigrateCopyKeeps ==
  ASSUME ContentInv, NEW n \in ContentNode, NEW p \in Provider, MigrateCopy(n, p)
  PROVE  ContentInv'
<1> DEFINE from == Located(bind[n])
           m1   == [step |-> "copied", from |-> from, to |-> p]
           copy == <<p, <<Moved, n[2]>>>>
<1>t. ContentTypeOK
  BY DEF ContentInv
<1>1. /\ n[1] = First /\ mig[n].step = "idle" /\ bind[n].row = "first"
      /\ mig' = [mig EXCEPT ![n] = m1] /\ object' = object \cup {copy}
      /\ UNCHANGED <<bind, req, excused>>
  BY DEF MigrateCopy
<1>2. /\ bind[n] \in Binding /\ HasContent(bind[n])
      /\ from \in Object /\ from[2] = bind[n].key /\ copy \in Object
  BY <1>t, <1>1, BindingTypes, KeyTypes DEF ContentTypeOK, HasContent, Located, Object
<1> HIDE DEF from
<1>3. m1 \in Moving /\ m1.step = "copied" /\ m1.from = from /\ m1.to = p
  BY <1>2 DEF Moving
<1> HIDE DEF m1
<1>4. mig' \in [ContentNode -> {Unmoved} \cup Moving] /\ mig'[n] = m1 /\ \A m \in ContentNode \ {n} : mig'[m] = mig[m]
  BY <1>t, <1>1, <1>3 DEF ContentTypeOK
<1>5. ContentTypeOK'
  BY <1>t, <1>1, <1>2, <1>4 DEF ContentTypeOK
<1>6. \A m \in ContentNode, k \in ObjectKey : Known(m, k)' => Known(m, k)
  BY <1>1, <1>2, <1>3, <1>4 DEF Known, Holding, HasContent
<1>7. (KeysOwned /\ KeysFresh)'
  BY <1>1, <1>6 DEF ContentInv, KeysOwned, KeysFresh, Pending
<1>8. NodesHeld'
  BY <1>1 DEF ContentInv, NodesHeld, LockHolds, ReqAt, FirstRow, SameContent, HasContent
<1>9. KeysRetired'
  <2>1. bind[n].key[1] # Moved
    BY <1>1 DEF ContentInv, NodesHeld, FirstRow
  <2>2. ASSUME NEW m \in ContentNode
        PROVE /\ mig'[m].step = "copied" => m[1] = First /\ bind'[m].row = "first" /\ mig'[m].from[2][1] # Moved
              /\ mig'[m].step = "swapped" => bind'[m].row = "moved" /\ bind'[m].key # mig'[m].from[2]
    BY <1>1, <1>2, <1>3, <1>4, <2>1 DEF ContentInv, KeysRetired
  <2> QED BY <1>1, <2>2 DEF ContentInv, KeysRetired, ReqAt, HasContent
<1>10. ObjectsReady'
  <2>1. BoundObjectExists'
    BY <1>1 DEF ContentInv, ObjectsReady, BoundObjectExists, HasContent, Located
  <2>2. ASSUME NEW m \in ContentNode, mig'[m].step = "copied" PROVE MovedObject(m)' \in object'
    BY <1>1, <1>3, <1>4, <2>2 DEF ContentInv, ObjectsReady, MovedObject
  <2>3. ASSUME NEW s \in Request, req'[s].step \in {"uploaded", "locked"} PROVE NewObject(s)' \in object'
    BY <1>1, <2>3 DEF ContentInv, ObjectsReady, NewObject, NewKey
  <2>4. ASSUME NEW s \in Request, ReqAt(s, "copying")' PROVE req'[s].made \subseteq object'
    BY <1>1, <2>4 DEF ContentInv, ObjectsReady, ReqAt
  <2> QED BY <2>1, <2>2, <2>3, <2>4 DEF ObjectsReady
<1>11. CopiesDistinct'
  BY <1>1 DEF ContentInv, CopiesDistinct, ReqAt
<1>12. ObjectsMinded'
  <2> SUFFICES ASSUME ~excused, NEW o \in object' PROVE Minded(o)'
    BY <1>1 DEF ObjectsMinded
  <2>1. CASE o = copy
    <3>1. MigrationMinds(n, o)'
      BY <1>3, <1>4, <2>1 DEF MigrationMinds, MovedObject
    <3> QED BY <3>1 DEF Minded
  <2>2. CASE o \in object
    <3>1. Minded(o)
      BY <2>2 DEF ContentInv, ObjectsMinded
    <3>2. ASSUME NEW m \in ContentNode, MigrationMinds(m, o) PROVE MigrationMinds(m, o)'
      BY <1>1, <1>4, <3>2 DEF MigrationMinds, MovedObject
    <3>3. ASSUME NEW s \in Request, RequestMinds(s, o) PROVE RequestMinds(s, o)'
      BY <1>1, <3>3 DEF RequestMinds, ReqAt, NewObject, NewKey, HasContent, Located
    <3>4. BoundTo(o) => BoundTo(o)'
      BY <1>1 DEF BoundTo, HasContent, Located
    <3> QED BY <3>1, <3>2, <3>3, <3>4 DEF Minded
  <2> QED BY <1>1, <2>1, <2>2
<1> QED BY <1>5, <1>7, <1>8, <1>9, <1>10, <1>11, <1>12 DEF ContentInv

LEMMA MigrateSwapKeeps ==
  ASSUME ContentInv, NEW n \in ContentNode, MigrateSwap(n)
  PROVE  ContentInv'
<1> DEFINE key == <<Moved, n[2]>>
           b == [row |-> "moved", at |-> mig[n].to, key |-> key]
           crossing == Located(bind[n]) # mig[n].from \/
                       \E r \in OpenRequests : ~ReqAt(r, "copying") /\ ~ReqAt(r, "uncopy") /\ req[r].node = n
<1>t. ContentTypeOK
  BY DEF ContentInv
<1>1. /\ mig[n].step = "copied" /\ bind' = [bind EXCEPT ![n] = b] /\ mig' = [mig EXCEPT ![n].step = "swapped"]
      /\ excused' = (excused \/ crossing) /\ UNCHANGED <<object, req>>
  BY DEF MigrateSwap
<1>e. /\ excused' \in BOOLEAN
      /\ excused => excused'
      /\ ~excused' => Located(bind[n]) = mig[n].from
      /\ \A r \in OpenRequests : req[r].node = n => excused' \/ ReqAt(r, "copying") \/ ReqAt(r, "uncopy")
  BY <1>1
<1>2. /\ mig[n] \in Moving /\ key \in ObjectKey /\ key[1] = Moved /\ key[2] = n[2]
      /\ n[1] = First /\ bind[n].row = "first" /\ mig[n].from[2][1] # Moved
      /\ MovedObject(n) \in object
  BY <1>t, <1>1, MigKinds, KeyTypes DEF ContentInv, KeysRetired, ObjectsReady
<1>3. b \in Binding /\ b.row = "moved" /\ b.key = key /\ HasContent(b) /\ Located(b) = MovedObject(n)
  BY <1>2, BindingTypes DEF HasContent, Located, MovedObject, Moving
<1> HIDE DEF b, crossing
<1>4. bind' \in [ContentNode -> Binding] /\ bind'[n] = b /\ \A m \in ContentNode \ {n} : bind'[m] = bind[m]
  BY <1>t, <1>1, <1>3 DEF ContentTypeOK
<1>5. /\ mig' \in [ContentNode -> {Unmoved} \cup Moving] /\ \A m \in ContentNode \ {n} : mig'[m] = mig[m]
      /\ mig'[n].step = "swapped" /\ mig'[n].from = mig[n].from
  BY <1>t, <1>1, <1>2 DEF ContentTypeOK, Moving
<1>6. ContentTypeOK'
  BY <1>t, <1>1, <1>e, <1>4, <1>5 DEF ContentTypeOK
<1>7. \A m \in ContentNode, k \in ObjectKey : Known(m, k)' => Known(m, k) \/ (m = n /\ k = key)
  BY <1>1, <1>3, <1>4, <1>5 DEF Known, Holding, HasContent
<1>8. \A k \in ObjectKey, m \in ContentNode : Known(m, k) /\ k[1] = Moved => m # n /\ k # key
  <2> SUFFICES ASSUME NEW k \in ObjectKey, NEW m \in ContentNode, Known(m, k), k[1] = Moved PROVE m # n /\ k # key
    OBVIOUS
  <2>1. k[2] = m[2] /\ m[1] = First /\ bind[m].row = "moved"
    BY DEF ContentInv, KeysOwned
  <2>2. m # n
    BY <1>2, <2>1
  <2> QED BY <1>2, <2>1, <2>2 DEF ContentNode
<1>9. KeysOwned'
  <2>1. ASSUME NEW m \in ContentNode, NEW k \in ObjectKey, Known(m, k)'
        PROVE  k[2] = m[2] /\ (k[1] = Moved => m[1] = First /\ bind'[m].row = "moved")
    <3>1. CASE m = n /\ k = key
      BY <1>2, <1>3, <1>4, <3>1
    <3>2. CASE Known(m, k)
      BY <1>4, <1>8, <3>2 DEF ContentInv, KeysOwned
    <3> QED BY <1>7, <2>1, <3>1, <3>2
  <2>2. ASSUME NEW m \in ContentNode, NEW q \in ContentNode, NEW k \in ObjectKey, Known(m, k)', Known(q, k)'
        PROVE  m = q
    BY <1>2, <1>7, <1>8, <2>2 DEF ContentInv, KeysOwned
  <2> QED BY <2>1, <2>2 DEF KeysOwned
<1>10. KeysFresh'
  <2> SUFFICES ASSUME NEW s \in Request, Pending(s)
               PROVE  /\ \A f \in ContentFile : bind'[<<s, f>>] = Absent
                      /\ \A m \in ContentNode, k \in ObjectKey : Known(m, k)' => k[1] # s
    BY <1>1 DEF KeysFresh, Pending
  <2>1. s # First /\ s # Moved
    BY ContentMakers
  <2>2. \A f \in ContentFile : <<s, f>> \in ContentNode /\ bind[<<s, f>>] = Absent /\ <<s, f>> # n
    BY <1>2, <2>1 DEF ContentInv, KeysFresh, ContentNode
  <2> QED BY <1>2, <1>4, <1>7, <2>1, <2>2 DEF ContentInv, KeysFresh
<1>11. NodesHeld'
  <2>1. ASSUME NEW s \in Request, req[s].step \in {"begun", "uploaded", "locked", "replaced"}
        PROVE  req[s].node \in ContentNode /\ bind'[req[s].node] # Absent
    <3>1. req[s].node \in ContentNode /\ bind[req[s].node] # Absent
      BY <1>t, <2>1, ReqKinds DEF ContentInv, NodesHeld, Replacing
    <3> QED BY <1>3, <1>4, <3>1 DEF HasContent, Absent
  <2>2. ASSUME NEW s \in Request, ReqAt(s, "locked") PROVE LockHolds(s)'
    <3>1. LockHolds(s) /\ req[s].node \in ContentNode /\ s \in OpenRequests
      BY <2>1, <2>2 DEF ReqAt, ContentInv, NodesHeld, OpenRequests
    <3>2. CASE req[s].node = n
      <4>1. bind[n] = req[s].read
        BY <1>2, <3>1, <3>2 DEF LockHolds
      <4>2. excused'
        BY <1>e, <2>2, <3>1, <3>2 DEF ReqAt
      <4>3. bind'[n].row = "moved" /\ bind'[n].key[1] = Moved /\ req[s].read.row = "first"
        BY <1>2, <1>3, <1>4, <4>1
      <4> QED BY <1>1, <3>1, <3>2, <4>2, <4>3 DEF LockHolds, FirstRow, SameContent, HasContent, ReqAt
    <3>3. CASE req[s].node # n
      <4>1. bind'[req[s].node] = bind[req[s].node]
        BY <1>4, <3>1, <3>3
      <4> QED BY <1>1, <1>e, <3>1, <4>1 DEF LockHolds, FirstRow, SameContent, HasContent, ReqAt
    <3> QED BY <3>2, <3>3
  <2>3. \A m \in ContentNode : FirstRow(bind[m])'
    BY <1>3, <1>4 DEF ContentInv, NodesHeld, FirstRow
  <2> QED BY <1>1, <2>1, <2>2, <2>3 DEF NodesHeld, ReqAt
<1>12. KeysRetired'
  <2>1. ASSUME NEW s \in Request, ReqAt(s, "replaced"), HasContent(req[s].read)
        PROVE  ~(HasContent(bind'[req[s].node]) /\ bind'[req[s].node].key = req[s].read.key)
    <3>1. req[s].node \in ContentNode /\ req[s].read.key \in ObjectKey /\ Known(req[s].node, req[s].read.key)
      BY <1>t, <2>1, ReqKinds, BindingTypes DEF ReqAt, Replacing, Known, Holding
    <3>2. CASE req[s].node = n
      BY <1>2, <1>3, <1>4, <1>8, <3>1, <3>2
    <3>3. CASE req[s].node # n
      BY <1>4, <2>1, <3>1, <3>3 DEF ContentInv, KeysRetired
    <3> QED BY <3>2, <3>3
  <2>2. ASSUME NEW m \in ContentNode
        PROVE  /\ mig'[m].step = "copied" => m[1] = First /\ bind'[m].row = "first" /\ mig'[m].from[2][1] # Moved
               /\ mig'[m].step = "swapped" => bind'[m].row = "moved" /\ bind'[m].key # mig'[m].from[2]
    BY <1>2, <1>3, <1>4, <1>5 DEF ContentInv, KeysRetired
  <2> QED BY <1>1, <2>1, <2>2 DEF KeysRetired, ReqAt, HasContent
<1>13. ObjectsReady'
  <2>1. BoundObjectExists'
    <3> SUFFICES ASSUME NEW m \in ContentNode, HasContent(bind'[m]) PROVE Located(bind'[m]) \in object
      BY <1>1 DEF BoundObjectExists, HasContent, Located
    <3>1. CASE m = n
      BY <1>2, <1>3, <1>4, <3>1
    <3>2. CASE m # n
      BY <1>4, <3>2 DEF ContentInv, ObjectsReady, BoundObjectExists
    <3> QED BY <3>1, <3>2
  <2>2. ASSUME NEW m \in ContentNode, mig'[m].step = "copied" PROVE MovedObject(m)' \in object'
    BY <1>1, <1>5, <2>2 DEF ContentInv, ObjectsReady, MovedObject
  <2>3. ASSUME NEW s \in Request, req'[s].step \in {"uploaded", "locked"} PROVE NewObject(s)' \in object'
    BY <1>1, <2>3 DEF ContentInv, ObjectsReady, NewObject, NewKey
  <2>4. ASSUME NEW s \in Request, ReqAt(s, "copying")' PROVE req'[s].made \subseteq object'
    BY <1>1, <2>4 DEF ContentInv, ObjectsReady, ReqAt
  <2> QED BY <2>1, <2>2, <2>3, <2>4 DEF ObjectsReady
<1>14. CopiesDistinct'
  BY <1>1 DEF ContentInv, CopiesDistinct, ReqAt
<1>15. ObjectsMinded'
  <2> SUFFICES ASSUME ~excused', NEW o \in object PROVE Minded(o)'
    BY <1>1 DEF ObjectsMinded
  <2>e. ~excused
    BY <1>e
  <2>1. Minded(o) /\ Located(bind[n]) = mig[n].from
    BY <1>e, <2>e DEF ContentInv, ObjectsMinded
  <2>2. CASE BoundTo(o)
    <3>1. PICK m \in ContentNode : HasContent(bind[m]) /\ Located(bind[m]) = o
      BY <2>2 DEF BoundTo
    <3>2. CASE m = n
      <4>1. MigrationMinds(n, o)'
        BY <1>5, <2>1, <3>1, <3>2 DEF MigrationMinds
      <4> QED BY <4>1 DEF Minded
    <3>3. CASE m # n
      BY <1>4, <3>1, <3>3 DEF Minded, BoundTo, HasContent, Located
    <3> QED BY <3>2, <3>3
  <2>3. ASSUME NEW s \in Request, RequestMinds(s, o) PROVE Minded(o)'
    <3>1. RequestMinds(s, o)'
      BY <1>1, <2>3 DEF RequestMinds, ReqAt, NewObject, NewKey, HasContent, Located
    <3> QED BY <3>1 DEF Minded
  <2>4. ASSUME NEW m \in ContentNode, MigrationMinds(m, o) PROVE Minded(o)'
    <3>1. CASE m = n
      <4>1. o = Located(bind'[n]) /\ HasContent(bind'[n])
        BY <1>1, <1>3, <1>4, <2>4, <3>1 DEF MigrationMinds
      <4> QED BY <4>1 DEF Minded, BoundTo, HasContent, Located
    <3>2. CASE m # n
      <4>1. MigrationMinds(m, o)'
        BY <1>5, <2>4, <3>2 DEF MigrationMinds, MovedObject
      <4> QED BY <4>1 DEF Minded
    <3> QED BY <3>1, <3>2
  <2> QED BY <2>1, <2>2, <2>3, <2>4 DEF Minded
<1> QED BY <1>6, <1>9, <1>10, <1>11, <1>12, <1>13, <1>14, <1>15 DEF ContentInv

LEMMA MigrateDeleteKeeps ==
  ASSUME ContentInv, NEW n \in ContentNode, MigrateDelete(n)
  PROVE  ContentInv'
<1> DEFINE from == mig[n].from
<1>t. ContentTypeOK
  BY DEF ContentInv
<1>1. /\ mig[n].step = "swapped" /\ DeleteObject(from) /\ mig' = [mig EXCEPT ![n] = Unmoved]
      /\ UNCHANGED <<bind, req>>
  BY DEF MigrateDelete
<1>e. excused' \in {excused, TRUE}
  BY <1>t, <1>1 DEF DeleteObject, ContentTypeOK
<1>2. \A o \in object \ object' : ~NeededBy(Request, o)
  BY <1>1, MigratedObjectFree DEF DeleteObject
<1>3. object' \subseteq object
  BY <1>1 DEF DeleteObject
<1>4. mig' \in [ContentNode -> {Unmoved} \cup Moving] /\ mig'[n] = Unmoved /\ \A m \in ContentNode \ {n} : mig'[m] = mig[m]
  BY <1>t, <1>1 DEF ContentTypeOK
<1>5. Unmoved.step = "idle"
  BY DEF Unmoved
<1>6. ContentTypeOK'
  BY <1>t, <1>1, <1>e, <1>3, <1>4 DEF ContentTypeOK
<1>7. \A m \in ContentNode, k \in ObjectKey : Known(m, k)' => Known(m, k)
  BY <1>1, <1>4, <1>5 DEF Known, Holding, HasContent
<1>8. (KeysOwned /\ KeysFresh)'
  BY <1>1, <1>7 DEF ContentInv, KeysOwned, KeysFresh, Pending
<1>9. NodesHeld'
  <2>1. excused => excused'
    BY <1>e
  <2>2. ASSUME NEW s \in Request, ReqAt(s, "locked") PROVE LockHolds(s)'
    <3>1. LockHolds(s)
      BY <2>2 DEF ContentInv, NodesHeld
    <3> QED BY <1>1, <2>1, <3>1 DEF LockHolds, ReqAt, FirstRow, SameContent, HasContent
  <2> QED BY <1>1, <2>2 DEF ContentInv, NodesHeld, ReqAt, FirstRow
<1>10. KeysRetired'
  BY <1>1, <1>4, <1>5 DEF ContentInv, KeysRetired, ReqAt, HasContent
<1>11. ObjectsReady'
  <2>1. BoundObjectExists'
    BY <1>1, <1>2 DEF ContentInv, ObjectsReady, BoundObjectExists, HasContent, Located, NeededBy, BoundTo
  <2>2. ASSUME NEW m \in ContentNode, mig'[m].step = "copied" PROVE MovedObject(m)' \in object'
    <3>1. m # n /\ MovedObject(m)' = MovedObject(m) /\ mig[m].step = "copied" /\ MovedObject(m) \in object
      BY <1>4, <1>5, <2>2 DEF ContentInv, ObjectsReady, MovedObject
    <3> QED BY <1>2, <3>1 DEF NeededBy
  <2>3. ASSUME NEW s \in Request, req'[s].step \in {"uploaded", "locked"} PROVE NewObject(s)' \in object'
    <3>1. NewObject(s)' = NewObject(s) /\ NewObject(s) \in object
      BY <1>1, <2>3 DEF ContentInv, ObjectsReady, NewObject, NewKey
    <3> QED BY <1>1, <1>2, <2>3, <3>1 DEF NeededBy
  <2>4. ASSUME NEW s \in Request, ReqAt(s, "copying")' PROVE req'[s].made \subseteq object'
    <3>1. ReqAt(s, "copying") /\ req'[s].made = req[s].made /\ req[s].made \subseteq object
      BY <1>1, <2>4 DEF ContentInv, ObjectsReady, ReqAt
    <3> QED BY <1>2, <3>1 DEF NeededBy
  <2> QED BY <2>1, <2>2, <2>3, <2>4 DEF ObjectsReady
<1>12. CopiesDistinct'
  BY <1>1 DEF ContentInv, CopiesDistinct, ReqAt
<1>13. ObjectsMinded'
  <2> SUFFICES ASSUME ~excused', NEW o \in object' PROVE Minded(o)'
    BY DEF ObjectsMinded
  <2>e. ~excused
    BY <1>e
  <2>1. o \in object /\ Minded(o)
    BY <1>3, <2>e DEF ContentInv, ObjectsMinded
  <2>f. o # from
    BY <1>1 DEF DeleteObject
  <2>2. BoundTo(o) => BoundTo(o)'
    BY <1>1 DEF BoundTo, HasContent, Located
  <2>3. ASSUME NEW s \in Request, RequestMinds(s, o) PROVE RequestMinds(s, o)'
    BY <1>1, <2>3 DEF RequestMinds, ReqAt, NewObject, NewKey, HasContent, Located
  <2>4. ASSUME NEW m \in ContentNode, MigrationMinds(m, o) PROVE MigrationMinds(m, o)'
    BY <1>1, <1>4, <2>f, <2>4 DEF MigrationMinds, MovedObject
  <2> QED BY <2>1, <2>2, <2>3, <2>4 DEF Minded
<1> QED BY <1>6, <1>8, <1>9, <1>10, <1>11, <1>12, <1>13 DEF ContentInv

-----------------------------------------------------------------------------
(* Every step, and the theorems. *)

LEMMA ContentStarts == ContentStart => ContentInv
<1> SUFFICES ASSUME ContentStart PROVE ContentInv
  OBVIOUS
<1>1. PICK stored \in SUBSET ContentFile, home \in [ContentFile -> Provider] :
        bind = [n \in ContentNode |-> IF n[1] # First THEN Absent
                              ELSE IF n[2] \notin stored THEN Empty
                              ELSE [row |-> "first", at |-> home[n[2]], key |-> n]]
  BY DEF ContentStart
<1>2. /\ object = {Located(bind[n]) : n \in {m \in ContentNode : HasContent(bind[m])}}
      /\ req = [r \in Request |-> [step |-> "new"]] /\ mig = [n \in ContentNode |-> Unmoved] /\ excused = FALSE
  BY DEF ContentStart
<1>3. Absent \in Binding /\ Empty \in Binding /\ ~HasContent(Absent) /\ ~HasContent(Empty) /\ FirstRow(Absent) /\ FirstRow(Empty)
  BY BindingTypes DEF HasContent, Absent, Empty, FirstRow
<1>4. ASSUME NEW n \in ContentNode
      PROVE  /\ bind[n] \in Binding /\ FirstRow(bind[n])
             /\ n[1] # First => bind[n] = Absent
             /\ n[1] = First => bind[n] # Absent
             /\ HasContent(bind[n]) => bind[n].key = n /\ bind[n].row = "first" /\ n[1] = First
  <2>1. CASE n[1] # First
    BY <1>1, <1>3, <2>1
  <2>2. CASE n[1] = First /\ n[2] \notin stored
    BY <1>1, <1>3, <2>2 DEF Absent, Empty
  <2>3. CASE n[1] = First /\ n[2] \in stored
    <3>1. bind[n] = [row |-> "first", at |-> home[n[2]], key |-> n] /\ home[n[2]] \in Provider /\ n \in ObjectKey
      BY <1>1, <2>3, KeyTypes DEF ContentNode
    <3>2. bind[n].row = "first" /\ bind[n].key = n
      BY <3>1
    <3>3. bind[n] \in Binding
      BY <3>1, BindingTypes
    <3> QED BY <2>3, <3>2, <3>3, ContentMakers DEF Absent, FirstRow
  <2> QED BY <2>1, <2>2, <2>3
<1>5. \A r \in Request : req[r].step = "new" /\ req[r] \in IdleReq
  BY <1>2 DEF IdleReq
<1>6. \A n \in ContentNode : mig[n].step = "idle"
  BY <1>2 DEF Unmoved
<1>7. ContentTypeOK
  <2>1. object \subseteq Object
    BY <1>2, <1>4, BindingTypes
  <2>2. bind \in [ContentNode -> Binding]
    BY <1>1, <1>4
  <2> QED BY <1>2, <1>5, <2>1, <2>2 DEF ContentTypeOK
<1>8. \A n \in ContentNode, k \in ObjectKey : Known(n, k) => n[1] = First /\ k = n
  BY <1>4, <1>5, <1>6 DEF Known, Holding
<1>9. KeysOwned
  BY <1>8, ContentMakers DEF KeysOwned
<1>10. KeysFresh
  <2> SUFFICES ASSUME NEW r \in Request
               PROVE  /\ \A f \in ContentFile : bind[<<r, f>>] = Absent
                      /\ \A n \in ContentNode, k \in ObjectKey : Known(n, k) => k[1] # r
    BY DEF KeysFresh
  <2>1. r # First
    BY ContentMakers
  <2>2. \A f \in ContentFile : <<r, f>> \in ContentNode /\ <<r, f>>[1] # First
    BY <2>1 DEF ContentNode
  <2> QED BY <1>4, <1>8, <2>1, <2>2
<1>11. NodesHeld /\ KeysRetired /\ CopiesDistinct
  BY <1>4, <1>5, <1>6 DEF NodesHeld, KeysRetired, CopiesDistinct, ReqAt
<1>12. ObjectsReady
  BY <1>2, <1>4, <1>5, <1>6 DEF ObjectsReady, BoundObjectExists, ReqAt
<1>13. ObjectsMinded
  BY <1>2, <1>4 DEF ObjectsMinded, Minded, BoundTo
<1> QED BY <1>7, <1>9, <1>10, <1>11, <1>12, <1>13 DEF ContentInv

LEMMA ContentUnmoved ==
  ASSUME ContentInv, UNCHANGED contentVars
  PROVE  ContentInv'
<1>1. bind' = bind /\ object' = object /\ req' = req /\ mig' = mig /\ excused' = excused
  BY DEF contentVars
<1>2. ContentTypeOK'
  BY <1>1 DEF ContentInv, ContentTypeOK
<1>3. (KeysOwned /\ KeysFresh)'
  BY <1>1 DEF ContentInv, KeysOwned, KeysFresh, Known, Holding, Pending, HasContent
<1>4. (NodesHeld /\ KeysRetired /\ CopiesDistinct)'
  BY <1>1 DEF ContentInv, NodesHeld, LockHolds, FirstRow, SameContent, KeysRetired, CopiesDistinct, HasContent, ReqAt
<1>5. ObjectsReady'
  BY <1>1 DEF ContentInv, ObjectsReady, BoundObjectExists, HasContent, Located, NewObject, NewKey, MovedObject, ReqAt
<1>6. (\A o \in object : Minded(o)) => (\A o \in object : Minded(o))'
  BY <1>1 DEF Minded, BoundTo, RequestMinds, MigrationMinds, HasContent, Located, NewObject, NewKey, MovedObject, ReqAt
<1>7. ObjectsMinded'
  BY <1>1, <1>6 DEF ContentInv, ObjectsMinded
<1> QED BY <1>2, <1>3, <1>4, <1>5, <1>7 DEF ContentInv

LEMMA ContentKept == ContentInv /\ [ContentNext]_contentVars => ContentInv'
<1> SUFFICES ASSUME ContentInv, [ContentNext]_contentVars PROVE ContentInv'
  OBVIOUS
<1>1. ASSUME NEW r \in Request, NEW n \in ContentNode, ReplaceBegin(r, n, Absent) \/ ReplaceBegin(r, n, bind[n])
      PROVE  ContentInv'
  BY <1>1, ReplaceBeginKeeps, BindingTypes DEF ContentInv, ContentTypeOK
<1>2. ASSUME NEW r \in Request, ReplaceUpload(r) PROVE ContentInv'
  BY <1>2, ReplaceUploadKeeps
<1>3. ASSUME NEW r \in Request, ReplaceLock(r) PROVE ContentInv'
  BY <1>3, ReplaceLockKeeps
<1>4. ASSUME NEW r \in Request, ReplaceCommit(r) PROVE ContentInv'
  BY <1>4, ReplaceCommitKeeps
<1>5. ASSUME NEW r \in Request, ReplaceCleanup(r) PROVE ContentInv'
  BY <1>5, ReplaceCleanupKeeps
<1>6. ASSUME NEW r \in Request, ReplaceUndo(r) PROVE ContentInv'
  BY <1>6, ReplaceUndoKeeps
<1>7. ASSUME NEW r \in Request, NEW S \in SUBSET ContentFile, CopyBegin(r, S) PROVE ContentInv'
  BY <1>7, CopyBeginKeeps
<1>8. ASSUME NEW r \in Request, NEW o \in Object, CopyObject(r, o) PROVE ContentInv'
  BY <1>8, CopyObjectKeeps
<1>9. ASSUME NEW r \in Request, CopyCommit(r) PROVE ContentInv'
  BY <1>9, CopyCommitKeeps
<1>10. ASSUME NEW r \in Request, CopyUndo(r) PROVE ContentInv'
  BY <1>10, CopyUndoKeeps
<1>11. ASSUME NEW r \in Request, CrashRequest(r) PROVE ContentInv'
  BY <1>11, CrashRequestKeeps
<1>12. ASSUME NEW n \in ContentNode, NEW p \in Provider, MigrateCopy(n, p) PROVE ContentInv'
  BY <1>12, MigrateCopyKeeps
<1>13. ASSUME NEW n \in ContentNode, MigrateSwap(n) PROVE ContentInv'
  BY <1>13, MigrateSwapKeeps
<1>14. ASSUME NEW n \in ContentNode, MigrateDelete(n) PROVE ContentInv'
  BY <1>14, MigrateDeleteKeeps
<1>15. CASE UNCHANGED contentVars
  BY <1>15, ContentUnmoved
<1> QED BY <1>1, <1>2, <1>3, <1>4, <1>5, <1>6, <1>7, <1>8, <1>9, <1>10, <1>11, <1>12, <1>13, <1>14, <1>15 DEF ContentNext

\* The types of file content, and who owns each object: a request in progress, a
\* file, or the cleanup that minds it, and never two of them.
THEOREM ContentInvariant == ContentSpec => []ContentInv
BY ContentStarts, ContentKept, PTL DEF ContentSpec

\* Whatever replacements, copies and migrations overlap, every node with content
\* is bound to an object that is there (BoundObjectExists).
THEOREM BoundContentIsThere == ContentSpec => []BoundObjectExists
<1>1. ContentInv => BoundObjectExists
  BY DEF ContentInv, ObjectsReady
<1> QED BY <1>1, ContentInvariant, PTL

\* When everything is quiet and no fault was met, the stores hold exactly what
\* nodes are bound to (NothingLeaks).
THEOREM StoresHoldWhatIsBound == ContentSpec => []NothingLeaks
<1>1. ContentInv => NothingLeaks
  <2> SUFFICES ASSUME ContentInv, OpenRequests = {}, ~excused, \A n \in ContentNode : mig[n] = Unmoved
               PROVE  object = {Located(bind[n]) : n \in {m \in ContentNode : HasContent(bind[m])}}
    BY DEF NothingLeaks
  <2>1. \A r \in Request, o \in object : ~RequestMinds(r, o)
    BY DEF RequestMinds, OpenRequests, ReqAt
  <2>2. \A n \in ContentNode, o \in object : ~MigrationMinds(n, o)
    BY DEF MigrationMinds, Unmoved
  <2>3. \A o \in object : BoundTo(o)
    BY <2>1, <2>2 DEF ContentInv, ObjectsMinded, Minded
  <2> QED BY <2>3 DEF BoundTo, ContentInv, ObjectsReady, BoundObjectExists
<1> QED BY <1>1, ContentInvariant, PTL

\* A replacement that names the content it was made from overwrites no other
\* content (NoUnseenContentOverwritten): what it checked under the lock is what
\* the node is bound to when it commits, as only a migration goes past the lock.
THEOREM OverwritesOnlyWhatWasSeen == ContentSpec => NoUnseenContentOverwritten
<1> DEFINE Seen == \A r \in Request, n \in ContentNode :
       (/\ ReqAt(r, "locked") /\ req[r].node = n /\ req[r].expect # Absent
        /\ bind'[n] # bind[n]
        /\ HasContent(bind'[n]) /\ bind'[n].key = NewKey(r, n))
       => SameContent(bind[n], req[r].expect)
<1>1. ContentInv /\ [ContentNext]_contentVars => [Seen]_contentVars
  <2> SUFFICES ASSUME ContentInv, ContentNext, NEW r \in Request, NEW n \in ContentNode,
                      ReqAt(r, "locked"), req[r].node = n, req[r].expect # Absent,
                      bind'[n] # bind[n], HasContent(bind'[n]), bind'[n].key = NewKey(r, n)
               PROVE  SameContent(bind[n], req[r].expect)
    OBVIOUS
  <2>t. ContentTypeOK /\ LockHolds(r) /\ NewKey(r, n) \in ObjectKey /\ NewKey(r, n)[1] = r /\ r # Moved
    BY KeyTypes, ContentMakers DEF ContentInv, NodesHeld, NewKey
  <2>1. ASSUME NEW s \in Request, ReplaceCommit(s) PROVE SameContent(bind[n], req[r].expect)
    <3>1. bind' = Rebound(s) /\ ReqAt(s, "locked")
      BY <2>1 DEF ReplaceCommit
    <3>2. CASE s = r
      <4>1. bind[n] = req[r].read
        BY <2>t, <3>1, <3>2 DEF LockHolds, Rebound, HasContent
      <4> QED BY <2>t, <4>1 DEF LockHolds
    <3>3. CASE s # r
      <4>1. req[s].node # n
        BY <2>t, <3>1, <3>3 DEF LockHolds
      <4> QED BY <2>t, <3>1, <4>1 DEF Rebound, ContentTypeOK
    <3> QED BY <3>2, <3>3
  <2>2. ASSUME NEW s \in Request, CopyCommit(s) PROVE FALSE
    <3>1. s # r /\ bind' = Copied(s)
      BY <2>2 DEF CopyCommit, ReqAt
    <3>2. PICK o \in req[s].made : o[2] = n /\ Copied(s)[n] = [row |-> "first", at |-> o[1], key |-> n]
      BY <2>2, <3>1, CopiedIs DEF CopyCommit
    <3>3. bind'[n].key = o[2]
      BY <3>1, <3>2
    <3> QED BY <2>2, <2>t, <3>1, <3>3 DEF CopyCommit, ContentInv, CopiesDistinct, ReqAt
  <2>3. ASSUME NEW m \in ContentNode, MigrateSwap(m) PROVE FALSE
    <3> DEFINE b == [row |-> "moved", at |-> mig[m].to, key |-> <<Moved, m[2]>>]
    <3>1. bind' = [bind EXCEPT ![m] = b] /\ b.key[1] = Moved
      BY <2>3 DEF MigrateSwap
    <3> HIDE DEF b
    <3>2. bind'[n] = b
      BY <2>t, <3>1 DEF ContentTypeOK
    <3> QED BY <2>t, <3>1, <3>2
  <2> QED BY <2>1, <2>2, <2>3 DEF ContentNext, ReplaceBegin, ReplaceUpload, ReplaceLock, ReplaceCleanup, ReplaceUndo,
        CopyBegin, CopyObject, CopyUndo, CrashRequest, MigrateCopy, MigrateDelete
<1> QED BY <1>1, ContentInvariant, PTL DEF ContentSpec, NoUnseenContentOverwritten

-----------------------------------------------------------------------------
(* Avatars.                                                                *)

\* No client has seen the key of an upload before its row was written, and
\* whatever an upload has read was seen.
KeysSeen ==
  /\ avatar \in shown
  /\ \A c \in Photo :
       /\ photo[c].step \in {"read", "uploaded", "saved"} => photo[c].old \in shown
       /\ photo[c].step \in {"new", "read", "uploaded"} => c \notin shown
       /\ photo[c].step = "undo" => c \notin shown \/ astray = TRUE

\* The object an upload is to bind is in the store; the one it deletes was
\* replaced.
PhotosReady ==
  \A c \in Photo :
    /\ photo[c].step = "uploaded" => c \in picture
    /\ photo[c].step = "saved" => photo[c].old # avatar \/ astray = TRUE

AvatarInv == AvatarTypeOK /\ KeysSeen /\ PhotosReady /\ (astray = TRUE \/ avatar \in picture \cup {NoAvatar})

-----------------------------------------------------------------------------
LEMMA AvatarStarts == AvatarStart => AvatarInv
<1> SUFFICES ASSUME AvatarStart PROVE AvatarInv
  OBVIOUS
<1>1. /\ avatar \in {NoAvatar, Builtin} /\ picture = {avatar} \ {NoAvatar} /\ shown = {avatar} /\ astray = FALSE
      /\ photo = [c \in Photo |-> [step |-> "new"]]
  BY DEF AvatarStart
<1>2. photo \in [Photo -> PhotoState] /\ \A c \in Photo : photo[c].step = "new"
  BY <1>1 DEF PhotoState
<1>3. AvatarTypeOK
  BY <1>1, <1>2 DEF AvatarTypeOK, AvatarKey
<1>4. KeysSeen
  BY <1>1, <1>2, AvatarBuiltin DEF KeysSeen
<1>5. PhotosReady
  BY <1>2 DEF PhotosReady
<1>6. avatar \in picture \cup {NoAvatar}
  BY <1>1
<1> QED BY <1>3, <1>4, <1>5, <1>6 DEF AvatarInv

LEMMA PhotoStepIs ==
  ASSUME AvatarTypeOK, NEW c \in Photo, NEW s \in {"over", "undo"}, PhotoStep(c, s)
  PROVE  /\ photo' \in [Photo -> PhotoState]
         /\ photo'[c].step = s
         /\ \A d \in Photo \ {c} : photo'[d] = photo[d]
BY DEF PhotoStep, PhotoState, AvatarTypeOK

LEMMA PhotoGoesIs ==
  ASSUME AvatarTypeOK, NEW c \in Photo, NEW s \in {"uploaded", "saved"}, PhotoGoes(c, s),
         photo[c].step \in {"read", "uploaded"}
  PROVE  /\ photo' \in [Photo -> PhotoState]
         /\ photo'[c].step = s /\ photo'[c].old = photo[c].old
         /\ \A d \in Photo \ {c} : photo'[d] = photo[d]
<1>1. photo[c] \in [step : {"read", "uploaded", "saved"}, old : AvatarKey \cup {NoAvatar}]
  BY DEF AvatarTypeOK, PhotoState
<1> QED BY <1>1 DEF PhotoGoes, PhotoState, AvatarTypeOK

LEMMA AvatarKept == AvatarInv /\ [AvatarNext]_avatarVars => AvatarInv'
<1> SUFFICES ASSUME AvatarInv, [AvatarNext]_avatarVars PROVE AvatarInv'
  OBVIOUS
<1>t. AvatarTypeOK
  BY DEF AvatarInv
<1> USE DEF AvatarInv, AvatarTypeOK, KeysSeen, PhotosReady, PhotoAt
<1>1. ASSUME NEW c \in Photo, AvatarRead(c) PROVE AvatarInv'
  <2> DEFINE rec == [step |-> "read", old |-> avatar]
  <2>1. rec \in PhotoState /\ rec.step = "read" /\ rec.old = avatar
    BY DEF PhotoState
  <2>2. photo' = [photo EXCEPT ![c] = rec] /\ photo[c].step = "new" /\ UNCHANGED <<avatar, picture, shown, astray>>
    BY <1>1 DEF AvatarRead
  <2> HIDE DEF rec
  <2> QED BY <2>1, <2>2
<1>2. ASSUME NEW c \in Photo, AvatarUpload(c) PROVE AvatarInv'
  <2>1. photo[c].step = "read" /\ UNCHANGED <<avatar, shown, astray>> /\ picture' \in {picture, picture \cup {c}}
    BY <1>2 DEF AvatarUpload
  <2>2. CASE picture' = picture \cup {c} /\ PhotoGoes(c, "uploaded")
    BY <1>t, <2>1, <2>2, PhotoGoesIs DEF AvatarKey
  <2>3. CASE PhotoStep(c, "over")
    BY <1>t, <2>1, <2>3, PhotoStepIs DEF AvatarKey
  <2> QED BY <1>2, <2>2, <2>3 DEF AvatarUpload
<1>3. ASSUME NEW c \in Photo, AvatarSave(c) PROVE AvatarInv'
  <2>1. photo[c].step = "uploaded" /\ picture' = picture
    BY <1>3 DEF AvatarSave
  <2>2. CASE avatar' = c /\ PhotoGoes(c, "saved") /\ shown' = shown \cup {c} /\ UNCHANGED astray
    BY <1>t, <2>1, <2>2, PhotoGoesIs DEF AvatarKey
  <2>3. CASE UNCHANGED <<avatar, shown, astray>> /\ PhotoStep(c, "undo")
    BY <1>t, <2>1, <2>3, PhotoStepIs
  <2>4. CASE avatar' = c /\ PhotoStep(c, "undo") /\ shown' = shown \cup {c} /\ astray' = TRUE
    BY <1>t, <2>1, <2>4, PhotoStepIs DEF AvatarKey
  <2> QED BY <1>3, <2>2, <2>3, <2>4 DEF AvatarSave
<1>4. ASSUME NEW c \in Photo, AvatarCleanup(c) PROVE AvatarInv'
  BY <1>t, <1>4, PhotoStepIs DEF AvatarCleanup
<1>5. ASSUME NEW c \in Photo, AvatarUndo(c) PROVE AvatarInv'
  BY <1>t, <1>5, PhotoStepIs DEF AvatarUndo
<1>6. ASSUME NEW c \in Photo, AvatarCrash(c) PROVE AvatarInv'
  BY <1>t, <1>6, PhotoStepIs DEF AvatarCrash
<1>7. ASSUME NEW k \in AvatarKey \cup {NoAvatar}, ProfileUpdate(k) PROVE AvatarInv'
  <2>1. k \in shown /\ avatar' = k /\ UNCHANGED <<picture, photo, shown>> /\ astray' \in BOOLEAN
    BY <1>7 DEF ProfileUpdate
  <2>2. astray = TRUE => astray' = TRUE
    BY <1>7 DEF ProfileUpdate
  <2>3. k = avatar \/ astray' = TRUE
    BY <1>7 DEF ProfileUpdate
  <2> QED BY <2>1, <2>2, <2>3
<1>8. CASE UNCHANGED avatarVars
  BY <1>8 DEF avatarVars
<1> QED BY <1>1, <1>2, <1>3, <1>4, <1>5, <1>6, <1>7, <1>8 DEF AvatarNext

\* The types of avatars, that the picture a request is about to bind is in the store
\* and that the one it is about to delete is not shown any more.
THEOREM AvatarInvariant == AvatarSpec => []AvatarInv
BY AvatarStarts, AvatarKept, PTL DEF AvatarSpec

\* However uploads overlap, fail or are cut short, the avatar in force is in the
\* store, unless an answer was lost or an old ext was put back (AvatarBacked).
THEOREM AvatarIsThere == AvatarSpec => []AvatarBacked
<1>1. AvatarInv => AvatarBacked
  BY DEF AvatarInv, AvatarBacked
<1> QED BY <1>1, AvatarInvariant, PTL

-----------------------------------------------------------------------------
(* Routing.                                                                *)

\* What a request has found out so far still holds: a rule that was just picked
\* names a provider in force, what was looked up since the last reload leads
\* there still, and a file that is kept and was not recorded under the name of
\* somebody's choice is recorded under the alias of its provider.
PlacingGrounded ==
  /\ placing.step \in {"routed", "session"} /\ placing.via = "rule" => placing.name \in DOMAIN inForce
  /\ placing.step = "found" /\ placing.calm => LookUp(inForce, placing.name) = {placing.home}
  /\ placing.step = "stored" /\ placing.kept =>
       /\ placing.home \in DOMAIN inForce
       /\ placing.via \in {"rule", "content"} => placing.name = placing.home

RoutingInv == RoutingTypeOK /\ PlacingGrounded

-----------------------------------------------------------------------------
(* Lookups. *)

\* A table in force has providers for some of the aliases.
LEMMA TableDomain ==
  ASSUME NEW t \in ProviderTable
  PROVE  /\ DOMAIN t \subseteq RoutedAlias
         /\ \A a \in DOMAIN t : t[a] \in Place
BY DEF ProviderTable

\* The alias itself comes before any other spelling.
LEMMA AliasFirst ==
  ASSUME NEW t, NEW n \in DOMAIN t
  PROVE  LookUp(t, n) = {n}
BY DEF LookUp

\* A lookup finds one provider or none, and one there is.
LEMMA LookUpFindsOne ==
  ASSUME NEW t \in ProviderTable, NEW n, NEW a \in LookUp(t, n)
  PROVE  a \in DOMAIN t /\ LookUp(t, n) = {a}
<1> DEFINE spelled == {b \in DOMAIN t : Folded[b] = Folded[n]}
           typed   == {b \in DOMAIN t : PlaceType[t[b]] = Folded[n]}
<1>1. CASE n \in DOMAIN t
  BY <1>1, AliasFirst
<1>2. CASE n \notin DOMAIN t /\ spelled # {}
  <2>1. LookUp(t, n) = {CHOOSE b \in spelled : TRUE}
    BY <1>2 DEF LookUp
  <2>2. (CHOOSE b \in spelled : TRUE) \in spelled
    BY <1>2
  <2> QED BY <2>1, <2>2
<1>3. CASE n \notin DOMAIN t /\ spelled = {}
  <2>1. LookUp(t, n) = IF Cardinality(typed) = 1 THEN typed ELSE {}
    BY <1>3 DEF LookUp
  <2>2. LookUp(t, n) = typed /\ Cardinality(typed) = 1
    BY <2>1
  <2>3. IsFiniteSet(typed)
    BY TableDomain, RoutingAliases, FS_Subset
  <2>4. \E b : typed = {b}
    BY <2>2, <2>3, FS_Singleton
  <2> QED BY <2>2, <2>4
<1> QED BY <1>1, <1>2, <1>3

-----------------------------------------------------------------------------
(* The invariant. *)

\* It holds at the start.
LEMMA RoutingInvInit == RoutingStart => RoutingInv
BY DEF RoutingStart, RoutingInv, RoutingTypeOK, PlacingGrounded, PlacingState, Unplaced

\* A file that is stored where its name leads is grounded.
LEMMA StoredAtKeeps ==
  ASSUME RoutingInv, NEW n \in AskedName, NEW a \in LookUp(inForce, n),
         NEW via \in {"rule", "name"}, via = "rule" => n = a, StoredAt(a, n, via)
  PROVE  RoutingInv'
<1>1. a \in DOMAIN inForce /\ a \in RoutedAlias /\ inForce[a] \in Place
  BY LookUpFindsOne, TableDomain DEF RoutingInv, RoutingTypeOK
<1>2. /\ inForce' = inForce
      /\ placing' = [step |-> "stored", name |-> n, via |-> via, home |-> a,
                     place |-> inForce[a], kept |-> TRUE]
  BY DEF StoredAt, FileGoes
<1>3. RoutingTypeOK'
  BY <1>1, <1>2 DEF RoutingInv, RoutingTypeOK, PlacingState
<1>4. PlacingGrounded'
  BY <1>1, <1>2 DEF PlacingGrounded
<1> QED BY <1>3, <1>4 DEF RoutingInv

\* What the state of the file says of its fields.
LEMMA PlacingFields ==
  ASSUME RoutingTypeOK
  PROVE  /\ placing.step = "routed" =>
              placing.name \in AskedName /\ placing.via \in {"rule", "name"}
         /\ placing.step = "found" =>
              /\ placing.name \in AskedName /\ placing.home \in RoutedAlias
              /\ placing.place \in Place /\ placing.calm \in BOOLEAN
         /\ placing.step = "session" =>
              placing.name \in AskedName /\ placing.via \in {"rule", "name"}
         /\ placing.step = "stored" => placing.name \in AskedName
BY RoutingAliases DEF RoutingTypeOK, PlacingState, Unplaced

\* It holds after each action of the file.
LEMMA PlacingKeeps ==
  ASSUME RoutingInv,
         \/ \E for \in {"session", "content"} : Route(for)
         \/ RouteGet
         \/ \E n \in AskedName : SessionAsks(n)
         \/ SessionPut
         \/ SessionComplete
         \/ \E n \in AskedName : ContentAsks(n)
         \/ ContentFirst
         \/ ContentAgain
         \/ Forgotten
  PROVE  RoutingInv'
<1> USE DEF RoutingInv
<1>t. inForce \in ProviderTable /\ placing \in PlacingState
  BY DEF RoutingTypeOK
<1>f. FileGoes(Unplaced) => RoutingInv'
  BY <1>t DEF FileGoes, RoutingTypeOK, PlacingGrounded, PlacingState, Unplaced
<1>1. ASSUME NEW for \in {"session", "content"}, Route(for) PROVE RoutingInv'
  <2>1. PICK a \in DOMAIN inForce :
          FileGoes([step |-> "routed", name |-> a, for |-> for, via |-> "rule"])
    BY <1>1 DEF Route, MatchRoutingRules
  <2>2. a \in RoutedAlias
    BY <1>t, TableDomain
  <2> QED BY <1>t, <2>1, <2>2 DEF FileGoes, RoutingTypeOK, PlacingGrounded, PlacingState
<1>2. CASE RouteGet
  <2>1. CASE FileGoes(Unplaced)
    BY <2>1, <1>f
  <2>2. ASSUME NEW a \in LookUp(inForce, placing.name), placing.for = "content",
               StoredAt(a, placing.name, placing.via)
        PROVE  RoutingInv'
    <3>1. placing.name \in AskedName /\ placing.via \in {"rule", "name"}
      BY <1>2, PlacingFields DEF RouteGet
    <3>2. placing.via = "rule" => placing.name = a
      BY <1>2, <2>2, AliasFirst DEF RouteGet, PlacingGrounded
    <3> QED BY <2>2, <3>1, <3>2, StoredAtKeeps
  <2>3. ASSUME FileGoes([step |-> "session", name |-> placing.name, via |-> placing.via, put |-> {}])
        PROVE  RoutingInv'
    <3>1. placing.name \in AskedName /\ placing.via \in {"rule", "name"}
      BY <1>2, PlacingFields DEF RouteGet
    <3>2. placing.via = "rule" => placing.name \in DOMAIN inForce
      BY <1>2 DEF RouteGet, PlacingGrounded
    <3> QED BY <1>t, <2>3, <3>1, <3>2 DEF FileGoes, RoutingTypeOK, PlacingGrounded, PlacingState
  <2> QED BY <1>2, <2>1, <2>2, <2>3 DEF RouteGet, ProviderGet
<1>3. ASSUME NEW n \in AskedName, SessionAsks(n) PROVE RoutingInv'
  BY <1>3, <1>t DEF SessionAsks, FileGoes, RoutingTypeOK, PlacingGrounded, PlacingState
<1>4. CASE SessionPut
  <2>1. PICK a \in LookUp(inForce, placing.name) :
          FileGoes([placing EXCEPT !.put = @ \cup {inForce[a]}])
    BY <1>4 DEF SessionPut, ProviderGet
  <2>2. inForce[a] \in Place
    BY <1>t, LookUpFindsOne, TableDomain
  <2>3. placing \in [step : {"session"}, name : AskedName, via : {"rule", "name"}, put : SUBSET Place]
    BY <1>t, <1>4 DEF SessionPut, PlacingState, Unplaced
  <2>4. /\ placing' \in [step : {"session"}, name : AskedName, via : {"rule", "name"}, put : SUBSET Place]
        /\ placing'.via = placing.via /\ placing'.name = placing.name
        /\ inForce' = inForce
    BY <2>1, <2>2, <2>3 DEF FileGoes
  <2>5. RoutingTypeOK'
    BY <1>t, <2>4 DEF RoutingTypeOK, PlacingState
  <2>6. PlacingGrounded'
    BY <1>4, <2>4 DEF PlacingGrounded, SessionPut
  <2> QED BY <2>5, <2>6
<1>5. CASE SessionComplete
  <2>1. PICK a \in LookUp(inForce, placing.name) : StoredAt(a, placing.name, placing.via)
    BY <1>5 DEF SessionComplete, ProviderGet
  <2>2. placing.name \in AskedName /\ placing.via \in {"rule", "name"}
    BY <1>5, PlacingFields DEF SessionComplete
  <2>3. placing.via = "rule" => placing.name = a
    BY <1>5, <2>1, AliasFirst DEF SessionComplete, PlacingGrounded
  <2> QED BY <2>1, <2>2, <2>3, StoredAtKeeps
<1>6. ASSUME NEW n \in AskedName, ContentAsks(n) PROVE RoutingInv'
  <2>1. PICK a \in LookUp(inForce, n) :
          FileGoes([step |-> "found", name |-> n, home |-> a, place |-> inForce[a], calm |-> TRUE])
    BY <1>6 DEF ContentAsks, ProviderGet
  <2>2. a \in DOMAIN inForce /\ LookUp(inForce, n) = {a}
    BY <1>t, LookUpFindsOne
  <2>3. a \in RoutedAlias /\ inForce[a] \in Place
    BY <1>t, <2>2, TableDomain
  <2>4. RoutingTypeOK'
    BY <1>t, <2>1, <2>3 DEF FileGoes, RoutingTypeOK, PlacingState
  <2>5. PlacingGrounded'
    BY <2>1, <2>2 DEF FileGoes, PlacingGrounded
  <2> QED BY <2>4, <2>5
<1>7. CASE ContentFirst
  <2>1. /\ inForce' = inForce
        /\ placing' = [step |-> "stored", name |-> CanonicalName(placing.name), via |-> "content",
                       home |-> placing.home, place |-> placing.place, kept |-> placing.calm]
    BY <1>7 DEF ContentFirst, FileGoes
  <2>2. /\ placing.step = "found" /\ placing.name \in AskedName /\ placing.home \in RoutedAlias
        /\ placing.place \in Place /\ placing.calm \in BOOLEAN
    BY <1>7, PlacingFields DEF ContentFirst
  <2>3. CanonicalName(placing.name) \in AskedName
    <3>1. CASE LookUp(inForce, placing.name) = {}
      BY <3>1, <2>2 DEF CanonicalName, ProviderConfigByAlias
    <3>2. CASE LookUp(inForce, placing.name) # {}
      <4>1. CanonicalName(placing.name) \in LookUp(inForce, placing.name)
        BY <3>2 DEF CanonicalName, ProviderConfigByAlias
      <4> QED BY <4>1, <1>t, LookUpFindsOne, TableDomain, RoutingAliases
    <3> QED BY <3>1, <3>2
  <2>4. placing.calm => CanonicalName(placing.name) = placing.home /\ placing.home \in DOMAIN inForce
    <3>1. placing.calm => LookUp(inForce, placing.name) = {placing.home}
      BY <2>2 DEF PlacingGrounded
    <3> QED BY <3>1, <1>t, LookUpFindsOne DEF CanonicalName, ProviderConfigByAlias
  <2>5. RoutingTypeOK'
    BY <1>t, <2>1, <2>2, <2>3 DEF RoutingTypeOK, PlacingState
  <2>6. PlacingGrounded'
    BY <2>1, <2>4 DEF PlacingGrounded
  <2> QED BY <2>5, <2>6
<1>8. CASE ContentAgain
  <2>1. PICK a \in LookUp(inForce, placing.name) : StoredAt(a, placing.name, "name")
    BY <1>8 DEF ContentAgain, ProviderGet
  <2> QED BY <1>8, <2>1, PlacingFields, StoredAtKeeps DEF ContentAgain
<1>9. CASE Forgotten
  BY <1>9, <1>f DEF Forgotten
<1> QED BY <1>1, <1>2, <1>3, <1>4, <1>5, <1>6, <1>7, <1>8, <1>9

\* It holds after a reload.
LEMMA ReloadKeeps ==
  ASSUME RoutingInv, NEW table \in ProviderTable, Reloaded(table)
  PROVE  RoutingInv'
<1>t. placing \in PlacingState
  BY DEF RoutingInv, RoutingTypeOK
<1>1. CASE placing = Unplaced
  BY <1>1, <1>t DEF Reloaded, RoutingInv, RoutingTypeOK, PlacingGrounded, PlacingState, Unplaced
<1>2. CASE placing.step = "stored"
  <2>1. placing' = IF placing.home \in DOMAIN table /\ table[placing.home] = placing.place
                  THEN placing ELSE [placing EXCEPT !.kept = FALSE]
    BY <1>2 DEF Reloaded, Unplaced
  <2>2. placing \in [step : {"stored"}, name : AskedName, via : {"rule", "name", "content"},
                     home : RoutedAlias, place : Place, kept : BOOLEAN]
    BY <1>2, <1>t DEF PlacingState, Unplaced
  <2>3. placing' \in [step : {"stored"}, name : AskedName, via : {"rule", "name", "content"},
                      home : RoutedAlias, place : Place, kept : BOOLEAN]
    BY <2>1, <2>2
  <2>4. /\ placing'.kept => placing.kept /\ placing.home \in DOMAIN table
        /\ placing'.home = placing.home /\ placing'.name = placing.name /\ placing'.via = placing.via
    BY <2>1, <2>2
  <2>5. RoutingTypeOK'
    BY <2>3 DEF Reloaded, RoutingTypeOK, PlacingState
  <2>6. PlacingGrounded'
    BY <1>2, <2>3, <2>4 DEF Reloaded, RoutingInv, PlacingGrounded
  <2> QED BY <2>5, <2>6 DEF RoutingInv
<1>3. CASE placing.step = "found"
  <2>1. placing' = [placing EXCEPT !.calm = FALSE]
    BY <1>3 DEF Reloaded, Unplaced
  <2>2. placing \in [step : {"found"}, name : AskedName, home : RoutedAlias, place : Place, calm : BOOLEAN]
    BY <1>3, <1>t DEF PlacingState, Unplaced
  <2> QED BY <2>1, <2>2 DEF Reloaded, RoutingInv, RoutingTypeOK, PlacingGrounded, PlacingState
<1>4. CASE placing.step \in {"routed", "session"}
  <2>1. placing' = [placing EXCEPT !.via = "name"]
    BY <1>4 DEF Reloaded, Unplaced
  <2>2. \/ placing \in [step : {"routed"}, name : RoutedAlias, for : {"session", "content"},
                        via : {"rule", "name"}]
        \/ placing \in [step : {"session"}, name : AskedName, via : {"rule", "name"}, put : SUBSET Place]
    BY <1>4, <1>t DEF PlacingState, Unplaced
  <2> QED BY <2>1, <2>2 DEF Reloaded, RoutingInv, RoutingTypeOK, PlacingGrounded, PlacingState
<1> QED BY <1>t, <1>1, <1>2, <1>3, <1>4 DEF PlacingState, Unplaced

-----------------------------------------------------------------------------
(* The theorems. *)

\* The variables of the model keep their types, and what a request has found out
\* stays true until a reload.
THEOREM RoutingInvariance == RoutingSpec => []RoutingInv
<1>1. RoutingInv /\ [RoutingNext]_routingVars => RoutingInv'
  <2> SUFFICES ASSUME RoutingInv, [RoutingNext]_routingVars PROVE RoutingInv'
    OBVIOUS
  <2>1. CASE RoutingNext
    BY <2>1, PlacingKeeps, ReloadKeeps DEF RoutingNext
  <2>2. CASE UNCHANGED routingVars
    BY <2>2 DEF routingVars, RoutingInv, RoutingTypeOK, PlacingGrounded
  <2> QED BY <2>1, <2>2
<1> QED BY <1>1, RoutingInvInit, PTL DEF RoutingSpec

\* A stored file is found where it was written as long as its provider stays
\* configured, for any aliases, spellings, types and sequence of reloads.
THEOREM FilesFoundWhereWritten == RoutingSpec => []FoundWhereWritten
<1>1. RoutingInv => FoundWhereWritten
  BY AliasFirst DEF RoutingInv, PlacingGrounded, FoundWhereWritten, ProviderGet
<1> QED BY <1>1, RoutingInvariance, PTL

-----------------------------------------------------------------------------
(* The registry and its configuration file.                                *)

\* Stores were built, or kept, for the connections of a configuration.
BuiltFor(stores, c) ==
  /\ DOMAIN stores = DOMAIN c.providers
  /\ \A a \in DOMAIN stores : stores[a].conn = c.providers[a].conn
StoresBuilt ==
  /\ BuiltFor(store, conf)
  /\ \A p \in Reloader : ReloadAt(p, "built") => BuiltFor(reload[p].stores, reload[p].to)

\* As long as no writes crossed: whoever writes the file is alone with it, what
\* is about to take effect is what the file holds, and a quiet file is in force
\* or about to be.
WritesApart ==
  \/ crossed = TRUE
  \/ /\ \A p \in Reloader : ReloadAt(p, "saving") =>
          disk = Torn /\ \A q \in Reloader \ {p} : reload[q].step \notin {"saving", "saved", "built"}
     /\ \A p \in Reloader : reload[p].step \in {"saved", "built"} => reload[p].to = disk
     /\ (armed = FALSE /\ disk # Torn /\ Usable(disk)) =>
          conf = disk \/ \E p \in Reloader : ReloadAt(p, "built")

RegistryInv == RegistryTypeOK /\ StoresBuilt /\ WritesApart

-----------------------------------------------------------------------------
LEMMA ProviderMapIs ==
  /\ \A m \in ProviderMap : DOMAIN m \subseteq Alias /\ DOMAIN m # {} /\ \A a \in DOMAIN m : m[a] \in ProviderConfig
  /\ \A A \in (SUBSET Alias) \ {{}} : [A -> ProviderConfig] \subseteq ProviderMap
BY DEF ProviderMap

LEMMA ConfigIs ==
  \A c : c \in StorageConfig <=>
    /\ c \in [providers : ProviderMap, default : Alias, rules : SUBSET Alias]
    /\ c.default \in DOMAIN c.providers /\ c.rules \subseteq DOMAIN c.providers
BY DEF StorageConfig

\* An edit of a valid configuration is one.
LEMMA EditsAreValid ==
  ASSUME NEW c \in StorageConfig
  PROVE  Edited(c) \subseteq StorageConfig
<1>1. /\ c \in [providers : ProviderMap, default : Alias, rules : SUBSET Alias]
      /\ c.default \in DOMAIN c.providers /\ c.rules \subseteq DOMAIN c.providers
      /\ DOMAIN c.providers \subseteq Alias /\ \A a \in DOMAIN c.providers : c.providers[a] \in ProviderConfig
      /\ c.providers \in [DOMAIN c.providers -> ProviderConfig]
  <2>1. /\ c \in [providers : ProviderMap, default : Alias, rules : SUBSET Alias]
        /\ c.default \in DOMAIN c.providers /\ c.rules \subseteq DOMAIN c.providers
    BY ConfigIs
  <2>2. PICK A \in (SUBSET Alias) \ {{}} : c.providers \in [A -> ProviderConfig]
    BY <2>1 DEF ProviderMap
  <2> QED BY <2>1, <2>2
<1>2. ASSUME NEW d \in Added(c) PROVE d \in StorageConfig
  <2>1. PICK a \in Alias \ DOMAIN c.providers, f \in ProviderConfig :
          d = [c EXCEPT !.providers = [x \in DOMAIN c.providers \cup {a} |-> IF x = a THEN f ELSE c.providers[x]]]
    BY <1>2 DEF Added
  <2> DEFINE m == [x \in DOMAIN c.providers \cup {a} |-> IF x = a THEN f ELSE c.providers[x]]
             A == DOMAIN c.providers \cup {a}
  <2>2. m \in [A -> ProviderConfig] /\ A \in (SUBSET Alias) \ {{}} /\ DOMAIN m = A
    BY <1>1
  <2>3. m \in ProviderMap
    BY <2>2, ProviderMapIs
  <2>4. d = [c EXCEPT !.providers = m]
    BY <2>1
  <2> HIDE DEF m
  <2> QED BY <1>1, <2>2, <2>3, <2>4, ConfigIs
<1>3. ASSUME NEW d \in Updated(c) PROVE d \in StorageConfig
  <2>1. PICK a \in DOMAIN c.providers, f \in ProviderConfig : d = [c EXCEPT !.providers[a] = f]
    BY <1>3 DEF Updated
  <2> DEFINE m == [c.providers EXCEPT ![a] = f]
  <2>2. m \in [DOMAIN c.providers -> ProviderConfig] /\ DOMAIN m = DOMAIN c.providers
    BY <1>1
  <2>3. m \in ProviderMap
    BY <1>1, <2>2, ProviderMapIs
  <2>4. d = [c EXCEPT !.providers = m]
    BY <1>1, <2>1
  <2> HIDE DEF m
  <2> QED BY <1>1, <2>2, <2>3, <2>4, ConfigIs
<1>4. ASSUME NEW d \in Removed(c) PROVE d \in StorageConfig
  <2>1. PICK a \in DOMAIN c.providers \ {c.default} :
          d = [WithProviders(c, DOMAIN c.providers \ {a}) EXCEPT !.rules = @ \ {a}]
    BY <1>4 DEF Removed
  <2> DEFINE A == DOMAIN c.providers \ {a}
             m == [x \in A |-> c.providers[x]]
             w == WithProviders(c, A)
  <2>2. m \in [A -> ProviderConfig] /\ A \in (SUBSET Alias) \ {{}} /\ DOMAIN m = A
    BY <1>1, <2>1
  <2>3. m \in ProviderMap
    BY <2>2, ProviderMapIs
  <2>4. w = [c EXCEPT !.providers = m]
    BY DEF WithProviders
  <2> HIDE DEF m
  <2>5. w \in [providers : ProviderMap, default : Alias, rules : SUBSET Alias] /\ w.providers = m /\ w.default = c.default /\ w.rules = c.rules
    BY <1>1, <2>3, <2>4
  <2>6. d = [w EXCEPT !.rules = @ \ {a}]
    BY <2>1
  <2> HIDE DEF w
  <2> QED BY <1>1, <2>1, <2>2, <2>5, <2>6, ConfigIs
<1>5. ASSUME NEW d \in Redefaulted(c) \cup Rerouted(c) PROVE d \in StorageConfig
  BY <1>1, <1>5, ConfigIs DEF Redefaulted, Rerouted
<1> QED BY <1>2, <1>3, <1>4, <1>5 DEF Edited

\* What Build makes of a reloader: it has stores for the connections it is to
\* put in force, or nothing to do if one of them is not usable.
LEMMA BuildIs ==
  ASSUME RegistryTypeOK, BuiltFor(store, conf), NEW p \in Reloader, NEW c \in StorageConfig, Build(p, c)
  PROVE  /\ reload' \in [Reloader -> ReloadState]
         /\ \A q \in Reloader \ {p} : reload'[q] = reload[q]
         /\ \/ reload'[p].step = "idle" /\ ~Usable(c)
            \/ reload'[p].step = "built" /\ reload'[p].to = c /\ BuiltFor(reload'[p].stores, c)
<1> DEFINE rec == [step |-> "built", to |-> c, stores |-> Stores(c)]
<1>1. c.providers \in ProviderMap /\ conf.providers \in ProviderMap /\ conf \in StorageConfig
  BY ConfigIs DEF RegistryTypeOK
<1>2. /\ DOMAIN Stores(c) = DOMAIN c.providers
      /\ \A a \in DOMAIN c.providers : Stores(c)[a] \in ProviderConfig /\ Stores(c)[a].conn = c.providers[a].conn
  <2>1. /\ DOMAIN Stores(c) = DOMAIN c.providers
        /\ \A a \in DOMAIN c.providers : Stores(c)[a] = IF a \in Kept(c) THEN store[a] ELSE c.providers[a]
    BY DEF Stores
  <2>2. ASSUME NEW a \in Kept(c) PROVE store[a] \in ProviderConfig /\ store[a].conn = c.providers[a].conn
    <3>1. a \in DOMAIN store /\ conf.providers[a].conn = c.providers[a].conn
      BY <2>2 DEF Kept, SameProvider, BuiltFor
    <3> QED BY <3>1, ProviderMapIs DEF RegistryTypeOK, BuiltFor
  <2> QED BY <1>1, <2>1, <2>2, ProviderMapIs
<1>3. Stores(c) \in ProviderMap
  <2>1. Stores(c) \in [DOMAIN c.providers -> ProviderConfig]
    <3>1. Stores(c) = [a \in DOMAIN c.providers |-> Stores(c)[a]]
      BY DEF Stores
    <3> QED BY <1>2, <3>1
  <2>2. DOMAIN c.providers \in (SUBSET Alias) \ {{}}
    BY <1>1, ProviderMapIs
  <2> QED BY <2>1, <2>2, ProviderMapIs
<1>4. BuiltFor(Stores(c), c)
  BY <1>2 DEF BuiltFor
<1>5. rec \in ReloadState /\ rec.step = "built" /\ rec.to = c /\ rec.stores = Stores(c)
  BY <1>3 DEF ReloadState
<1>6. ReloadIdle \in ReloadState /\ ReloadIdle.step = "idle"
  BY DEF ReloadState, ReloadIdle
<1>7. Refused(c) => ~Usable(c)
  BY DEF Refused, Usable
<1>8. reload' = [reload EXCEPT ![p] = IF Refused(c) THEN ReloadIdle ELSE rec]
  BY DEF Build, ReloadGoes
<1> HIDE DEF rec
<1>9. CASE Refused(c)
  BY <1>6, <1>7, <1>8, <1>9 DEF RegistryTypeOK
<1>10. CASE ~Refused(c)
  BY <1>4, <1>5, <1>8, <1>10 DEF RegistryTypeOK
<1> QED BY <1>9, <1>10

LEMMA RegistryStarts == RegistryStart => RegistryInv
<1> SUFFICES ASSUME RegistryStart PROVE RegistryInv
  OBVIOUS
<1>1. PICK a \in Alias, f \in ProviderConfig : conf = [providers |-> [x \in {a} |-> f], default |-> a, rules |-> {}]
  BY DEF RegistryStart
<1>2. /\ store = conf.providers /\ disk = conf /\ armed = FALSE /\ reload = [p \in Reloader |-> ReloadIdle]
      /\ edits = 0 /\ crossed = FALSE
  BY DEF RegistryStart
<1>3. [x \in {a} |-> f] \in ProviderMap
  BY ProviderMapIs
<1>4. conf \in StorageConfig /\ store \in ProviderMap
  BY <1>1, <1>2, <1>3, ConfigIs
<1>5. \A p \in Reloader : reload[p].step = "idle" /\ reload[p] \in ReloadState
  BY <1>2 DEF ReloadIdle, ReloadState
<1>6. RegistryTypeOK
  <2>1. edits \in 0 .. MaxEdits
    BY <1>2, RegistryEdits
  <2>2. reload \in [Reloader -> ReloadState]
    BY <1>2, <1>5
  <2> QED BY <1>2, <1>4, <2>1, <2>2 DEF RegistryTypeOK
<1> QED BY <1>2, <1>5, <1>6 DEF RegistryInv, StoresBuilt, BuiltFor, WritesApart, ReloadAt

\* A step that changes one reloader only.
LEMMA ReloadIs ==
  ASSUME RegistryTypeOK, NEW p \in Reloader, NEW rec \in ReloadState, ReloadGoes(p, rec)
  PROVE  /\ reload' \in [Reloader -> ReloadState]
         /\ reload'[p] = rec /\ \A q \in Reloader \ {p} : reload'[q] = reload[q]
BY DEF RegistryTypeOK, ReloadGoes

LEMMA CrossesIs ==
  ASSUME RegistryTypeOK, NEW P \in SUBSET Reloader, Crosses(P)
  PROVE  /\ crossed' \in {crossed, TRUE}
         /\ crossed' = TRUE \/ \A p \in P : reload[p].step \notin {"saving", "saved", "built"}
BY DEF Crosses, RegistryTypeOK

LEMMA EditBeginKeeps ==
  ASSUME RegistryInv, NEW p \in Reloader, NEW c \in Edited(conf), EditBegin(p, c)
  PROVE  RegistryInv'
<1> DEFINE rec == [step |-> "edited", to |-> c]
<1>1. c \in StorageConfig
  BY EditsAreValid DEF RegistryInv, RegistryTypeOK
<1>2. rec \in ReloadState /\ rec.step = "edited"
  BY <1>1 DEF ReloadState
<1>3. ReloadGoes(p, rec) /\ reload[p].step = "idle" /\ UNCHANGED <<conf, store, disk, armed, crossed>>
      /\ edits < MaxEdits /\ edits' = edits + 1
  BY DEF EditBegin, ReloadAt
<1> HIDE DEF rec
<1>4. /\ reload' \in [Reloader -> ReloadState]
      /\ reload'[p].step = "edited" /\ \A q \in Reloader \ {p} : reload'[q] = reload[q]
  BY <1>2, <1>3, ReloadIs DEF RegistryInv
<1>5. RegistryTypeOK'
  BY <1>3, <1>4, RegistryEdits DEF RegistryInv, RegistryTypeOK
<1>6. StoresBuilt'
  BY <1>3, <1>4 DEF RegistryInv, StoresBuilt, BuiltFor, ReloadAt
<1>7. WritesApart'
  BY <1>3, <1>4 DEF RegistryInv, WritesApart, Usable, ReloadAt
<1> QED BY <1>5, <1>6, <1>7 DEF RegistryInv

LEMMA EditTruncateKeeps ==
  ASSUME RegistryInv, NEW p \in Reloader, EditTruncate(p)
  PROVE  RegistryInv'
<1>1. /\ reload[p].step = "edited" /\ disk' = Torn /\ armed' = TRUE /\ Crosses(Reloader \ {p}) /\ UNCHANGED <<conf, store, edits>>
      /\ reload' = [reload EXCEPT ![p] = [reload[p] EXCEPT !.step = "saving"]]
  BY DEF EditTruncate, ReloadAt, ReloadGoes
<1>2. reload[p] \in [step : {"edited", "saving", "saved"}, to : StorageConfig]
  BY <1>1 DEF RegistryInv, RegistryTypeOK, ReloadState
<1>3. /\ reload' \in [Reloader -> ReloadState]
      /\ reload'[p].step = "saving" /\ \A q \in Reloader \ {p} : reload'[q] = reload[q]
  BY <1>1, <1>2 DEF RegistryInv, RegistryTypeOK, ReloadState
<1>4. /\ crossed' \in {crossed, TRUE}
      /\ crossed' = TRUE \/ \A q \in Reloader \ {p} : reload[q].step \notin {"saving", "saved", "built"}
  BY <1>1, CrossesIs DEF RegistryInv
<1>5. RegistryTypeOK'
  BY <1>1, <1>3, <1>4 DEF RegistryInv, RegistryTypeOK
<1>6. StoresBuilt'
  BY <1>1, <1>3 DEF RegistryInv, StoresBuilt, BuiltFor, ReloadAt
<1>7. WritesApart'
  BY <1>1, <1>3, <1>4 DEF WritesApart, ReloadAt
<1> QED BY <1>5, <1>6, <1>7 DEF RegistryInv

LEMMA EditWriteKeeps ==
  ASSUME RegistryInv, NEW p \in Reloader, EditWrite(p)
  PROVE  RegistryInv'
<1>1. /\ reload[p].step = "saving" /\ armed' = TRUE /\ UNCHANGED <<conf, store, edits, crossed>>
      /\ disk' = reload[p].to \/ (disk # Torn /\ disk' = Torn)
      /\ reload' = [reload EXCEPT ![p] = [reload[p] EXCEPT !.step = "saved"]]
  BY DEF EditWrite, ReloadAt, ReloadGoes
<1>2. reload[p] \in [step : {"edited", "saving", "saved"}, to : StorageConfig]
  BY <1>1 DEF RegistryInv, RegistryTypeOK, ReloadState
<1>3. /\ reload' \in [Reloader -> ReloadState]
      /\ reload'[p].step = "saved" /\ reload'[p].to = reload[p].to /\ \A q \in Reloader \ {p} : reload'[q] = reload[q]
  BY <1>1, <1>2 DEF RegistryInv, RegistryTypeOK, ReloadState
<1>4. RegistryTypeOK'
  BY <1>1, <1>2, <1>3 DEF RegistryInv, RegistryTypeOK
<1>5. StoresBuilt'
  BY <1>1, <1>3 DEF RegistryInv, StoresBuilt, BuiltFor, ReloadAt
<1>6. WritesApart'
  BY <1>1, <1>3 DEF RegistryInv, WritesApart, ReloadAt
<1> QED BY <1>4, <1>5, <1>6 DEF RegistryInv

LEMMA ManualEditKeeps ==
  ASSUME RegistryInv, ManualEdit
  PROVE  RegistryInv'
<1>1. /\ disk' \in StorageConfig \cup {Torn} /\ armed' = TRUE /\ UNCHANGED <<conf, store, reload>>
      /\ edits < MaxEdits /\ edits' = edits + 1 /\ Crosses(Reloader)
  BY EditsAreValid DEF ManualEdit, RegistryInv, RegistryTypeOK
<1>2. /\ crossed' \in {crossed, TRUE}
      /\ crossed' = TRUE \/ \A q \in Reloader : reload[q].step \notin {"saving", "saved", "built"}
  BY <1>1, CrossesIs DEF RegistryInv
<1>3. RegistryTypeOK'
  <2>1. edits' \in 0 .. MaxEdits
    BY <1>1, RegistryEdits DEF RegistryInv, RegistryTypeOK
  <2>2. crossed' \in BOOLEAN
    BY <1>2 DEF RegistryInv, RegistryTypeOK
  <2> QED BY <1>1, <2>1, <2>2 DEF RegistryInv, RegistryTypeOK
<1>4. StoresBuilt'
  BY <1>1 DEF RegistryInv, StoresBuilt, BuiltFor, ReloadAt
<1>5. WritesApart'
  BY <1>1, <1>2 DEF WritesApart, ReloadAt
<1> QED BY <1>3, <1>4, <1>5 DEF RegistryInv

\* A reload that builds what the file holds.
LEMMA BuildKeeps ==
  ASSUME RegistryInv, NEW p \in Reloader, NEW c \in StorageConfig, Build(p, c),
         UNCHANGED <<conf, store, disk, edits, crossed>>, armed' \in {armed, FALSE},
         reload[p].step \in {"idle", "saved"}, crossed = TRUE \/ c = disk, crossed = TRUE \/ disk # Torn,
         armed' = armed \/ c = disk
  PROVE  RegistryInv'
<1>1. /\ reload' \in [Reloader -> ReloadState]
      /\ \A q \in Reloader \ {p} : reload'[q] = reload[q]
      /\ \/ reload'[p].step = "idle" /\ ~Usable(c)
         \/ reload'[p].step = "built" /\ reload'[p].to = c /\ BuiltFor(reload'[p].stores, c)
  BY BuildIs DEF RegistryInv, StoresBuilt
<1>2. RegistryTypeOK'
  BY <1>1 DEF RegistryInv, RegistryTypeOK
<1>3. StoresBuilt'
  BY <1>1 DEF RegistryInv, StoresBuilt, BuiltFor, ReloadAt
<1>4. WritesApart'
  <2> SUFFICES ASSUME crossed = FALSE PROVE WritesApart'
    BY DEF WritesApart, RegistryInv, RegistryTypeOK
  <2>1. \A q \in Reloader : reload[q].step # "saving"
    BY DEF RegistryInv, WritesApart, ReloadAt
  <2>2. \A q \in Reloader : reload'[q].step # "saving"
    BY <1>1, <2>1
  <2>3. \A q \in Reloader : reload'[q].step \in {"saved", "built"} => reload'[q].to = disk
    BY <1>1 DEF RegistryInv, WritesApart
  <2>4. (armed' = FALSE /\ Usable(disk)) => conf = disk \/ \E q \in Reloader : reload'[q].step = "built"
    <3> SUFFICES ASSUME armed' = FALSE, Usable(disk), conf # disk PROVE \E q \in Reloader : reload'[q].step = "built"
      OBVIOUS
    <3>1. CASE reload'[p].step = "built"
      BY <3>1
    <3>2. CASE reload'[p].step = "idle"
      <4>1. armed = FALSE
        BY <1>1, <3>2
      <4>2. PICK q \in Reloader : ReloadAt(q, "built")
        BY <4>1 DEF RegistryInv, WritesApart
      <4> QED BY <1>1, <4>2 DEF ReloadAt
    <3> QED BY <1>1, <3>1, <3>2
  <2>5. Usable(disk)' = Usable(disk)
    BY DEF Usable
  <2> QED BY <2>2, <2>3, <2>4, <2>5 DEF WritesApart, ReloadAt
<1> QED BY <1>2, <1>3, <1>4 DEF RegistryInv

LEMMA EditBuildKeeps ==
  ASSUME RegistryInv, NEW p \in Reloader, EditBuild(p)
  PROVE  RegistryInv'
<1>1. reload[p].step = "saved" /\ Build(p, reload[p].to) /\ UNCHANGED <<conf, store, disk, armed, edits, crossed>>
  BY DEF EditBuild, ReloadAt
<1>2. reload[p].to \in StorageConfig
  BY <1>1 DEF RegistryInv, RegistryTypeOK, ReloadState
<1>3. crossed = TRUE \/ reload[p].to = disk
  BY <1>1 DEF RegistryInv, WritesApart
<1>4. Torn \notin StorageConfig
  BY ConfigIs DEF Torn
<1> QED BY <1>1, <1>2, <1>3, <1>4, BuildKeeps

LEMMA WatcherFiresKeeps ==
  ASSUME RegistryInv, NEW p \in Reloader, WatcherFires(p)
  PROVE  RegistryInv'
<1>1. /\ reload[p].step = "idle" /\ armed' = FALSE /\ UNCHANGED <<conf, store, disk, edits, crossed>>
      /\ disk = Torn => UNCHANGED reload
      /\ disk # Torn => Build(p, disk) /\ disk \in StorageConfig
  BY DEF WatcherFires, ReloadAt, RegistryInv, RegistryTypeOK
<1>2. CASE disk = Torn
  <2>1. UNCHANGED reload
    BY <1>1, <1>2
  <2>2. RegistryTypeOK' /\ StoresBuilt'
    BY <1>1, <2>1 DEF RegistryInv, RegistryTypeOK, StoresBuilt, BuiltFor, ReloadAt
  <2>3. WritesApart'
    BY <1>1, <1>2, <2>1 DEF RegistryInv, WritesApart, ReloadAt
  <2> QED BY <2>2, <2>3 DEF RegistryInv
<1>3. CASE disk # Torn
  BY <1>1, <1>3, BuildKeeps
<1> QED BY <1>2, <1>3

LEMMA SwapKeeps ==
  ASSUME RegistryInv, NEW p \in Reloader, Swap(p)
  PROVE  RegistryInv'
<1>1. /\ reload[p].step = "built" /\ conf' = reload[p].to /\ store' = reload[p].stores /\ ReloadGoes(p, ReloadIdle)
      /\ UNCHANGED <<disk, armed, edits, crossed>>
  BY DEF Swap, ReloadAt
<1>2. ReloadIdle \in ReloadState /\ ReloadIdle.step = "idle"
  BY DEF ReloadState, ReloadIdle
<1>3. /\ reload' \in [Reloader -> ReloadState]
      /\ reload'[p].step = "idle" /\ \A q \in Reloader \ {p} : reload'[q] = reload[q]
  BY <1>1, <1>2, ReloadIs DEF RegistryInv
<1>4. reload[p].to \in StorageConfig /\ reload[p].stores \in ProviderMap /\ BuiltFor(reload[p].stores, reload[p].to)
  BY <1>1 DEF RegistryInv, RegistryTypeOK, ReloadState, StoresBuilt, ReloadAt
<1>5. RegistryTypeOK'
  BY <1>1, <1>3, <1>4 DEF RegistryInv, RegistryTypeOK
<1>6. StoresBuilt'
  BY <1>1, <1>3, <1>4 DEF RegistryInv, StoresBuilt, BuiltFor, ReloadAt
<1>7. WritesApart'
  BY <1>1, <1>3 DEF RegistryInv, WritesApart, ReloadAt
<1> QED BY <1>5, <1>6, <1>7 DEF RegistryInv

LEMMA RegistryKept == RegistryInv /\ [RegistryNext]_registryVars => RegistryInv'
<1> SUFFICES ASSUME RegistryInv, [RegistryNext]_registryVars PROVE RegistryInv'
  OBVIOUS
<1>1. CASE UNCHANGED registryVars
  BY <1>1 DEF registryVars, RegistryInv, RegistryTypeOK, StoresBuilt, BuiltFor, WritesApart, Usable, ReloadAt
<1> QED BY <1>1, EditBeginKeeps, EditTruncateKeeps, EditWriteKeeps, EditBuildKeeps, WatcherFiresKeeps, SwapKeeps,
       ManualEditKeeps DEF RegistryNext

\* The types of the registry, that every store in force was built from the
\* configuration it describes, and that, unless two writes crossed, whoever writes
\* the file is alone with it and what is about to take effect is what it holds.
THEOREM RegistryInvariant == RegistrySpec => []RegistryInv
BY RegistryStarts, RegistryKept, PTL DEF RegistrySpec

\* The stores in force are those of the configuration in force, and a quiet file
\* is in force if no writes of it crossed (RegistrySound).
THEOREM RegistryIsSound == RegistrySpec => []RegistrySound
<1>1. RegistryInv => RegistrySound
  BY DEF RegistryInv, RegistryTypeOK, StoresBuilt, BuiltFor, WritesApart, RegistrySound, ReloadAt
<1> QED BY <1>1, RegistryInvariant, PTL
===============================================================================
