---------------------------- MODULE NodeTreeProofs ----------------------------
(***************************************************************************)
(* The tree of nodes and the tree of bookmarks, for every number of rows,  *)
(* names and requests.                                                     *)
(*                                                                         *)
(* Of the nodes: rows are locked until the transaction that wrote them     *)
(* ends, so a live row is never purged; a repair that runs alone heals the *)
(* tree, whatever the table holds; and a tree that is whole stays whole    *)
(* unless two requests that endanger it overlap.  Of the bookmarks: each   *)
(* one is in the tree that is shown.                                       *)
(*                                                                         *)
(* That rows form a tree is not said with paths, which are data of any     *)
(* length, but with sets: of any rows there is one whose parent is not     *)
(* among them (NoRing).  The recursive queries are the least sets closed   *)
(* under children (LevelsLeast, LevelsClosed).                             *)
(***************************************************************************)
EXTENDS NodeTree, BrowserBookmarks, FiniteSetTheorems, WellFoundedInduction, TLAPS

-----------------------------------------------------------------------------
(* Types and locks of the node tree. *)

RowField == {"st", "dir", "parent", "name"}
CallField == {"kind", "step", "sel", "dst", "old", "name", "dir", "ids", "tops"}

\* The shape of rows and calls.
Shaped ==
  /\ node = [n \in NodeId |-> node[n]]
  /\ \A n \in NodeId : RowField \subseteq DOMAIN node[n]
  /\ call = [c \in Client |-> call[c]]
  /\ \A c \in Client : CallField \subseteq DOMAIN call[c]
  /\ pend = [c \in Client |-> pend[c]]
  /\ \A c \in Client : /\ DOMAIN pend[c] \subseteq NodeId
                       /\ \A n \in DOMAIN pend[c] : RowField \subseteq DOMAIN pend[c][n]

\* A row is written by one transaction at a time, and one that is to be deleted
\* or purged is in the recycle bin until then.
RowsLocked ==
  /\ \A c \in Client : call[c].kind \notin {"create", "clear"} => DOMAIN pend[c] = {}
  /\ \A c, d \in Client : c # d => DOMAIN pend[c] \cap DOMAIN pend[d] = {}
  /\ \A c \in Client : \A n \in DOMAIN pend[c] :
       pend[c][n].st \in {"deleted", "purged"} => node[n].st = "deleted"

\* Whose call has overlapped no other one has the library for itself.
Alone ==
  \A c, d \in Client : c \in solo /\ d # c => call[d].kind = "none"

\* A repair that runs alone has a root, and has listed what is still broken.
RepairListed ==
  \A c \in Client : c \in solo /\ call[c].kind = "repair" =>
    /\ call[c].dst \in LiveDirs(node) /\ node[call[c].dst].parent = 0
    /\ call[c].step = "listed" => Broken(node, call[c].dst) \subseteq call[c].ids

TreeInv == Shaped /\ RowsLocked /\ Alone /\ RepairListed

LiveStays == \A n \in NodeId : node[n].st = "live" => node'[n].st # "purged"

-----------------------------------------------------------------------------
LEMMA IdleCallIs ==
  /\ CallField = DOMAIN IdleCall
  /\ IdleCall.kind = "none" /\ IdleCall.step = "idle"
BY DEF CallField, IdleCall

LEMMA TreeStarts == TreeStart => TreeInv
<1> SUFFICES ASSUME TreeStart PROVE TreeInv
  OBVIOUS
<1>1. node \in [NodeId -> Row]
  BY TreeInit DEF TreeStart
<1>2. \A n \in NodeId : RowField \subseteq DOMAIN node[n]
  BY <1>1 DEF Row, RowField
<1>3. \A c \in Client : call[c] = IdleCall /\ DOMAIN pend[c] = {}
  BY DEF TreeStart
<1>4. Shaped
  BY <1>1, <1>2, <1>3, IdleCallIs DEF Shaped, TreeStart
<1>5. RowsLocked
  BY <1>3 DEF RowsLocked
<1> QED BY <1>3, <1>4, <1>5, IdleCallIs DEF TreeInv, Alone, RepairListed

-----------------------------------------------------------------------------
(* What the steps have in common. *)

\* A call begins; it may have written rows P without committing them.
LEMMA BeginKeeps ==
  ASSUME TreeInv, NEW c \in Client, NEW rec, Ready(c), Begin(c, rec), UNCHANGED node,
         CallField \subseteq DOMAIN rec, rec.kind \notin {"none", "repair"},
         \/ UNCHANGED pend
         \/ \E P : /\ pend' = [pend EXCEPT ![c] = P] /\ rec.kind = "create"
                   /\ DOMAIN P \subseteq NodeId /\ Unlocked(c, DOMAIN P)
                   /\ \A n \in DOMAIN P : /\ RowField \subseteq DOMAIN P[n]
                                          /\ P[n].st \in {"deleted", "purged"} => node[n].st = "deleted"
  PROVE  TreeInv' /\ LiveStays
<1>1. /\ call' = [d \in Client |-> call'[d]] /\ call'[c] = rec
      /\ \A d \in Client \ {c} : call'[d] = call[d]
  BY DEF TreeInv, Shaped, Begin
<1>2. call[c].kind = "none" /\ DOMAIN pend[c] = {}
  BY DEF Ready, TreeInv, RowsLocked
<1>3. /\ pend' = [d \in Client |-> pend'[d]]
      /\ \A d \in Client \ {c} : pend'[d] = pend[d]
      /\ DOMAIN pend'[c] \subseteq NodeId
      /\ \A n \in DOMAIN pend'[c] : /\ RowField \subseteq DOMAIN pend'[c][n]
                                    /\ pend'[c][n].st \in {"deleted", "purged"} => node[n].st = "deleted"
      /\ \A d \in Client \ {c} : DOMAIN pend'[c] \cap DOMAIN pend[d] = {}
      /\ rec.kind # "create" => DOMAIN pend'[c] = {}
  <2>1. CASE UNCHANGED pend
    BY <1>2, <2>1 DEF TreeInv, Shaped
  <2>2. CASE \E P : /\ pend' = [pend EXCEPT ![c] = P] /\ rec.kind = "create"
                   /\ DOMAIN P \subseteq NodeId /\ Unlocked(c, DOMAIN P)
                   /\ \A n \in DOMAIN P : /\ RowField \subseteq DOMAIN P[n]
                                          /\ P[n].st \in {"deleted", "purged"} => node[n].st = "deleted"
    BY <2>2 DEF TreeInv, Shaped, Unlocked
  <2> QED BY <2>1, <2>2
<1>4. Shaped'
  BY <1>1, <1>3 DEF TreeInv, Shaped
<1>5. RowsLocked'
  BY <1>1, <1>3 DEF TreeInv, RowsLocked
<1>6. solo' \subseteq {c} /\ (c \in solo' => \A d \in Client \ {c} : call[d].kind = "none")
  BY DEF Begin
<1>7. Alone' /\ RepairListed'
  BY <1>1, <1>6 DEF Alone, RepairListed
<1> QED BY <1>4, <1>5, <1>7 DEF TreeInv, LiveStays

\* A call goes on.
LEMMA GoesKeeps ==
  ASSUME TreeInv, NEW c \in Client, NEW rec, Goes(c, rec),
         CallField \subseteq DOMAIN rec, rec.kind = call[c].kind, rec.kind # "repair"
  PROVE  TreeInv' /\ LiveStays
<1>1. /\ call' = [d \in Client |-> call'[d]] /\ call'[c] = rec
      /\ \A d \in Client \ {c} : call'[d] = call[d]
      /\ UNCHANGED <<node, pend, solo>>
  BY DEF TreeInv, Shaped, Goes
<1>2. \A d \in Client : call'[d].kind = call[d].kind
  BY <1>1
<1>3. Shaped'
  BY <1>1 DEF TreeInv, Shaped
<1>4. RowsLocked'
  BY <1>1, <1>2 DEF TreeInv, RowsLocked
<1>5. Alone'
  BY <1>1, <1>2 DEF TreeInv, Alone
<1>6. RepairListed'
  BY <1>1, <1>2 DEF TreeInv, RepairListed, LiveDirs, Live, Broken, Stored, Deleted, Target
<1> QED BY <1>1, <1>3, <1>4, <1>5, <1>6 DEF TreeInv, LiveStays

\* A transaction ends and leaves rows in W changed that no other one has written.
LEMMA ReturnKeeps ==
  ASSUME TreeInv, NEW c \in Client, NEW W, Return(c), call[c].kind # "none",
         node' = [n \in NodeId |-> node'[n]], \A n \in NodeId : RowField \subseteq DOMAIN node'[n],
         Unlocked(c, W), \A n \in NodeId \ W : node'[n] = node[n],
         \A n \in NodeId : node[n].st = "live" => node'[n].st # "purged"
  PROVE  TreeInv' /\ LiveStays
<1>1. /\ call' = [d \in Client |-> call'[d]] /\ call'[c] = IdleCall
      /\ \A d \in Client \ {c} : call'[d] = call[d]
      /\ pend' = [d \in Client |-> pend'[d]] /\ DOMAIN pend'[c] = {}
      /\ \A d \in Client \ {c} : pend'[d] = pend[d]
      /\ solo' = solo
  <2>1. DOMAIN <<>> = {}
    OBVIOUS
  <2>2. /\ call' = [call EXCEPT ![c] = IdleCall] /\ pend' = [pend EXCEPT ![c] = <<>>]
        /\ solo' = solo
    BY DEF Return
  <2>3. /\ call' = [d \in Client |-> call'[d]] /\ call'[c] = IdleCall
        /\ \A d \in Client \ {c} : call'[d] = call[d]
    BY <2>2 DEF TreeInv, Shaped
  <2>4. /\ pend' = [d \in Client |-> pend'[d]] /\ pend'[c] = <<>>
        /\ \A d \in Client \ {c} : pend'[d] = pend[d]
    BY <2>2 DEF TreeInv, Shaped
  <2> QED BY <2>1, <2>2, <2>3, <2>4
<1>2. \A d \in Client \ {c} : \A n \in DOMAIN pend[d] : n \in NodeId /\ node'[n] = node[n]
  BY DEF Unlocked, TreeInv, Shaped
<1>3. Shaped'
  BY <1>1, IdleCallIs DEF TreeInv, Shaped
<1>4. RowsLocked'
  BY <1>1, <1>2 DEF TreeInv, RowsLocked
<1>5. \A d \in Client : d \in solo => d = c
  BY DEF TreeInv, Alone
<1>6. Alone' /\ RepairListed'
  BY <1>1, <1>5, IdleCallIs DEF TreeInv, Alone, RepairListed
<1> QED BY <1>3, <1>4, <1>6 DEF TreeInv, LiveStays

-----------------------------------------------------------------------------
(* The actions that begin a call. *)

LEMMA CreateBeginKeeps ==
  ASSUME TreeInv, NEW c \in Client, NEW p, NEW nm, NEW d, CreateBegin(c, p, nm, d)
  PROVE  TreeInv' /\ LiveStays
<1> DEFINE rec == [IdleCall EXCEPT !.kind = "create", !.step = "read", !.name = nm, !.dir = d]
<1>1. \A r, I : /\ CallField \subseteq DOMAIN [rec EXCEPT !.dst = r]
                /\ [rec EXCEPT !.dst = r].kind = "create"
                /\ CallField \subseteq DOMAIN [rec EXCEPT !.dst = r, !.ids = I]
                /\ [rec EXCEPT !.dst = r, !.ids = I].kind = "create"
  BY IdleCallIs DEF CallField
<1>2. CASE \E r : Ready(c) /\ Begin(c, [rec EXCEPT !.dst = r]) /\ UNCHANGED <<node, pend>>
  <2> HIDE DEF rec
  <2> QED BY <1>1, <1>2, BeginKeeps
<1>3. ASSUME Ready(c), NEW r \in NodeId, IsRoot(node, r), Unlocked(c, Broken(node, r)),
             Begin(c, [rec EXCEPT !.dst = r, !.ids = Broken(node, r)]),
             pend' = [pend EXCEPT ![c] = Repaired(node, r)],
             UNCHANGED node
      PROVE  TreeInv' /\ LiveStays
  <2> DEFINE P == Repaired(node, r)
  <2>1. /\ DOMAIN P = Broken(node, r) /\ DOMAIN P \subseteq NodeId
        /\ \A n \in DOMAIN P : RowField \subseteq DOMAIN P[n] /\ P[n].st = node[n].st
                               /\ node[n].st \in {"live", "deleted"}
    BY DEF Repaired, Broken, Stored, Live, Deleted, TreeInv, Shaped, RowField
  <2> HIDE DEF P, rec
  <2>2. /\ pend' = [pend EXCEPT ![c] = P]
        /\ DOMAIN P \subseteq NodeId /\ Unlocked(c, DOMAIN P)
        /\ \A n \in DOMAIN P : /\ RowField \subseteq DOMAIN P[n]
                               /\ P[n].st \in {"deleted", "purged"} => node[n].st = "deleted"
    BY <1>1, <1>3, <2>1 DEF P
  <2> DEFINE a == [rec EXCEPT !.dst = r, !.ids = Broken(node, r)]
  <2>3. CallField \subseteq DOMAIN a /\ a.kind = "create" /\ Begin(c, a)
    BY <1>1, <1>3
  <2> HIDE DEF a
  <2> QED BY <1>3, <2>2, <2>3, BeginKeeps
<1>4. ASSUME Ready(c), NEW r \in NodeId, IsNextId(r),
             Unlocked(c, Broken([node EXCEPT ![r] = RootRow], r)),
             NEW I, Begin(c, [rec EXCEPT !.dst = r, !.ids = I]), UNCHANGED node,
             pend' = [pend EXCEPT ![c] = [n \in Broken([node EXCEPT ![r] = RootRow], r) \cup {r} |->
                        IF n = r THEN RootRow ELSE Repaired([node EXCEPT ![r] = RootRow], r)[n]]]
      PROVE  TreeInv' /\ LiveStays
  <2> DEFINE v == [node EXCEPT ![r] = RootRow]
             P == [n \in Broken(v, r) \cup {r} |-> IF n = r THEN RootRow ELSE Repaired(v, r)[n]]
  <2>1. \A n \in NodeId \ {r} : v[n] = node[n]
    BY DEF TreeInv, Shaped
  <2> HIDE DEF v
  <2>2. /\ Broken(v, r) \subseteq NodeId
        /\ \A n \in Broken(v, r) : Repaired(v, r)[n] = [v[n] EXCEPT !.parent = Target(v, r, n)]
                                   /\ v[n].st \in {"live", "deleted"}
    BY DEF Repaired, Broken, Stored, Live, Deleted
  <2>3. RowField \subseteq DOMAIN RootRow /\ RootRow.st = "live"
    BY DEF RowField, RootRow
  <2>4. \A n \in Broken(v, r) \ {r} :
          /\ RowField \subseteq DOMAIN Repaired(v, r)[n]
          /\ Repaired(v, r)[n].st = node[n].st /\ node[n].st \in {"live", "deleted"}
    <3> SUFFICES ASSUME NEW n \in Broken(v, r) \ {r}
                 PROVE  /\ RowField \subseteq DOMAIN Repaired(v, r)[n]
                        /\ Repaired(v, r)[n].st = node[n].st /\ node[n].st \in {"live", "deleted"}
      OBVIOUS
    <3>1. n \in NodeId /\ v[n] = node[n] /\ v[n].st \in {"live", "deleted"}
      BY <2>1, <2>2
    <3>2. RowField \subseteq DOMAIN v[n]
      BY <3>1 DEF TreeInv, Shaped
    <3>3. Repaired(v, r)[n] = [v[n] EXCEPT !.parent = Target(v, r, n)]
      BY <2>2
    <3> QED BY <3>1, <3>2, <3>3 DEF RowField
  <2>5. Unlocked(c, Broken(v, r) \cup {r})
    BY <1>4 DEF v, Unlocked, IsNextId, FreeIds
  <2>6. pend' = [pend EXCEPT ![c] = P]
    BY <1>4 DEF v
  <2>7. /\ DOMAIN P \subseteq NodeId /\ Unlocked(c, DOMAIN P)
        /\ \A n \in DOMAIN P : /\ RowField \subseteq DOMAIN P[n]
                               /\ P[n].st \in {"deleted", "purged"} => node[n].st = "deleted"
    BY <2>2, <2>3, <2>4, <2>5
  <2> HIDE DEF P, rec
  <2> DEFINE a == [rec EXCEPT !.dst = r, !.ids = I]
  <2>8. CallField \subseteq DOMAIN a /\ a.kind = "create" /\ Begin(c, a)
    BY <1>1, <1>4
  <2> HIDE DEF a
  <2> QED BY <1>4, <2>6, <2>7, <2>8, BeginKeeps
<1> QED BY <1>2, <1>3, <1>4 DEF CreateBegin

\* The calls that only read before they write.
LEMMA BeginsKeep ==
  ASSUME TreeInv, NEW c \in Client,
         \/ \E n \in NodeId, nm \in NodeName : RenameBegin(c, n, nm)
         \/ \E n, p \in NodeId, nm \in NodeName : MoveBegin(c, n, p, nm)
         \/ \E n \in NodeId : DeleteBegin(c, n) \/ RestoreBegin(c, n) \/ PurgeBegin(c, n)
         \/ ClearBegin(c)
  PROVE  TreeInv' /\ LiveStays
<1>1. \E rec : /\ Ready(c) /\ Begin(c, rec) /\ UNCHANGED <<node, pend>>
               /\ CallField \subseteq DOMAIN rec /\ rec.kind \notin {"none", "repair"}
  <2>1. ASSUME NEW n, NEW nm, RenameBegin(c, n, nm)
        PROVE  \E rec : /\ Ready(c) /\ Begin(c, rec) /\ UNCHANGED <<node, pend>>
               /\ CallField \subseteq DOMAIN rec /\ rec.kind \notin {"none", "repair"}
    <3> DEFINE rec == [IdleCall EXCEPT !.kind = "rename", !.step = "checked", !.sel = n, !.name = nm]
    <3>1. CallField \subseteq DOMAIN rec /\ rec.kind = "rename"
      BY IdleCallIs DEF CallField
    <3>2. Ready(c) /\ Begin(c, rec) /\ UNCHANGED <<node, pend>>
      BY <2>1 DEF RenameBegin
    <3> HIDE DEF rec
    <3> QED BY <3>1, <3>2
  <2>2. ASSUME NEW n, NEW p, NEW nm, MoveBegin(c, n, p, nm)
        PROVE  \E rec : /\ Ready(c) /\ Begin(c, rec) /\ UNCHANGED <<node, pend>>
               /\ CallField \subseteq DOMAIN rec /\ rec.kind \notin {"none", "repair"}
    <3> DEFINE rec == [IdleCall EXCEPT !.kind = "move", !.step = "read", !.sel = n, !.dst = p,
                               !.old = node[n].parent, !.name = nm]
    <3>1. CallField \subseteq DOMAIN rec /\ rec.kind = "move"
      BY IdleCallIs DEF CallField
    <3>2. Ready(c) /\ Begin(c, rec) /\ UNCHANGED <<node, pend>>
      BY <2>2 DEF MoveBegin
    <3> HIDE DEF rec
    <3> QED BY <3>1, <3>2
  <2>3. ASSUME NEW k \in {"delete", "restore"}, NEW S, Ready(c), UNCHANGED <<node, pend>>,
               Begin(c, [IdleCall EXCEPT !.kind = k, !.step = "listed", !.ids = S])
        PROVE  \E rec : /\ Ready(c) /\ Begin(c, rec) /\ UNCHANGED <<node, pend>>
               /\ CallField \subseteq DOMAIN rec /\ rec.kind \notin {"none", "repair"}
    <3> DEFINE rec == [IdleCall EXCEPT !.kind = k, !.step = "listed", !.ids = S]
    <3>1. CallField \subseteq DOMAIN rec /\ rec.kind = k
      BY IdleCallIs DEF CallField
    <3>2. Ready(c) /\ Begin(c, rec) /\ UNCHANGED <<node, pend>>
      BY <2>3
    <3> HIDE DEF rec
    <3> QED BY <3>1, <3>2
  <2>4. ASSUME NEW n, PurgeBegin(c, n)
        PROVE  \E rec : /\ Ready(c) /\ Begin(c, rec) /\ UNCHANGED <<node, pend>>
               /\ CallField \subseteq DOMAIN rec /\ rec.kind \notin {"none", "repair"}
    <3> DEFINE rec == [IdleCall EXCEPT !.kind = "purge", !.step = "found", !.sel = n]
    <3>1. CallField \subseteq DOMAIN rec /\ rec.kind = "purge"
      BY IdleCallIs DEF CallField
    <3>2. Ready(c) /\ Begin(c, rec) /\ UNCHANGED <<node, pend>>
      BY <2>4 DEF PurgeBegin
    <3> HIDE DEF rec
    <3> QED BY <3>1, <3>2
  <2>5. ASSUME NEW S, Ready(c), UNCHANGED <<node, pend>>,
               Begin(c, [IdleCall EXCEPT !.kind = "clear", !.step = "read", !.tops = S])
        PROVE  \E rec : /\ Ready(c) /\ Begin(c, rec) /\ UNCHANGED <<node, pend>>
               /\ CallField \subseteq DOMAIN rec /\ rec.kind \notin {"none", "repair"}
    <3> DEFINE rec == [IdleCall EXCEPT !.kind = "clear", !.step = "read", !.tops = S]
    <3>1. CallField \subseteq DOMAIN rec /\ rec.kind = "clear"
      BY IdleCallIs DEF CallField
    <3>2. Ready(c) /\ Begin(c, rec) /\ UNCHANGED <<node, pend>>
      BY <2>5
    <3> HIDE DEF rec
    <3> QED BY <3>1, <3>2
  <2> QED BY <2>1, <2>2, <2>3, <2>4, <2>5 DEF DeleteBegin, RestoreBegin, ClearBegin
<1> QED BY <1>1, BeginKeeps

-----------------------------------------------------------------------------
(* The actions that read, and those that write. *)

LEMMA ChecksKeep ==
  ASSUME TreeInv, NEW c \in Client, CreateCheck(c) \/ MoveCheck(c) \/ PurgeList(c) \/ ClearFind(c)
  PROVE  TreeInv' /\ LiveStays
<1>1. CASE CreateCheck(c)
  <2>1. PICK nm : Goes(c, [call[c] EXCEPT !.step = "checked", !.name = nm])
    BY <1>1 DEF CreateCheck
  <2> DEFINE rec == [call[c] EXCEPT !.step = "checked", !.name = nm]
  <2>2. CallField \subseteq DOMAIN rec /\ rec.kind = call[c].kind /\ rec.kind # "repair"
    BY <1>1 DEF CreateCheck, At, TreeInv, Shaped, CallField
  <2> HIDE DEF rec
  <2> QED BY <2>1, <2>2, GoesKeeps DEF rec
<1>2. CASE MoveCheck(c)
  <2>1. Goes(c, [call[c] EXCEPT !.step = "checked"])
    BY <1>2 DEF MoveCheck
  <2> DEFINE rec == [call[c] EXCEPT !.step = "checked"]
  <2>2. CallField \subseteq DOMAIN rec /\ rec.kind = call[c].kind /\ rec.kind # "repair"
    BY <1>2 DEF MoveCheck, At, TreeInv, Shaped, CallField
  <2> HIDE DEF rec
  <2> QED BY <2>1, <2>2, GoesKeeps DEF rec
<1>3. CASE PurgeList(c)
  <2>1. PICK I : Goes(c, [call[c] EXCEPT !.step = "listed", !.ids = I])
    BY <1>3 DEF PurgeList
  <2> DEFINE rec == [call[c] EXCEPT !.step = "listed", !.ids = I]
  <2>2. CallField \subseteq DOMAIN rec /\ rec.kind = call[c].kind /\ rec.kind # "repair"
    BY <1>3 DEF PurgeList, TreeInv, Shaped, CallField
  <2> HIDE DEF rec
  <2> QED BY <2>1, <2>2, GoesKeeps DEF rec
<1>4. CASE ClearFind(c)
  <2>1. PICK n, st : Goes(c, [call[c] EXCEPT !.sel = n, !.tops = @ \ {n}, !.step = st])
    BY <1>4 DEF ClearFind
  <2> DEFINE rec == [call[c] EXCEPT !.sel = n, !.tops = @ \ {n}, !.step = st]
  <2>2. CallField \subseteq DOMAIN rec /\ rec.kind = call[c].kind /\ rec.kind # "repair"
    BY <1>4 DEF ClearFind, At, TreeInv, Shaped, CallField
  <2> HIDE DEF rec
  <2> QED BY <2>1, <2>2, GoesKeeps DEF rec
<1> QED BY <1>1, <1>2, <1>3, <1>4

\* What a transaction sees is what is committed, but for the rows it wrote.
LEMMA ViewIs ==
  ASSUME TreeInv, NEW c \in Client
  PROVE  /\ View(c) = [n \in NodeId |-> View(c)[n]]
         /\ \A n \in NodeId : RowField \subseteq DOMAIN View(c)[n]
         /\ \A n \in NodeId \ DOMAIN pend[c] : View(c)[n] = node[n]
         /\ \A n \in NodeId : View(c)[n].st \in {"deleted", "purged"} => node[n].st \in {"deleted", "purged"}
         /\ \A n \in NodeId : View(c)[n].st = "deleted" => node[n].st = "deleted"
         /\ Unlocked(c, DOMAIN pend[c])
BY DEF View, TreeInv, Shaped, RowsLocked, Unlocked

LEMMA CommitsKeep ==
  ASSUME TreeInv, NEW c \in Client, CreateInsert(c) \/ ClearCommit(c)
  PROVE  TreeInv' /\ LiveStays
<1>1. CASE CreateInsert(c)
  <2>1. PICK n \in NodeId :
          /\ IsNextId(n)
          /\ node' = [View(c) EXCEPT ![n] = [st |-> "live", dir |-> call[c].dir, parent |-> call[c].dst,
                                            name |-> call[c].name]]
    BY <1>1 DEF CreateInsert
  <2> DEFINE row == [st |-> "live", dir |-> call[c].dir, parent |-> call[c].dst, name |-> call[c].name]
             W == DOMAIN pend[c] \cup {n}
  <2>2. RowField \subseteq DOMAIN row /\ row.st = "live"
    BY DEF RowField
  <2>3. node' = [View(c) EXCEPT ![n] = row]
    BY <2>1
  <2> HIDE DEF row
  <2>4. Unlocked(c, W)
    BY <2>1, ViewIs DEF Unlocked, IsNextId, FreeIds
  <2>5. /\ node' = [m \in NodeId |-> node'[m]] /\ node'[n] = row
        /\ \A m \in NodeId \ {n} : node'[m] = View(c)[m]
    BY <2>3, ViewIs
  <2>6. /\ \A m \in NodeId : RowField \subseteq DOMAIN node'[m]
        /\ \A m \in NodeId \ W : node'[m] = node[m]
        /\ \A m \in NodeId : node[m].st = "live" => node'[m].st # "purged"
    BY <2>2, <2>5, ViewIs
  <2>7. Return(c) /\ call[c].kind # "none"
    BY <1>1 DEF CreateInsert, At
  <2> HIDE DEF W
  <2> QED BY <2>4, <2>5, <2>6, <2>7, ReturnKeeps
<1>2. CASE ClearCommit(c)
  <2>1. node' = View(c) /\ Return(c) /\ call[c].kind # "none"
    BY <1>2 DEF ClearCommit, At
  <2>2. /\ node' = [m \in NodeId |-> node'[m]]
        /\ \A m \in NodeId : RowField \subseteq DOMAIN node'[m]
        /\ \A m \in NodeId \ DOMAIN pend[c] : node'[m] = node[m]
        /\ \A m \in NodeId : node[m].st = "live" => node'[m].st # "purged"
    BY <2>1, ViewIs
  <2> QED BY <2>1, <2>2, ViewIs, ReturnKeeps
<1> QED BY <1>1, <1>2

LEMMA WritesKeep ==
  ASSUME TreeInv, NEW c \in Client,
         \/ RenameWrite(c) \/ MoveWrite(c) \/ DeleteWrite(c) \/ RestoreWrite(c) \/ PurgeWrite(c)
         \/ Abandon(c)
  PROVE  TreeInv' /\ LiveStays
<1>1. Return(c) /\ call[c].kind # "none"
  BY DEF RenameWrite, MoveWrite, DeleteWrite, RestoreWrite, PurgeWrite, Abandon, At
<1>2. \E W : /\ Unlocked(c, W)
             /\ node' = [n \in NodeId |-> node'[n]]
             /\ \A n \in NodeId : RowField \subseteq DOMAIN node'[n]
             /\ \A n \in NodeId \ W : node'[n] = node[n]
             /\ \A n \in NodeId : node[n].st = "live" => node'[n].st # "purged"
  <2>1. ASSUME NEW n \in NodeId, Unlocked(c, {n}), node[n].st = "live", NEW x,
               \/ node' = [node EXCEPT ![n].name = x]
               \/ node' = [node EXCEPT ![n].parent = x]
        PROVE  /\ node' = [m \in NodeId |-> node'[m]]
               /\ \A m \in NodeId : RowField \subseteq DOMAIN node'[m]
               /\ \A m \in NodeId \ {n} : node'[m] = node[m]
               /\ \A m \in NodeId : node[m].st = "live" => node'[m].st # "purged"
    <3>1. /\ node' = [m \in NodeId |-> node'[m]]
          /\ \A m \in NodeId \ {n} : node'[m] = node[m]
          /\ \/ node'[n] = [node[n] EXCEPT !.name = x]
             \/ node'[n] = [node[n] EXCEPT !.parent = x]
      BY <2>1 DEF TreeInv, Shaped
    <3>2. RowField \subseteq DOMAIN node[n]
      BY DEF TreeInv, Shaped
    <3>3. RowField \subseteq DOMAIN node'[n] /\ node'[n].st = "live"
      BY <2>1, <3>1, <3>2 DEF RowField
    <3> QED BY <3>1, <3>3 DEF TreeInv, Shaped
  <2>2. ASSUME NEW S, NEW I, Unlocked(c, I), S \subseteq I, NEW st,
               node' = With(node, S, st), st # "purged" \/ S \subseteq Deleted(node)
        PROVE  /\ node' = [n \in NodeId |-> node'[n]]
               /\ \A n \in NodeId : RowField \subseteq DOMAIN node'[n]
               /\ \A n \in NodeId \ I : node'[n] = node[n]
               /\ \A n \in NodeId : node[n].st = "live" => node'[n].st # "purged"
    <3>1. /\ node' = [n \in NodeId |-> node'[n]]
          /\ \A n \in NodeId \cap S : node'[n] = [node[n] EXCEPT !.st = st]
          /\ \A n \in NodeId \ S : node'[n] = node[n]
      BY <2>2 DEF With
    <3>2. \A n \in NodeId \cap S : RowField \subseteq DOMAIN node'[n] /\ node'[n].st = st
      BY <3>1 DEF TreeInv, Shaped, RowField
    <3> QED BY <2>2, <3>1, <3>2 DEF TreeInv, Shaped, Deleted
  <2>7. CASE RenameWrite(c) \/ MoveWrite(c)
    <3>1. /\ call[c].sel \in NodeId /\ Unlocked(c, {call[c].sel}) /\ node[call[c].sel].st = "live"
          /\ \E x : \/ node' = [node EXCEPT ![call[c].sel].name = x]
                   \/ node' = [node EXCEPT ![call[c].sel].parent = x]
      BY <2>7 DEF RenameWrite, MoveWrite, Live
    <3> QED BY <2>1, <3>1
  <2>3. CASE DeleteWrite(c)
    BY <2>2, <2>3 DEF DeleteWrite
  <2>4. CASE RestoreWrite(c)
    BY <2>2, <2>4 DEF RestoreWrite
  <2>5. CASE PurgeWrite(c)
    BY <2>2, <2>5 DEF PurgeWrite
  <2>6. CASE Abandon(c)
    <3>1. Unlocked(c, {})
      BY DEF Unlocked
    <3>2. node' = node
      BY <2>6 DEF Abandon
    <3>3. /\ node' = [n \in NodeId |-> node'[n]]
          /\ \A n \in NodeId : RowField \subseteq DOMAIN node'[n]
          /\ \A n \in NodeId \ {} : node'[n] = node[n]
          /\ \A n \in NodeId : node[n].st = "live" => node'[n].st # "purged"
      BY <3>2 DEF TreeInv, Shaped
    <3> QED BY <3>1, <3>3
  <2> QED BY <2>3, <2>4, <2>5, <2>6, <2>7
<1> QED BY <1>1, <1>2, ReturnKeeps

\* One item of a clear is deleted: the rows are written, but not committed.
LEMMA ClearWriteKeeps ==
  ASSUME TreeInv, NEW c \in Client, ClearWrite(c)
  PROVE  TreeInv' /\ LiveStays
<1> DEFINE gone == call[c].ids \cap Deleted(View(c))
<1>1. /\ Unlocked(c, call[c].ids)
      /\ pend' = [pend EXCEPT ![c] = [m \in DOMAIN @ \cup gone |-> With(View(c), gone, "purged")[m]]]
      /\ call' = [call EXCEPT ![c].step = "read", ![c].ids = {}]
      /\ UNCHANGED <<node, calls, raced, solo>>
  BY DEF ClearWrite
<1> DEFINE P == [m \in DOMAIN pend[c] \cup gone |-> With(View(c), gone, "purged")[m]]
<1>2. gone \subseteq NodeId /\ \A m \in gone : View(c)[m].st = "deleted"
  BY DEF Deleted
<1>3. \A m \in DOMAIN pend[c] : m \in NodeId
  BY DEF TreeInv, Shaped
<1>4. /\ DOMAIN P = DOMAIN pend[c] \cup gone /\ DOMAIN P \subseteq NodeId
      /\ \A m \in gone : P[m] = [View(c)[m] EXCEPT !.st = "purged"]
      /\ \A m \in DOMAIN pend[c] \ gone : P[m] = View(c)[m]
  BY <1>2, <1>3 DEF With
<1>5. \A m \in DOMAIN P : /\ RowField \subseteq DOMAIN P[m]
                          /\ P[m].st \in {"deleted", "purged"} => node[m].st = "deleted"
  <2>1. \A m \in gone : RowField \subseteq DOMAIN P[m] /\ node[m].st = "deleted"
    <3>1. \A m \in gone : /\ m \in NodeId /\ P[m] = [View(c)[m] EXCEPT !.st = "purged"]
                          /\ View(c)[m].st = "deleted"
      BY <1>2, <1>4
    <3> HIDE DEF P, gone
    <3>2. \A m \in gone : RowField \subseteq DOMAIN View(c)[m] /\ node[m].st = "deleted"
      BY <3>1, ViewIs
    <3> QED BY <3>1, <3>2 DEF RowField
  <2>2. \A m \in DOMAIN pend[c] \ gone : P[m] = pend[c][m]
    BY <1>3, <1>4 DEF View
  <2> QED BY <1>4, <2>1, <2>2 DEF TreeInv, Shaped, RowsLocked
<1>6. /\ pend' = [d \in Client |-> pend'[d]] /\ pend'[c] = P
      /\ \A d \in Client \ {c} : pend'[d] = pend[d]
  BY <1>1 DEF TreeInv, Shaped
<1>13. Unlocked(c, gone) /\ UNCHANGED <<node, solo>>
  BY <1>1 DEF Unlocked
<1> HIDE DEF P, gone
<1>7. \A d \in Client \ {c} : DOMAIN P \cap DOMAIN pend[d] = {}
  BY <1>4, <1>13 DEF Unlocked, TreeInv, RowsLocked
<1>8. /\ call' = [d \in Client |-> call'[d]] /\ \A d \in Client \ {c} : call'[d] = call[d]
      /\ CallField \subseteq DOMAIN call'[c] /\ call'[c].kind = "clear" /\ call[c].kind = "clear"
  BY <1>1 DEF TreeInv, Shaped, CallField, ClearWrite, At
<1>9. Shaped'
  <2>1. /\ node' = [m \in NodeId |-> node'[m]]
        /\ \A m \in NodeId : RowField \subseteq DOMAIN node'[m]
    BY <1>1 DEF TreeInv, Shaped
  <2>2. \A d \in Client : CallField \subseteq DOMAIN call'[d]
    BY <1>8 DEF TreeInv, Shaped
  <2>3. \A d \in Client : /\ DOMAIN pend'[d] \subseteq NodeId
                          /\ \A m \in DOMAIN pend'[d] : RowField \subseteq DOMAIN pend'[d][m]
    <3> SUFFICES ASSUME NEW d \in Client
                 PROVE  /\ DOMAIN pend'[d] \subseteq NodeId
                        /\ \A m \in DOMAIN pend'[d] : RowField \subseteq DOMAIN pend'[d][m]
      OBVIOUS
    <3>1. CASE d = c
      <4>1. DOMAIN P \subseteq NodeId /\ \A m \in DOMAIN P : RowField \subseteq DOMAIN P[m]
        BY <1>4, <1>5
      <4> QED BY <1>6, <3>1, <4>1
    <3>2. CASE d # c
      <4>1. pend'[d] = pend[d]
        BY <1>6, <3>2
      <4> QED BY <4>1 DEF TreeInv, Shaped
    <3> QED BY <3>1, <3>2
  <2> QED BY <1>6, <1>8, <2>1, <2>2, <2>3 DEF Shaped
<1>10. RowsLocked'
  <2>1. \A d \in Client : call'[d].kind = call[d].kind
    BY <1>8
  <2>2. \A d \in Client : call'[d].kind \notin {"create", "clear"} => DOMAIN pend'[d] = {}
    BY <1>6, <1>8, <2>1 DEF TreeInv, RowsLocked
  <2>3. \A d, e \in Client : d # e => DOMAIN pend'[d] \cap DOMAIN pend'[e] = {}
    <3> SUFFICES ASSUME NEW d \in Client, NEW e \in Client, d # e
                 PROVE  DOMAIN pend'[d] \cap DOMAIN pend'[e] = {}
      OBVIOUS
    <3>1. DOMAIN pend[d] \cap DOMAIN pend[e] = {}
      BY DEF TreeInv, RowsLocked
    <3> QED BY <1>6, <1>7, <3>1
  <2>4. \A d \in Client : \A m \in DOMAIN pend'[d] :
          pend'[d][m].st \in {"deleted", "purged"} => node[m].st = "deleted"
    <3> SUFFICES ASSUME NEW d \in Client
                 PROVE  \A m \in DOMAIN pend'[d] :
                          pend'[d][m].st \in {"deleted", "purged"} => node[m].st = "deleted"
      OBVIOUS
    <3>1. CASE d = c
      BY <1>5, <1>6, <3>1
    <3>2. CASE d # c
      <4>1. pend'[d] = pend[d]
        BY <1>6, <3>2
      <4> QED BY <4>1 DEF TreeInv, RowsLocked
    <3> QED BY <3>1, <3>2
  <2> QED BY <1>13, <2>2, <2>3, <2>4 DEF RowsLocked
<1>11. Alone'
  BY <1>1, <1>8 DEF TreeInv, Alone
<1>12. RepairListed'
  BY <1>1, <1>8 DEF TreeInv, RepairListed, Alone
<1> QED BY <1>1, <1>9, <1>10, <1>11, <1>12 DEF TreeInv, LiveStays

-----------------------------------------------------------------------------
(* The repair. *)

LEMMA RepairBeginKeeps ==
  ASSUME TreeInv, NEW c \in Client, RepairBegin(c)
  PROVE  TreeInv' /\ LiveStays
<1>1. PICK r \in NodeId :
        /\ Ready(c) /\ UNCHANGED pend
        /\ Begin(c, [IdleCall EXCEPT !.kind = "repair", !.step = "read", !.dst = r])
        /\ \/ IsRoot(node, r) /\ UNCHANGED node
           \/ IsNextId(r) /\ node' = [node EXCEPT ![r] = RootRow]
  BY DEF RepairBegin
<1> DEFINE rec == [IdleCall EXCEPT !.kind = "repair", !.step = "read", !.dst = r]
<1>2. CallField \subseteq DOMAIN rec /\ rec.kind = "repair" /\ rec.step = "read" /\ rec.dst = r
  BY IdleCallIs DEF CallField
<1>3. Begin(c, rec)
  BY <1>1
<1> HIDE DEF rec
<1>4. /\ call' = [d \in Client |-> call'[d]] /\ call'[c] = rec
      /\ \A d \in Client \ {c} : call'[d] = call[d]
      /\ solo' \subseteq {c} /\ (c \in solo' => \A d \in Client \ {c} : call[d].kind = "none")
  BY <1>3 DEF TreeInv, Shaped, Begin
<1>5. /\ node' = [n \in NodeId |-> node'[n]]
      /\ \A n \in NodeId : RowField \subseteq DOMAIN node'[n]
      /\ \A n \in NodeId : (node'[n] = node[n] \/ n \in FreeIds)
      /\ \A n \in NodeId : node'[n] # node[n] => node'[n].st = "live"
      /\ node'[r].st = "live" /\ node'[r].dir = TRUE /\ node'[r].parent = 0
  <2>1. CASE IsRoot(node, r) /\ UNCHANGED node
    BY <2>1 DEF TreeInv, Shaped, IsRoot, Roots, LiveDirs, Live
  <2>2. CASE IsNextId(r) /\ node' = [node EXCEPT ![r] = RootRow]
    <3>1. /\ RowField \subseteq DOMAIN RootRow
          /\ RootRow.st = "live" /\ RootRow.dir = TRUE /\ RootRow.parent = 0
      BY DEF RowField, RootRow
    <3> QED BY <2>2, <3>1 DEF TreeInv, Shaped, IsNextId
  <2> QED BY <1>1, <2>1, <2>2
<1>6. \A d \in Client : \A n \in DOMAIN pend[d] : n \in NodeId /\ node'[n] = node[n]
  BY <1>5 DEF FreeIds, TreeInv, Shaped
<1>7. Shaped'
  BY <1>1, <1>2, <1>4, <1>5 DEF TreeInv, Shaped
<1>8. RowsLocked'
  <2>1. DOMAIN pend[c] = {}
    BY <1>1 DEF Ready, TreeInv, RowsLocked
  <2> QED BY <1>1, <1>4, <1>6, <2>1 DEF TreeInv, RowsLocked
<1>9. Alone'
  BY <1>4 DEF Alone
<1>10. RepairListed'
  BY <1>2, <1>4, <1>5 DEF RepairListed, LiveDirs, Live
<1>11. LiveStays
  BY <1>5 DEF LiveStays
<1> QED BY <1>7, <1>8, <1>9, <1>10, <1>11 DEF TreeInv

LEMMA RepairReadKeeps ==
  ASSUME TreeInv, NEW c \in Client, RepairRead(c)
  PROVE  TreeInv' /\ LiveStays
<1> DEFINE rec == [call[c] EXCEPT !.step = "listed", !.ids = Broken(node, call[c].dst)]
<1>1. /\ CallField \subseteq DOMAIN rec /\ rec.kind = call[c].kind /\ rec.dst = call[c].dst
      /\ rec.ids = Broken(node, call[c].dst)
  BY DEF TreeInv, Shaped, CallField
<1>2. Goes(c, rec)
  BY DEF RepairRead
<1> HIDE DEF rec
<1>3. /\ call' = [d \in Client |-> call'[d]] /\ call'[c] = rec
      /\ \A d \in Client \ {c} : call'[d] = call[d]
      /\ UNCHANGED <<node, pend, solo>>
  BY <1>2 DEF TreeInv, Shaped, Goes
<1>4. \A d \in Client : call'[d].kind = call[d].kind /\ call'[d].dst = call[d].dst
  BY <1>1, <1>3
<1>5. Shaped'
  BY <1>1, <1>3 DEF TreeInv, Shaped
<1>6. RowsLocked'
  BY <1>3, <1>4 DEF TreeInv, RowsLocked
<1>7. Alone'
  BY <1>3, <1>4 DEF TreeInv, Alone
<1>8. RepairListed'
  BY <1>1, <1>3, <1>4 DEF TreeInv, RepairListed, LiveDirs, Live, Broken, Stored, Deleted, Target
<1> QED BY <1>3, <1>5, <1>6, <1>7, <1>8 DEF TreeInv, LiveStays

\* A row whose parent was overwritten is not broken any more, and no other row is.
LEMMA RepairedRow ==
  ASSUME Shaped, NEW root \in LiveDirs(node), node[root].parent = 0, NEW n \in NodeId,
         node' = [node EXCEPT ![n].parent = IF n = root THEN 0 ELSE root]
  PROVE  /\ node' = [m \in NodeId |-> node'[m]]
         /\ \A m \in NodeId : RowField \subseteq DOMAIN node'[m]
         /\ \A m \in NodeId : node'[m].st = node[m].st /\ node'[m].dir = node[m].dir
         /\ \A m \in NodeId \ {n} : node'[m] = node[m]
         /\ node'[root].parent = 0
         /\ Broken(node', root) \subseteq Broken(node, root) \ {n}
<1>1. root \in NodeId /\ node[root].st = "live" /\ node[root].dir /\ root # 0
  BY TreeCount DEF LiveDirs, Live, NodeId
<1>2. /\ node' = [m \in NodeId |-> node'[m]]
      /\ node'[n] = [node[n] EXCEPT !.parent = IF n = root THEN 0 ELSE root]
      /\ \A m \in NodeId \ {n} : node'[m] = node[m]
  BY DEF Shaped
<1>3. /\ \A m \in NodeId : RowField \subseteq DOMAIN node'[m]
      /\ \A m \in NodeId : node'[m].st = node[m].st /\ node'[m].dir = node[m].dir
      /\ node'[n].parent = IF n = root THEN 0 ELSE root
  BY <1>2 DEF Shaped, RowField
<1>4. node'[root].parent = 0
  BY <1>1, <1>2, <1>3
<1>5. Stored(node') = Stored(node)
  BY <1>3 DEF Stored, Live, Deleted
<1>6. Target(node', root, n) = node'[n].parent
  <2>1. root \in Stored(node')
    BY <1>1, <1>5 DEF Stored, Live
  <2> QED BY <1>1, <1>3, <2>1 DEF Target
<1>7. ASSUME NEW m \in NodeId \ {n} PROVE Target(node', root, m) = Target(node, root, m)
  <2>1. node'[m].parent = node[m].parent /\ node'[m].st = node[m].st
    BY <1>2
  <2>2. node[m].parent \in Stored(node) => node[m].parent \in NodeId
    BY DEF Stored, Live, Deleted
  <2> QED BY <1>3, <1>5, <2>1, <2>2 DEF Target
<1>8. Broken(node', root) \subseteq Broken(node, root) \ {n}
  <2>1. \A m \in Stored(node) : m \in NodeId
    BY DEF Stored, Live, Deleted
  <2> QED BY <1>2, <1>5, <1>6, <1>7, <2>1 DEF Broken
<1> QED BY <1>2, <1>3, <1>4, <1>8

LEMMA RepairWriteKeeps ==
  ASSUME TreeInv, NEW c \in Client, RepairWrite(c)
  PROVE  TreeInv' /\ LiveStays
<1>1. At(c, "repair", "listed")
  BY DEF RepairWrite
<1>2. PICK n \in call[c].ids :
        /\ Unlocked(c, {n})
        /\ node' = IF n \in Stored(node)
                   THEN [node EXCEPT ![n].parent = IF n = call[c].dst THEN 0 ELSE call[c].dst] ELSE node
        /\ call' = [call EXCEPT ![c].ids = @ \ {n}]
        /\ UNCHANGED <<pend, calls, raced, solo>>
  BY DEF RepairWrite
<1>3. /\ call' = [d \in Client |-> call'[d]]
      /\ \A d \in Client \ {c} : call'[d] = call[d]
      /\ CallField \subseteq DOMAIN call'[c]
      /\ call'[c].kind = "repair" /\ call'[c].step = "listed" /\ call'[c].dst = call[c].dst
      /\ call'[c].ids = call[c].ids \ {n}
  BY <1>1, <1>2 DEF TreeInv, Shaped, CallField, At
<1>4. \A d \in Client : call'[d].kind = call[d].kind
  BY <1>1, <1>3 DEF At
<1>5. /\ node' = [m \in NodeId |-> node'[m]]
      /\ \A m \in NodeId : RowField \subseteq DOMAIN node'[m]
      /\ \A m \in NodeId : node'[m].st = node[m].st
      /\ \A m \in NodeId \ {n} : node'[m] = node[m]
  <2>1. CASE n \in Stored(node)
    <3>1. n \in NodeId /\ node' = [node EXCEPT ![n].parent = IF n = call[c].dst THEN 0 ELSE call[c].dst]
      BY <1>2, <2>1 DEF Stored, Live, Deleted
    <3> QED BY <3>1 DEF TreeInv, Shaped, RowField
  <2>2. CASE n \notin Stored(node)
    BY <1>2, <2>2 DEF TreeInv, Shaped
  <2> QED BY <2>1, <2>2
<1>6. Shaped'
  BY <1>2, <1>3, <1>5 DEF TreeInv, Shaped
<1>7. RowsLocked'
  <2>1. \A d \in Client : \A m \in DOMAIN pend[d] : m \in NodeId /\ node'[m].st = node[m].st
    BY <1>5 DEF TreeInv, Shaped
  <2> QED BY <1>2, <1>4, <2>1 DEF TreeInv, RowsLocked
<1>8. Alone'
  BY <1>2, <1>4 DEF TreeInv, Alone
<1>9. RepairListed'
  <2> SUFFICES ASSUME c \in solo
               PROVE  /\ call[c].dst \in LiveDirs(node') /\ node'[call[c].dst].parent = 0
                      /\ Broken(node', call[c].dst) \subseteq call[c].ids \ {n}
    <3>1. \A d \in Client : d \in solo /\ call[d].kind = "repair" => d = c
      BY <1>1 DEF TreeInv, Alone, At
    <3> QED BY <1>2, <1>3, <1>4, <3>1 DEF RepairListed
  <2>1. /\ call[c].dst \in LiveDirs(node) /\ node[call[c].dst].parent = 0
        /\ Broken(node, call[c].dst) \subseteq call[c].ids
    BY <1>1 DEF TreeInv, RepairListed, At
  <2>2. CASE n \in Stored(node)
    <3>1. n \in NodeId /\ node' = [node EXCEPT ![n].parent = IF n = call[c].dst THEN 0 ELSE call[c].dst]
      BY <1>2, <2>2 DEF Stored, Live, Deleted
    <3>2. /\ \A m \in NodeId : node'[m].st = node[m].st /\ node'[m].dir = node[m].dir
          /\ node'[call[c].dst].parent = 0
          /\ Broken(node', call[c].dst) \subseteq Broken(node, call[c].dst) \ {n}
      BY <2>1, <3>1, RepairedRow DEF TreeInv
    <3> QED BY <2>1, <3>2 DEF LiveDirs, Live
  <2>3. CASE n \notin Stored(node)
    BY <1>2, <2>1, <2>3 DEF Broken
  <2> QED BY <2>2, <2>3
<1>10. LiveStays
  BY <1>5 DEF LiveStays
<1> QED BY <1>6, <1>7, <1>8, <1>9, <1>10 DEF TreeInv

-----------------------------------------------------------------------------
LEMMA TreeKept == TreeInv /\ [TreeNext]_treeVars => TreeInv' /\ (LiveStays \/ UNCHANGED treeVars)
<1> SUFFICES ASSUME TreeInv, [TreeNext]_treeVars PROVE TreeInv' /\ (LiveStays \/ UNCHANGED treeVars)
  OBVIOUS
<1>1. CASE TreeNext
  BY <1>1, CreateBeginKeeps, BeginsKeep, ChecksKeep, CommitsKeep, WritesKeep, ClearWriteKeeps,
     RepairBeginKeeps, RepairReadKeeps, RepairWriteKeeps DEF TreeNext
<1>2. CASE UNCHANGED treeVars
  BY <1>2 DEF treeVars, TreeInv, Shaped, RowsLocked, Alone, RepairListed, LiveDirs, Live, Broken,
     Stored, Deleted, Target
<1> QED BY <1>1, <1>2

-----------------------------------------------------------------------------
(* Sets and the levels of a recursive query. *)

\* A set of natural numbers has a smallest one.
LEMMA SmallestOf ==
  ASSUME NEW T \in SUBSET Nat, T # {}
  PROVE  \E m \in T : \A n \in T : m <= n
<1> DEFINE Segments == {0 .. m : m \in T}
<1>1. Segments \subseteq FiniteSubsetsOf(Nat) /\ Segments # {}
  <2>1. \A m \in Nat : IsFiniteSet(0 .. m) /\ (0 .. m) \in SUBSET Nat
    BY FS_Interval
  <2> QED BY <2>1 DEF FiniteSubsetsOf
<1>2. PICK S \in Segments : \A U \in Segments : <<U, S>> \notin StrictSubsetOrdering(Nat)
  <2> HIDE DEF Segments
  <2> QED BY <1>1, WFMin, FS_StrictSubsetOrderingWellFounded
<1>3. PICK m \in T : S = 0 .. m
  OBVIOUS
<1>4. ASSUME NEW n \in T, n < m PROVE FALSE
  <2>1. (0 .. n) \in Segments /\ (0 .. n) \subseteq (0 .. m) /\ (0 .. n) # (0 .. m)
    BY <1>4
  <2>2. (0 .. n) \in SUBSET Nat /\ (0 .. m) \in SUBSET Nat
    OBVIOUS
  <2> QED BY <1>2, <1>3, <2>1, <2>2 DEF StrictSubsetOrdering
<1> QED BY <1>4

\* The levels below A: each has what the one before has and its children in S.
IsLevels(g, N, A, S, up) ==
  /\ DOMAIN g = 0 .. N
  /\ g[0] = A
  /\ \A k \in 1 .. N : g[k] = g[k - 1] \cup {x \in S : up[x] \in g[k - 1]}

\* There are levels, however many.
LEMMA LevelsExist ==
  ASSUME NEW N \in Nat, NEW A, NEW S, NEW up
  PROVE  \E g : IsLevels(g, N, A, S, up)
<1> DEFINE T == {n \in Nat : ~ \E g : IsLevels(g, n, A, S, up)}
<1> SUFFICES ASSUME T # {} PROVE FALSE
  OBVIOUS
<1>1. PICK n \in T : \A k \in T : n <= k
  <2> HIDE DEF T
  <2>1. T \in SUBSET Nat
    BY DEF T
  <2> QED BY <2>1, SmallestOf
<1>2. CASE n = 0
  <2>1. IsLevels([k \in 0 .. 0 |-> A], 0, A, S, up)
    BY DEF IsLevels
  <2> QED BY <1>2, <2>1
<1>3. CASE n # 0
  <2>1. n \in Nat /\ n - 1 \in Nat /\ n - 1 \notin T
    BY <1>1, <1>3
  <2>2. PICK g : IsLevels(g, n - 1, A, S, up)
    BY <2>1
  <2> DEFINE h == [k \in 0 .. n |-> IF k = n THEN g[n - 1] \cup {x \in S : up[x] \in g[n - 1]} ELSE g[k]]
  <2>3. h[n] = g[n - 1] \cup {x \in S : up[x] \in g[n - 1]} /\ \A k \in 0 .. n - 1 : h[k] = g[k]
    BY <2>1
  <2>4. DOMAIN h = 0 .. n
    OBVIOUS
  <2> HIDE DEF h
  <2>5. \A k \in 1 .. n : h[k] = h[k - 1] \cup {x \in S : up[x] \in h[k - 1]}
    <3> SUFFICES ASSUME NEW k \in 1 .. n
                 PROVE  h[k] = h[k - 1] \cup {x \in S : up[x] \in h[k - 1]}
      OBVIOUS
    <3>1. h[k - 1] = g[k - 1]
      BY <2>1, <2>3
    <3>2. CASE k = n
      BY <2>3, <3>1, <3>2
    <3>3. CASE k # n
      <4>1. k \in 1 .. n - 1 /\ k \in 0 .. n - 1
        BY <2>1, <3>3
      <4>2. h[k] = g[k] /\ g[k] = g[k - 1] \cup {x \in S : up[x] \in g[k - 1]}
        BY <2>2, <2>3, <4>1 DEF IsLevels
      <4> QED BY <3>1, <4>2
    <3> QED BY <3>2, <3>3
  <2>6. h[0] = A
    BY <2>1, <2>2, <2>3 DEF IsLevels
  <2>7. IsLevels(h, n, A, S, up)
    BY <2>4, <2>5, <2>6 DEF IsLevels
  <2> QED BY <2>7
<1> QED BY <1>2, <1>3

\* The last level contains every level, and is contained in every set that
\* contains A and the children of its members.
LEMMA LevelsLeast ==
  ASSUME NEW N \in Nat, NEW A, NEW S, NEW up, NEW g, IsLevels(g, N, A, S, up)
  PROVE  /\ \A k \in 0 .. N : g[k] \subseteq g[N]
         /\ g[N] \subseteq A \cup S
         /\ \A X : (A \subseteq X /\ (\A x \in S : up[x] \in X => x \in X)) => g[N] \subseteq X
<1>1. ASSUME NEW k \in 0 .. N PROVE g[k] \subseteq g[N]
  <2> DEFINE T == {j \in k .. N : ~(g[k] \subseteq g[j])}
  <2> SUFFICES ASSUME T # {} PROVE FALSE
    OBVIOUS
  <2>1. PICK j \in T : \A i \in T : j <= i
    <3>1. T \in SUBSET Nat
      OBVIOUS
    <3> HIDE DEF T
    <3> QED BY <3>1, SmallestOf
  <2>2. j # k /\ j \in 1 .. N /\ j - 1 \in k .. N
    OBVIOUS
  <2>3. g[k] \subseteq g[j - 1]
    BY <2>1, <2>2
  <2>4. g[j - 1] \subseteq g[j]
    BY <2>2 DEF IsLevels
  <2> QED BY <2>3, <2>4
<1>2. ASSUME NEW X, A \subseteq X, \A x \in S : up[x] \in X => x \in X
      PROVE  g[N] \subseteq X
  <2> DEFINE T == {j \in 0 .. N : ~(g[j] \subseteq X)}
  <2> SUFFICES ASSUME T # {} PROVE FALSE
    OBVIOUS
  <2>1. PICK j \in T : \A i \in T : j <= i
    <3>1. T \in SUBSET Nat
      OBVIOUS
    <3> HIDE DEF T
    <3> QED BY <3>1, SmallestOf
  <2>2. j # 0
    BY <1>2 DEF IsLevels
  <2>3. j \in 1 .. N /\ j - 1 \in 0 .. N
    BY <2>2
  <2>4. g[j - 1] \subseteq X
    BY <2>1, <2>3
  <2>5. g[j] = g[j - 1] \cup {x \in S : up[x] \in g[j - 1]}
    BY <2>3 DEF IsLevels
  <2> QED BY <1>2, <2>4, <2>5
<1>3. g[N] \subseteq A \cup S
  BY <1>2
<1> QED BY <1>1, <1>2, <1>3

\* With as many levels as there are members of S, the last one is closed: each
\* level before a closed one has a member more than the one before it.
LEMMA LevelsClosed ==
  ASSUME NEW N \in Nat, NEW A, NEW S, NEW up, NEW g, IsLevels(g, N, A, S, up),
         IsFiniteSet(S), Cardinality(S) <= N
  PROVE  \A x \in S : up[x] \in g[N] => x \in g[N]
<1>1. ASSUME NEW j \in 1 .. N, g[j] = g[j - 1]
      PROVE  \A x \in S : up[x] \in g[N] => x \in g[N]
  <2>1. A \subseteq g[j - 1]
    <3>1. g[j - 1] \subseteq A \cup g[j - 1]
      OBVIOUS
    <3> DEFINE T == {i \in 0 .. N : ~(A \subseteq g[i])}
    <3> SUFFICES ASSUME T # {} PROVE FALSE
      OBVIOUS
    <3>2. PICK i \in T : \A h \in T : i <= h
      <4>1. T \in SUBSET Nat
        OBVIOUS
      <4> HIDE DEF T
      <4> QED BY <4>1, SmallestOf
    <3>3. i # 0
      BY DEF IsLevels
    <3>4. i \in 1 .. N /\ i - 1 \in 0 .. N /\ i - 1 \notin T
      BY <3>2, <3>3
    <3> QED BY <3>4 DEF IsLevels
  <2>2. \A x \in S : up[x] \in g[j - 1] => x \in g[j - 1]
    BY <1>1 DEF IsLevels
  <2>3. g[N] \subseteq g[j - 1]
    BY <2>1, <2>2, LevelsLeast
  <2>4. g[j - 1] \subseteq g[N]
    BY LevelsLeast
  <2> QED BY <2>2, <2>3, <2>4
<1>2. ASSUME \A j \in 1 .. N : g[j] # g[j - 1]
      PROVE  S \subseteq g[N]
  <2> DEFINE C(j) == Cardinality(g[j] \cap S)
             T == {j \in 0 .. N : ~(C(j) >= j)}
  <2>1. \A j \in 0 .. N : IsFiniteSet(g[j] \cap S) /\ C(j) \in Nat
    BY FS_Intersection, FS_CardinalityType
  <2>2. T = {}
    <3> SUFFICES ASSUME T # {} PROVE FALSE
      OBVIOUS
    <3>1. PICK j \in T : \A i \in T : j <= i
      <4>1. T \in SUBSET Nat
        OBVIOUS
      <4> HIDE DEF T
      <4> QED BY <4>1, SmallestOf
    <3>2. j # 0
      BY <2>1
    <3>3. j \in 1 .. N /\ j - 1 \in 0 .. N /\ C(j - 1) >= j - 1
      BY <3>1, <3>2
    <3>4. g[j] = g[j - 1] \cup {x \in S : up[x] \in g[j - 1]} /\ g[j] # g[j - 1]
      BY <1>2, <3>3 DEF IsLevels
    <3>5. g[j - 1] \cap S \subseteq g[j] \cap S /\ g[j - 1] \cap S # g[j] \cap S
      BY <3>4
    <3>6. C(j - 1) <= C(j) /\ C(j - 1) # C(j)
      BY <2>1, <3>3, <3>5, FS_Subset
    <3>7. C(j - 1) \in Nat /\ C(j) \in Nat /\ ~(C(j) >= j)
      BY <2>1, <3>1, <3>3
    <3> HIDE DEF C, T
    <3> QED BY <3>3, <3>6, <3>7
  <2>3. C(N) >= N
    BY <2>2
  <2>4. g[N] \cap S \in SUBSET S
    OBVIOUS
  <2>5. C(N) <= Cardinality(S) /\ (Cardinality(S) = C(N) => S = g[N] \cap S)
    BY <2>4, FS_Subset
  <2>6. Cardinality(S) \in Nat /\ C(N) \in Nat
    BY <2>1, FS_CardinalityType
  <2> HIDE DEF C
  <2>7. Cardinality(S) = C(N)
    BY <2>3, <2>5, <2>6
  <2> QED BY <2>5, <2>7
<1> QED BY <1>1, <1>2

-----------------------------------------------------------------------------
(* What keeps the node tree whole. *)

LiveBelowLive(v) == \A n \in Live(v) : v[n].parent # 0 => v[n].parent \in LiveDirs(v)

NoRing(v, S) == \A Y \in SUBSET S : Y # {} => \E y \in Y : v[y].parent \notin Y

Sound(v) == ParentsAreDirs(v) /\ LiveBelowLive(v) /\ NoRing(v, Live(v))

CreateSound(a, v) ==
  \/ /\ a.dst \in LiveDirs(v)
     /\ a.ids # {} => v[a.dst].parent = 0
  \/ a.dst \in a.ids

RepairSound(a, v) == a.dst \in LiveDirs(v) /\ v[a.dst].parent = 0

MoveSound(a, v) ==
  a.step = "checked" =>
    /\ a.dst \in LiveDirs(v)
    /\ \E U \in SUBSET Live(v) :
         /\ a.dst \in U /\ a.sel \notin U
         /\ \A x \in U : v[x].parent \in U \cup {0}

DeleteSound(a, v) == \A x \in Live(v) : v[x].parent \in a.ids => x \in a.ids

RestoreSound(a, v) ==
  LET back == a.ids \cap Deleted(v) IN
  /\ \A m \in back : v[m].parent \in Live(v) \cup back \cup {0}
  /\ NoRing(v, back)

CallSound(a, v) ==
  /\ a.kind = "create" => CreateSound(a, v)
  /\ a.kind = "repair" => RepairSound(a, v)
  /\ a.kind = "move" => MoveSound(a, v)
  /\ a.kind = "delete" => DeleteSound(a, v)
  /\ a.kind = "restore" => RestoreSound(a, v)

PendIs(c) ==
  /\ call[c].kind = "create" =>
       /\ DOMAIN pend[c] = call[c].ids
       /\ \A n \in call[c].ids :
            IF n = call[c].dst THEN pend[c][n] = RootRow /\ node[n].st = "free"
            ELSE n \in Stored(node) /\ pend[c][n] = [node[n] EXCEPT !.parent = call[c].dst]
  /\ call[c].kind = "clear" =>
       \A n \in DOMAIN pend[c] : n \in Deleted(node) /\ pend[c][n] = [node[n] EXCEPT !.st = "purged"]

NoneEndangered == \A c, d \in Client : c # d => ~Endangers(call[c], call[d])

\* Two moves that have made their checks hold no lock in common.
MovesApart ==
  \A c, d \in Client : c # d /\ At(c, "move", "checked") /\ At(d, "move", "checked") =>
    MoveScope(call[c]) \cap MoveScope(call[d]) = {}

WholeInv ==
  /\ \A c \in Client : PendIs(c)
  /\ MovesApart
  /\ ~raced => /\ NoneEndangered
               /\ Sound(node)
               /\ \A c \in Client : CallSound(call[c], node)

-----------------------------------------------------------------------------
(* What the writes do to a sound tree. *)

\* What is below n in S: the least set of rows with n and its children.
LEMMA SubtreeIs ==
  ASSUME NEW v, NEW n, NEW S \in SUBSET NodeId
  PROVE  /\ Subtree(v, n, S) \subseteq S
         /\ n \in S => n \in Subtree(v, n, S)
         /\ \A x \in S : v[x].parent \in Subtree(v, n, S) => x \in Subtree(v, n, S)
         /\ \A X : ({n} \cap S \subseteq X /\ (\A x \in S : v[x].parent \in X => x \in X))
                    => Subtree(v, n, S) \subseteq X
<1> DEFINE up == [x \in S |-> v[x].parent]
           A == {n} \cap S
           IsLevel(g) == g = [k \in 0 .. NodeCount |->
                                IF k = 0 THEN {n} \cap S
                                ELSE g[k - 1] \cup {m \in S : v[m].parent \in g[k - 1]}]
           level == CHOOSE g : IsLevel(g)
<1>1. NodeCount \in Nat
  BY TreeCount
<1>2. \A x \in S : up[x] = v[x].parent
  OBVIOUS
<1>3. \A g : IsLevels(g, NodeCount, A, S, up) => IsLevels([k \in 0 .. NodeCount |-> g[k]], NodeCount, A, S, up)
  BY <1>1 DEF IsLevels
<1>4. \E g : IsLevel(g)
  <2>1. PICK f : IsLevels(f, NodeCount, A, S, up)
    BY <1>1, LevelsExist
  <2> DEFINE g == [k \in 0 .. NodeCount |-> f[k]]
  <2>2. IsLevels(g, NodeCount, A, S, up)
    BY <1>3, <2>1
  <2>3. \A k \in 0 .. NodeCount :
          g[k] = IF k = 0 THEN {n} \cap S ELSE g[k - 1] \cup {m \in S : v[m].parent \in g[k - 1]}
    <3> HIDE DEF g
    <3> SUFFICES ASSUME NEW k \in 0 .. NodeCount
                 PROVE  g[k] = IF k = 0 THEN {n} \cap S
                               ELSE g[k - 1] \cup {m \in S : v[m].parent \in g[k - 1]}
      OBVIOUS
    <3>1. CASE k = 0
      BY <2>2, <3>1 DEF IsLevels
    <3>2. CASE k # 0
      <4>1. g[k] = g[k - 1] \cup {x \in S : up[x] \in g[k - 1]}
        BY <1>1, <2>2, <3>2 DEF IsLevels
      <4> HIDE DEF up
      <4> QED BY <1>2, <3>2, <4>1
    <3> QED BY <3>1, <3>2
  <2>4. g = [k \in 0 .. NodeCount |-> g[k]]
    OBVIOUS
  <2>5. IsLevel(g)
    <3> HIDE DEF g
    <3> QED BY <2>3, <2>4
  <2> QED BY <2>5
<1>5. IsLevel(level)
  <2> HIDE DEF IsLevel
  <2> QED BY <1>4
<1>6. Subtree(v, n, S) = level[NodeCount]
  BY DEF Subtree
<1> HIDE DEF level
<1>7. IsLevels(level, NodeCount, A, S, up)
  <2> HIDE DEF up
  <2> QED BY <1>1, <1>2, <1>5 DEF IsLevels
<1>8. IsFiniteSet(S) /\ Cardinality(S) <= NodeCount
  <2>1. IsFiniteSet(NodeId) /\ Cardinality(NodeId) = NodeCount
    BY <1>1, FS_Interval DEF NodeId
  <2> QED BY <2>1, FS_Subset
<1>9. \A x \in S : up[x] \in level[NodeCount] => x \in level[NodeCount]
  <2> HIDE DEF up, A
  <2> QED BY <1>1, <1>7, <1>8, LevelsClosed
<1>10. /\ \A k \in 0 .. NodeCount : level[k] \subseteq level[NodeCount]
       /\ level[NodeCount] \subseteq A \cup S
       /\ \A X : (A \subseteq X /\ (\A x \in S : up[x] \in X => x \in X)) => level[NodeCount] \subseteq X
  <2> HIDE DEF up, A
  <2> QED BY <1>1, <1>7, LevelsLeast
<1>11. A \subseteq level[NodeCount]
  BY <1>1, <1>7, <1>10 DEF IsLevels
<1> HIDE DEF up, IsLevel
<1> QED BY <1>2, <1>6, <1>9, <1>10, <1>11
-----------------------------------------------------------------------------
(* What each way of writing rows does to the tree. *)

LEMMA RowSets ==
  ASSUME NEW v \in [NodeId -> Row]
  PROVE  /\ Live(v) \subseteq NodeId /\ Deleted(v) \subseteq NodeId /\ Stored(v) \subseteq NodeId
         /\ LiveDirs(v) \subseteq Live(v) /\ 0 \notin NodeId
         /\ \A n \in NodeId : v[n].parent \in NodeId \cup {0}
BY TreeCount DEF Live, Deleted, Stored, LiveDirs, Row, NodeId

\* Rows that differ in their names only.
LEMMA RenamedSound ==
  ASSUME NEW v, NEW w,
         \A n \in NodeId : w[n].st = v[n].st /\ w[n].dir = v[n].dir /\ w[n].parent = v[n].parent
  PROVE  /\ Sound(v) => Sound(w)
         /\ \A a : CallSound(a, v) => CallSound(a, w)
<1>1. /\ Live(w) = Live(v) /\ Deleted(w) = Deleted(v) /\ Stored(w) = Stored(v)
      /\ LiveDirs(w) = LiveDirs(v)
  BY DEF Live, Deleted, Stored, LiveDirs
<1>2. Live(v) \subseteq NodeId /\ Deleted(v) \subseteq NodeId /\ Stored(v) \subseteq NodeId
      /\ LiveDirs(v) \subseteq NodeId
  BY DEF Live, Deleted, Stored, LiveDirs
<1>3. \A S \in SUBSET NodeId : NoRing(v, S) => NoRing(w, S)
  BY DEF NoRing
<1>4. Sound(v) => Sound(w)
  <2>1. LiveBelowLive(v) => LiveBelowLive(w)
    BY <1>1, <1>2 DEF LiveBelowLive
  <2>2. ParentsAreDirs(v) => ParentsAreDirs(w)
    BY <1>1, <1>2 DEF ParentsAreDirs
  <2> QED BY <1>1, <1>2, <1>3, <2>1, <2>2 DEF Sound
<1>5. ASSUME NEW a, CallSound(a, v) PROVE CallSound(a, w)
  <2>1. a.kind = "create" => CreateSound(a, w)
    BY <1>1, <1>2, <1>5 DEF CallSound, CreateSound
  <2>2. a.kind = "repair" => RepairSound(a, w)
    BY <1>1, <1>2, <1>5 DEF CallSound, RepairSound
  <2>3. a.kind = "move" => MoveSound(a, w)
    BY <1>1, <1>2, <1>5 DEF CallSound, MoveSound
  <2>4. a.kind = "delete" => DeleteSound(a, w)
    BY <1>1, <1>2, <1>5 DEF CallSound, DeleteSound
  <2>5. a.kind = "restore" => RestoreSound(a, w)
    BY <1>1, <1>2, <1>3, <1>5 DEF CallSound, RestoreSound
  <2> QED BY <2>1, <2>2, <2>3, <2>4, <2>5 DEF CallSound
<1> QED BY <1>4, <1>5

\* A row that was free is inserted at the top or in a live directory.
LEMMA InsertedSound ==
  ASSUME NEW v \in [NodeId -> Row], NEW w \in [NodeId -> Row], Sound(v),
         NEW r \in NodeId, v[r].st = "free", w[r].st = "live", w[r].parent \in LiveDirs(v) \cup {0},
         \A n \in NodeId \ {r} : w[n].st = v[n].st /\ w[n].dir = v[n].dir /\ w[n].parent = v[n].parent
  PROVE  /\ Sound(w)
         /\ \A a : CallSound(a, v) /\ (a.kind = "delete" => w[r].parent \notin a.ids) => CallSound(a, w)
<1>1. /\ Live(w) = Live(v) \cup {r} /\ Deleted(w) = Deleted(v)
      /\ Stored(w) = Stored(v) \cup {r} /\ r \notin Stored(v) /\ r # 0
      /\ LiveDirs(v) \subseteq LiveDirs(w)
  BY TreeCount DEF Live, Deleted, Stored, LiveDirs, NodeId
<1>2. /\ Live(v) \subseteq Stored(v) /\ Deleted(v) \subseteq Stored(v)
      /\ LiveDirs(v) \subseteq Live(v) /\ Stored(v) \subseteq NodeId \ {r}
  BY <1>1, RowSets DEF Stored
<1>3. \A n \in Stored(v) : v[n].parent # r /\ w[n].parent = v[n].parent
  BY <1>1, <1>2 DEF Sound, ParentsAreDirs
<1>4. ParentsAreDirs(w)
  <2>1. \A n \in NodeId : v[n].st # "free" => w[n].st # "free" /\ w[n].dir = v[n].dir
    OBVIOUS
  <2>2. \A n \in LiveDirs(v) : n \in NodeId /\ v[n].st # "free" /\ v[n].dir
    BY DEF LiveDirs, Live
  <2> QED BY <1>1, <1>3, <2>1, <2>2 DEF Sound, ParentsAreDirs
<1>5. LiveBelowLive(w)
  BY <1>1, <1>2, <1>3 DEF Sound, LiveBelowLive
<1>6. NoRing(w, Live(w))
  <2> SUFFICES ASSUME NEW Y \in SUBSET Live(w), Y # {} PROVE \E y \in Y : w[y].parent \notin Y
    BY DEF NoRing
  <2>1. CASE Y = {r}
    BY <1>1, <1>2, <2>1
  <2>2. CASE Y # {r}
    <3>1. Y \ {r} # {} /\ Y \ {r} \in SUBSET Live(v)
      BY <1>1, <2>2
    <3>2. PICK y \in Y \ {r} : v[y].parent \notin Y \ {r}
      BY <3>1 DEF Sound, NoRing
    <3>3. y \in Stored(v)
      BY <1>2, <3>1
    <3> QED BY <1>3, <3>2, <3>3
  <2> QED BY <2>1, <2>2
<1>7. ASSUME NEW a, CallSound(a, v), a.kind = "delete" => w[r].parent \notin a.ids
      PROVE  CallSound(a, w)
  <2>1. a.kind = "create" => CreateSound(a, w)
    BY <1>1, <1>2, <1>3, <1>7 DEF CallSound, CreateSound
  <2>2. a.kind = "repair" => RepairSound(a, w)
    BY <1>1, <1>2, <1>3, <1>7 DEF CallSound, RepairSound
  <2>3. a.kind = "move" => MoveSound(a, w)
    BY <1>1, <1>2, <1>3, <1>7 DEF CallSound, MoveSound
  <2>4. a.kind = "delete" => DeleteSound(a, w)
    BY <1>1, <1>2, <1>3, <1>7 DEF CallSound, DeleteSound
  <2>5. a.kind = "restore" => RestoreSound(a, w)
    <3> SUFFICES ASSUME RestoreSound(a, v) PROVE RestoreSound(a, w)
      BY <1>7 DEF CallSound
    <3>1. \A m \in a.ids \cap Deleted(v) : w[m].parent = v[m].parent
      BY <1>2, <1>3
    <3> QED BY <1>1, <3>1 DEF RestoreSound, NoRing
  <2> QED BY <1>7, <2>1, <2>2, <2>3, <2>4, <2>5 DEF CallSound
<1> QED BY <1>4, <1>5, <1>6, <1>7 DEF Sound

\* Rows are put directly below the root.
LEMMA AttachedSound ==
  ASSUME NEW v \in [NodeId -> Row], NEW w \in [NodeId -> Row], Sound(v),
         NEW root \in LiveDirs(v), v[root].parent = 0, NEW P \in SUBSET NodeId, root \notin P,
         \A n \in NodeId : /\ w[n].st = v[n].st /\ w[n].dir = v[n].dir
                           /\ w[n].parent = IF n \in P THEN root ELSE v[n].parent
  PROVE  /\ Sound(w)
         /\ \A a : /\ CallSound(a, v)
                   /\ a.kind = "delete" => root \notin a.ids
                   /\ Repairs(a) => a.dst = root
                   /\ ~(a.kind = "move" /\ a.sel = root)
                   => CallSound(a, w)
<1>1. /\ Live(w) = Live(v) /\ Deleted(w) = Deleted(v) /\ Stored(w) = Stored(v)
      /\ LiveDirs(w) = LiveDirs(v)
  BY DEF Live, Deleted, Stored, LiveDirs
<1>2. /\ Live(v) \subseteq NodeId /\ Deleted(v) \subseteq NodeId /\ Stored(v) \subseteq NodeId
      /\ LiveDirs(v) \subseteq Live(v) /\ root \in Live(v) /\ root \in NodeId /\ 0 \notin NodeId
      /\ root \notin Deleted(v) /\ v[root].st # "free" /\ v[root].dir
  BY RowSets DEF LiveDirs, Live, Deleted
<1>3. \A n \in NodeId : w[n].parent \in {root, v[n].parent}
  OBVIOUS
<1>4. ParentsAreDirs(w)
  BY <1>1, <1>2, <1>3 DEF Sound, ParentsAreDirs
<1>5. LiveBelowLive(w)
  BY <1>1, <1>2, <1>3 DEF Sound, LiveBelowLive
<1>6. NoRing(w, Live(w))
  <2> SUFFICES ASSUME NEW Y \in SUBSET Live(w), Y # {} PROVE \E y \in Y : w[y].parent \notin Y
    BY DEF NoRing
  <2>1. CASE root \in Y
    BY <1>1, <1>2, <2>1
  <2>2. CASE root \notin Y /\ Y \cap P # {}
    BY <1>1, <1>2, <2>2
  <2>3. CASE Y \cap P = {}
    BY <1>1, <1>2, <2>3 DEF Sound, NoRing
  <2> QED BY <2>1, <2>2, <2>3
<1>7. ASSUME NEW a, CallSound(a, v), a.kind = "delete" => root \notin a.ids,
             Repairs(a) => a.dst = root, ~(a.kind = "move" /\ a.sel = root)
      PROVE  CallSound(a, w)
  <2>1. a.kind = "create" => CreateSound(a, w)
    BY <1>1, <1>2, <1>7 DEF CallSound, CreateSound, Repairs
  <2>2. a.kind = "repair" => RepairSound(a, w)
    BY <1>1, <1>2, <1>7 DEF CallSound, RepairSound, Repairs
  <2>3. a.kind = "move" => MoveSound(a, w)
    <3> SUFFICES ASSUME a.kind = "move", a.step = "checked" PROVE MoveSound(a, w)
      BY DEF MoveSound
    <3>1. PICK U \in SUBSET Live(v) : /\ a.dst \in U /\ a.sel \notin U
                                      /\ \A x \in U : v[x].parent \in U \cup {0}
      BY <1>7 DEF CallSound, MoveSound
    <3> DEFINE V == U \cup {root}
    <3>2. V \in SUBSET Live(w) /\ a.dst \in V /\ a.sel \notin V
      BY <1>1, <1>2, <1>7, <3>1
    <3>3. \A x \in V : w[x].parent \in V \cup {0}
      BY <1>2, <1>3, <3>1
    <3>4. a.dst \in LiveDirs(w)
      BY <1>1, <1>7 DEF CallSound, MoveSound
    <3> HIDE DEF V
    <3> QED BY <3>2, <3>3, <3>4 DEF MoveSound
  <2>4. a.kind = "delete" => DeleteSound(a, w)
    BY <1>1, <1>2, <1>3, <1>7 DEF CallSound, DeleteSound
  <2>5. a.kind = "restore" => RestoreSound(a, w)
    <3> SUFFICES ASSUME RestoreSound(a, v) PROVE RestoreSound(a, w)
      BY <1>7 DEF CallSound
    <3> DEFINE back == a.ids \cap Deleted(v)
    <3>1. \A m \in back : w[m].parent \in Live(v) \cup back \cup {0}
      BY <1>2, <1>3 DEF RestoreSound
    <3>2. NoRing(w, back)
      <4> SUFFICES ASSUME NEW Y \in SUBSET back, Y # {} PROVE \E y \in Y : w[y].parent \notin Y
        BY DEF NoRing
      <4>1. PICK y \in Y : v[y].parent \notin Y
        BY DEF RestoreSound, NoRing
      <4>2. root \notin Y
        BY <1>2
      <4> QED BY <1>2, <1>3, <4>1, <4>2
    <3> QED BY <1>1, <3>1, <3>2 DEF RestoreSound
  <2> QED BY <1>7, <2>1, <2>2, <2>3, <2>4, <2>5 DEF CallSound
<1> QED BY <1>4, <1>5, <1>6, <1>7 DEF Sound

\* A live row is moved to a directory that is not below it.
LEMMA MovedSound ==
  ASSUME NEW v \in [NodeId -> Row], NEW w \in [NodeId -> Row], Sound(v),
         NEW b, b.step = "checked", MoveSound(b, v), b.sel \in Live(v),
         \A n \in NodeId : /\ w[n].st = v[n].st /\ w[n].dir = v[n].dir
                           /\ w[n].parent = IF n = b.sel THEN b.dst ELSE v[n].parent
  PROVE  /\ Sound(w)
         /\ \A a : /\ CallSound(a, v)
                   /\ a.kind = "move" => a.step # "checked"
                   /\ a.kind = "delete" => b.dst \notin a.ids
                   /\ ~(Repairs(a) /\ a.dst = b.sel)
                   => CallSound(a, w)
<1>1. /\ Live(w) = Live(v) /\ Deleted(w) = Deleted(v) /\ Stored(w) = Stored(v)
      /\ LiveDirs(w) = LiveDirs(v)
  BY DEF Live, Deleted, Stored, LiveDirs
<1>2. /\ Live(v) \subseteq NodeId /\ Deleted(v) \subseteq NodeId /\ Stored(v) \subseteq NodeId
      /\ LiveDirs(v) \subseteq Live(v) /\ 0 \notin NodeId /\ b.sel \notin Deleted(v)
      /\ Live(v) \subseteq Stored(v)
  BY RowSets DEF Live, Deleted, Stored
<1>3. b.dst \in LiveDirs(v) /\ v[b.dst].st # "free" /\ v[b.dst].dir /\ b.dst \in NodeId
  BY DEF MoveSound, LiveDirs, Live
<1>4. ParentsAreDirs(w)
  BY <1>1, <1>2, <1>3 DEF Sound, ParentsAreDirs
<1>5. LiveBelowLive(w)
  BY <1>1, <1>2, <1>3 DEF Sound, LiveBelowLive
<1>6. NoRing(w, Live(w))
  <2> SUFFICES ASSUME NEW Y \in SUBSET Live(w), Y # {} PROVE \E y \in Y : w[y].parent \notin Y
    BY DEF NoRing
  <2>1. CASE b.sel \notin Y
    BY <1>1, <1>2, <2>1 DEF Sound, NoRing
  <2>2. CASE b.sel \in Y /\ b.dst \notin Y
    BY <1>2, <2>2
  <2>3. CASE b.dst \in Y
    <3>1. PICK U \in SUBSET Live(v) : /\ b.dst \in U /\ b.sel \notin U
                                      /\ \A x \in U : v[x].parent \in U \cup {0}
      BY DEF MoveSound
    <3>2. Y \cap U \in SUBSET Live(v) /\ Y \cap U # {}
      BY <2>3, <3>1
    <3>3. PICK y \in Y \cap U : v[y].parent \notin Y \cap U
      BY <3>2 DEF Sound, NoRing
    <3>4. y \in NodeId /\ y # b.sel /\ v[y].parent \in U \cup {0} /\ 0 \notin Y
      BY <1>1, <1>2, <3>1, <3>3
    <3>5. w[y].parent = v[y].parent
      BY <3>4
    <3> QED BY <3>3, <3>4, <3>5
  <2> QED BY <2>1, <2>2, <2>3
<1>7. ASSUME NEW a, CallSound(a, v), a.kind = "move" => a.step # "checked",
             a.kind = "delete" => b.dst \notin a.ids, ~(Repairs(a) /\ a.dst = b.sel)
      PROVE  CallSound(a, w)
  <2>1. a.kind = "create" => CreateSound(a, w)
    BY <1>1, <1>2, <1>7 DEF CallSound, CreateSound, Repairs
  <2>2. a.kind = "repair" => RepairSound(a, w)
    <3> SUFFICES ASSUME a.kind = "repair" PROVE RepairSound(a, w)
      OBVIOUS
    <3>1. a.dst \in LiveDirs(v) /\ v[a.dst].parent = 0 /\ a.dst # b.sel
      BY <1>7 DEF CallSound, RepairSound, Repairs
    <3> QED BY <1>1, <1>2, <3>1 DEF RepairSound
  <2>3. a.kind = "move" => MoveSound(a, w)
    BY <1>7 DEF MoveSound
  <2>4. a.kind = "delete" => DeleteSound(a, w)
    BY <1>1, <1>2, <1>7 DEF CallSound, DeleteSound
  <2>5. a.kind = "restore" => RestoreSound(a, w)
    <3> SUFFICES ASSUME RestoreSound(a, v) PROVE RestoreSound(a, w)
      BY <1>7 DEF CallSound
    <3>1. \A m \in a.ids \cap Deleted(v) : w[m].parent = v[m].parent
      BY <1>2
    <3> QED BY <1>1, <3>1 DEF RestoreSound, NoRing
  <2> QED BY <1>7, <2>1, <2>2, <2>3, <2>4, <2>5 DEF CallSound
<1> QED BY <1>4, <1>5, <1>6, <1>7 DEF Sound

\* A set of rows with every live child of theirs is soft-deleted.
LEMMA BinnedSound ==
  ASSUME NEW v \in [NodeId -> Row], NEW w \in [NodeId -> Row], Sound(v),
         NEW b, DeleteSound(b, v),
         \A n \in NodeId : /\ w[n].dir = v[n].dir /\ w[n].parent = v[n].parent
                           /\ w[n].st = IF n \in b.ids /\ v[n].st = "live" THEN "deleted" ELSE v[n].st
  PROVE  /\ Sound(w)
         /\ \A a : /\ CallSound(a, v)
                   /\ a.kind # "restore"
                   /\ a.kind \in {"create", "move", "repair"} => a.dst \notin b.ids
                   => CallSound(a, w)
<1>1. /\ Live(w) = Live(v) \ b.ids /\ Deleted(w) = Deleted(v) \cup (Live(v) \cap b.ids)
      /\ Stored(w) = Stored(v) /\ LiveDirs(w) = LiveDirs(v) \ b.ids
  BY DEF Live, Deleted, Stored, LiveDirs
<1>2. /\ Live(v) \subseteq NodeId /\ Deleted(v) \subseteq NodeId /\ Stored(v) \subseteq NodeId
      /\ LiveDirs(v) \subseteq Live(v) /\ 0 \notin NodeId /\ Live(v) \cap Deleted(v) = {}
  BY RowSets DEF Live, Deleted
<1>3. \A n \in NodeId : (v[n].st = "free") = (w[n].st = "free")
  OBVIOUS
<1>4. ParentsAreDirs(w)
  BY <1>1, <1>2, <1>3 DEF Sound, ParentsAreDirs
<1>5. LiveBelowLive(w)
  BY <1>1, <1>2 DEF Sound, LiveBelowLive, DeleteSound
<1>6. NoRing(w, Live(w))
  BY <1>1, <1>2 DEF Sound, NoRing
<1>7. ASSUME NEW a, CallSound(a, v),
             a.kind # "restore", a.kind \in {"create", "move", "repair"} => a.dst \notin b.ids
      PROVE  CallSound(a, w)
  <2>1. a.kind = "create" => CreateSound(a, w)
    BY <1>1, <1>2, <1>7 DEF CallSound, CreateSound
  <2>2. a.kind = "repair" => RepairSound(a, w)
    BY <1>1, <1>2, <1>7 DEF CallSound, RepairSound
  <2>3. a.kind = "move" => MoveSound(a, w)
    <3> SUFFICES ASSUME a.kind = "move", a.step = "checked" PROVE MoveSound(a, w)
      BY DEF MoveSound
    <3>1. PICK U \in SUBSET Live(v) : /\ a.dst \in U /\ a.sel \notin U
                                      /\ \A x \in U : v[x].parent \in U \cup {0}
      BY <1>7 DEF CallSound, MoveSound
    <3> DEFINE V == U \ b.ids
    <3>2. V \in SUBSET Live(w) /\ a.dst \in V /\ a.sel \notin V
      BY <1>1, <1>7, <3>1
    <3>3. \A x \in V : w[x].parent \in V \cup {0}
      BY <1>2, <3>1 DEF DeleteSound
    <3>4. a.dst \in LiveDirs(w)
      BY <1>1, <1>7 DEF CallSound, MoveSound
    <3> HIDE DEF V
    <3> QED BY <3>2, <3>3, <3>4 DEF MoveSound
  <2>4. a.kind = "delete" => DeleteSound(a, w)
    BY <1>1, <1>2, <1>7 DEF CallSound, DeleteSound
  <2> QED BY <1>7, <2>1, <2>2, <2>3, <2>4 DEF CallSound
<1> QED BY <1>4, <1>5, <1>6, <1>7 DEF Sound

\* Deleted rows that hang from live ones or from one another become live again.
LEMMA BackSound ==
  ASSUME NEW v \in [NodeId -> Row], NEW w \in [NodeId -> Row], Sound(v),
         NEW b, RestoreSound(b, v),
         \A n \in NodeId : /\ w[n].dir = v[n].dir /\ w[n].parent = v[n].parent
                           /\ w[n].st = IF n \in b.ids /\ v[n].st = "deleted" THEN "live" ELSE v[n].st
  PROVE  /\ Sound(w)
         /\ \A a : CallSound(a, v) /\ a.kind # "delete" => CallSound(a, w)
<1> DEFINE back == b.ids \cap Deleted(v)
<1>1. /\ Live(w) = Live(v) \cup back /\ Deleted(w) = Deleted(v) \ back
      /\ Stored(w) = Stored(v) /\ LiveDirs(v) \subseteq LiveDirs(w)
  BY DEF Live, Deleted, Stored, LiveDirs
<1>2. /\ Live(v) \subseteq NodeId /\ Deleted(v) \subseteq NodeId /\ Stored(v) \subseteq NodeId
      /\ LiveDirs(v) \subseteq Live(v) /\ 0 \notin NodeId /\ Live(v) \cap Deleted(v) = {}
      /\ Deleted(v) \subseteq Stored(v)
  BY RowSets DEF Live, Deleted, Stored
<1>3. \A n \in NodeId : (v[n].st = "free") = (w[n].st = "free")
  OBVIOUS
<1>4. ParentsAreDirs(w)
  BY <1>1, <1>2, <1>3 DEF Sound, ParentsAreDirs
<1>5. LiveBelowLive(w)
  <2>1. \A n \in back : v[n].parent \in Live(v) \cup back \cup {0}
    BY DEF RestoreSound
  <2>4. back \subseteq NodeId
    BY <1>2
  <2>5. \A n \in NodeId : w[n].parent = v[n].parent
    OBVIOUS
  <2> HIDE DEF back
  <2>2. \A n \in Live(w) : w[n].parent # 0 => w[n].parent \in Live(w)
    BY <1>1, <1>2, <2>1, <2>4, <2>5 DEF Sound, LiveBelowLive
  <2>3. \A n \in Live(w) : w[n].parent # 0 => w[w[n].parent].dir
    <3>1. Live(w) \subseteq Stored(w)
      BY DEF Stored
    <3> QED BY <1>4, <3>1 DEF ParentsAreDirs
  <2> QED BY <2>2, <2>3 DEF LiveBelowLive, LiveDirs
<1>6. NoRing(w, Live(w))
  <2> SUFFICES ASSUME NEW Y \in SUBSET Live(w), Y # {} PROVE \E y \in Y : w[y].parent \notin Y
    BY DEF NoRing
  <2>0. \A n \in NodeId : w[n].parent = v[n].parent
    OBVIOUS
  <2>1. CASE Y \subseteq back
    <3>1. NoRing(v, back) /\ back \subseteq NodeId
      BY <1>2 DEF RestoreSound
    <3> HIDE DEF back
    <3>2. PICK y \in Y : v[y].parent \notin Y
      BY <2>1, <3>1 DEF NoRing
    <3> QED BY <2>0, <2>1, <3>1, <3>2
  <2>2. CASE ~(Y \subseteq back)
    <3> HIDE DEF back
    <3>1. Y \cap Live(v) # {} /\ Y \cap Live(v) \in SUBSET Live(v)
      BY <1>1, <2>2
    <3>2. PICK y \in Y \cap Live(v) : v[y].parent \notin Y \cap Live(v)
      BY <3>1 DEF Sound, NoRing
    <3>3. v[y].parent = 0 \/ v[y].parent \in Live(v)
      BY <1>2, <3>2 DEF Sound, LiveBelowLive
    <3>4. 0 \notin Y
      BY <1>1, <1>2, RowSets
    <3> QED BY <1>2, <2>0, <3>2, <3>3, <3>4
  <2> QED BY <2>1, <2>2
<1>7. ASSUME NEW a, CallSound(a, v), a.kind # "delete"
      PROVE  CallSound(a, w)
  <2> HIDE DEF back
  <2>0. \A n \in NodeId : w[n].parent = v[n].parent
    OBVIOUS
  <2>1. a.kind = "create" => CreateSound(a, w)
    BY <1>1, <1>2, <1>7, <2>0 DEF CallSound, CreateSound
  <2>2. a.kind = "repair" => RepairSound(a, w)
    BY <1>1, <1>2, <1>7, <2>0 DEF CallSound, RepairSound
  <2>3. a.kind = "move" => MoveSound(a, w)
    BY <1>1, <1>2, <1>7, <2>0 DEF CallSound, MoveSound
  <2>5. a.kind = "restore" => RestoreSound(a, w)
    BY <1>1, <1>2, <1>7, <2>0 DEF CallSound, RestoreSound, NoRing
  <2> QED BY <1>7, <2>1, <2>2, <2>3, <2>5 DEF CallSound
<1> QED BY <1>4, <1>5, <1>6, <1>7 DEF Sound

\* Deleted rows are purged.
LEMMA PurgedSound ==
  ASSUME NEW v \in [NodeId -> Row], NEW w \in [NodeId -> Row], Sound(v),
         NEW P \in SUBSET Deleted(v),
         \A n \in NodeId : /\ w[n].dir = v[n].dir /\ w[n].parent = v[n].parent
                           /\ w[n].st = IF n \in P THEN "purged" ELSE v[n].st
  PROVE  /\ Sound(w)
         /\ \A a : (CallSound(a, v) /\ a.kind # "restore")
                      => CallSound(a, w)
<1>1. /\ Live(w) = Live(v) /\ Deleted(w) = Deleted(v) \ P
      /\ Stored(w) = Stored(v) \ P /\ LiveDirs(w) = LiveDirs(v)
  BY DEF Live, Deleted, Stored, LiveDirs
<1>2. /\ Live(v) \subseteq NodeId /\ Deleted(v) \subseteq NodeId /\ Stored(v) \subseteq NodeId
      /\ LiveDirs(v) \subseteq Live(v) /\ 0 \notin NodeId
  BY RowSets
<1>3. \A n \in NodeId : (v[n].st = "free") = (w[n].st = "free")
  BY DEF Deleted
<1>0. \A n \in NodeId : w[n].parent = v[n].parent
  OBVIOUS
<1>4. ParentsAreDirs(w)
  BY <1>1, <1>2, <1>3 DEF Sound, ParentsAreDirs
<1>5. LiveBelowLive(w)
  BY <1>0, <1>1, <1>2 DEF Sound, LiveBelowLive
<1>6. NoRing(w, Live(w))
  BY <1>0, <1>1, <1>2 DEF Sound, NoRing
<1>7. ASSUME NEW a, CallSound(a, v), a.kind # "restore"
      PROVE  CallSound(a, w)
  <2>1. a.kind = "create" => CreateSound(a, w)
    BY <1>0, <1>1, <1>2, <1>7 DEF CallSound, CreateSound
  <2>2. a.kind = "repair" => RepairSound(a, w)
    BY <1>0, <1>1, <1>2, <1>7 DEF CallSound, RepairSound
  <2>3. a.kind = "move" => MoveSound(a, w)
    BY <1>0, <1>1, <1>2, <1>7 DEF CallSound, MoveSound
  <2>4. a.kind = "delete" => DeleteSound(a, w)
    BY <1>0, <1>1, <1>2, <1>7 DEF CallSound, DeleteSound
  <2> QED BY <1>7, <2>1, <2>2, <2>3, <2>4 DEF CallSound
<1> QED BY <1>4, <1>5, <1>6, <1>7 DEF Sound

-----------------------------------------------------------------------------
(* Types. *)

RowTable(P) == \E S \in SUBSET NodeId : P \in [S -> Row]

LEMMA IdleIsCall == IdleCall \in Call
BY TreeRoot DEF IdleCall, Call, Kind

LEMMA BeginTypes ==
  ASSUME TreeTypeOK, TreeInv, NEW c \in Client, NEW rec \in Call, Ready(c), Begin(c, rec),
         node' \in [NodeId -> Row],
         UNCHANGED pend \/ \E P : pend' = [pend EXCEPT ![c] = P] /\ RowTable(P)
  PROVE  TreeTypeOK'
<1>1. call' \in [Client -> Call]
  BY DEF TreeTypeOK, Begin
<1>2. calls' \in 0 .. MaxCalls
  BY TreeCalls DEF TreeTypeOK, Begin, Ready
<1>3. raced' \in BOOLEAN
  BY DEF Begin, TreeTypeOK
<1>4. solo' \in SUBSET Client
  BY DEF Begin
<1>5. \A d \in Client : RowTable(pend'[d])
  BY DEF TreeTypeOK, TreeInv, Shaped, RowTable
<1> QED BY <1>1, <1>2, <1>3, <1>4, <1>5 DEF TreeTypeOK, RowTable

LEMMA GoesTypes ==
  ASSUME TreeTypeOK, NEW c \in Client, NEW rec \in Call, Goes(c, rec)
  PROVE  TreeTypeOK'
BY DEF TreeTypeOK, Goes

LEMMA ReturnTypes ==
  ASSUME TreeTypeOK, TreeInv, NEW c \in Client, Return(c), node' \in [NodeId -> Row]
  PROVE  TreeTypeOK'
<1>1. RowTable(<<>>)
  <2>1. <<>> \in [{} -> Row] /\ {} \in SUBSET NodeId
    OBVIOUS
  <2> QED BY <2>1 DEF RowTable
<1>2. \A d \in Client : RowTable(pend'[d])
  BY <1>1 DEF TreeTypeOK, TreeInv, Shaped, RowTable, Return
<1> QED BY <1>2, IdleIsCall DEF TreeTypeOK, RowTable, Return

LEMMA ViewTypes ==
  ASSUME TreeTypeOK, NEW c \in Client
  PROVE  View(c) \in [NodeId -> Row]
<1>1. PICK S \in SUBSET NodeId : pend[c] \in [S -> Row]
  BY DEF TreeTypeOK
<1> QED BY <1>1 DEF TreeTypeOK, View

LEMMA BrokenRows ==
  ASSUME NEW v \in [NodeId -> Row], NEW r \in NodeId
  PROVE  /\ Broken(v, r) \in SUBSET NodeId
         /\ Repaired(v, r) \in [Broken(v, r) -> Row]
         /\ v[r].parent = 0 => r \notin Broken(v, r)
         /\ \A n \in Broken(v, r) \ {r} : Repaired(v, r)[n] = [v[n] EXCEPT !.parent = r]
<1>1. Broken(v, r) \in SUBSET NodeId
  BY RowSets DEF Broken
<1>2. \A n \in Broken(v, r) : Target(v, r, n) = IF n = r THEN 0 ELSE r
  BY DEF Broken, Target
<1>3. v[r].parent = 0 => r \notin Broken(v, r)
  BY DEF Broken, Target
<1>4. \A n \in Broken(v, r) : v[n] \in Row /\ Target(v, r, n) \in NodeId \cup {0}
  BY <1>1, <1>2
<1>5. \A n \in Broken(v, r) : [v[n] EXCEPT !.parent = Target(v, r, n)] \in Row
  BY <1>4 DEF Row
<1>6. Repaired(v, r) \in [Broken(v, r) -> Row]
  BY <1>5 DEF Repaired
<1>7. \A n \in Broken(v, r) \ {r} : Repaired(v, r)[n] = [v[n] EXCEPT !.parent = r]
  BY <1>2 DEF Repaired
<1> QED BY <1>1, <1>3, <1>6, <1>7

LEMMA RootRowIsRow == RootRow \in Row
BY TreeRoot DEF RootRow, Row

LEMMA CreateBeginTypes ==
  ASSUME TreeTypeOK, TreeInv, NEW c \in Client, NEW p \in NodeId \cup {0}, NEW nm \in NodeName,
         NEW d \in BOOLEAN, CreateBegin(c, p, nm, d)
  PROVE  TreeTypeOK'
<1> DEFINE rec == [IdleCall EXCEPT !.kind = "create", !.step = "read", !.name = nm, !.dir = d]
<1>1. rec \in Call /\ node \in [NodeId -> Row]
  BY IdleIsCall DEF Call, Kind, TreeTypeOK
<1> HIDE DEF rec
<1>2. CASE Ready(c) /\ p \in LiveDirs(node) /\ Begin(c, [rec EXCEPT !.dst = p]) /\ UNCHANGED <<node, pend>>
  <2>1. [rec EXCEPT !.dst = p] \in Call
    BY <1>1 DEF Call
  <2> QED BY <1>1, <1>2, <2>1, BeginTypes
<1>3. ASSUME Ready(c), NEW r \in NodeId,
             Begin(c, [rec EXCEPT !.dst = r, !.ids = Broken(node, r)]),
             pend' = [pend EXCEPT ![c] = Repaired(node, r)], UNCHANGED node
      PROVE  TreeTypeOK'
  <2>1. Broken(node, r) \in SUBSET NodeId /\ RowTable(Repaired(node, r))
    BY <1>1, BrokenRows DEF RowTable
  <2>2. [rec EXCEPT !.dst = r, !.ids = Broken(node, r)] \in Call
    BY <1>1, <2>1 DEF Call
  <2> QED BY <1>1, <1>3, <2>1, <2>2, BeginTypes
<1>4. ASSUME Ready(c), NEW r \in NodeId, NEW v, v = [node EXCEPT ![r] = RootRow],
             Begin(c, [rec EXCEPT !.dst = r, !.ids = Broken(v, r) \cup {r}]), UNCHANGED node,
             pend' = [pend EXCEPT ![c] = [n \in Broken(v, r) \cup {r} |->
                                            IF n = r THEN RootRow ELSE Repaired(v, r)[n]]]
      PROVE  TreeTypeOK'
  <2>1. v \in [NodeId -> Row]
    BY <1>1, <1>4, RootRowIsRow
  <2> DEFINE S == Broken(v, r) \cup {r}
             P == [n \in S |-> IF n = r THEN RootRow ELSE Repaired(v, r)[n]]
  <2>2. S \in SUBSET NodeId /\ P \in [S -> Row]
    BY <2>1, BrokenRows, RootRowIsRow
  <2>3. RowTable(P)
    <3> HIDE DEF S, P
    <3> QED BY <2>2 DEF RowTable
  <2>4. [rec EXCEPT !.dst = r, !.ids = S] \in Call
    BY <1>1, <2>2 DEF Call
  <2> QED BY <1>1, <1>4, <2>3, <2>4, BeginTypes
<1> QED BY <1>2, <1>3, <1>4 DEF CreateBegin, rec

LEMMA BeginsTypes ==
  ASSUME TreeTypeOK, TreeInv, NEW c \in Client,
         \/ \E n \in NodeId, nm \in NodeName : RenameBegin(c, n, nm)
         \/ \E n, p \in NodeId, nm \in NodeName : MoveBegin(c, n, p, nm)
         \/ \E n \in NodeId : DeleteBegin(c, n) \/ RestoreBegin(c, n) \/ PurgeBegin(c, n)
         \/ ClearBegin(c)
  PROVE  TreeTypeOK'
<1>1. node \in [NodeId -> Row]
  BY DEF TreeTypeOK
<1>2. \E rec \in Call : Ready(c) /\ Begin(c, rec) /\ UNCHANGED <<node, pend>>
  <2>1. ASSUME NEW n \in NodeId, NEW nm \in NodeName, RenameBegin(c, n, nm)
        PROVE  \E rec \in Call : Ready(c) /\ Begin(c, rec) /\ UNCHANGED <<node, pend>>
    <3>1. [IdleCall EXCEPT !.kind = "rename", !.step = "checked", !.sel = n, !.name = nm] \in Call
      BY IdleIsCall DEF Call, Kind
    <3> QED BY <2>1, <3>1 DEF RenameBegin
  <2>2. ASSUME NEW n \in NodeId, NEW p \in NodeId, NEW nm \in NodeName, MoveBegin(c, n, p, nm)
        PROVE  \E rec \in Call : Ready(c) /\ Begin(c, rec) /\ UNCHANGED <<node, pend>>
    <3>1. node[n].parent \in NodeId \cup {0}
      BY <1>1 DEF Row
    <3>2. [IdleCall EXCEPT !.kind = "move", !.step = "read", !.sel = n, !.dst = p,
                               !.old = node[n].parent, !.name = nm] \in Call
      BY <3>1, IdleIsCall DEF Call, Kind
    <3> QED BY <2>2, <3>2 DEF MoveBegin
  <2>3. ASSUME NEW k \in {"delete", "restore"}, NEW S \in SUBSET NodeId, Ready(c),
               UNCHANGED <<node, pend>>,
               Begin(c, [IdleCall EXCEPT !.kind = k, !.step = "listed", !.ids = S])
        PROVE  \E rec \in Call : Ready(c) /\ Begin(c, rec) /\ UNCHANGED <<node, pend>>
    <3>1. [IdleCall EXCEPT !.kind = k, !.step = "listed", !.ids = S] \in Call
      BY IdleIsCall DEF Call, Kind
    <3> QED BY <2>3, <3>1
  <2>4. ASSUME NEW n \in NodeId
        PROVE  /\ Subtree(node, n, Live(node)) \in SUBSET NodeId
               /\ Subtree(node, n, Stored(node)) \in SUBSET NodeId
    <3>1. Live(node) \in SUBSET NodeId /\ Stored(node) \in SUBSET NodeId
      BY <1>1, RowSets
    <3> QED BY <3>1, SubtreeIs
  <2>5. {n \in Deleted(node) : node[n].parent \notin Deleted(node)} \in SUBSET NodeId
    BY <1>1, RowSets
  <2>6. ASSUME NEW n \in NodeId, DeleteBegin(c, n) \/ RestoreBegin(c, n) \/ PurgeBegin(c, n)
        PROVE  \E rec \in Call : Ready(c) /\ Begin(c, rec) /\ UNCHANGED <<node, pend>>
    <3>1. [IdleCall EXCEPT !.kind = "purge", !.step = "found", !.sel = n] \in Call
      BY IdleIsCall DEF Call, Kind
    <3> QED BY <2>3, <2>4, <2>6, <3>1 DEF DeleteBegin, RestoreBegin, PurgeBegin
  <2>7. CASE ClearBegin(c)
    <3> DEFINE top == {n \in Deleted(node) : node[n].parent \notin Deleted(node)}
    <3>1. [IdleCall EXCEPT !.kind = "clear", !.step = "read", !.tops = top] \in Call
      BY <2>5, IdleIsCall DEF Call, Kind
    <3> QED BY <2>7, <3>1 DEF ClearBegin
  <2> QED BY <2>1, <2>2, <2>6, <2>7
<1> QED BY <1>1, <1>2, BeginTypes

LEMMA ChecksTypes ==
  ASSUME TreeTypeOK, NEW c \in Client,
         CreateCheck(c) \/ MoveCheck(c) \/ RepairRead(c) \/ PurgeList(c) \/ ClearFind(c)
  PROVE  TreeTypeOK'
<1>1. call[c] \in Call /\ node \in [NodeId -> Row]
  BY DEF TreeTypeOK
<1>2. CASE CreateCheck(c)
  <2>1. PICK nm \in NodeName : Goes(c, [call[c] EXCEPT !.step = "checked", !.name = nm])
    BY <1>2 DEF CreateCheck
  <2>2. [call[c] EXCEPT !.step = "checked", !.name = nm] \in Call
    BY <1>1 DEF Call
  <2> QED BY <2>1, <2>2, GoesTypes
<1>3. CASE MoveCheck(c)
  <2>1. [call[c] EXCEPT !.step = "checked"] \in Call
    BY <1>1 DEF Call
  <2> QED BY <1>3, <2>1, GoesTypes DEF MoveCheck
<1>4. CASE RepairRead(c)
  <2>1. Broken(node, call[c].dst) \in SUBSET NodeId
    BY <1>1, RowSets DEF Broken
  <2>2. [call[c] EXCEPT !.step = "listed", !.ids = Broken(node, call[c].dst)] \in Call
    BY <1>1, <2>1 DEF Call
  <2> QED BY <1>4, <2>2, GoesTypes DEF RepairRead
<1>5. CASE PurgeList(c)
  <2> DEFINE ids == Subtree(View(c), call[c].sel, Stored(View(c)))
  <2>1. Stored(View(c)) \in SUBSET NodeId
    BY ViewTypes, RowSets
  <2>2. ids \in SUBSET NodeId
    BY <2>1, SubtreeIs
  <2>3. [call[c] EXCEPT !.step = "listed", !.ids = ids] \in Call
    <3> HIDE DEF ids
    <3> QED BY <1>1, <2>2 DEF Call
  <2> QED BY <1>5, <2>3, GoesTypes DEF PurgeList
<1>6. CASE ClearFind(c)
  <2>1. PICK n \in call[c].tops, st \in {"found", "read"} :
          Goes(c, [call[c] EXCEPT !.sel = n, !.tops = @ \ {n}, !.step = st])
    BY <1>6 DEF ClearFind
  <2>2. n \in NodeId /\ call[c].tops \ {n} \in SUBSET NodeId
    BY <1>1 DEF Call
  <2>3. [call[c] EXCEPT !.sel = n, !.tops = @ \ {n}, !.step = st] \in Call
    BY <1>1, <2>2 DEF Call
  <2> QED BY <2>1, <2>3, GoesTypes
<1> QED BY <1>2, <1>3, <1>4, <1>5, <1>6

LEMMA WithTypes ==
  ASSUME NEW v \in [NodeId -> Row], NEW S, NEW st \in {"live", "deleted", "purged"}
  PROVE  With(v, S, st) \in [NodeId -> Row]
<1>1. \A n \in NodeId : [v[n] EXCEPT !.st = st] \in Row
  BY DEF Row
<1> QED BY <1>1 DEF With

LEMMA ReturnsTypes ==
  ASSUME TreeTypeOK, TreeInv, NEW c \in Client,
         \/ CreateInsert(c) \/ RenameWrite(c) \/ MoveWrite(c) \/ DeleteWrite(c) \/ RestoreWrite(c)
         \/ PurgeWrite(c) \/ ClearCommit(c) \/ Abandon(c)
  PROVE  TreeTypeOK'
<1>1. call[c] \in Call /\ node \in [NodeId -> Row]
  BY DEF TreeTypeOK
<1>2. Return(c)
  BY DEF CreateInsert, RenameWrite, MoveWrite, DeleteWrite, RestoreWrite, PurgeWrite, ClearCommit, Abandon
<1>3. CASE CreateInsert(c)
  <2> DEFINE row == [st |-> "live", dir |-> call[c].dir, parent |-> call[c].dst, name |-> call[c].name]
  <2>1. row \in Row
    BY <1>1 DEF Row, Call
  <2>2. \E n \in NodeId : node' = [View(c) EXCEPT ![n] = row]
    BY <1>3 DEF CreateInsert
  <2> HIDE DEF row
  <2>3. node' \in [NodeId -> Row]
    BY <2>1, <2>2, ViewTypes
  <2> QED BY <1>2, <2>3, ReturnTypes
<1>4. CASE RenameWrite(c)
  <2>1. call[c].sel \in NodeId /\ node' = [node EXCEPT ![call[c].sel].name = call[c].name]
    BY <1>4 DEF RenameWrite, Live
  <2>2. call[c].name \in NodeName
    BY <1>1 DEF Call
  <2>3. node' \in [NodeId -> Row]
    BY <1>1, <2>1, <2>2 DEF Row
  <2> QED BY <1>2, <2>3, ReturnTypes
<1>5. CASE MoveWrite(c)
  <2>1. call[c].sel \in NodeId /\ node' = [node EXCEPT ![call[c].sel].parent = call[c].dst]
    BY <1>5 DEF MoveWrite, Live
  <2>2. call[c].dst \in NodeId \cup {0}
    BY <1>1 DEF Call
  <2>3. node' \in [NodeId -> Row]
    BY <1>1, <2>1, <2>2 DEF Row
  <2> QED BY <1>2, <2>3, ReturnTypes
<1>6. CASE DeleteWrite(c) \/ RestoreWrite(c) \/ PurgeWrite(c)
  <2>1. node' \in [NodeId -> Row]
    BY <1>1, <1>6, WithTypes DEF DeleteWrite, RestoreWrite, PurgeWrite
  <2> QED BY <1>2, <2>1, ReturnTypes
<1>7. CASE ClearCommit(c)
  <2>1. node' \in [NodeId -> Row]
    BY <1>7, ViewTypes DEF ClearCommit
  <2> QED BY <1>2, <2>1, ReturnTypes
<1>8. CASE Abandon(c)
  BY <1>1, <1>2, <1>8, ReturnTypes DEF Abandon
<1> QED BY <1>3, <1>4, <1>5, <1>6, <1>7, <1>8

LEMMA ClearWriteTypes ==
  ASSUME TreeTypeOK, TreeInv, NEW c \in Client, ClearWrite(c)
  PROVE  TreeTypeOK'
<1> DEFINE gone == call[c].ids \cap Deleted(View(c))
           S == DOMAIN pend[c] \cup gone
           P == [m \in S |-> With(View(c), gone, "purged")[m]]
<1>1. /\ pend' = [pend EXCEPT ![c] = [m \in DOMAIN @ \cup gone |-> With(View(c), gone, "purged")[m]]]
      /\ call' = [call EXCEPT ![c].step = "read", ![c].ids = {}]
      /\ UNCHANGED <<node, calls, raced, solo>>
  BY DEF ClearWrite
<1>2. gone \in SUBSET NodeId /\ DOMAIN pend[c] \in SUBSET NodeId
  BY DEF Deleted, TreeInv, Shaped
<1>3. With(View(c), gone, "purged") \in [NodeId -> Row]
  BY ViewTypes, WithTypes
<1>4. S \in SUBSET NodeId /\ P \in [S -> Row]
  BY <1>2, <1>3
<1>5. pend' = [pend EXCEPT ![c] = P] /\ UNCHANGED <<node, calls, raced, solo>>
  BY <1>1 DEF TreeInv, Shaped
<1> HIDE DEF P, S
<1>6. \A d \in Client : RowTable(pend'[d])
  BY <1>4, <1>5 DEF TreeTypeOK, TreeInv, Shaped, RowTable
<1>7. call' \in [Client -> Call]
  <2>1. call \in [Client -> Call] /\ call[c] \in Call
    BY DEF TreeTypeOK
  <2>2. [call[c] EXCEPT !.step = "read", !.ids = {}] \in Call
    BY <2>1 DEF Call
  <2>3. call' = [call EXCEPT ![c] = [call[c] EXCEPT !.step = "read", !.ids = {}]]
    BY <1>1, <2>1
  <2> QED BY <2>1, <2>2, <2>3
<1> QED BY <1>5, <1>6, <1>7 DEF TreeTypeOK, RowTable

LEMMA RepairTypes ==
  ASSUME TreeTypeOK, TreeInv, NEW c \in Client, RepairBegin(c) \/ RepairWrite(c)
  PROVE  TreeTypeOK'
<1>1. call[c] \in Call /\ node \in [NodeId -> Row] /\ call \in [Client -> Call]
  BY DEF TreeTypeOK
<1>2. CASE RepairBegin(c)
  <2>1. PICK r \in NodeId :
          /\ Ready(c) /\ UNCHANGED pend
          /\ Begin(c, [IdleCall EXCEPT !.kind = "repair", !.step = "read", !.dst = r])
          /\ node' = node \/ node' = [node EXCEPT ![r] = RootRow]
    BY <1>2 DEF RepairBegin
  <2>2. [IdleCall EXCEPT !.kind = "repair", !.step = "read", !.dst = r] \in Call
    BY IdleIsCall DEF Call, Kind
  <2>3. node' \in [NodeId -> Row]
    BY <1>1, <2>1, RootRowIsRow
  <2> QED BY <2>1, <2>2, <2>3, BeginTypes
<1>3. CASE RepairWrite(c)
  <2>1. PICK n \in call[c].ids :
          /\ node' = IF n \in Stored(node)
                     THEN [node EXCEPT ![n].parent = IF n = call[c].dst THEN 0 ELSE call[c].dst] ELSE node
          /\ call' = [call EXCEPT ![c].ids = @ \ {n}]
          /\ UNCHANGED <<pend, calls, raced, solo>>
    BY <1>3 DEF RepairWrite
  <2>2. call[c].dst \in NodeId \cup {0}
    BY <1>1 DEF Call
  <2>3. node' \in [NodeId -> Row]
    <3>1. CASE n \in Stored(node)
      <4>1. n \in NodeId /\ (IF n = call[c].dst THEN 0 ELSE call[c].dst) \in NodeId \cup {0}
        BY <1>1, <2>2, <3>1, RowSets
      <4> QED BY <1>1, <2>1, <3>1, <4>1 DEF Row
    <3>2. CASE n \notin Stored(node)
      BY <1>1, <2>1, <3>2
    <3> QED BY <3>1, <3>2
  <2>4. call' \in [Client -> Call]
    BY <1>1, <2>1 DEF Call
  <2> QED BY <2>1, <2>3, <2>4 DEF TreeTypeOK
<1> QED BY <1>2, <1>3

LEMMA TypesKept == TreeTypeOK /\ TreeInv /\ [TreeNext]_treeVars => TreeTypeOK'
<1> SUFFICES ASSUME TreeTypeOK, TreeInv, [TreeNext]_treeVars PROVE TreeTypeOK'
  OBVIOUS
<1>1. CASE TreeNext
  BY <1>1, CreateBeginTypes, BeginsTypes, ChecksTypes, ReturnsTypes, ClearWriteTypes, RepairTypes DEF TreeNext
<1>2. CASE UNCHANGED treeVars
  BY <1>2 DEF treeVars, TreeTypeOK
<1> QED BY <1>1, <1>2

-----------------------------------------------------------------------------
(* Sound trees are whole, and whole ones are sound. *)

LEMMA SoundIsWhole ==
  ASSUME NEW v \in [NodeId -> Row], Sound(v)
  PROVE  Whole(v)
<1>1. Live(v) \in SUBSET NodeId /\ LiveDirs(v) \subseteq Live(v)
  BY RowSets
<1> DEFINE Lost == {n \in Live(v) : \A r \in Live(v) : v[r].parent = 0 => n \notin Subtree(v, r, Live(v))}
<1>2. Lost = {}
  <2> SUFFICES ASSUME Lost # {} PROVE FALSE
    OBVIOUS
  <2>1. PICK n \in Lost : v[n].parent \notin Lost
    <3>1. Lost \in SUBSET Live(v)
      OBVIOUS
    <3> HIDE DEF Lost
    <3> QED BY <3>1 DEF Sound, NoRing
  <2>2. v[n].parent # 0
    BY <1>1, SubtreeIs
  <2>3. v[n].parent \in Live(v)
    BY <1>1, <2>2 DEF Sound, LiveBelowLive
  <2>4. PICK r \in Live(v) : v[r].parent = 0 /\ v[n].parent \in Subtree(v, r, Live(v))
    BY <2>1, <2>3
  <2>5. n \in Subtree(v, r, Live(v))
    BY <1>1, <2>4, SubtreeIs
  <2> QED BY <2>4, <2>5
<1> QED BY <1>2 DEF Whole, Sound, LiveBelowLive

LEMMA WholeIsSound ==
  ASSUME NEW v \in [NodeId -> Row], Whole(v), ParentsAreDirs(v)
  PROVE  Sound(v)
<1>1. Live(v) \in SUBSET NodeId /\ 0 \notin NodeId
  BY RowSets
<1>2. NoRing(v, Live(v))
  <2> SUFFICES ASSUME NEW Y \in SUBSET Live(v), NEW n \in Y, \A y \in Y : v[y].parent \in Y PROVE FALSE
    BY DEF NoRing
  <2>1. PICK r \in Live(v) : v[r].parent = 0 /\ n \in Subtree(v, r, Live(v))
    BY DEF Whole
  <2>2. r \notin Y
    BY <1>1, <2>1
  <2> DEFINE X == Live(v) \ Y
  <2>3. {r} \cap Live(v) \subseteq X /\ \A x \in Live(v) : v[x].parent \in X => x \in X
    BY <2>2
  <2>4. Subtree(v, r, Live(v)) \subseteq X
    <3> HIDE DEF X
    <3> QED BY <1>1, <2>3, SubtreeIs
  <2> QED BY <2>1, <2>4
<1> QED BY <1>2 DEF Sound, Whole, LiveBelowLive

-----------------------------------------------------------------------------
(* What each operation has read stays good while others write. *)

LEMMA EndangersNot ==
  /\ \A b : ~Endangers(IdleCall, b) /\ ~Endangers(b, IdleCall)
  /\ \A a, b : a.kind = "rename" => ~Endangers(a, b) /\ ~Endangers(b, a)
BY IdleCallIs DEF Endangers, Repairs

\* What Endangers reads of a call does not change while the call is under way.
Alike(a, b) ==
  /\ a.kind = b.kind
  /\ a.kind \notin {"purge", "clear"} => a.sel = b.sel /\ a.dst = b.dst /\ a.old = b.old
  /\ a.kind \in {"create", "delete"} => a.ids = b.ids

LEMMA EndangersSame ==
  ASSUME NEW a, NEW b, Alike(a, b)
  PROVE  \A d : (Endangers(a, d) => Endangers(b, d)) /\ (Endangers(d, a) => Endangers(d, b))
BY DEF Alike, Endangers, Repairs, MoveScope

\* A call that has not made the checks of a move, or has found no lock taken.
NoLockShared(c, rec) ==
  rec.kind = "move" /\ rec.step = "checked" =>
    \A d \in Client \ {c} : At(d, "move", "checked") => MoveScope(call[d]) \cap MoveScope(rec) = {}

\* A step of c, which leaves c at rec.
LEMMA WholeStep ==
  ASSUME TreeInv, WholeInv, NEW c \in Client, NEW rec,
         call' = [call EXCEPT ![c] = rec],
         \A d \in Client \ {c} : pend'[d] = pend[d] /\ \A n \in DOMAIN pend[d] : node'[n] = node[n],
         PendIs(c)', NoLockShared(c, rec),
         ~raced' => /\ ~raced
                    /\ \A d \in Client \ {c} : ~Endangers(rec, call[d]) /\ ~Endangers(call[d], rec)
                    /\ Sound(node')
                    /\ CallSound(rec, node')
                    /\ \A d \in Client \ {c} : CallSound(call[d], node')
  PROVE  WholeInv'
<1>1. call'[c] = rec /\ \A d \in Client \ {c} : call'[d] = call[d]
  BY DEF TreeInv, Shaped
<1>2. \A d \in Client : PendIs(d)'
  <2> SUFFICES ASSUME NEW d \in Client \ {c} PROVE PendIs(d)'
    OBVIOUS
  <2>1. call'[d] = call[d] /\ pend'[d] = pend[d] /\ \A n \in DOMAIN pend[d] : node'[n] = node[n]
    BY <1>1
  <2>2. DOMAIN pend[d] \subseteq NodeId
    BY DEF TreeInv, Shaped
  <2>3. PendIs(d)
    BY DEF WholeInv
  <2>4. \A n \in DOMAIN pend[d] : /\ n \in Stored(node) => n \in Stored(node')
                                  /\ n \in Deleted(node) => n \in Deleted(node')
    BY <2>1, <2>2 DEF Stored, Live, Deleted
  <2> QED BY <2>1, <2>3, <2>4 DEF PendIs
<1>3. ASSUME ~raced' PROVE (NoneEndangered /\ Sound(node) /\ \A d \in Client : CallSound(call[d], node))'
  <2>1. NoneEndangered'
    BY <1>1, <1>3 DEF WholeInv, NoneEndangered
  <2>2. \A d \in Client : CallSound(call'[d], node')
    BY <1>1, <1>3
  <2> QED BY <1>3, <2>1, <2>2
<1>4. MovesApart'
  <2> SUFFICES ASSUME NEW d \in Client, NEW e \in Client, d # e,
                      At(d, "move", "checked")', At(e, "move", "checked")'
               PROVE  MoveScope(call'[d]) \cap MoveScope(call'[e]) = {}
    BY DEF MovesApart
  <2>1. \A x \in Client \ {c} : At(x, "move", "checked")' => At(x, "move", "checked") /\ call'[x] = call[x]
    BY <1>1 DEF At
  <2>2. At(c, "move", "checked")' => rec.kind = "move" /\ rec.step = "checked"
    BY <1>1 DEF At
  <2>3. CASE d = c
    BY <1>1, <2>1, <2>2, <2>3 DEF NoLockShared
  <2>4. CASE e = c
    BY <1>1, <2>1, <2>2, <2>4 DEF NoLockShared
  <2>5. CASE d # c /\ e # c
    BY <2>1, <2>5 DEF WholeInv, MovesApart
  <2> QED BY <2>3, <2>4, <2>5
<1> QED BY <1>2, <1>3, <1>4 DEF WholeInv

\* A call begins without writing a row that others see.
LEMMA WholeBegins ==
  ASSUME TreeInv, WholeInv, NEW c \in Client, NEW rec, Begin(c, rec), UNCHANGED node,
         \A d \in Client \ {c} : pend'[d] = pend[d],
         PendIs(c)', rec.step # "checked" \/ rec.kind # "move",
         (~raced /\ Sound(node)) => CallSound(rec, node)
  PROVE  WholeInv'
<1>1. ~raced' => /\ ~raced
                 /\ \A d \in Client \ {c} : ~Endangers(rec, call[d]) /\ ~Endangers(call[d], rec)
  BY DEF Begin
<1>2. ~raced => Sound(node) /\ \A d \in Client : CallSound(call[d], node)
  BY DEF WholeInv
<1>3. ~raced' => /\ ~raced
                 /\ \A d \in Client \ {c} : ~Endangers(rec, call[d]) /\ ~Endangers(call[d], rec)
                 /\ Sound(node')
                 /\ CallSound(rec, node')
                 /\ \A d \in Client \ {c} : CallSound(call[d], node')
  BY <1>1, <1>2
<1>4. call' = [call EXCEPT ![c] = rec]
  BY DEF Begin
<1>5. NoLockShared(c, rec)
  BY DEF NoLockShared
<1> QED BY <1>3, <1>4, <1>5, WholeStep

\* A call goes on.
LEMMA WholeGoes ==
  ASSUME TreeInv, WholeInv, NEW c \in Client, NEW rec, Goes(c, rec),
         Alike(call[c], rec), NoLockShared(c, rec),
         ~raced => CallSound(rec, node)
  PROVE  WholeInv'
<1>1. call' = [call EXCEPT ![c] = rec] /\ UNCHANGED <<node, pend, raced>> /\ call'[c] = rec
  BY DEF Goes, TreeInv, Shaped
<1>2. PendIs(c)'
  <2>1. /\ rec.kind = call[c].kind
        /\ rec.kind = "create" => rec.dst = call[c].dst /\ rec.ids = call[c].ids
    BY DEF Alike
  <2>2. PendIs(c)
    BY DEF WholeInv
  <2> QED BY <1>1, <2>1, <2>2 DEF PendIs
<1>4. Alike(rec, call[c])
  BY DEF Alike
<1>3. ~raced' => /\ ~raced
                 /\ \A d \in Client \ {c} : ~Endangers(rec, call[d]) /\ ~Endangers(call[d], rec)
                 /\ Sound(node')
                 /\ CallSound(rec, node')
                 /\ \A d \in Client \ {c} : CallSound(call[d], node')
  BY <1>1, <1>4, EndangersSame DEF WholeInv, NoneEndangered
<1> QED BY <1>1, <1>2, <1>3, WholeStep

\* A transaction ends.
LEMMA WholeReturns ==
  ASSUME TreeInv, WholeInv, NEW c \in Client, Return(c),
         \A d \in Client \ {c} : \A n \in DOMAIN pend[d] : node'[n] = node[n],
         ~raced => /\ Sound(node')
                   /\ \A d \in Client \ {c} : CallSound(call[d], node')
  PROVE  WholeInv'
<1>1. call' = [call EXCEPT ![c] = IdleCall] /\ UNCHANGED raced /\ call'[c] = IdleCall
      /\ \A d \in Client \ {c} : pend'[d] = pend[d]
  BY DEF Return, TreeInv, Shaped
<1>2. PendIs(c)'
  BY <1>1, IdleCallIs DEF PendIs
<1>3. CallSound(IdleCall, node')
  BY IdleCallIs DEF CallSound
<1>4. ~raced' => /\ ~raced
                 /\ \A d \in Client \ {c} : ~Endangers(IdleCall, call[d]) /\ ~Endangers(call[d], IdleCall)
                 /\ Sound(node')
                 /\ CallSound(IdleCall, node')
                 /\ \A d \in Client \ {c} : CallSound(call[d], node')
  BY <1>1, <1>3, EndangersNot
<1>5. NoLockShared(c, IdleCall)
  BY IdleCallIs DEF NoLockShared
<1> QED BY <1>1, <1>2, <1>4, <1>5, WholeStep

-----------------------------------------------------------------------------
(* The actions. *)

LEMMA ReadyIs ==
  ASSUME TreeInv, NEW c \in Client, Ready(c)
  PROVE  call[c].kind = "none" /\ DOMAIN pend[c] = {}
BY DEF Ready, TreeInv, RowsLocked

LEMMA NextIdIs ==
  ASSUME NEW n, IsNextId(n)
  PROVE  n \in NodeId /\ node[n].st = "free" /\ \A d \in Client : n \notin DOMAIN pend[d]
BY DEF IsNextId, FreeIds

LEMMA CreateBeginWhole ==
  ASSUME TreeTypeOK, TreeInv, WholeInv, NEW c \in Client, NEW p \in NodeId \cup {0}, NEW nm \in NodeName,
         NEW d \in BOOLEAN, CreateBegin(c, p, nm, d)
  PROVE  WholeInv'
<1> DEFINE rec == [IdleCall EXCEPT !.kind = "create", !.step = "read", !.name = nm, !.dir = d]
<1>1. rec \in Call /\ node \in [NodeId -> Row] /\ rec.kind = "create" /\ rec.ids = {}
  BY IdleIsCall DEF Call, Kind, TreeTypeOK, IdleCall
<1> HIDE DEF rec
<1>2. CASE Ready(c) /\ p \in LiveDirs(node) /\ Begin(c, [rec EXCEPT !.dst = p]) /\ UNCHANGED <<node, pend>>
  <2> DEFINE a == [rec EXCEPT !.dst = p]
  <2>1. a.kind = "create" /\ a.ids = {} /\ a.dst = p
    BY <1>1 DEF Call
  <2>2. Begin(c, a)
    BY <1>2
  <2> HIDE DEF a
  <2>3. call'[c] = a /\ DOMAIN pend[c] = {}
    BY <1>2, <2>2, ReadyIs DEF TreeInv, Shaped, Begin
  <2>4. PendIs(c)'
    BY <1>2, <2>1, <2>3 DEF PendIs
  <2>5. CallSound(a, node)
    BY <1>2, <2>1 DEF CallSound, CreateSound
  <2> QED BY <1>2, <2>1, <2>2, <2>4, <2>5, WholeBegins
<1>3. ASSUME Ready(c), NEW r \in NodeId, IsRoot(node, r),
             Begin(c, [rec EXCEPT !.dst = r, !.ids = Broken(node, r)]),
             pend' = [pend EXCEPT ![c] = Repaired(node, r)], UNCHANGED node
      PROVE  WholeInv'
  <2> DEFINE a == [rec EXCEPT !.dst = r, !.ids = Broken(node, r)]
  <2>1. a.kind = "create" /\ a.ids = Broken(node, r) /\ a.dst = r
    BY <1>1 DEF Call
  <2>2. Begin(c, a)
    BY <1>3
  <2> HIDE DEF a
  <2>3. call'[c] = a /\ pend'[c] = Repaired(node, r) /\ \A e \in Client \ {c} : pend'[e] = pend[e]
    BY <1>3, <2>2 DEF TreeInv, Shaped, Begin
  <2>4. r \in LiveDirs(node) /\ node[r].parent = 0
    BY <1>3 DEF IsRoot, Roots
  <2>5. /\ DOMAIN Repaired(node, r) = Broken(node, r) /\ r \notin Broken(node, r)
        /\ \A n \in Broken(node, r) : /\ Repaired(node, r)[n] = [node[n] EXCEPT !.parent = r]
                                      /\ n \in Stored(node)
    BY <1>1, <2>4, BrokenRows DEF Broken
  <2>6. PendIs(c)'
    BY <1>3, <2>1, <2>3, <2>5 DEF PendIs
  <2>7. CallSound(a, node)
    BY <2>1, <2>4 DEF CallSound, CreateSound
  <2> QED BY <1>3, <2>1, <2>2, <2>3, <2>6, <2>7, WholeBegins
<1>4. ASSUME Ready(c), NEW r \in NodeId, IsNextId(r), NEW v, v = [node EXCEPT ![r] = RootRow],
             Begin(c, [rec EXCEPT !.dst = r, !.ids = Broken(v, r) \cup {r}]), UNCHANGED node,
             pend' = [pend EXCEPT ![c] = [n \in Broken(v, r) \cup {r} |->
                                            IF n = r THEN RootRow ELSE Repaired(v, r)[n]]]
      PROVE  WholeInv'
  <2> DEFINE a == [rec EXCEPT !.dst = r, !.ids = Broken(v, r) \cup {r}]
             P == [n \in Broken(v, r) \cup {r} |-> IF n = r THEN RootRow ELSE Repaired(v, r)[n]]
  <2>1. a.kind = "create" /\ a.ids = Broken(v, r) \cup {r} /\ a.dst = r
    BY <1>1 DEF Call
  <2>2. Begin(c, a) /\ pend' = [pend EXCEPT ![c] = P]
    BY <1>4
  <2>3. DOMAIN P = Broken(v, r) \cup {r} /\ P[r] = RootRow
        /\ \A n \in Broken(v, r) \ {r} : P[n] = Repaired(v, r)[n]
    OBVIOUS
  <2> HIDE DEF a, P
  <2>4. call'[c] = a /\ pend'[c] = P /\ \A e \in Client \ {c} : pend'[e] = pend[e]
    BY <2>2 DEF TreeInv, Shaped, Begin
  <2>5. v \in [NodeId -> Row] /\ \A n \in NodeId \ {r} : v[n] = node[n]
    BY <1>1, <1>4, RootRowIsRow
  <2>6. \A n \in Broken(v, r) \ {r} : Repaired(v, r)[n] = [node[n] EXCEPT !.parent = r] /\ n \in Stored(node)
    <3>1. \A n \in Broken(v, r) : n \in Stored(v) /\ n \in NodeId
      BY <2>5, RowSets DEF Broken
    <3>2. \A n \in Broken(v, r) \ {r} : n \in Stored(node)
      BY <2>5, <3>1 DEF Stored, Live, Deleted
    <3> QED BY <2>5, <3>1, <3>2, BrokenRows
  <2>7. node[r].st = "free"
    BY <1>4, NextIdIs
  <2>8. PendIs(c)'
    <3>1. node' = node
      BY <1>4
    <3>2. \A n \in a.ids : IF n = a.dst THEN P[n] = RootRow /\ node[n].st = "free"
                         ELSE n \in Stored(node) /\ P[n] = [node[n] EXCEPT !.parent = a.dst]
      BY <2>1, <2>3, <2>6, <2>7
    <3> QED BY <2>1, <2>3, <2>4, <3>1, <3>2 DEF PendIs
  <2>9. CallSound(a, node)
    BY <2>1 DEF CallSound, CreateSound
  <2> QED BY <1>4, <2>1, <2>2, <2>4, <2>8, <2>9, WholeBegins
<1> QED BY <1>2, <1>3, <1>4 DEF CreateBegin, rec

\* What RestoreBegin lists hangs from live rows or from one another.
LEMMA RestoreListed ==
  ASSUME NEW v \in [NodeId -> Row], NEW n \in Deleted(v), NEW a,
         a.ids = Subtree(v, n, Stored(v)), DownEnds(v, n, Stored(v)),
         \A m \in a.ids \cap Deleted(v) :
           v[m].parent \notin a.ids => (v[m].parent # 0 => v[m].parent \in Live(v))
  PROVE  RestoreSound(a, v)
<1>1. /\ Stored(v) \in SUBSET NodeId /\ n \in Stored(v) /\ Live(v) \cup Deleted(v) = Stored(v)
  BY RowSets DEF Stored
<1>2. a.ids \subseteq Stored(v) /\ n \in a.ids /\ v[n].parent \notin a.ids
  BY <1>1, SubtreeIs DEF DownEnds, OnCycle
<1>3. \A m \in a.ids \cap Deleted(v) : v[m].parent \in Live(v) \cup (a.ids \cap Deleted(v)) \cup {0}
  BY <1>1, <1>2
<1>4. NoRing(v, a.ids \cap Deleted(v))
  <2> SUFFICES ASSUME NEW Y \in SUBSET (a.ids \cap Deleted(v)), Y # {}, \A y \in Y : v[y].parent \in Y PROVE FALSE
    BY DEF NoRing
  <2> DEFINE X == a.ids \ Y
  <2>1. n \in X
    BY <1>2
  <2>2. \A x \in Stored(v) : v[x].parent \in X => x \in X
    BY <1>1, SubtreeIs
  <2>3. Subtree(v, n, Stored(v)) \subseteq X
    <3> HIDE DEF X
    <3> QED BY <1>1, <2>1, <2>2, SubtreeIs
  <2> QED BY <2>3
<1> QED BY <1>3, <1>4 DEF RestoreSound

\* A move that has still to take its locks, or no move.
Unchecked(rec) == rec.step # "checked" \/ rec.kind # "move"

LEMMA BeginsWhole ==
  ASSUME TreeTypeOK, TreeInv, WholeInv, NEW c \in Client,
         \/ \E n \in NodeId, nm \in NodeName : RenameBegin(c, n, nm)
         \/ \E n, p \in NodeId, nm \in NodeName : MoveBegin(c, n, p, nm)
         \/ \E n \in NodeId : DeleteBegin(c, n) \/ RestoreBegin(c, n) \/ PurgeBegin(c, n)
         \/ ClearBegin(c)
  PROVE  WholeInv'
<1>0. node \in [NodeId -> Row] /\ Live(node) \in SUBSET NodeId
  BY RowSets DEF TreeTypeOK
<1>1. \E rec : /\ Ready(c) /\ Begin(c, rec) /\ UNCHANGED <<node, pend>>
               /\ rec.kind # "create" /\ Unchecked(rec) /\ CallSound(rec, node)
  <2>1. ASSUME NEW n, NEW nm, RenameBegin(c, n, nm)
        PROVE  \E rec : /\ Ready(c) /\ Begin(c, rec) /\ UNCHANGED <<node, pend>>
                        /\ rec.kind # "create" /\ Unchecked(rec) /\ CallSound(rec, node)
    <3> DEFINE rec == [IdleCall EXCEPT !.kind = "rename", !.step = "checked", !.sel = n, !.name = nm]
    <3>1. rec.kind = "rename"
      BY IdleCallIs DEF CallField
    <3>2. Ready(c) /\ Begin(c, rec) /\ UNCHANGED <<node, pend>>
      BY <2>1 DEF RenameBegin
    <3> HIDE DEF rec
    <3> QED BY <3>1, <3>2 DEF CallSound, Unchecked
  <2>2. ASSUME NEW n, NEW p, NEW nm, MoveBegin(c, n, p, nm)
        PROVE  \E rec : /\ Ready(c) /\ Begin(c, rec) /\ UNCHANGED <<node, pend>>
                        /\ rec.kind # "create" /\ Unchecked(rec) /\ CallSound(rec, node)
    <3> DEFINE rec == [IdleCall EXCEPT !.kind = "move", !.step = "read", !.sel = n, !.dst = p,
                               !.old = node[n].parent, !.name = nm]
    <3>1. rec.kind = "move" /\ rec.step = "read"
      BY IdleCallIs DEF CallField
    <3>2. Ready(c) /\ Begin(c, rec) /\ UNCHANGED <<node, pend>>
      BY <2>2 DEF MoveBegin
    <3> HIDE DEF rec
    <3> QED BY <3>1, <3>2 DEF CallSound, MoveSound, Unchecked
  <2>3. ASSUME NEW k \in {"delete", "restore"}, NEW S, Ready(c), UNCHANGED <<node, pend>>,
               Begin(c, [IdleCall EXCEPT !.kind = k, !.step = "listed", !.ids = S]),
               \A a : a.ids = S => /\ k = "delete" => DeleteSound(a, node)
                                   /\ k = "restore" => RestoreSound(a, node)
        PROVE  \E rec : /\ Ready(c) /\ Begin(c, rec) /\ UNCHANGED <<node, pend>>
                        /\ rec.kind # "create" /\ Unchecked(rec) /\ CallSound(rec, node)
    <3> DEFINE rec == [IdleCall EXCEPT !.kind = k, !.step = "listed", !.ids = S]
    <3>1. rec.kind = k /\ rec.ids = S
      BY IdleCallIs DEF CallField
    <3>2. Ready(c) /\ Begin(c, rec) /\ UNCHANGED <<node, pend>>
      BY <2>3
    <3> HIDE DEF rec
    <3> QED BY <2>3, <3>1, <3>2 DEF CallSound, Unchecked
  <2>4. ASSUME NEW n \in NodeId, DeleteBegin(c, n)
        PROVE  \E rec : /\ Ready(c) /\ Begin(c, rec) /\ UNCHANGED <<node, pend>>
                        /\ rec.kind # "create" /\ Unchecked(rec) /\ CallSound(rec, node)
    <3>1. \A a : a.ids = Subtree(node, n, Live(node)) => DeleteSound(a, node)
      BY <1>0, SubtreeIs DEF DeleteSound
    <3> QED BY <2>3, <2>4, <3>1 DEF DeleteBegin
  <2>5. ASSUME NEW n \in NodeId, RestoreBegin(c, n)
        PROVE  \E rec : /\ Ready(c) /\ Begin(c, rec) /\ UNCHANGED <<node, pend>>
                        /\ rec.kind # "create" /\ Unchecked(rec) /\ CallSound(rec, node)
    <3>1. \A a : a.ids = Subtree(node, n, Stored(node)) => RestoreSound(a, node)
      BY <1>0, <2>5, RestoreListed DEF RestoreBegin
    <3> QED BY <2>3, <2>5, <3>1 DEF RestoreBegin
  <2>6. ASSUME NEW n \in NodeId, PurgeBegin(c, n)
        PROVE  \E rec : /\ Ready(c) /\ Begin(c, rec) /\ UNCHANGED <<node, pend>>
                        /\ rec.kind # "create" /\ Unchecked(rec) /\ CallSound(rec, node)
    <3> DEFINE rec == [IdleCall EXCEPT !.kind = "purge", !.step = "found", !.sel = n]
    <3>1. rec.kind = "purge"
      BY IdleCallIs DEF CallField
    <3>2. Ready(c) /\ Begin(c, rec) /\ UNCHANGED <<node, pend>>
      BY <2>6 DEF PurgeBegin
    <3> HIDE DEF rec
    <3> QED BY <3>1, <3>2 DEF CallSound, Unchecked
  <2>7. CASE ClearBegin(c)
    <3> DEFINE top == {n \in Deleted(node) : node[n].parent \notin Deleted(node)}
               rec == [IdleCall EXCEPT !.kind = "clear", !.step = "read", !.tops = top]
    <3>1. rec.kind = "clear"
      BY IdleCallIs DEF CallField
    <3>2. Ready(c) /\ Begin(c, rec) /\ UNCHANGED <<node, pend>>
      BY <2>7 DEF ClearBegin
    <3> HIDE DEF rec
    <3> QED BY <3>1, <3>2 DEF CallSound, Unchecked
  <2> QED BY <2>1, <2>2, <2>4, <2>5, <2>6, <2>7
<1>2. PICK rec : /\ Ready(c) /\ Begin(c, rec) /\ UNCHANGED <<node, pend>>
                 /\ rec.kind # "create" /\ Unchecked(rec) /\ CallSound(rec, node)
  BY <1>1
<1>3. call'[c] = rec /\ DOMAIN pend[c] = {}
  BY <1>2, ReadyIs DEF TreeInv, Shaped, Begin
<1>4. PendIs(c)'
  BY <1>2, <1>3 DEF PendIs
<1> QED BY <1>2, <1>3, <1>4, WholeBegins DEF Unchecked

LEMMA ChecksWhole ==
  ASSUME TreeTypeOK, TreeInv, WholeInv, NEW c \in Client,
         CreateCheck(c) \/ MoveCheck(c) \/ RepairRead(c) \/ PurgeList(c) \/ ClearFind(c)
  PROVE  WholeInv'
<1>1. call[c] \in Call /\ node \in [NodeId -> Row]
  BY DEF TreeTypeOK
<1>2. ~raced => CallSound(call[c], node) /\ Sound(node)
  BY DEF WholeInv
<1>3. CASE CreateCheck(c)
  <2>1. PICK nm : Goes(c, [call[c] EXCEPT !.step = "checked", !.name = nm])
    BY <1>3 DEF CreateCheck
  <2> DEFINE rec == [call[c] EXCEPT !.step = "checked", !.name = nm]
  <2>2. /\ rec.kind = "create" /\ call[c].kind = "create" /\ rec.dst = call[c].dst
        /\ rec.sel = call[c].sel /\ rec.ids = call[c].ids /\ rec.old = call[c].old
    BY <1>1, <1>3 DEF CreateCheck, At, Call
  <2>3. Goes(c, rec)
    BY <2>1
  <2> HIDE DEF rec
  <2>4. ~raced => CallSound(rec, node)
    BY <1>2, <2>2 DEF CallSound, CreateSound
  <2>5. Alike(call[c], rec) /\ NoLockShared(c, rec)
    BY <2>2 DEF Alike, NoLockShared
  <2> QED BY <2>3, <2>4, <2>5, WholeGoes
<1>4. CASE MoveCheck(c)
  <2> DEFINE rec == [call[c] EXCEPT !.step = "checked"]
  <2>1. Goes(c, rec)
    BY <1>4 DEF MoveCheck
  <2>2. /\ rec.kind = "move" /\ call[c].kind = "move" /\ rec.dst = call[c].dst
        /\ rec.sel = call[c].sel /\ rec.old = call[c].old
    BY <1>1, <1>4 DEF MoveCheck, At, Call
  <2> HIDE DEF rec
  <2>3. call[c].dst \in LiveDirs(node) /\ call[c].dst \notin Subtree(node, call[c].sel, Live(node))
    BY <1>4 DEF MoveCheck
  <2> DEFINE U == Live(node) \ Subtree(node, call[c].sel, Live(node))
  <2>4. Live(node) \in SUBSET NodeId /\ LiveDirs(node) \subseteq Live(node)
    BY <1>1, RowSets
  <2>5. U \in SUBSET Live(node) /\ call[c].dst \in U /\ call[c].sel \notin U
    BY <2>3, <2>4, SubtreeIs
  <2>6. Sound(node) => \A x \in U : node[x].parent \in U \cup {0}
    BY <2>4, SubtreeIs DEF Sound, LiveBelowLive
  <2> HIDE DEF U
  <2>7. Sound(node) => MoveSound(rec, node)
    BY <2>2, <2>3, <2>5, <2>6 DEF MoveSound
  <2>8. ~raced => CallSound(rec, node)
    BY <1>2, <2>2, <2>7 DEF CallSound
  <2>9. Alike(call[c], rec)
    BY <2>2 DEF Alike
  <2>10. NoLockShared(c, rec)
    <3>1. MoveScope(rec) = MoveScope(call[c])
      BY <2>2 DEF MoveScope
    <3> QED BY <1>4, <3>1 DEF MoveCheck, NoLockShared
  <2> QED BY <2>1, <2>8, <2>9, <2>10, WholeGoes
<1>5. CASE RepairRead(c)
  <2> DEFINE rec == [call[c] EXCEPT !.step = "listed", !.ids = Broken(node, call[c].dst)]
  <2>1. Goes(c, rec)
    BY <1>5 DEF RepairRead
  <2>2. /\ rec.kind = "repair" /\ call[c].kind = "repair" /\ rec.dst = call[c].dst
        /\ rec.sel = call[c].sel /\ rec.old = call[c].old
    BY <1>1, <1>5 DEF RepairRead, At, Call
  <2> HIDE DEF rec
  <2>3. ~raced => CallSound(rec, node)
    BY <1>2, <2>2 DEF CallSound, RepairSound
  <2>4. Alike(call[c], rec) /\ NoLockShared(c, rec)
    BY <2>2 DEF Alike, NoLockShared
  <2> QED BY <2>1, <2>3, <2>4, WholeGoes
<1>6. ASSUME NEW rec, Goes(c, rec), rec.kind = call[c].kind, rec.kind \in {"purge", "clear"}
      PROVE  WholeInv'
  <2>1. Alike(call[c], rec) /\ NoLockShared(c, rec) /\ CallSound(rec, node)
    BY <1>6 DEF Alike, NoLockShared, CallSound
  <2> QED BY <1>6, <2>1, WholeGoes
<1>7. CASE PurgeList(c)
  <2>1. PICK I : Goes(c, [call[c] EXCEPT !.step = "listed", !.ids = I])
    BY <1>7 DEF PurgeList
  <2> DEFINE rec == [call[c] EXCEPT !.step = "listed", !.ids = I]
  <2>2. Goes(c, rec) /\ rec.kind = call[c].kind /\ rec.kind \in {"purge", "clear"}
    BY <1>1, <1>7, <2>1 DEF PurgeList, Call
  <2> HIDE DEF rec
  <2> QED BY <1>6, <2>2
<1>8. CASE ClearFind(c)
  <2>1. PICK n, st : Goes(c, [call[c] EXCEPT !.sel = n, !.tops = @ \ {n}, !.step = st])
    BY <1>8 DEF ClearFind
  <2> DEFINE rec == [call[c] EXCEPT !.sel = n, !.tops = @ \ {n}, !.step = st]
  <2>2. Goes(c, rec) /\ rec.kind = call[c].kind /\ rec.kind \in {"purge", "clear"}
    BY <1>1, <1>8, <2>1 DEF ClearFind, At, Call
  <2> HIDE DEF rec
  <2> QED BY <1>6, <2>2
<1> QED BY <1>3, <1>4, <1>5, <1>7, <1>8

-----------------------------------------------------------------------------

\* While nothing endangers the tree, no other call does what c cannot bear.
LEMMA CalmIs ==
  ASSUME TreeTypeOK, TreeInv, WholeInv, NEW c \in Client, ~raced
  PROVE  /\ node \in [NodeId -> Row] /\ Sound(node)
         /\ CallSound(call[c], node)
         /\ \A d \in Client \ {c} :
              /\ CallSound(call[d], node)
              /\ ~Endangers(call[c], call[d]) /\ ~Endangers(call[d], call[c])
              /\ At(c, "move", "checked") => ~At(d, "move", "checked")
         /\ \A d \in Client : call[d].ids \subseteq NodeId
<1>1. \A d \in Client \ {c} : ~Endangers(call[c], call[d]) /\ ~Endangers(call[d], call[c])
  BY DEF WholeInv, NoneEndangered
<1>2. \A d \in Client \ {c} : At(c, "move", "checked") => ~At(d, "move", "checked")
  BY <1>1 DEF WholeInv, MovesApart, Endangers, At
<1>3. \A d \in Client : call[d].ids \subseteq NodeId
  BY DEF TreeTypeOK, Call
<1> QED BY <1>1, <1>2, <1>3 DEF TreeTypeOK, WholeInv

\* The transaction of a create, seen from inside: the repaired tree.
LEMMA CreateView ==
  ASSUME TreeTypeOK, TreeInv, WholeInv, NEW c \in Client, ~raced, call[c].kind = "create"
  PROVE  /\ Sound(View(c)) /\ call[c].dst \in LiveDirs(View(c))
         /\ \A d \in Client \ {c} : /\ CallSound(call[d], View(c))
                                    /\ call[d].kind = "delete" => call[c].dst \notin call[d].ids
<1> DEFINE a == call[c]
           I == DOMAIN pend[c]
<1>1. /\ View(c) \in [NodeId -> Row] /\ node \in [NodeId -> Row] /\ I \in SUBSET NodeId
      /\ a.ids = I
  BY ViewTypes DEF TreeTypeOK, TreeInv, Shaped, WholeInv, PendIs
<1>2. \A n \in I : IF n = a.dst THEN pend[c][n] = RootRow /\ node[n].st = "free"
                   ELSE n \in Stored(node) /\ pend[c][n] = [node[n] EXCEPT !.parent = a.dst]
  BY DEF WholeInv, PendIs
<1>3. \A n \in NodeId : View(c)[n] = IF n \in I THEN pend[c][n] ELSE node[n]
  BY DEF View
<1>4. \A d \in Client \ {c} : /\ call[d].kind = "delete" => a.dst \notin call[d].ids
                              /\ I # {} => /\ Repairs(call[d]) => call[d].dst = a.dst
                                           /\ ~(call[d].kind = "move" /\ call[d].sel = a.dst)
  BY <1>1, CalmIs DEF Endangers, Repairs
<1>5. \A n \in I \ {a.dst} : /\ View(c)[n].st = node[n].st /\ View(c)[n].dir = node[n].dir
                             /\ View(c)[n].parent = a.dst
  <2>1. \A n \in I \ {a.dst} : View(c)[n] = [node[n] EXCEPT !.parent = a.dst] /\ node[n] \in Row
    BY <1>1, <1>2, <1>3
  <2> QED BY <2>1 DEF Row
<1>6. CreateSound(a, node)
  BY CalmIs DEF CallSound
<1>7. CASE I = {}
  <2>1. View(c) = node
    BY <1>1, <1>3, <1>7
  <2>2. a.dst \in LiveDirs(node)
    BY <1>1, <1>6, <1>7 DEF CreateSound
  <2> QED BY <1>4, <2>1, <2>2, CalmIs
<1>8. CASE I # {} /\ a.dst \notin I
  <2>1. a.dst \in LiveDirs(node) /\ node[a.dst].parent = 0
    BY <1>1, <1>6, <1>8 DEF CreateSound
  <2>2. \A n \in NodeId : /\ View(c)[n].st = node[n].st /\ View(c)[n].dir = node[n].dir
                          /\ View(c)[n].parent = IF n \in I THEN a.dst ELSE node[n].parent
    BY <1>3, <1>5, <1>8
  <2>3. /\ Sound(View(c))
        /\ \A b : /\ CallSound(b, node)
                  /\ (b.kind = "delete" => a.dst \notin b.ids) /\ (Repairs(b) => b.dst = a.dst)
                  /\ ~(b.kind = "move" /\ b.sel = a.dst)
                  => CallSound(b, View(c))
    <3> HIDE DEF a, I
    <3> QED BY <1>1, <1>8, <2>1, <2>2, CalmIs, AttachedSound
  <2>4. a.dst \in LiveDirs(View(c))
    BY <2>1, <2>2 DEF LiveDirs, Live
  <2> QED BY <1>4, <1>8, <2>3, <2>4, CalmIs
<1>9. CASE a.dst \in I
  <2> DEFINE v == [node EXCEPT ![a.dst] = RootRow]
             r == a.dst
  <2>1. /\ v \in [NodeId -> Row] /\ r \in NodeId /\ node[r].st = "free"
        /\ v[r].st = "live" /\ v[r].dir = TRUE /\ v[r].parent = 0
        /\ \A n \in NodeId \ {r} : v[n] = node[n]
    BY <1>1, <1>2, <1>9, RootRowIsRow DEF RootRow
  <2>2. /\ Sound(v)
        /\ \A b : CallSound(b, node) /\ (b.kind = "delete" => 0 \notin b.ids) => CallSound(b, v)
    <3> HIDE DEF v, r
    <3> QED BY <1>1, <2>1, CalmIs, InsertedSound
  <2>8. \A d \in Client \ {c} : CallSound(call[d], v)
    <3>1. 0 \notin NodeId
      BY <1>1, RowSets
    <3> HIDE DEF v
    <3> QED BY <2>2, <3>1, CalmIs
  <2>3. Deleted(v) = Deleted(node) /\ r \in LiveDirs(v)
    <3> HIDE DEF v, r
    <3> QED BY <2>1 DEF Deleted, LiveDirs, Live
  <2>4. View(c)[r] = v[r]
    BY <1>1, <1>2, <1>3, <1>9
  <2>5. \A n \in NodeId : /\ View(c)[n].st = v[n].st /\ View(c)[n].dir = v[n].dir
                          /\ View(c)[n].parent = IF n \in I \ {r} THEN r ELSE v[n].parent
    <3>1. \A n \in NodeId \ I : View(c)[n] = v[n] /\ n # r
      BY <1>3, <1>9
    <3>2. \A n \in I \ {r} : v[n] = node[n] /\ n \in NodeId
      BY <1>1, <2>1
    <3> HIDE DEF v
    <3> QED BY <1>5, <2>4, <3>1, <3>2
  <2>6. /\ Sound(View(c))
        /\ \A b : /\ CallSound(b, v)
                  /\ (b.kind = "delete" => r \notin b.ids) /\ (Repairs(b) => b.dst = r)
                  /\ ~(b.kind = "move" /\ b.sel = r)
                  => CallSound(b, View(c))
    <3> DEFINE P == I \ {r}
    <3>1. r \notin P /\ P \in SUBSET NodeId
      BY <1>1
    <3>2. \A n \in NodeId : /\ View(c)[n].st = v[n].st /\ View(c)[n].dir = v[n].dir
                            /\ View(c)[n].parent = IF n \in P THEN r ELSE v[n].parent
      BY <2>5
    <3> HIDE DEF v, r, I, P
    <3> QED BY <1>1, <2>1, <2>2, <2>3, <3>1, <3>2, AttachedSound
  <2>7. r \in LiveDirs(View(c))
    <3> HIDE DEF v
    <3> QED BY <2>3, <2>5 DEF LiveDirs, Live
  <2> HIDE DEF v
  <2> QED BY <1>4, <1>9, <2>6, <2>7, <2>8
<1> QED BY <1>7, <1>8, <1>9

LEMMA CreateInsertWhole ==
  ASSUME TreeTypeOK, TreeInv, WholeInv, NEW c \in Client, CreateInsert(c)
  PROVE  WholeInv'
<1> DEFINE row == [st |-> "live", dir |-> call[c].dir, parent |-> call[c].dst, name |-> call[c].name]
<1>1. PICK n \in NodeId : IsNextId(n) /\ node' = [View(c) EXCEPT ![n] = row]
  BY DEF CreateInsert
<1>2. Return(c) /\ call[c].kind = "create" /\ call[c] \in Call
  BY DEF CreateInsert, At, TreeTypeOK
<1>3. row \in Row /\ row.st = "live" /\ row.parent = call[c].dst
  BY <1>2 DEF Row, Call
<1> HIDE DEF row
<1>4. /\ View(c) \in [NodeId -> Row] /\ node' \in [NodeId -> Row] /\ node'[n] = row
      /\ \A m \in NodeId \ {n} : node'[m] = View(c)[m]
  BY <1>1, <1>3, ViewTypes
<1>5. node[n].st = "free" /\ (\A d \in Client : n \notin DOMAIN pend[d]) /\ View(c)[n] = node[n]
  BY <1>1, NextIdIs DEF View
<1>6. \A d \in Client \ {c} : \A m \in DOMAIN pend[d] : node'[m] = node[m]
  <2> SUFFICES ASSUME NEW d \in Client \ {c}, NEW m \in DOMAIN pend[d] PROVE node'[m] = node[m]
    OBVIOUS
  <2>1. m \in NodeId /\ m # n /\ m \notin DOMAIN pend[c]
    BY <1>5 DEF TreeInv, Shaped, RowsLocked
  <2> QED BY <1>4, <2>1 DEF View
<1>7. ASSUME ~raced
      PROVE  Sound(node') /\ \A d \in Client \ {c} : CallSound(call[d], node')
  <2>1. /\ Sound(View(c)) /\ call[c].dst \in LiveDirs(View(c))
        /\ \A d \in Client \ {c} : /\ CallSound(call[d], View(c))
                                   /\ call[d].kind = "delete" => call[c].dst \notin call[d].ids
    BY <1>2, <1>7, CreateView
  <2>2. /\ Sound(node')
        /\ \A b : CallSound(b, View(c)) /\ (b.kind = "delete" => call[c].dst \notin b.ids) => CallSound(b, node')
    BY <1>3, <1>4, <1>5, <2>1, InsertedSound
  <2> QED BY <2>1, <2>2
<1> QED BY <1>2, <1>6, <1>7, WholeReturns

-----------------------------------------------------------------------------

\* What a write of c changes is not in another transaction.
LEMMA OthersRows ==
  ASSUME TreeInv, NEW c \in Client, NEW W, Unlocked(c, W),
         \A n \in NodeId \ W : node'[n] = node[n]
  PROVE  \A d \in Client \ {c} : \A n \in DOMAIN pend[d] : node'[n] = node[n]
BY DEF Unlocked, TreeInv, Shaped

LEMMA RenameMoveWhole ==
  ASSUME TreeTypeOK, TreeTypeOK', TreeInv, WholeInv, NEW c \in Client, RenameWrite(c) \/ MoveWrite(c)
  PROVE  WholeInv'
<1> DEFINE s == call[c].sel
<1>1. Return(c) /\ s \in Live(node) /\ s \in NodeId /\ Unlocked(c, {s}) /\ call[c].step = "checked"
  BY DEF RenameWrite, MoveWrite, Live, At
<1>2. node \in [NodeId -> Row] /\ node' \in [NodeId -> Row]
  BY DEF TreeTypeOK
<1>3. \A n \in NodeId \ {s} : node'[n] = node[n]
  BY <1>2 DEF RenameWrite, MoveWrite
<1>4. \A d \in Client \ {c} : \A n \in DOMAIN pend[d] : node'[n] = node[n]
  BY <1>1, <1>3, OthersRows
<1>5. ASSUME RenameWrite(c), ~raced
      PROVE  Sound(node') /\ \A d \in Client \ {c} : CallSound(call[d], node')
  <2>1. node' = [node EXCEPT ![s].name = call[c].name]
    BY <1>5 DEF RenameWrite
  <2>2. \A n \in NodeId : node'[n].st = node[n].st /\ node'[n].dir = node[n].dir /\ node'[n].parent = node[n].parent
    <3>1. node'[s] = [node[s] EXCEPT !.name = call[c].name] /\ node[s] \in Row
      BY <1>1, <1>2, <2>1
    <3> QED BY <1>3, <3>1 DEF Row
  <2> HIDE DEF s
  <2> QED BY <1>5, <2>2, CalmIs, RenamedSound
<1>6. ASSUME MoveWrite(c), ~raced
      PROVE  Sound(node') /\ \A d \in Client \ {c} : CallSound(call[d], node')
  <2>1. node' = [node EXCEPT ![s].parent = call[c].dst] /\ call[c].kind = "move"
    BY <1>6 DEF MoveWrite, At
  <2>2. \A n \in NodeId : /\ node'[n].st = node[n].st /\ node'[n].dir = node[n].dir
                          /\ node'[n].parent = IF n = s THEN call[c].dst ELSE node[n].parent
    <3>1. node'[s] = [node[s] EXCEPT !.parent = call[c].dst] /\ node[s] \in Row
      BY <1>1, <1>2, <2>1
    <3> QED BY <1>3, <3>1 DEF Row
  <2>3. MoveSound(call[c], node)
    BY <1>6, <2>1, CalmIs DEF CallSound
  <2>4. /\ Sound(node')
        /\ \A a : /\ CallSound(a, node)
                  /\ a.kind = "move" => a.step # "checked"
                  /\ a.kind = "delete" => call[c].dst \notin a.ids
                  /\ ~(Repairs(a) /\ a.dst = s)
                  => CallSound(a, node')
    BY <1>1, <1>2, <1>6, <2>2, <2>3, CalmIs, MovedSound
  <2>5. \A d \in Client \ {c} : /\ call[d].kind = "move" => call[d].step # "checked"
                                /\ call[d].kind = "delete" => call[c].dst \notin call[d].ids
                                /\ ~(Repairs(call[d]) /\ call[d].dst = s)
    <3>1. At(c, "move", "checked")
      BY <1>1, <2>1 DEF At
    <3> QED BY <1>6, <2>1, <3>1, CalmIs DEF Endangers, At
  <2> QED BY <1>6, <2>4, <2>5, CalmIs
<1> QED BY <1>1, <1>4, <1>5, <1>6, WholeReturns

LEMMA BinWritesWhole ==
  ASSUME TreeTypeOK, TreeTypeOK', TreeInv, WholeInv, NEW c \in Client,
         DeleteWrite(c) \/ RestoreWrite(c) \/ PurgeWrite(c)
  PROVE  WholeInv'
<1> DEFINE I == call[c].ids
<1>1. Return(c) /\ Unlocked(c, I)
  BY DEF DeleteWrite, RestoreWrite, PurgeWrite
<1>2. node \in [NodeId -> Row] /\ node' \in [NodeId -> Row] /\ I \in SUBSET NodeId
  BY DEF TreeTypeOK, Call
<1>3. ASSUME NEW S, NEW st, node' = With(node, S, st)
      PROVE  /\ \A n \in NodeId \ S : node'[n] = node[n]
             /\ \A n \in NodeId : /\ node'[n].dir = node[n].dir /\ node'[n].parent = node[n].parent
                                  /\ node'[n].st = IF n \in S THEN st ELSE node[n].st
  <2>1. \A n \in NodeId : node'[n] = (IF n \in S THEN [node[n] EXCEPT !.st = st] ELSE node[n])
                          /\ node[n] \in Row
    BY <1>2, <1>3 DEF With
  <2> QED BY <2>1 DEF Row
<1>4. CASE DeleteWrite(c)
  <2>1. node' = With(node, I \cap Live(node), "deleted") /\ call[c].kind = "delete"
    BY <1>4 DEF DeleteWrite, At
  <2>2. /\ \A n \in NodeId \ I : node'[n] = node[n]
        /\ \A n \in NodeId : /\ node'[n].dir = node[n].dir /\ node'[n].parent = node[n].parent
                             /\ node'[n].st = IF n \in I /\ node[n].st = "live" THEN "deleted" ELSE node[n].st
    BY <1>3, <2>1 DEF Live
  <2>3. ASSUME ~raced
        PROVE  Sound(node') /\ \A d \in Client \ {c} : CallSound(call[d], node')
    <3>1. DeleteSound(call[c], node)
      BY <2>1, <2>3, CalmIs DEF CallSound
    <3>2. \A d \in Client \ {c} :
            /\ call[d].kind # "restore"
            /\ call[d].kind \in {"create", "move", "repair"} => call[d].dst \notin call[c].ids
      BY <2>1, <2>3, CalmIs DEF Endangers
    <3> QED BY <1>2, <2>2, <2>3, <3>1, <3>2, CalmIs, BinnedSound
  <2> QED BY <1>1, <2>2, <2>3, OthersRows, WholeReturns
<1>5. CASE RestoreWrite(c)
  <2>1. node' = With(node, I \cap Deleted(node), "live") /\ call[c].kind = "restore"
    BY <1>5 DEF RestoreWrite, At
  <2>2. /\ \A n \in NodeId \ I : node'[n] = node[n]
        /\ \A n \in NodeId : /\ node'[n].dir = node[n].dir /\ node'[n].parent = node[n].parent
                             /\ node'[n].st = IF n \in I /\ node[n].st = "deleted" THEN "live" ELSE node[n].st
    BY <1>3, <2>1 DEF Deleted
  <2>3. ASSUME ~raced
        PROVE  Sound(node') /\ \A d \in Client \ {c} : CallSound(call[d], node')
    <3>1. RestoreSound(call[c], node)
      BY <2>1, <2>3, CalmIs DEF CallSound
    <3>2. \A d \in Client \ {c} : call[d].kind # "delete"
      BY <2>1, <2>3, CalmIs DEF Endangers
    <3> QED BY <1>2, <2>2, <2>3, <3>1, <3>2, CalmIs, BackSound
  <2> QED BY <1>1, <2>2, <2>3, OthersRows, WholeReturns
<1>6. CASE PurgeWrite(c)
  <2> DEFINE P == I \cap Deleted(node)
  <2>1. node' = With(node, P, "purged") /\ call[c].kind = "purge" /\ P \in SUBSET Deleted(node)
    BY <1>6 DEF PurgeWrite, At
  <2>2. /\ \A n \in NodeId \ I : node'[n] = node[n]
        /\ \A n \in NodeId : /\ node'[n].dir = node[n].dir /\ node'[n].parent = node[n].parent
                             /\ node'[n].st = IF n \in P THEN "purged" ELSE node[n].st
    <3>1. \A n \in NodeId \ I : n \notin P
      OBVIOUS
    <3> HIDE DEF P
    <3> QED BY <1>3, <2>1, <3>1
  <2>3. ASSUME ~raced
        PROVE  Sound(node') /\ \A d \in Client \ {c} : CallSound(call[d], node')
    <3>1. \A d \in Client \ {c} : call[d].kind # "restore"
      BY <2>1, <2>3, CalmIs DEF Endangers
    <3> HIDE DEF P
    <3>2. /\ Sound(node')
          /\ \A a : (CallSound(a, node) /\ a.kind # "restore") => CallSound(a, node')
      <4>1. Sound(node) /\ node \in [NodeId -> Row] /\ node' \in [NodeId -> Row]
        BY <1>2, <2>3, CalmIs
      <4>2. \A n \in NodeId : /\ node'[n].dir = node[n].dir /\ node'[n].parent = node[n].parent
                              /\ node'[n].st = IF n \in P THEN "purged" ELSE node[n].st
        BY <2>2
      <4>3. P \in SUBSET Deleted(node)
        BY <2>1
      <4>4. Sound(node')
        BY <4>1, <4>2, <4>3, PurgedSound
      <4>5. \A a : (CallSound(a, node) /\ a.kind # "restore") => CallSound(a, node')
        BY <4>1, <4>2, <4>3, PurgedSound
      <4> QED BY <4>4, <4>5
    <3> QED BY <2>3, <3>1, <3>2, CalmIs
  <2> QED BY <1>1, <2>2, <2>3, OthersRows, WholeReturns
<1> QED BY <1>4, <1>5, <1>6

\* What a clear has purged so far.
LEMMA ClearPurges ==
  ASSUME TreeTypeOK, TreeInv, WholeInv, NEW c \in Client, call[c].kind = "clear"
  PROVE  /\ DOMAIN pend[c] \in SUBSET Deleted(node) /\ View(c) \in [NodeId -> Row]
         /\ \A n \in NodeId \ DOMAIN pend[c] : View(c)[n] = node[n]
         /\ \A n \in NodeId :
              /\ View(c)[n].dir = node[n].dir /\ View(c)[n].parent = node[n].parent
              /\ View(c)[n].st = IF n \in DOMAIN pend[c] THEN "purged" ELSE node[n].st
<1> DEFINE P == DOMAIN pend[c]
           v == View(c)
<1>1. node \in [NodeId -> Row] /\ P \in SUBSET NodeId /\ v \in [NodeId -> Row]
  BY ViewTypes DEF TreeTypeOK, TreeInv, Shaped
<1>2. \A n \in P : n \in Deleted(node) /\ pend[c][n] = [node[n] EXCEPT !.st = "purged"]
  BY DEF WholeInv, PendIs
<1>3. \A n \in NodeId : v[n] = IF n \in P THEN pend[c][n] ELSE node[n]
  BY DEF View
<1>4. \A n \in NodeId : v[n] = IF n \in P THEN [node[n] EXCEPT !.st = "purged"] ELSE node[n]
  BY <1>2, <1>3
<1>5. \A n \in NodeId : /\ v[n].dir = node[n].dir /\ v[n].parent = node[n].parent
                        /\ v[n].st = IF n \in P THEN "purged" ELSE node[n].st
  <2> HIDE DEF P, v
  <2> QED BY <1>1, <1>4 DEF Row
<1> QED BY <1>1, <1>2, <1>3, <1>5

LEMMA ClearCommitWhole ==
  ASSUME TreeTypeOK, TreeTypeOK', TreeInv, WholeInv, NEW c \in Client, ClearCommit(c)
  PROVE  WholeInv'
<1> DEFINE P == DOMAIN pend[c]
<1>1. Return(c) /\ call[c].kind = "clear" /\ node' = View(c)
  BY DEF ClearCommit, At
<1>2. /\ P \in SUBSET Deleted(node) /\ node \in [NodeId -> Row] /\ node' \in [NodeId -> Row]
      /\ \A n \in NodeId \ P : node'[n] = node[n]
      /\ \A n \in NodeId : /\ node'[n].dir = node[n].dir /\ node'[n].parent = node[n].parent
                           /\ node'[n].st = IF n \in P THEN "purged" ELSE node[n].st
  <2>1. node \in [NodeId -> Row] /\ node' \in [NodeId -> Row]
    BY DEF TreeTypeOK
  <2> HIDE DEF P
  <2> QED BY <1>1, <2>1, ClearPurges DEF P
<1>3. Unlocked(c, P)
  BY DEF Unlocked, TreeInv, RowsLocked
<1>4. ASSUME ~raced
      PROVE  Sound(node') /\ \A d \in Client \ {c} : CallSound(call[d], node')
  <2>1. \A d \in Client \ {c} : call[d].kind # "restore"
    BY <1>1, <1>4, CalmIs DEF Endangers
  <2> HIDE DEF P
  <2> QED BY <1>2, <1>4, <2>1, CalmIs, PurgedSound
<1> HIDE DEF P
<1> QED BY <1>1, <1>2, <1>3, <1>4, OthersRows, WholeReturns

LEMMA ClearWriteWhole ==
  ASSUME TreeTypeOK, TreeTypeOK', TreeInv, WholeInv, NEW c \in Client, ClearWrite(c)
  PROVE  WholeInv'
<1> DEFINE v == View(c)
           gone == call[c].ids \cap Deleted(v)
           Q == DOMAIN pend[c]
           P == [m \in Q \cup gone |-> With(v, gone, "purged")[m]]
           rec == [call[c] EXCEPT !.step = "read", !.ids = {}]
<1>1. /\ pend' = [pend EXCEPT ![c] = [m \in DOMAIN @ \cup gone |-> With(v, gone, "purged")[m]]]
      /\ call' = [call EXCEPT ![c].step = "read", ![c].ids = {}]
      /\ UNCHANGED <<node, calls, raced, solo>>
  BY DEF ClearWrite
<1>2. /\ call[c].kind = "clear" /\ call[c] \in Call /\ rec.kind = "clear" /\ node \in [NodeId -> Row]
  BY DEF ClearWrite, At, TreeTypeOK, Call
<1>3. /\ call' = [call EXCEPT ![c] = rec] /\ call'[c] = rec
      /\ pend'[c] = P /\ UNCHANGED <<node, raced>>
      /\ \A d \in Client \ {c} : pend'[d] = pend[d] /\ \A m \in DOMAIN pend[d] : node'[m] = node[m]
  BY <1>1 DEF TreeInv, Shaped
<1> HIDE DEF rec
<1>4. /\ Q \in SUBSET Deleted(node) /\ v \in [NodeId -> Row]
      /\ \A m \in NodeId \ Q : v[m] = node[m]
      /\ \A m \in NodeId : /\ v[m].dir = node[m].dir /\ v[m].parent = node[m].parent
                           /\ v[m].st = IF m \in Q THEN "purged" ELSE node[m].st
  BY <1>2, ClearPurges
<1>5. \A m \in Q : pend[c][m] = [node[m] EXCEPT !.st = "purged"] /\ v[m] = pend[c][m]
  BY <1>2, <1>4 DEF WholeInv, PendIs, View, Deleted
<1> HIDE DEF v, Q
<1>6. Deleted(v) = Deleted(node) \ Q /\ gone \subseteq Deleted(node) \ Q /\ Deleted(node) \subseteq NodeId
  BY <1>4 DEF Deleted
<1>8. DOMAIN P = Q \cup gone /\ \A m \in Q \cup gone : P[m] = [node[m] EXCEPT !.st = "purged"]
  <2>1. \A m \in Q \cup gone : m \in NodeId
    BY <1>4, <1>6
  <2>2. \A m \in gone : P[m] = [v[m] EXCEPT !.st = "purged"] /\ v[m] = node[m]
    BY <1>4, <1>6, <2>1 DEF With
  <2>3. \A m \in Q : P[m] = v[m]
    BY <1>6, <2>1 DEF With
  <2> QED BY <1>5, <2>2, <2>3
<1> HIDE DEF P, gone
<1>9. PendIs(c)'
  BY <1>2, <1>3, <1>4, <1>6, <1>8 DEF PendIs
<1>10. Alike(rec, call[c]) /\ NoLockShared(c, rec) /\ CallSound(rec, node)
  BY <1>2 DEF Alike, NoLockShared, CallSound
<1>11. ~raced => /\ \A d \in Client \ {c} : ~Endangers(rec, call[d]) /\ ~Endangers(call[d], rec)
                 /\ Sound(node) /\ \A d \in Client \ {c} : CallSound(call[d], node)
  BY <1>10, CalmIs, EndangersSame
<1> QED BY <1>3, <1>9, <1>10, <1>11, WholeStep

LEMMA RepairBeginWhole ==
  ASSUME TreeTypeOK, TreeTypeOK', TreeInv, WholeInv, NEW c \in Client, RepairBegin(c)
  PROVE  WholeInv'
<1>1. PICK r \in NodeId :
        /\ Ready(c) /\ UNCHANGED pend
        /\ Begin(c, [IdleCall EXCEPT !.kind = "repair", !.step = "read", !.dst = r])
        /\ \/ IsRoot(node, r) /\ UNCHANGED node
           \/ IsNextId(r) /\ node' = [node EXCEPT ![r] = RootRow]
  BY DEF RepairBegin
<1> DEFINE rec == [IdleCall EXCEPT !.kind = "repair", !.step = "read", !.dst = r]
<1>2. rec.kind = "repair" /\ rec.dst = r
  BY IdleCallIs DEF CallField
<1>3. Begin(c, rec)
  BY <1>1
<1> HIDE DEF rec
<1>4. call' = [call EXCEPT ![c] = rec] /\ call'[c] = rec
  BY <1>3 DEF Begin, TreeInv, Shaped
<1>5. PendIs(c)'
  BY <1>2, <1>4 DEF PendIs
<1>6. CASE IsRoot(node, r) /\ UNCHANGED node
  <2>1. CallSound(rec, node)
    BY <1>2, <1>6 DEF CallSound, RepairSound, IsRoot, Roots
  <2> QED BY <1>1, <1>2, <1>3, <1>5, <1>6, <2>1, WholeBegins
<1>7. CASE IsNextId(r) /\ node' = [node EXCEPT ![r] = RootRow]
  <2>1. node \in [NodeId -> Row] /\ node' \in [NodeId -> Row]
    BY DEF TreeTypeOK
  <2>2. /\ node'[r].st = "live" /\ node'[r].dir = TRUE /\ node'[r].parent = 0 /\ node[r].st = "free"
        /\ \A n \in NodeId \ {r} : node'[n] = node[n]
    BY <1>7, <2>1, NextIdIs DEF RootRow
  <2>3. \A d \in Client \ {c} : pend'[d] = pend[d] /\ \A n \in DOMAIN pend[d] : node'[n] = node[n]
    <3>1. \A d \in Client : r \notin DOMAIN pend[d] /\ DOMAIN pend[d] \subseteq NodeId
      BY <1>7, NextIdIs DEF TreeInv, Shaped
    <3>2. UNCHANGED pend
      BY <1>1
    <3> QED BY <2>2, <3>1, <3>2
  <2>4. ASSUME ~raced'
        PROVE  /\ ~raced
               /\ \A d \in Client \ {c} : ~Endangers(rec, call[d]) /\ ~Endangers(call[d], rec)
               /\ Sound(node')
               /\ CallSound(rec, node')
               /\ \A d \in Client \ {c} : CallSound(call[d], node')
    <3>1. /\ ~raced
          /\ \A d \in Client \ {c} : ~Endangers(rec, call[d]) /\ ~Endangers(call[d], rec)
      BY <1>3, <2>4 DEF Begin
    <3>2. \A d \in Client : 0 \notin call[d].ids
      BY <2>1, <3>1, CalmIs, RowSets
    <3>3. /\ Sound(node')
          /\ \A b : CallSound(b, node) /\ (b.kind = "delete" => 0 \notin b.ids) => CallSound(b, node')
      BY <2>1, <2>2, <3>1, CalmIs, InsertedSound
    <3>4. CallSound(rec, node')
      BY <1>2, <2>2 DEF CallSound, RepairSound, LiveDirs, Live
    <3> QED BY <3>1, <3>2, <3>3, <3>4, CalmIs
  <2>5. NoLockShared(c, rec)
    BY <1>2 DEF NoLockShared
  <2> QED BY <1>4, <1>5, <2>3, <2>4, <2>5, WholeStep
<1> QED BY <1>1, <1>6, <1>7

LEMMA RepairWriteWhole ==
  ASSUME TreeTypeOK, TreeTypeOK', TreeInv, WholeInv, NEW c \in Client, RepairWrite(c)
  PROVE  WholeInv'
<1> DEFINE root == call[c].dst
<1>1. PICK n \in call[c].ids :
        /\ Unlocked(c, {n})
        /\ node' = IF n \in Stored(node)
                   THEN [node EXCEPT ![n].parent = IF n = root THEN 0 ELSE root] ELSE node
        /\ call' = [call EXCEPT ![c].ids = @ \ {n}]
        /\ UNCHANGED <<pend, calls, raced, solo>>
  BY DEF RepairWrite
<1> DEFINE rec == [call[c] EXCEPT !.ids = @ \ {n}]
           P == ({n} \cap Stored(node)) \ {root}
<1>2. /\ call[c].kind = "repair" /\ call[c] \in Call /\ rec.kind = "repair" /\ rec.dst = root
      /\ rec.sel = call[c].sel /\ rec.old = call[c].old /\ node \in [NodeId -> Row] /\ node' \in [NodeId -> Row]
      /\ P \in SUBSET NodeId /\ root \notin P
  BY RowSets DEF RepairWrite, At, TreeTypeOK, Call
<1>3. call' = [call EXCEPT ![c] = rec] /\ call'[c] = rec /\ UNCHANGED <<pend, raced>>
  BY <1>1 DEF TreeInv, Shaped
<1> HIDE DEF rec
<1>4. \A m \in NodeId \ {n} : node'[m] = node[m]
  BY <1>1, <1>2
<1>5. \A d \in Client \ {c} : pend'[d] = pend[d] /\ \A m \in DOMAIN pend[d] : node'[m] = node[m]
  BY <1>1, <1>3, <1>4, OthersRows
<1>6. PendIs(c)'
  BY <1>2, <1>3 DEF PendIs
<1>7. ASSUME ~raced
      PROVE  /\ \A d \in Client \ {c} : ~Endangers(rec, call[d]) /\ ~Endangers(call[d], rec)
             /\ Sound(node')
             /\ CallSound(rec, node')
             /\ \A d \in Client \ {c} : CallSound(call[d], node')
  <2>1. \A d \in Client \ {c} : ~Endangers(rec, call[d]) /\ ~Endangers(call[d], rec)
    <3>1. Alike(rec, call[c])
      BY <1>2 DEF Alike
    <3> QED BY <1>7, <3>1, CalmIs, EndangersSame
  <2>2. root \in LiveDirs(node) /\ node[root].parent = 0
    BY <1>2, <1>7, CalmIs DEF CallSound, RepairSound
  <2>3. \A m \in NodeId : /\ node'[m].st = node[m].st /\ node'[m].dir = node[m].dir
                          /\ node'[m].parent = IF m \in P THEN root ELSE node[m].parent
    <3>1. CASE n \in Stored(node)
      <4>1. n \in NodeId /\ node[n] \in Row
        BY <1>2, <3>1, RowSets
      <4>2. node'[n] = [node[n] EXCEPT !.parent = IF n = root THEN 0 ELSE root]
        BY <1>1, <1>2, <3>1, <4>1
      <4>3. /\ node'[n].st = node[n].st /\ node'[n].dir = node[n].dir
            /\ node'[n].parent = IF n = root THEN 0 ELSE root
        BY <4>1, <4>2 DEF Row
      <4> QED BY <1>4, <2>2, <3>1, <4>1, <4>3
    <3>2. CASE n \notin Stored(node)
      BY <1>1, <3>2
    <3> QED BY <3>1, <3>2
  <2>4. \A d \in Client \ {c} : /\ call[d].kind = "delete" => root \notin call[d].ids
                                /\ Repairs(call[d]) => call[d].dst = root
                                /\ ~(call[d].kind = "move" /\ call[d].sel = root)
    BY <1>2, <1>7, CalmIs DEF Endangers, Repairs
  <2> HIDE DEF root, P
  <2>5. /\ Sound(node')
        /\ \A a : /\ CallSound(a, node)
                  /\ a.kind = "delete" => root \notin a.ids
                  /\ Repairs(a) => a.dst = root
                  /\ ~(a.kind = "move" /\ a.sel = root)
                  => CallSound(a, node')
    BY <1>2, <1>7, <2>2, <2>3, CalmIs, AttachedSound
  <2>6. CallSound(rec, node')
    <3>1. root \in LiveDirs(node') /\ node'[root].parent = 0
      BY <1>2, <2>2, <2>3 DEF LiveDirs, Live
    <3> QED BY <1>2, <3>1 DEF CallSound, RepairSound
  <2> QED BY <1>7, <2>1, <2>4, <2>5, <2>6, CalmIs
<1>8. NoLockShared(c, rec)
  BY <1>2 DEF NoLockShared
<1> QED BY <1>3, <1>5, <1>6, <1>7, <1>8, WholeStep

LEMMA AbandonWhole ==
  ASSUME TreeInv, WholeInv, NEW c \in Client, Abandon(c)
  PROVE  WholeInv'
BY WholeReturns DEF Abandon, WholeInv

LEMMA WholeKept == TreeTypeOK /\ TreeInv /\ WholeInv /\ [TreeNext]_treeVars => WholeInv'
<1> SUFFICES ASSUME TreeTypeOK, TreeInv, WholeInv, [TreeNext]_treeVars PROVE WholeInv'
  OBVIOUS
<1>1. TreeTypeOK'
  BY TypesKept
<1>2. CASE TreeNext
  BY <1>1, <1>2, CreateBeginWhole, BeginsWhole, ChecksWhole, CreateInsertWhole, RenameMoveWhole,
     BinWritesWhole, ClearWriteWhole, ClearCommitWhole, RepairBeginWhole, RepairWriteWhole, AbandonWhole
  DEF TreeNext
<1>3. CASE UNCHANGED treeVars
  BY <1>3 DEF treeVars, WholeInv, PendIs, NoneEndangered, MovesApart, At
<1> QED BY <1>2, <1>3

-----------------------------------------------------------------------------
(* The theorems about the node tree. *)

\* The invariant holds of every behaviour.
THEOREM TreeInvariant == TreeSpec => []TreeInv
BY TreeStarts, TreeKept, PTL DEF TreeSpec

\* A row leaves the table only from the recycle bin, whatever restores overlap with
\* purges and clears that had listed it (LiveNeverPurged).
THEOREM LiveRowsStay == TreeSpec => LiveNeverPurged
<1>1. TreeInv /\ [TreeNext]_treeVars =>
        [\A n \in NodeId : node[n].st = "live" => node'[n].st # "purged"]_treeVars
  BY TreeKept DEF LiveStays
<1> QED BY <1>1, TreeInvariant, PTL DEF TreeSpec, LiveNeverPurged

\* A repair that nothing else overlapped leaves one root, with every other live
\* node in a live directory, whatever races had left behind (RepairHeals).
THEOREM RepairHealsTree == TreeSpec => []RepairHeals
<1>1. TreeInv => RepairHeals
  <2> SUFFICES ASSUME TreeInv, NEW c \in Client, At(c, "repair", "listed"), call[c].ids = {}, c \in solo,
                      NEW n \in Live(node)
               PROVE  IF n = call[c].dst THEN node[n].parent = 0
                      ELSE node[n].parent \in LiveDirs(node)
    BY DEF RepairHeals
  <2> DEFINE root == call[c].dst
  <2>1. node[root].parent = 0 /\ Broken(node, root) = {} /\ n \in Stored(node) /\ node[n].st = "live"
    BY DEF TreeInv, RepairListed, At, Stored, Live
  <2>2. Target(node, root, n) = node[n].parent
    BY <2>1 DEF Broken
  <2> HIDE DEF root
  <2>3. CASE n # root
    <3>1. node[n].parent # root =>
            /\ node[n].parent \in Stored(node) /\ node[node[n].parent].dir
            /\ node[node[n].parent].st # "deleted"
      BY <2>1, <2>2, <2>3 DEF Target
    <3>2. root \in LiveDirs(node)
      BY DEF root, TreeInv, RepairListed, At
    <3> QED BY <2>3, <3>1, <3>2 DEF Stored, Deleted, LiveDirs, Live, root
  <2>4. CASE n = root
    BY <2>1, <2>4 DEF root
  <2> QED BY <2>3, <2>4
<1> QED BY <1>1, TreeInvariant, PTL

LEMMA TypesStart == TreeStart => TreeTypeOK
<1> SUFFICES ASSUME TreeStart PROVE TreeTypeOK
  OBVIOUS
<1>1. node \in [NodeId -> Row]
  BY TreeInit DEF TreeStart
<1>2. call \in [Client -> Call]
  BY IdleIsCall DEF TreeStart
<1>3. \A c \in Client : \E S \in SUBSET NodeId : pend[c] \in [S -> Row]
  <2>1. <<>> \in [{} -> Row]
    OBVIOUS
  <2>2. \A c \in Client : pend[c] = <<>>
    BY DEF TreeStart
  <2> QED BY <2>1, <2>2
<1>4. calls \in 0 .. MaxCalls
  BY TreeCalls DEF TreeStart
<1>5. raced \in BOOLEAN
  BY DEF TreeStart
<1>6. solo \in SUBSET Client
  BY DEF TreeStart
<1> QED BY <1>1, <1>2, <1>3, <1>4, <1>5, <1>6 DEF TreeTypeOK

\* Rows, requests and transactions have their types in every state (TreeTypeOK).
THEOREM TreeTypes == TreeSpec => []TreeTypeOK
BY TypesStart, TypesKept, TreeInvariant, PTL DEF TreeSpec

LEMMA WholeStart ==
  ASSUME TreeStart, \A t \in InitTrees : Whole(t) /\ ParentsAreDirs(t)
  PROVE  WholeInv
<1>1. node \in [NodeId -> Row] /\ Sound(node)
  BY TreeInit, WholeIsSound DEF TreeStart
<1>2. \A c \in Client : call[c].kind = "none"
  BY DEF TreeStart, IdleCall
<1> QED BY <1>1, <1>2 DEF WholeInv, PendIs, MovesApart, At, NoneEndangered, Endangers, Repairs, CallSound

\* However creates, renames, moves, deletes, restores, purges, clears and repairs
\* follow one another and overlap, the live nodes of a library form a tree if they
\* do at the start, unless two requests that endanger it overlapped (TreeStaysWhole).
THEOREM TreeIsWhole ==
  ASSUME \A t \in InitTrees : Whole(t) /\ ParentsAreDirs(t)
  PROVE  TreeSpec => []TreeStaysWhole
<1>1. TreeStart => TreeTypeOK /\ WholeInv
  BY TypesStart, WholeStart
<1>2. TreeTypeOK /\ WholeInv => TreeStaysWhole
  BY SoundIsWhole DEF TreeTypeOK, WholeInv, TreeStaysWhole
<1> QED BY <1>1, <1>2, TypesKept, WholeKept, TreeInvariant, PTL DEF TreeSpec

-----------------------------------------------------------------------------
(* The bookmarks. *)

\* No set of rows hangs from itself alone.
NoLoop(S) == \A Y \in SUBSET S : Y # {} => \E y \in Y : mark[y].up \notin Y

FoldersAbove == \A m \in Shown : mark[m].up \in ShownFolders \cup {0}

\* What a request has found out and relies on when it writes.
MarkingSound(c) ==
  /\ MarkAt(c, "create") => marking[c].to \in ShownFolders \cup {0}
  /\ MarkAt(c, "move") =>
       /\ marking[c].to \in ShownFolders \cup {0}
       /\ \E U \in SUBSET Shown : /\ marking[c].to \in U \cup {0} /\ marking[c].id \notin U
                                  /\ \A x \in U : mark[x].up \in U \cup {0}
  /\ MarkAt(c, "delete") =>
       /\ marking[c].ids \cap FreeMarks = {}
       /\ \A x \in Shown : mark[x].up \in marking[c].ids => x \in marking[c].ids

MarkInv ==
  /\ MarkTypeOK
  /\ ~bmRaced =>
       /\ \A c, d \in MarkCall : c # d => ~Endangered(marking[c].step, marking[d].step)
       /\ FoldersAbove /\ NoLoop(Shown)
       /\ \A c \in MarkCall : MarkingSound(c)

LEMMA MarkSets ==
  /\ Shown \subseteq MarkId /\ ShownFolders \subseteq Shown /\ FreeMarks \subseteq MarkId
  /\ Shown \cap FreeMarks = {} /\ 0 \notin MarkId /\ MarkCount \in Nat
BY MarkBounds DEF Shown, ShownFolders, FreeMarks, MarkId

\* What is below m: the least set with m and its children that are shown.
LEMMA BelowIs ==
  ASSUME NEW m
  PROVE  /\ Below(m) \subseteq Shown \cup {m}
         /\ m \in Below(m)
         /\ \A x \in Shown : mark[x].up \in Below(m) => x \in Below(m)
<1> DEFINE up == [x \in Shown |-> mark[x].up]
           A == {m}
           IsLevel(g) == g = [k \in 0 .. MarkCount |->
                                IF k = 0 THEN {m}
                                ELSE g[k - 1] \cup {x \in Shown : mark[x].up \in g[k - 1]}]
           level == CHOOSE g : IsLevel(g)
<1>1. MarkCount \in Nat /\ \A x \in Shown : up[x] = mark[x].up
  BY MarkSets
<1>2. \E g : IsLevel(g)
  <2>1. PICK f : IsLevels(f, MarkCount, A, Shown, up)
    BY <1>1, LevelsExist
  <2> DEFINE g == [k \in 0 .. MarkCount |-> f[k]]
  <2>2. \A k \in 0 .. MarkCount :
          g[k] = IF k = 0 THEN {m} ELSE g[k - 1] \cup {x \in Shown : mark[x].up \in g[k - 1]}
    <3> SUFFICES ASSUME NEW k \in 0 .. MarkCount
                 PROVE  g[k] = IF k = 0 THEN {m}
                               ELSE g[k - 1] \cup {x \in Shown : mark[x].up \in g[k - 1]}
      OBVIOUS
    <3>1. CASE k = 0
      BY <2>1, <3>1 DEF IsLevels
    <3>2. CASE k # 0
      <4>1. k \in 1 .. MarkCount /\ k - 1 \in 0 .. MarkCount
        BY <1>1, <3>2
      <4>2. f[k] = f[k - 1] \cup {x \in Shown : up[x] \in f[k - 1]}
        BY <2>1, <4>1 DEF IsLevels
      <4>3. g[k] = f[k] /\ g[k - 1] = f[k - 1]
        BY <4>1
      <4> HIDE DEF up, g
      <4> QED BY <1>1, <3>2, <4>2, <4>3
    <3> QED BY <3>1, <3>2
  <2>3. g = [k \in 0 .. MarkCount |-> g[k]]
    OBVIOUS
  <2>4. IsLevel(g)
    <3> HIDE DEF g
    <3> QED BY <2>2, <2>3
  <2> QED BY <2>4
<1>3. IsLevel(level)
  <2> HIDE DEF IsLevel
  <2> QED BY <1>2
<1>4. Below(m) = level[MarkCount]
  BY DEF Below
<1> HIDE DEF level
<1>5. IsLevels(level, MarkCount, A, Shown, up)
  <2> HIDE DEF up
  <2> QED BY <1>1, <1>3 DEF IsLevels
<1>6. IsFiniteSet(Shown) /\ Cardinality(Shown) <= MarkCount
  <2>1. IsFiniteSet(MarkId) /\ Cardinality(MarkId) = MarkCount
    BY <1>1, FS_Interval DEF MarkId
  <2> QED BY <2>1, MarkSets, FS_Subset
<1>7. /\ \A x \in Shown : up[x] \in level[MarkCount] => x \in level[MarkCount]
      /\ \A k \in 0 .. MarkCount : level[k] \subseteq level[MarkCount]
      /\ level[MarkCount] \subseteq A \cup Shown
  <2> HIDE DEF up, A
  <2> QED BY <1>1, <1>5, <1>6, LevelsClosed, LevelsLeast
<1>8. m \in level[MarkCount]
  BY <1>1, <1>5, <1>7 DEF IsLevels
<1> HIDE DEF up, IsLevel
<1> QED BY <1>1, <1>4, <1>7, <1>8

-----------------------------------------------------------------------------
LEMMA MarksStart == MarkStart => MarkInv
<1> SUFFICES ASSUME MarkStart PROVE MarkInv
  OBVIOUS
<1>1. MarkTypeOK
  <2> DEFINE row == [st |-> "free", folder |-> FALSE, up |-> 0]
  <2>1. row \in Mark /\ MarkIdle \in MarkState
    BY DEF Mark, MarkIdle, MarkState
  <2>2. mark = [m \in MarkId |-> row]
    BY DEF MarkStart
  <2> HIDE DEF row
  <2>3. mark \in [MarkId -> Mark]
    BY <2>1, <2>2
  <2>4. marking \in [MarkCall -> MarkState]
    BY <2>1 DEF MarkStart
  <2>5. markCalls \in 0 .. MaxMarkCalls
    BY MarkBounds DEF MarkStart
  <2>6. bmRaced \in BOOLEAN
    BY DEF MarkStart
  <2> QED BY <2>3, <2>4, <2>5, <2>6 DEF MarkTypeOK
<1>2. Shown = {}
  BY DEF MarkStart, Shown
<1>3. \A c \in MarkCall : marking[c].step = "idle"
  BY DEF MarkStart, MarkIdle
<1> QED BY <1>1, <1>2, <1>3 DEF MarkInv, Endangered, FoldersAbove, NoLoop, MarkingSound, MarkAt

\* A request begins.
LEMMA MarkBeginKeeps ==
  ASSUME MarkInv, NEW c \in MarkCall, NEW rec \in MarkState, MarkBegins(c, rec),
         ~bmRaced => MarkingSound(c)'
  PROVE  MarkInv'
<1>1. /\ UNCHANGED mark /\ marking' = [marking EXCEPT ![c] = rec] /\ marking'[c] = rec
      /\ \A d \in MarkCall \ {c} : marking'[d] = marking[d]
      /\ ~bmRaced' => ~bmRaced /\ \A d \in MarkCall \ {c} :
                         ~Endangered(rec.step, marking[d].step) /\ ~Endangered(marking[d].step, rec.step)
  BY DEF MarkBegins, MarkInv, MarkTypeOK
<1>2. MarkTypeOK'
  <2>1. markCalls' \in 0 .. MaxMarkCalls
    BY MarkBounds DEF MarkBegins, MarkInv, MarkTypeOK
  <2>2. bmRaced' \in BOOLEAN
    BY DEF MarkBegins, MarkInv, MarkTypeOK
  <2> QED BY <1>1, <2>1, <2>2 DEF MarkInv, MarkTypeOK
<1>3. ASSUME ~bmRaced'
      PROVE  /\ \A d, e \in MarkCall : d # e => ~Endangered(marking'[d].step, marking'[e].step)
             /\ FoldersAbove' /\ NoLoop(Shown)'
             /\ \A d \in MarkCall : MarkingSound(d)'
  <2>1. \A d, e \in MarkCall : d # e => ~Endangered(marking'[d].step, marking'[e].step)
    BY <1>1, <1>3 DEF MarkInv
  <2>2. Shown' = Shown /\ ShownFolders' = ShownFolders /\ FreeMarks' = FreeMarks
    BY <1>1 DEF Shown, ShownFolders, FreeMarks
  <2>3. FoldersAbove' /\ NoLoop(Shown)'
    BY <1>1, <1>3, <2>2 DEF MarkInv, FoldersAbove, NoLoop
  <2>4. \A d \in MarkCall \ {c} : MarkingSound(d)'
    BY <1>1, <1>3, <2>2 DEF MarkInv, MarkingSound, MarkAt
  <2> QED BY <1>1, <1>3, <2>1, <2>3, <2>4
<1> QED BY <1>2, <1>3 DEF MarkInv

LEMMA MarkBeginsKeep ==
  ASSUME MarkInv, NEW c \in MarkCall,
         \/ \E p \in MarkId \cup {0}, folder \in BOOLEAN : MarkCreateBegin(c, p, folder)
         \/ \E m \in MarkId, p \in MarkId \cup {0} : MarkMoveBegin(c, m, p)
         \/ \E m \in MarkId : MarkDeleteBegin(c, m)
  PROVE  MarkInv'
<1>0. \A rec : MarkBegins(c, rec) =>
        /\ marking'[c] = rec /\ mark' = mark /\ Shown' = Shown
        /\ ShownFolders' = ShownFolders /\ FreeMarks' = FreeMarks
  BY DEF MarkBegins, MarkInv, MarkTypeOK, Shown, ShownFolders, FreeMarks
<1>1. ASSUME NEW p \in MarkId \cup {0}, NEW folder \in BOOLEAN, MarkCreateBegin(c, p, folder)
      PROVE  MarkInv'
  <2> DEFINE rec == [step |-> "create", to |-> p, folder |-> folder]
  <2>1. rec \in MarkState /\ rec.step = "create" /\ rec.to = p /\ MarkBegins(c, rec)
    BY <1>1 DEF MarkState, MarkCreateBegin
  <2> HIDE DEF rec
  <2>2. MarkingSound(c)'
    BY <1>0, <1>1, <2>1 DEF MarkingSound, MarkAt, MarkCreateBegin, IsFolder
  <2> QED BY <2>1, <2>2, MarkBeginKeeps
<1>2. ASSUME NEW m \in MarkId, NEW p \in MarkId \cup {0}, MarkMoveBegin(c, m, p)
      PROVE  MarkInv'
  <2> DEFINE rec == [step |-> "move", id |-> m, to |-> p,
                     siblings |-> {x \in Shown \ {m} : mark[x].up = p}]
  <2>1. rec \in MarkState /\ rec.step = "move" /\ rec.to = p /\ rec.id = m /\ MarkBegins(c, rec)
    BY <1>2, MarkSets DEF MarkState, MarkMoveBegin
  <2> HIDE DEF rec
  <2>2. /\ m \in Shown /\ p # m /\ p \in ShownFolders \cup {0}
        /\ (mark[m].folder /\ p # 0) => p \notin Below(m)
    BY <1>2 DEF MarkMoveBegin, IsFolder, WalkMeets
  <2>3. ASSUME FoldersAbove
        PROVE  \E U \in SUBSET Shown : /\ p \in U \cup {0} /\ m \notin U
                                       /\ \A x \in U : mark[x].up \in U \cup {0}
    <3>1. CASE p = 0
      <4>1. {} \in SUBSET Shown /\ p \in {} \cup {0} /\ m \notin {}
        BY <3>1
      <4> QED BY <4>1
    <3>2. CASE p # 0 /\ mark[m].folder
      <4> DEFINE U == Shown \ Below(m)
      <4>1. U \in SUBSET Shown /\ p \in U /\ m \notin U
        BY <2>2, <3>2, MarkSets, BelowIs
      <4>2. \A x \in U : mark[x].up \in U \cup {0}
        BY <2>3, MarkSets, BelowIs DEF FoldersAbove
      <4> HIDE DEF U
      <4> QED BY <4>1, <4>2
    <3>3. CASE p # 0 /\ ~mark[m].folder
      <4> DEFINE U == Shown \ {m}
      <4>1. U \in SUBSET Shown /\ p \in U /\ m \notin U
        BY <2>2, <3>3, MarkSets
      <4>2. \A x \in U : mark[x].up \in U \cup {0}
        BY <2>3, <3>3, MarkSets DEF FoldersAbove, ShownFolders
      <4> HIDE DEF U
      <4> QED BY <4>1, <4>2
    <3> QED BY <3>1, <3>2, <3>3
  <2>4. ~bmRaced => MarkingSound(c)'
    BY <1>0, <2>1, <2>2, <2>3 DEF MarkInv, MarkingSound, MarkAt
  <2> QED BY <2>1, <2>4, MarkBeginKeeps
<1>3. ASSUME NEW m \in MarkId, MarkDeleteBegin(c, m)
      PROVE  MarkInv'
  <2> DEFINE rec == [step |-> "delete", ids |-> Below(m)]
  <2>1. m \in Shown /\ MarkBegins(c, rec)
    BY <1>3 DEF MarkDeleteBegin
  <2>2. Below(m) \subseteq Shown /\ \A x \in Shown : mark[x].up \in Below(m) => x \in Below(m)
    BY <2>1, BelowIs
  <2>3. rec \in MarkState /\ rec.step = "delete" /\ rec.ids = Below(m)
    BY <2>2, MarkSets DEF MarkState
  <2> HIDE DEF rec
  <2>4. MarkingSound(c)'
    BY <1>0, <2>1, <2>2, <2>3, MarkSets DEF MarkingSound, MarkAt
  <2> QED BY <2>1, <2>3, <2>4, MarkBeginKeeps
<1> QED BY <1>1, <1>2, <1>3

\* A request ends and leaves the rows mark'.
LEMMA MarkEndKeeps ==
  ASSUME MarkInv, NEW c \in MarkCall, MarkEnds(c), mark' \in [MarkId -> Mark],
         ~bmRaced => /\ FoldersAbove' /\ NoLoop(Shown)'
                     /\ \A d \in MarkCall \ {c} : MarkingSound(d)'
  PROVE  MarkInv'
<1>1. /\ marking' = [marking EXCEPT ![c] = MarkIdle] /\ marking'[c].step = "idle"
      /\ \A d \in MarkCall \ {c} : marking'[d] = marking[d]
      /\ UNCHANGED <<markCalls, bmRaced>>
  BY DEF MarkEnds, MarkInv, MarkTypeOK, MarkIdle
<1>2. MarkTypeOK'
  BY <1>1 DEF MarkInv, MarkTypeOK, MarkIdle, MarkState
<1>3. MarkingSound(c)'
  BY <1>1 DEF MarkingSound, MarkAt
<1>4. ~bmRaced' => \A d, e \in MarkCall : d # e => ~Endangered(marking'[d].step, marking'[e].step)
  BY <1>1 DEF MarkInv, Endangered
<1> QED BY <1>1, <1>2, <1>3, <1>4 DEF MarkInv

\* Rows are inserted that no row hangs from but those inserted with them.
LEMMA MarkInserted ==
  ASSUME MarkInv, ~bmRaced, mark' \in [MarkId -> Mark], NEW N \in SUBSET FreeMarks,
         \A m \in MarkId \ N : mark'[m] = mark[m],
         \A m \in N : mark'[m].st = "live",
         NEW top \in N, mark'[top].up \in ShownFolders \cup {0},
         \A m \in N \ {top} : mark'[m].up = top /\ mark'[top].folder,
         NEW d \in MarkCall, marking'[d] = marking[d],
         MarkAt(d, "delete") => mark'[top].up = 0
  PROVE  FoldersAbove' /\ NoLoop(Shown)' /\ MarkingSound(d)'
<1>1. /\ Shown' = Shown \cup N /\ FreeMarks' = FreeMarks \ N
      /\ ShownFolders \subseteq ShownFolders' /\ N \cap Shown = {} /\ N \subseteq MarkId
      /\ mark'[top].folder => top \in ShownFolders'
  BY MarkSets DEF Shown, ShownFolders, FreeMarks
<1>2. \A m \in Shown : mark'[m] = mark[m] /\ m \notin N
  BY <1>1, MarkSets
<1>3. \A m \in Shown : mark[m].up \in ShownFolders \cup {0}
  BY DEF MarkInv, FoldersAbove
<1>4. \A m \in Shown : mark[m].up \notin N
  BY <1>1, <1>3, MarkSets
<1>5. FoldersAbove'
  BY <1>1, <1>2, <1>3 DEF FoldersAbove
<1>6. NoLoop(Shown)'
  <2> SUFFICES ASSUME NEW Y \in SUBSET (Shown \cup N), Y # {} PROVE \E y \in Y : mark'[y].up \notin Y
    BY <1>1 DEF NoLoop
  <2>1. CASE Y \cap Shown # {}
    <3>1. PICK y \in Y \cap Shown : mark[y].up \notin Y \cap Shown
      BY <2>1 DEF MarkInv, NoLoop
    <3> QED BY <1>2, <1>3, <1>4, <3>1, MarkSets
  <2>2. CASE Y \subseteq N /\ top \in Y
    BY <1>1, <2>2, MarkSets
  <2>3. CASE Y \subseteq N /\ top \notin Y
    BY <2>3
  <2> QED BY <2>1, <2>2, <2>3
<1>7. MarkingSound(d)'
  <2>0. MarkingSound(d)
    BY DEF MarkInv
  <2>1. MarkAt(d, "move")' => MarkingSound(d)'
    <3> SUFFICES ASSUME MarkAt(d, "move")' PROVE MarkingSound(d)'
      OBVIOUS
    <3>1. /\ MarkAt(d, "move")
          /\ marking[d].to \in ShownFolders \cup {0}
          /\ \E U \in SUBSET Shown : /\ marking[d].to \in U \cup {0} /\ marking[d].id \notin U
                                  /\ \A x \in U : mark[x].up \in U \cup {0}
      BY <2>0 DEF MarkingSound, MarkAt
    <3> QED BY <1>1, <1>2, <3>1 DEF MarkingSound, MarkAt
  <2>2. MarkAt(d, "delete")' => MarkingSound(d)'
    <3> SUFFICES ASSUME MarkAt(d, "delete")' PROVE MarkingSound(d)'
      OBVIOUS
    <3>1. /\ MarkAt(d, "delete")
          /\ marking[d].ids \cap FreeMarks = {} /\ marking[d].ids \subseteq MarkId
          /\ \A x \in Shown : mark[x].up \in marking[d].ids => x \in marking[d].ids
      BY <2>0 DEF MarkingSound, MarkAt, MarkInv, MarkTypeOK, MarkState
    <3>2. \A x \in N : mark'[x].up \notin marking[d].ids
      BY <3>1, MarkSets
    <3> QED BY <1>1, <1>2, <3>1, <3>2 DEF MarkingSound, MarkAt
  <2>3. MarkAt(d, "create")' => MarkingSound(d)'
    BY <1>1, <2>0 DEF MarkingSound, MarkAt
  <2> QED BY <2>1, <2>2, <2>3 DEF MarkingSound, MarkAt
<1> QED BY <1>5, <1>6, <1>7

\* While nothing endangers the tree.
LEMMA MarkCalm ==
  ASSUME MarkInv, ~bmRaced, NEW c \in MarkCall, NEW d \in MarkCall \ {c}
  PROVE  /\ ~Endangered(marking[c].step, marking[d].step)
         /\ ~Endangered(marking[d].step, marking[c].step)
         /\ MarkingSound(c) /\ MarkingSound(d)
BY DEF MarkInv

LEMMA MarkInsertsKeep ==
  ASSUME MarkInv, NEW c \in MarkCall, MarkCreateWrite(c) \/ MarkImport(c)
  PROVE  MarkInv'
<1>0. mark \in [MarkId -> Mark] /\ marking[c] \in MarkState
  BY DEF MarkInv, MarkTypeOK
<1>1. CASE MarkCreateWrite(c)
  <2>1. PICK m \in MarkId :
          /\ NextMarks({m})
          /\ mark' = [mark EXCEPT ![m] =
                        [st |-> "live", folder |-> marking[c].folder, up |-> marking[c].to]]
    BY <1>1 DEF MarkCreateWrite
  <2>2. /\ marking[c].step = "create" /\ marking[c].folder \in BOOLEAN
        /\ marking[c].to \in MarkId \cup {0} /\ MarkEnds(c)
    BY <1>0, <1>1 DEF MarkCreateWrite, MarkAt, MarkState
  <2> DEFINE row == [st |-> "live", folder |-> marking[c].folder, up |-> marking[c].to]
  <2>3. row \in Mark /\ row.st = "live" /\ row.up = marking[c].to
    BY <2>2 DEF Mark
  <2>4. mark' = [mark EXCEPT ![m] = row]
    BY <2>1
  <2> HIDE DEF row
  <2>5. /\ mark' \in [MarkId -> Mark] /\ mark'[m] = row /\ {m} \in SUBSET FreeMarks
        /\ \A x \in MarkId \ {m} : mark'[x] = mark[x]
    BY <1>0, <2>1, <2>3, <2>4 DEF NextMarks
  <2>6. ASSUME ~bmRaced
        PROVE  FoldersAbove' /\ NoLoop(Shown)'
    <3>1. marking[c].to \in ShownFolders \cup {0}
      BY <2>2, <2>6 DEF MarkInv, MarkingSound, MarkAt
    <3>2. \A x \in MarkId \ {m} : mark'[x] = mark[x]
      BY <2>5
    <3> QED
      <4>1. /\ Shown' = Shown \cup {m} /\ ShownFolders \subseteq ShownFolders'
            /\ m \notin Shown
        BY <2>3, <2>5, MarkSets DEF Shown, ShownFolders, FreeMarks
      <4>2. \A x \in Shown : mark'[x] = mark[x] /\ mark[x].up \in ShownFolders \cup {0} /\ mark[x].up # m
        BY <2>5, <2>6, <4>1, MarkSets DEF MarkInv, FoldersAbove
      <4>3. FoldersAbove'
        BY <2>3, <2>5, <3>1, <4>1, <4>2 DEF FoldersAbove
      <4>4. NoLoop(Shown)'
        <5> SUFFICES ASSUME NEW Y \in SUBSET (Shown \cup {m}), Y # {} PROVE \E y \in Y : mark'[y].up \notin Y
          BY <4>1 DEF NoLoop
        <5>1. CASE Y \cap Shown # {}
          <6>1. PICK y \in Y \cap Shown : mark[y].up \notin Y \cap Shown
            BY <2>6, <5>1 DEF MarkInv, NoLoop
          <6> QED BY <4>2, <6>1, MarkSets
        <5>2. CASE Y = {m}
          BY <2>3, <2>5, <3>1, <4>1, <5>2, MarkSets
        <5> QED BY <5>1, <5>2
      <4> QED BY <4>3, <4>4
  <2>7. ASSUME ~bmRaced, NEW d \in MarkCall \ {c}
        PROVE  MarkingSound(d)'
    <3>1. marking[c].to \in ShownFolders \cup {0} /\ ~MarkAt(d, "delete")
      BY <2>2, <2>7, MarkCalm DEF MarkingSound, MarkAt, Endangered
    <3>2. marking'[d] = marking[d]
      BY <2>2 DEF MarkEnds, MarkInv, MarkTypeOK
    <3> QED BY <2>3, <2>5, <2>7, <3>1, <3>2, MarkInserted
  <2> QED BY <2>2, <2>5, <2>6, <2>7, MarkEndKeeps
<1>2. CASE MarkImport(c)
  <2>1. PICK m \in MarkId, x \in MarkId :
          /\ m < x /\ NextMarks({m, x})
          /\ mark' = [mark EXCEPT ![m] = [st |-> "live", folder |-> TRUE, up |-> 0],
                                  ![x] = [st |-> "live", folder |-> FALSE, up |-> m]]
    BY <1>2 DEF MarkImport
  <2>2. UNCHANGED <<marking, markCalls, bmRaced>>
    BY <1>2 DEF MarkImport
  <2> DEFINE top == [st |-> "live", folder |-> TRUE, up |-> 0]
             leaf == [st |-> "live", folder |-> FALSE, up |-> m]
  <2>3. /\ top \in Mark /\ top.st = "live" /\ top.folder = TRUE /\ top.up = 0
        /\ leaf \in Mark /\ leaf.st = "live" /\ leaf.up = m
    BY DEF Mark
  <2>4. mark' = [mark EXCEPT ![m] = top, ![x] = leaf] /\ m # x
    BY <2>1 DEF MarkId
  <2> HIDE DEF top, leaf
  <2> DEFINE N == {m, x}
  <2>5. mark' = [y \in MarkId |-> IF y = x THEN leaf ELSE IF y = m THEN top ELSE mark[y]]
    <3>1. \A f \in [MarkId -> Mark] :
            [f EXCEPT ![m] = top, ![x] = leaf]
              = [y \in MarkId |-> IF y = x THEN leaf ELSE IF y = m THEN top ELSE f[y]]
      OBVIOUS
    <3> QED BY <1>0, <2>4, <3>1
  <2>6. /\ mark' \in [MarkId -> Mark] /\ mark'[m] = top /\ mark'[x] = leaf
        /\ N \in SUBSET FreeMarks /\ m \in N /\ N \ {m} = {x} /\ FreeMarks \subseteq MarkId
        /\ \A y \in MarkId \ N : mark'[y] = mark[y]
    <3>1. mark'[m] = top /\ mark'[x] = leaf /\ \A y \in MarkId \ N : mark'[y] = mark[y]
      BY <2>4, <2>5
    <3>2. mark' \in [MarkId -> Mark]
      BY <1>0, <2>3, <2>5
    <3>3. N \in SUBSET FreeMarks /\ m \in N /\ N \ {m} = {x}
      BY <2>1, <2>4 DEF NextMarks
    <3> QED BY <3>1, <3>2, <3>3, MarkSets
  <2> HIDE DEF N
  <2>9. ASSUME ~bmRaced, NEW d \in MarkCall
        PROVE  FoldersAbove' /\ NoLoop(Shown)' /\ MarkingSound(d)'
    <3>1. \A y \in N : mark'[y].st = "live"
      BY <2>3, <2>6
    <3>2. mark'[m].up = 0 /\ mark'[m].up \in ShownFolders \cup {0} /\ mark'[m].folder
      BY <2>3, <2>6
    <3>3. \A y \in N \ {m} : mark'[y].up = m /\ mark'[m].folder
      BY <2>3, <2>6, <3>2
    <3>4. marking'[d] = marking[d] /\ (MarkAt(d, "delete") => mark'[m].up = 0)
      BY <2>2, <3>2
    <3> QED BY <2>6, <2>9, <3>1, <3>2, <3>3, <3>4, MarkInserted
  <2>7. ~bmRaced => FoldersAbove' /\ NoLoop(Shown)' /\ \A d \in MarkCall : MarkingSound(d)'
    BY <2>9
  <2>8. MarkTypeOK'
    BY <2>2, <2>6 DEF MarkInv, MarkTypeOK
  <2> QED BY <2>2, <2>7, <2>8 DEF MarkInv
<1> QED BY <1>1, <1>2

-----------------------------------------------------------------------------
\* The write of a move.
LEMMA MarkMoveKeeps ==
  ASSUME MarkInv, NEW c \in MarkCall, MarkMoveWrite(c)
  PROVE  MarkInv'
<1> DEFINE r == marking[c]
<1>0. /\ mark \in [MarkId -> Mark] /\ r.step = "move" /\ r.id \in Shown
      /\ r.to \in MarkId \cup {0} /\ MarkEnds(c)
      /\ mark' = [mark EXCEPT ![r.id].up = r.to]
  BY DEF MarkMoveWrite, MarkAt, MarkInv, MarkTypeOK, MarkState
<1> DEFINE row == [st |-> mark[r.id].st, folder |-> mark[r.id].folder, up |-> r.to]
<1>1. /\ row \in Mark /\ row.st = "live" /\ row.folder = mark[r.id].folder /\ row.up = r.to
      /\ [mark[r.id] EXCEPT !.up = r.to] = row
  BY <1>0 DEF Mark, Shown
<1>2. mark' = [mark EXCEPT ![r.id] = row]
  BY <1>0, <1>1
<1> HIDE DEF row, r
<1>3. /\ mark' \in [MarkId -> Mark] /\ mark'[r.id] = row
      /\ \A x \in MarkId \ {r.id} : mark'[x] = mark[x]
  BY <1>0, <1>1, <1>2, MarkSets
<1>4. Shown' = Shown /\ ShownFolders' = ShownFolders /\ FreeMarks' = FreeMarks
  <2>1. \A x \in MarkId : mark'[x].st = mark[x].st /\ mark'[x].folder = mark[x].folder
    BY <1>0, <1>1, <1>3 DEF Shown
  <2> QED BY <2>1 DEF Shown, ShownFolders, FreeMarks
<1>5. ASSUME ~bmRaced
      PROVE  /\ FoldersAbove' /\ NoLoop(Shown)'
             /\ \A d \in MarkCall \ {c} : MarkingSound(d)'
  <2>1. r.to \in ShownFolders \cup {0}
    BY <1>0, <1>5 DEF MarkInv, MarkingSound, MarkAt, r
  <2>2. PICK U \in SUBSET Shown : /\ r.to \in U \cup {0} /\ r.id \notin U
                                 /\ \A x \in U : mark[x].up \in U \cup {0}
    BY <1>0, <1>5 DEF MarkInv, MarkingSound, MarkAt, r
  <2>3. FoldersAbove'
    BY <1>1, <1>3, <1>4, <1>5, <2>1, MarkSets DEF MarkInv, FoldersAbove
  <2>4. NoLoop(Shown)'
    <3> SUFFICES ASSUME NEW Y \in SUBSET Shown, Y # {} PROVE \E y \in Y : mark'[y].up \notin Y
      BY <1>4 DEF NoLoop
    <3>1. CASE Y \cap U = {}
      <4>1. CASE r.id \in Y
        BY <1>1, <1>3, <2>2, <3>1, <4>1, MarkSets
      <4>2. CASE r.id \notin Y
        <5>1. PICK y \in Y : mark[y].up \notin Y
          BY <1>5 DEF MarkInv, NoLoop
        <5> QED BY <1>3, <4>2, <5>1, MarkSets
      <4> QED BY <4>1, <4>2
    <3>2. CASE Y \cap U # {}
      <4>1. PICK y \in Y \cap U : mark[y].up \notin Y \cap U
        BY <1>5, <3>2 DEF MarkInv, NoLoop
      <4>2. mark[y].up \notin Y
        BY <2>2, <4>1, MarkSets
      <4> QED BY <1>3, <2>2, <4>1, <4>2, MarkSets
    <3> QED BY <3>1, <3>2
  <2>5. ASSUME NEW d \in MarkCall \ {c}
        PROVE  MarkingSound(d)'
    <3>1. /\ MarkingSound(d) /\ ~MarkAt(d, "move") /\ ~MarkAt(d, "delete")
          /\ marking'[d] = marking[d]
      <4>1. MarkingSound(d) /\ ~Endangered("move", marking[d].step) /\ ~Endangered(marking[d].step, "move")
        BY <1>0, <1>5, MarkCalm DEF r
      <4>2. marking'[d] = marking[d]
        BY <1>0 DEF MarkEnds, MarkInv, MarkTypeOK
      <4> QED BY <4>1, <4>2 DEF Endangered, MarkAt
    <3> QED BY <1>4, <3>1 DEF MarkingSound, MarkAt
  <2> QED BY <2>3, <2>4, <2>5
<1> QED BY <1>0, <1>3, <1>5, MarkEndKeeps

\* The write of a delete.
LEMMA MarkDeleteKeeps ==
  ASSUME MarkInv, NEW c \in MarkCall, MarkDeleteWrite(c)
  PROVE  MarkInv'
<1> DEFINE D == marking[c].ids \cap Shown
<1>0. /\ mark \in [MarkId -> Mark] /\ marking[c].step = "delete" /\ MarkEnds(c)
      /\ mark' = [m \in MarkId |-> IF m \in D THEN [mark[m] EXCEPT !.st = "deleted"] ELSE mark[m]]
  BY DEF MarkDeleteWrite, MarkAt, MarkInv, MarkTypeOK
<1> HIDE DEF D
<1>1. /\ \A m \in MarkId \ D : mark'[m] = mark[m]
      /\ \A m \in D : m \in MarkId => mark'[m] \in Mark /\ mark'[m].st = "deleted"
  BY <1>0 DEF Mark
<1>2. mark' \in [MarkId -> Mark]
  BY <1>0 DEF Mark
<1>3. /\ Shown' = Shown \ D /\ ShownFolders' = ShownFolders \ D /\ D \subseteq Shown
      /\ FreeMarks' = FreeMarks
  BY <1>1, MarkSets DEF D, Shown, ShownFolders, FreeMarks
<1>4. ASSUME ~bmRaced
      PROVE  /\ FoldersAbove' /\ NoLoop(Shown)'
             /\ \A d \in MarkCall \ {c} : MarkingSound(d)'
  <2>1. /\ \A x \in Shown : mark[x].up \in marking[c].ids => x \in marking[c].ids
        /\ \A x \in Shown : mark[x].up \in ShownFolders \cup {0}
    BY <1>0, <1>4 DEF MarkInv, MarkingSound, MarkAt, FoldersAbove
  <2>2. \A x \in Shown \ D : mark[x].up \notin D /\ mark'[x] = mark[x]
    BY <1>1, <2>1, MarkSets DEF D
  <2>3. FoldersAbove'
    BY <1>3, <2>1, <2>2 DEF FoldersAbove
  <2>4. NoLoop(Shown)'
    BY <1>3, <1>4, <2>2 DEF MarkInv, NoLoop
  <2>5. ASSUME NEW d \in MarkCall \ {c}
        PROVE  MarkingSound(d)'
    <3>1. /\ MarkingSound(d) /\ ~MarkAt(d, "create") /\ ~MarkAt(d, "move")
          /\ marking'[d] = marking[d]
      <4>1. MarkingSound(d) /\ ~Endangered("delete", marking[d].step)
        BY <1>0, <1>4, MarkCalm
      <4>2. marking'[d] = marking[d]
        BY <1>0 DEF MarkEnds, MarkInv, MarkTypeOK
      <4> QED BY <4>1, <4>2 DEF Endangered, MarkAt
    <3> QED BY <1>3, <2>2, <3>1 DEF MarkingSound, MarkAt
  <2> QED BY <2>3, <2>4, <2>5
<1> QED BY <1>0, <1>2, <1>4, MarkEndKeeps

LEMMA MarkAbandonKeeps ==
  ASSUME MarkInv, NEW c \in MarkCall, MarkAbandon(c)
  PROVE  MarkInv'
<1>1. MarkEnds(c) /\ mark' = mark /\ mark \in [MarkId -> Mark]
  BY DEF MarkAbandon, MarkInv, MarkTypeOK
<1>2. \A d \in MarkCall \ {c} : marking'[d] = marking[d]
  BY <1>1 DEF MarkEnds, MarkInv, MarkTypeOK
<1>3. Shown' = Shown /\ ShownFolders' = ShownFolders /\ FreeMarks' = FreeMarks
  BY <1>1 DEF Shown, ShownFolders, FreeMarks
<1>4. ASSUME ~bmRaced
      PROVE  FoldersAbove' /\ NoLoop(Shown)' /\ \A d \in MarkCall \ {c} : MarkingSound(d)'
  <2>1. FoldersAbove' /\ NoLoop(Shown)'
    BY <1>1, <1>3, <1>4 DEF MarkInv, FoldersAbove, NoLoop
  <2>2. \A d \in MarkCall \ {c} : MarkingSound(d)'
    BY <1>1, <1>2, <1>3, <1>4 DEF MarkInv, MarkingSound, MarkAt
  <2> QED BY <2>1, <2>2
<1> QED BY <1>1, <1>4, MarkEndKeeps

LEMMA MarkKept == MarkInv /\ [MarkNext]_markVars => MarkInv'
<1> SUFFICES ASSUME MarkInv, [MarkNext]_markVars PROVE MarkInv'
  OBVIOUS
<1>1. CASE UNCHANGED markVars
  <2>1. Shown' = Shown /\ ShownFolders' = ShownFolders /\ FreeMarks' = FreeMarks /\ mark' = mark
    BY <1>1 DEF markVars, Shown, ShownFolders, FreeMarks
  <2>2. marking' = marking /\ markCalls' = markCalls /\ (bmRaced' = bmRaced)
    BY <1>1 DEF markVars
  <2>3. MarkTypeOK'
    BY <2>1, <2>2 DEF MarkInv, MarkTypeOK
  <2> QED BY <2>1, <2>2, <2>3 DEF MarkInv, FoldersAbove, NoLoop, MarkingSound, MarkAt
<1>2. ASSUME NEW c \in MarkCall,
             \/ \E p \in MarkId \cup {0}, folder \in BOOLEAN : MarkCreateBegin(c, p, folder)
             \/ \E m \in MarkId, p \in MarkId \cup {0} : MarkMoveBegin(c, m, p)
             \/ \E m \in MarkId : MarkDeleteBegin(c, m)
      PROVE  MarkInv'
  BY <1>2, MarkBeginsKeep
<1>3. ASSUME NEW c \in MarkCall, MarkCreateWrite(c) \/ MarkImport(c) PROVE MarkInv'
  BY <1>3, MarkInsertsKeep
<1>4. ASSUME NEW c \in MarkCall, MarkMoveWrite(c) PROVE MarkInv'
  BY <1>4, MarkMoveKeeps
<1>5. ASSUME NEW c \in MarkCall, MarkDeleteWrite(c) PROVE MarkInv'
  BY <1>5, MarkDeleteKeeps
<1>6. ASSUME NEW c \in MarkCall, MarkAbandon(c) PROVE MarkInv'
  BY <1>6, MarkAbandonKeeps
<1> QED BY <1>1, <1>2, <1>3, <1>4, <1>5, <1>6 DEF MarkNext

\* Rows that no top row has below it would hang from each other.
LEMMA MarkInvShows == MarkInv => BookmarksShown
<1> SUFFICES ASSUME MarkInv, ~bmRaced, NEW m \in Shown
             PROVE  \E top \in Shown : mark[top].up = 0 /\ m \in Below(top)
  BY DEF BookmarksShown
<1> DEFINE Y == {x \in Shown : \A top \in Shown : mark[top].up = 0 => x \notin Below(top)}
<1>1. ASSUME Y # {} PROVE FALSE
  <2>1. PICK y \in Y : mark[y].up \notin Y
    <3>1. Y \in SUBSET Shown
      OBVIOUS
    <3> HIDE DEF Y
    <3> QED BY <1>1, <3>1 DEF MarkInv, NoLoop
  <2>2. mark[y].up # 0
    BY BelowIs
  <2>3. mark[y].up \in Shown
    BY <2>2, MarkSets DEF MarkInv, FoldersAbove
  <2>4. PICK top \in Shown : mark[top].up = 0 /\ mark[y].up \in Below(top)
    BY <2>1, <2>3
  <2> QED BY <2>4, BelowIs
<1> QED BY <1>1

\* Bookmarks and the requests that change them have their types in every state
\* (MarkTypeOK).
THEOREM MarkTypes == MarkSpec => []MarkTypeOK
<1>1. MarkInv => MarkTypeOK
  BY DEF MarkInv
<1> QED BY <1>1, MarksStart, MarkKept, PTL DEF MarkSpec

\* Every bookmark that is not deleted is in the tree that is shown, unless two moves,
\* or a delete and a create or a move, overlapped (BookmarksShown).
THEOREM BookmarksStayShown == MarkSpec => []BookmarksShown
BY MarksStart, MarkKept, MarkInvShows, PTL DEF MarkSpec
=============================================================================
