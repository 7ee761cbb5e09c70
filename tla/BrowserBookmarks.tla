--------------------------- MODULE BrowserBookmarks ---------------------------
(***************************************************************************)
(* The browser bookmarks of one user: folders and links in a tree without a *)
(* root row.  Every mutation is a READ COMMITTED transaction that checks   *)
(* what is committed and then writes, under no lock but those of the rows  *)
(* it writes.  Titles, links and the order of siblings are left out.       *)
(***************************************************************************)
EXTENDS Integers

CONSTANTS
  MarkCount,     \* bound: rows ever created
  MarkCall,      \* requests in progress at the same time
  MaxMarkCalls   \* bound: requests made in a behaviour

ASSUME MarkBounds == MarkCount \in Nat /\ MaxMarkCalls \in Nat

MarkId == 1 .. MarkCount

\* Parent 0 is the NULL parent of a row at the top.
Mark == [st : {"free", "live", "deleted"}, folder : BOOLEAN, up : MarkId \cup {0}]

VARIABLES
  mark,       \* the committed rows
  marking,    \* what each request is doing
  markCalls,  \* requests made so far
  bmRaced     \* history: two requests that endanger the tree overlapped

markVars == <<mark, marking, markCalls, bmRaced>>

MarkIdle == [step |-> "idle"]
MarkState == [step : {"idle"}] \cup [step : {"create"}, to : MarkId \cup {0}, folder : BOOLEAN]
             \cup [step : {"move"}, id : MarkId, to : MarkId \cup {0}, siblings : SUBSET MarkId]
             \cup [step : {"delete"}, ids : SUBSET MarkId]

Shown == {m \in MarkId : mark[m].st = "live"}
ShownFolders == {m \in Shown : mark[m].folder}
FreeMarks == {m \in MarkId : mark[m].st = "free"}

\* The recursive query of SoftDeleteTreeOwnerByID: m and all below it.
Below(m) ==
  LET level[k \in 0 .. MarkCount] ==
        IF k = 0 THEN {m}
        ELSE LET up == level[k - 1] IN up \cup {x \in Shown : mark[x].up \in up}
  IN level[MarkCount]

Looped(m) == mark[m].up \in Below(m)

\* ensureParentFolder
IsFolder(p) == p = 0 \/ p \in ShownFolders

\* The loop of ensureMoveTarget up from p: whether it meets m, and whether it
\* ends at all (it does not below a loop that m is not part of).
WalkMeets(p, m) == p \in Below(m)
WalkEnds(p) == \A x \in Shown : p \in Below(x) => ~Looped(x)

-----------------------------------------------------------------------------
Endangered(s, other) ==
  \/ s = "move" /\ other = "move"
  \/ s = "delete" /\ other \in {"create", "move"}

MarkBegins(c, rec) ==
  /\ marking[c] = MarkIdle
  /\ markCalls < MaxMarkCalls
  /\ markCalls' = markCalls + 1
  /\ marking' = [marking EXCEPT ![c] = rec]
  /\ bmRaced' = (bmRaced \/ \E d \in MarkCall \ {c} :
                   Endangered(rec.step, marking[d].step) \/ Endangered(marking[d].step, rec.step))
  /\ UNCHANGED mark

MarkEnds(c) ==
  /\ marking' = [marking EXCEPT ![c] = MarkIdle]
  /\ UNCHANGED <<markCalls, bmRaced>>

MarkAt(c, s) == marking[c].step = s

\* The sequence hands out the ids in their order.
NextMarks(S) == S \subseteq FreeMarks /\ \A m \in FreeMarks \ S, x \in S : x < m

MarkCreateBegin(c, p, folder) ==
  /\ IsFolder(p)
  /\ MarkBegins(c, [step |-> "create", to |-> p, folder |-> folder])

MarkCreateWrite(c) ==
  /\ MarkAt(c, "create")
  /\ \E m \in MarkId :
       /\ NextMarks({m})
       /\ mark' = [mark EXCEPT ![m] =
                     [st |-> "live", folder |-> marking[c].folder, up |-> marking[c].to]]
  /\ MarkEnds(c)

\* Move: the target is checked and its children are listed ...
MarkMoveBegin(c, m, p) ==
  /\ m \in Shown
  /\ p # m
  /\ IsFolder(p)
  /\ (mark[m].folder /\ p # 0) => (WalkEnds(p) /\ ~WalkMeets(p, m))
  /\ MarkBegins(c, [step |-> "move", id |-> m, to |-> p,
                    siblings |-> {x \in Shown \ {m} : mark[x].up = p}])

\* ... and the row and the order of its new siblings are written, each of
\* which must still be there.
MarkMoveWrite(c) ==
  /\ MarkAt(c, "move")
  /\ marking[c].siblings \cup {marking[c].id} \subseteq Shown
  /\ mark' = [mark EXCEPT ![marking[c].id].up = marking[c].to]
  /\ MarkEnds(c)

\* Delete is one statement that finds the rows as they are when it starts ...
MarkDeleteBegin(c, m) ==
  /\ m \in Shown
  /\ ~Looped(m)
  /\ MarkBegins(c, [step |-> "delete", ids |-> Below(m)])

\* ... and deletes those that are not deleted yet when it comes to them.
MarkDeleteWrite(c) ==
  /\ MarkAt(c, "delete")
  /\ mark' = [m \in MarkId |-> IF m \in marking[c].ids \cap Shown
                               THEN [mark[m] EXCEPT !.st = "deleted"] ELSE mark[m]]
  /\ MarkEnds(c)

\* Import inserts folders with their children at the top, in one transaction.
MarkImport(c) ==
  /\ marking[c] = MarkIdle
  /\ \E m, x \in MarkId :
       /\ m < x
       /\ NextMarks({m, x})
       /\ mark' = [mark EXCEPT ![m] = [st |-> "live", folder |-> TRUE, up |-> 0],
                               ![x] = [st |-> "live", folder |-> FALSE, up |-> m]]
  /\ UNCHANGED <<marking, markCalls, bmRaced>>

\* An error or a dry run: the transaction is rolled back.
MarkAbandon(c) ==
  /\ marking[c] # MarkIdle
  /\ MarkEnds(c)
  /\ UNCHANGED mark

-----------------------------------------------------------------------------
MarkStart ==
  /\ mark = [m \in MarkId |-> [st |-> "free", folder |-> FALSE, up |-> 0]]
  /\ marking = [c \in MarkCall |-> MarkIdle]
  /\ markCalls = 0
  /\ bmRaced = FALSE

MarkNext ==
  \E c \in MarkCall :
    \/ \E p \in MarkId \cup {0}, folder \in BOOLEAN : MarkCreateBegin(c, p, folder)
    \/ MarkCreateWrite(c)
    \/ \E m \in MarkId, p \in MarkId \cup {0} : MarkMoveBegin(c, m, p)
    \/ MarkMoveWrite(c)
    \/ \E m \in MarkId : MarkDeleteBegin(c, m)
    \/ MarkDeleteWrite(c)
    \/ MarkImport(c)
    \/ MarkAbandon(c)

MarkSpec == MarkStart /\ [][MarkNext]_markVars

-----------------------------------------------------------------------------
(* Properties. *)

MarkTypeOK ==
  /\ mark \in [MarkId -> Mark]
  /\ marking \in [MarkCall -> MarkState]
  /\ markCalls \in 0 .. MaxMarkCalls
  /\ bmRaced \in BOOLEAN

\* Every bookmark that is not deleted is in the tree that is shown, however
\* creates, moves, deletes and imports follow one another and overlap, unless
\* two moves, or a delete and a create or move, overlapped.
BookmarksShown ==
  ~bmRaced => \A m \in Shown : \E top \in Shown : mark[top].up = 0 /\ m \in Below(top)
=============================================================================
