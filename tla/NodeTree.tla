------------------------------ MODULE NodeTree ------------------------------
(***************************************************************************)
(* The tree of nodes of one library, its recycle bin and its root.         *)
(*                                                                         *)
(* A row of the table nodes is soft-deleted into the recycle bin and only  *)
(* purged from there.  Every mutation is a READ COMMITTED transaction: a   *)
(* few statements that read what is committed (and what the transaction    *)
(* wrote itself), then the statement that writes.  A client is one request *)
(* in progress; its statements interleave with those of the others.        *)
(* Transactions that write more than once (a create that first repairs the *)
(* tree, a clear of the recycle bin) keep their writes in pend until they  *)
(* commit, and others wait for the rows they touched.                      *)
(*                                                                         *)
(* A name stands for the visible name (name and extension) of a node.      *)
(* Sort orders, metadata, stored content and audit are left out.           *)
(***************************************************************************)
EXTENDS Integers, FiniteSets

CONSTANTS
  NodeCount,    \* bound: how many rows are ever created
  NodeName,     \* visible names
  RootName,     \* defaultRootNodeName
  Client,       \* requests in progress at the same time
  MaxCalls,     \* bound: how many mutations are started in a behaviour
  InitTrees     \* the contents of the table a behaviour starts from

ASSUME TreeCount == NodeCount \in Nat
ASSUME TreeRoot  == RootName \in NodeName
ASSUME TreeCalls == MaxCalls \in Nat

NodeId == 1 .. NodeCount

\* A row, or the absence of one: an id not yet used is free, one whose row
\* was deleted for good is purged.  Parent 0 is the NULL parent.
Row == [st : {"free", "live", "deleted", "purged"}, dir : BOOLEAN,
        parent : NodeId \cup {0}, name : NodeName]

ASSUME TreeInit == \A t \in InitTrees :
                     /\ t \in [NodeId -> Row]
                     /\ \A n \in NodeId : t[n].st \in {"free", "live", "deleted"}

Kind == {"none", "create", "rename", "move", "delete", "restore", "purge",
         "clear", "repair"}

VARIABLES
  node,     \* the committed rows of the library
  call,     \* what each client is doing: operation, arguments, what it read
  pend,     \* the uncommitted writes of each client's transaction
  calls,    \* mutations started so far
  raced,    \* history: two mutations that endanger the tree overlapped
  solo      \* history: the client whose call has overlapped no other one

treeVars == <<node, call, pend, calls, raced, solo>>

IdleCall == [kind |-> "none", step |-> "idle", sel |-> 0, dst |-> 0, old |-> 0,
             name |-> RootName, dir |-> TRUE, ids |-> {}, tops |-> {}]

Call == [kind : Kind, step : {"idle", "read", "found", "checked", "listed"},
         sel : NodeId \cup {0}, dst : NodeId \cup {0}, old : NodeId \cup {0},
         name : NodeName, dir : BOOLEAN, ids : SUBSET NodeId, tops : SUBSET NodeId]

-----------------------------------------------------------------------------
(* What a statement sees. *)

View(c) == [n \in NodeId |-> IF n \in DOMAIN pend[c] THEN pend[c][n] ELSE node[n]]

Live(v)    == {n \in NodeId : v[n].st = "live"}
Deleted(v) == {n \in NodeId : v[n].st = "deleted"}
Stored(v)  == Live(v) \cup Deleted(v)
LiveDirs(v) == {n \in Live(v) : v[n].dir}

\* The recursive queries: n and everything below it among the rows in S.
Subtree(v, n, S) ==
  LET level[k \in 0 .. NodeCount] ==
        IF k = 0 THEN {n} \cap S
        ELSE LET up == level[k - 1] IN up \cup {m \in S : v[m].parent \in up}
  IN  level[NodeCount]

\* ... and n and everything above it.
Ancestors(v, n, S) == {m \in S : n \in Subtree(v, m, S)}

\* UNION ALL never ends when it comes back to where it was.
OnCycle(v, n, S) == n \in S /\ v[n].parent \in Subtree(v, n, S)
DownEnds(v, n, S) == ~OnCycle(v, n, S)
UpEnds(v, n, S) == \A m \in Ancestors(v, n, S) : ~OnCycle(v, m, S)

\* hasDuplicateVisibleName
Taken(v, p, nm, self) ==
  \E m \in Live(v) \ {self} : v[m].parent = p /\ v[m].name = nm

\* uq_nodes_live_sibling_visible_name would be violated by the rows v.
Clash(v) ==
  \E m, n \in Live(v) :
    m # n /\ v[m].parent = v[n].parent /\ v[m].name = v[n].name

\* Rows nobody else has written without committing.
Unlocked(c, S) == \A d \in Client \ {c} : S \cap DOMAIN pend[d] = {}

\* No other transaction is about to commit a live row of that name there.
KeyFree(c, p, nm) ==
  \A d \in Client \ {c} : \A m \in DOMAIN pend[d] :
    ~(pend[d][m].st = "live" /\ pend[d][m].parent = p /\ pend[d][m].name = nm)

\* The ids the sequence has not handed out, the smallest first.
FreeIds == {n \in NodeId : node[n].st = "free" /\ \A d \in Client : n \notin DOMAIN pend[d]}
IsNextId(n) == n \in FreeIds /\ \A m \in FreeIds : n <= m

-----------------------------------------------------------------------------
(* Calls. *)

\* Calls that give rows below dst a new parent: a repair, and a create that found
\* something to repair (ids are the rows it wrote).
Repairs(a) == a.kind = "repair" \/ (a.kind = "create" /\ a.ids # {})

\* The parents whose move locks a move holds.
MoveScope(a) == {a.old, a.dst}

\* The pairs of mutations that must not overlap if the tree is to stay whole: two
\* moves that have no lock in common, two repairs that found different roots, the
\* move of a root and a repair below it, a restore with a purge, a clear or a
\* delete, and a delete with what puts a node into a directory it has listed.
Endangers(a, b) ==
  \/ a.kind = "move" /\ b.kind = "move" /\ MoveScope(a) \cap MoveScope(b) = {}
  \/ a.kind = "move" /\ Repairs(b) /\ a.sel = b.dst
  \/ Repairs(a) /\ Repairs(b) /\ a.dst # b.dst
  \/ a.kind \in {"purge", "clear", "delete"} /\ b.kind = "restore"
  \/ a.kind = "delete" /\ b.kind \in {"create", "move", "repair"} /\ b.dst \in a.ids

Ready(c) == call[c].kind = "none" /\ calls < MaxCalls

Begin(c, rec) ==
  /\ calls' = calls + 1
  /\ call' = [call EXCEPT ![c] = rec]
  /\ raced' = (raced \/ \E d \in Client \ {c} :
                 Endangers(rec, call[d]) \/ Endangers(call[d], rec))
  /\ solo' = IF \A d \in Client \ {c} : call[d].kind = "none" THEN {c} ELSE {}

At(c, k, s) == call[c].kind = k /\ call[c].step = s

\* The call goes on: its record changes, nothing is committed.
Goes(c, rec) ==
  /\ call' = [call EXCEPT ![c] = rec]
  /\ UNCHANGED <<node, pend, calls, raced, solo>>

Return(c) ==
  /\ call' = [call EXCEPT ![c] = IdleCall]
  /\ pend' = [pend EXCEPT ![c] = <<>>]
  /\ UNCHANGED <<calls, raced, solo>>

\* The transaction ends without a commit: an error return, a violated unique
\* index, a dry run, a lost connection.
Abandon(c) ==
  /\ call[c].kind # "none"
  /\ Return(c)
  /\ UNCHANGED node

-----------------------------------------------------------------------------
(* The root of the library and the repair of parent references. *)

Roots(v) == {n \in LiveDirs(v) : v[n].parent = 0}

\* findLibraryRootNode: the oldest of them.
IsRoot(v, r) == r \in Roots(v) /\ \A n \in Roots(v) : r <= n

RootRow == [st |-> "live", dir |-> TRUE, parent |-> 0, name |-> RootName]

\* A Target that leaves live rows below deleted ones.
Target_StoredParent(v, root, n) ==
  LET p == v[n].parent IN
  IF n = root THEN 0 ELSE IF p \in {0, n} \/ p \notin Stored(v) \/ ~v[p].dir THEN root ELSE p

\* The parent repairParentReferences gives a row.
Target(v, root, n) ==
  LET p == v[n].parent IN
  IF n = root THEN 0
  ELSE IF \/ p = 0
          \/ p = n
          \/ p \notin Stored(v)
          \/ ~v[p].dir
          \/ v[n].st = "live" /\ v[p].st = "deleted"
       THEN root
       ELSE p

Broken(v, root) == {n \in Stored(v) : Target(v, root, n) # v[n].parent}

Repaired(v, root) ==
  [n \in Broken(v, root) |-> [v[n] EXCEPT !.parent = Target(v, root, n)]]

\* EnsureLibraryRootNodeID outside a transaction: the root is found, or
\* inserted and committed by itself.
RepairBegin(c) ==
  \/ \E r \in NodeId :
       /\ Ready(c)
       /\ IsRoot(node, r)
       /\ Begin(c, [IdleCall EXCEPT !.kind = "repair", !.step = "read", !.dst = r])
       /\ UNCHANGED <<node, pend>>
  \/ \E r \in NodeId :
       /\ Ready(c)
       /\ Roots(node) = {}
       /\ IsNextId(r)
       /\ ~Taken(node, 0, RootName, r)
       /\ KeyFree(c, 0, RootName)
       /\ Begin(c, [IdleCall EXCEPT !.kind = "repair", !.step = "read", !.dst = r])
       /\ node' = [node EXCEPT ![r] = RootRow]
       /\ UNCHANGED pend

\* Every row of the library is read, deleted ones included.
RepairRead(c) ==
  /\ At(c, "repair", "read")
  /\ Goes(c, [call[c] EXCEPT !.step = "listed", !.ids = Broken(node, call[c].dst)])

\* One wrong parent is overwritten, whatever the row has become meanwhile.
RepairWrite(c) ==
  /\ At(c, "repair", "listed")
  /\ \E n \in call[c].ids :
       LET root == call[c].dst
           to   == IF n = root THEN 0 ELSE root
           v    == IF n \in Stored(node) THEN [node EXCEPT ![n].parent = to] ELSE node
       IN /\ Unlocked(c, {n})
          /\ ~Clash(v)
          /\ n \in Live(node) => KeyFree(c, to, node[n].name)
          /\ node' = v
          /\ call' = [call EXCEPT ![c].ids = @ \ {n}]
          /\ UNCHANGED <<pend, calls, raced, solo>>

-----------------------------------------------------------------------------
(* Creating, renaming and moving. *)

\* resolveCreateParentID: the parent asked for, or the library's root, which
\* the transaction finds or inserts and repairs without committing it yet.
CreateBegin(c, p, nm, d) ==
  LET rec == [IdleCall EXCEPT !.kind = "create", !.step = "read", !.name = nm, !.dir = d] IN
  \/ /\ Ready(c)
     /\ p \in LiveDirs(node)
     /\ Begin(c, [rec EXCEPT !.dst = p])
     /\ UNCHANGED <<node, pend>>
  \/ /\ Ready(c)
     /\ p \notin Live(node)
     /\ \E r \in NodeId :
          /\ IsRoot(node, r)
          /\ Unlocked(c, Broken(node, r))
          /\ ~Clash([n \in NodeId |-> IF n \in Broken(node, r) THEN Repaired(node, r)[n] ELSE node[n]])
          /\ Begin(c, [rec EXCEPT !.dst = r, !.ids = Broken(node, r)])
          /\ pend' = [pend EXCEPT ![c] = Repaired(node, r)]
          /\ UNCHANGED node
  \/ /\ Ready(c)
     /\ p \notin Live(node)
     /\ Roots(node) = {}
     /\ \E r \in NodeId :
          LET v == [node EXCEPT ![r] = RootRow] IN
          /\ IsNextId(r)
          /\ ~Taken(node, 0, RootName, r)
          /\ KeyFree(c, 0, RootName)
          /\ Unlocked(c, Broken(v, r))
          /\ ~Clash([n \in NodeId |-> IF n \in Broken(v, r) THEN Repaired(v, r)[n] ELSE v[n]])
          /\ Begin(c, [rec EXCEPT !.dst = r, !.ids = Broken(v, r) \cup {r}])
          /\ pend' = [pend EXCEPT ![c] = [n \in Broken(v, r) \cup {r} |->
                        IF n = r THEN RootRow ELSE Repaired(v, r)[n]]]
          /\ UNCHANGED node

\* LockSiblingNameScope, then the name (kept, or renamed automatically when it
\* is taken), the parent and the duplicate check.
CreateCheck(c) ==
  /\ At(c, "create", "read")
  /\ \A d \in Client \ {c} : At(d, "create", "checked") => call[d].dst # call[c].dst
  /\ LET v == View(c)
         p == call[c].dst
     IN /\ p \in LiveDirs(v)
        /\ \E nm \in NodeName :
             /\ ~Taken(v, p, nm, 0)
             /\ ~Taken(v, p, call[c].name, 0) => nm = call[c].name
             /\ Goes(c, [call[c] EXCEPT !.step = "checked", !.name = nm])

\* The row is inserted and the transaction commits.
CreateInsert(c) ==
  /\ At(c, "create", "checked")
  /\ \E n \in NodeId :
       LET row == [st |-> "live", dir |-> call[c].dir, parent |-> call[c].dst,
                   name |-> call[c].name]
           v == [View(c) EXCEPT ![n] = row]
       IN /\ IsNextId(n)
          /\ ~Clash(v)
          /\ KeyFree(c, row.parent, row.name)
          /\ node' = v
          /\ Return(c)

RenameBegin(c, n, nm) ==
  /\ Ready(c)
  /\ n \in Live(node)
  /\ ~Taken(node, node[n].parent, nm, n)
  /\ Begin(c, [IdleCall EXCEPT !.kind = "rename", !.step = "checked", !.sel = n, !.name = nm])
  /\ UNCHANGED <<node, pend>>

RenameWrite(c) ==
  /\ At(c, "rename", "checked")
  /\ LET n == call[c].sel
         v == [node EXCEPT ![n].name = call[c].name]
     IN /\ n \in Live(node)
        /\ Unlocked(c, {n})
        /\ ~Clash(v)
        /\ KeyFree(c, node[n].parent, call[c].name)
        /\ node' = v
  /\ Return(c)

\* MoveBatch's checks and MoveNode's read of the parent to move from.  The
\* name to check in the target directory is the one given, or the node's own.
MoveBegin(c, n, p, nm) ==
  /\ Ready(c)
  /\ n \in Live(node)
  /\ p \in Live(node)
  /\ UpEnds(node, n, Live(node))
  /\ UpEnds(node, p, Live(node))
  /\ n \notin Ancestors(node, p, Live(node))
  /\ Begin(c, [IdleCall EXCEPT !.kind = "move", !.step = "read", !.sel = n, !.dst = p,
                               !.old = node[n].parent, !.name = nm])
  /\ UNCHANGED <<node, pend>>

\* lockMoveScope on both parents, then the target and the descendants.
MoveCheck(c) ==
  LET n == call[c].sel
      p == call[c].dst
  IN /\ At(c, "move", "read")
     /\ \A d \in Client \ {c} :
          At(d, "move", "checked") => MoveScope(call[d]) \cap MoveScope(call[c]) = {}
     /\ p \in LiveDirs(node)
     /\ DownEnds(node, n, Live(node))
     /\ p \notin Subtree(node, n, Live(node))
     /\ ~Taken(node, p, call[c].name, n)
     /\ Goes(c, [call[c] EXCEPT !.step = "checked"])

MoveWrite(c) ==
  /\ At(c, "move", "checked")
  /\ LET n == call[c].sel
         v == [node EXCEPT ![n].parent = call[c].dst]
     IN /\ n \in Live(node)
        /\ Unlocked(c, {n})
        /\ ~Clash(v)
        /\ KeyFree(c, call[c].dst, node[n].name)
        /\ node' = v
  /\ Return(c)

-----------------------------------------------------------------------------
(* The recycle bin. *)

With(v, S, st) == [n \in NodeId |-> IF n \in S THEN [v[n] EXCEPT !.st = st] ELSE v[n]]

\* DeleteTree lists the live subtree ...
DeleteBegin(c, n) ==
  /\ Ready(c)
  /\ n \in Live(node)
  /\ DownEnds(node, n, Live(node))
  /\ Begin(c, [IdleCall EXCEPT !.kind = "delete", !.step = "listed",
                               !.ids = Subtree(node, n, Live(node))])
  /\ UNCHANGED <<node, pend>>

\* ... and soft-deletes what is still live of it.
DeleteWrite(c) ==
  /\ At(c, "delete", "listed")
  /\ Unlocked(c, call[c].ids)
  /\ node' = With(node, call[c].ids \cap Live(node), "deleted")
  /\ Return(c)

\* A RestoreBegin that does not look at the parent.
RestoreBegin_AnyParent(c, n) ==
  LET ids == Subtree(node, n, Stored(node)) IN
  /\ Ready(c)
  /\ n \in Deleted(node)
  /\ DownEnds(node, n, Stored(node))
  /\ \A m \in ids \cap Deleted(node) :
       node[m].parent \notin ids => ~Taken(node, node[m].parent, node[m].name, m)
  /\ Begin(c, [IdleCall EXCEPT !.kind = "restore", !.step = "listed", !.ids = ids])
  /\ UNCHANGED <<node, pend>>

\* RestoreTree: a row whose parent is not restored with it needs a live parent
\* and a free name there.
RestoreBegin(c, n) ==
  LET ids == Subtree(node, n, Stored(node)) IN
  /\ Ready(c)
  /\ n \in Deleted(node)
  /\ DownEnds(node, n, Stored(node))
  /\ \A m \in ids \cap Deleted(node) :
       node[m].parent \notin ids =>
         /\ node[m].parent # 0 => node[m].parent \in Live(node)
         /\ ~Taken(node, node[m].parent, node[m].name, m)
  /\ Begin(c, [IdleCall EXCEPT !.kind = "restore", !.step = "listed", !.ids = ids])
  /\ UNCHANGED <<node, pend>>

RestoreWrite(c) ==
  /\ At(c, "restore", "listed")
  /\ LET back == call[c].ids \cap Deleted(node)
         v    == With(node, back, "live")
     IN /\ Unlocked(c, call[c].ids)
        /\ ~Clash(v)
        /\ \A n \in back : KeyFree(c, node[n].parent, node[n].name)
        /\ node' = v
  /\ Return(c)

\* HardDeleteTree finds a node in the recycle bin ...
PurgeBegin(c, n) ==
  /\ Ready(c)
  /\ n \in Deleted(node)
  /\ Begin(c, [IdleCall EXCEPT !.kind = "purge", !.step = "found", !.sel = n])
  /\ UNCHANGED <<node, pend>>

\* ... lists its subtree, whatever has become of it, ...
PurgeList(c) ==
  LET v == View(c)
      n == call[c].sel
  IN /\ call[c].kind \in {"purge", "clear"} /\ call[c].step = "found"
     /\ DownEnds(v, n, Stored(v))
     /\ Goes(c, [call[c] EXCEPT !.step = "listed", !.ids = Subtree(v, n, Stored(v))])

\* A PurgeWrite that deletes whatever was listed.
PurgeWrite_AllListed(c) ==
  /\ At(c, "purge", "listed")
  /\ Unlocked(c, call[c].ids)
  /\ node' = With(node, call[c].ids, "purged")
  /\ Return(c)

\* ... and deletes what is in the recycle bin of it.
PurgeWrite(c) ==
  /\ At(c, "purge", "listed")
  /\ Unlocked(c, call[c].ids)
  /\ node' = With(node, call[c].ids \cap Deleted(node), "purged")
  /\ Return(c)

\* ClearRecycleBin lists the topmost deleted rows before its transaction, ...
ClearBegin(c) ==
  LET top == {n \in Deleted(node) : node[n].parent \notin Deleted(node)} IN
  /\ Ready(c)
  /\ top # {}
  /\ Begin(c, [IdleCall EXCEPT !.kind = "clear", !.step = "read", !.tops = top])
  /\ UNCHANGED <<node, pend>>

\* ... finds them one after the other, skipping those that are gone (one that was
\* restored in the meantime fails the transaction), lists what is below as a purge
\* does, ...
ClearFind(c) ==
  /\ At(c, "clear", "read")
  /\ \E n \in call[c].tops \ Live(View(c)) :
       Goes(c, [call[c] EXCEPT !.sel = n, !.tops = @ \ {n},
                               !.step = IF n \in Deleted(View(c)) THEN "found" ELSE "read"])

\* ... and deletes what is in the recycle bin of it.
ClearWrite(c) ==
  LET gone == call[c].ids \cap Deleted(View(c)) IN
  /\ At(c, "clear", "listed")
  /\ Unlocked(c, call[c].ids)
  /\ pend' = [pend EXCEPT ![c] = [m \in DOMAIN @ \cup gone |-> With(View(c), gone, "purged")[m]]]
  /\ call' = [call EXCEPT ![c].step = "read", ![c].ids = {}]
  /\ UNCHANGED <<node, calls, raced, solo>>

ClearCommit(c) ==
  /\ At(c, "clear", "read")
  /\ call[c].tops = {}
  /\ node' = View(c)
  /\ Return(c)

-----------------------------------------------------------------------------
TreeStart ==
  /\ node \in InitTrees
  /\ call = [c \in Client |-> IdleCall]
  /\ pend = [c \in Client |-> <<>>]
  /\ calls = 0
  /\ raced = FALSE
  /\ solo = {}

TreeNext ==
  \E c \in Client :
    \/ \E p \in NodeId \cup {0}, nm \in NodeName, d \in BOOLEAN : CreateBegin(c, p, nm, d)
    \/ CreateCheck(c)
    \/ CreateInsert(c)
    \/ \E n \in NodeId, nm \in NodeName : RenameBegin(c, n, nm)
    \/ RenameWrite(c)
    \/ \E n, p \in NodeId, nm \in NodeName : MoveBegin(c, n, p, nm)
    \/ MoveCheck(c)
    \/ MoveWrite(c)
    \/ \E n \in NodeId : DeleteBegin(c, n)
    \/ DeleteWrite(c)
    \/ \E n \in NodeId : RestoreBegin(c, n)
    \/ RestoreWrite(c)
    \/ \E n \in NodeId : PurgeBegin(c, n)
    \/ PurgeList(c)
    \/ PurgeWrite(c)
    \/ ClearBegin(c)
    \/ ClearFind(c)
    \/ ClearWrite(c)
    \/ ClearCommit(c)
    \/ RepairBegin(c)
    \/ RepairRead(c)
    \/ RepairWrite(c)
    \/ Abandon(c)

TreeSpec == TreeStart /\ [][TreeNext]_treeVars

-----------------------------------------------------------------------------
(* Properties. *)

TreeTypeOK ==
  /\ node \in [NodeId -> Row]
  /\ call \in [Client -> Call]
  /\ \A c \in Client : \E S \in SUBSET NodeId : pend[c] \in [S -> Row]
  /\ calls \in 0 .. MaxCalls
  /\ raced \in BOOLEAN
  /\ solo \in SUBSET Client

\* Every live node hangs, through live directories, from a node without
\* parent.
Whole(v) ==
  /\ \A n \in Live(v) : \E r \in Live(v) : v[r].parent = 0 /\ n \in Subtree(v, r, Live(v))
  /\ \A n \in Live(v) : v[n].parent # 0 => v[n].parent \in LiveDirs(v)

\* The parent of a row is a row and a directory, in the recycle bin or not.
ParentsAreDirs(v) ==
  \A n \in Stored(v) : v[n].parent # 0 =>
    v[n].parent \in NodeId /\ v[v[n].parent].st # "free" /\ v[v[n].parent].dir

\* However creates, renames, moves, deletes, restores, purges, clears and
\* repairs follow one another and overlap, the live nodes form a tree, unless
\* two calls overlapped that Endangers names.
TreeStaysWhole == ~raced => Whole(node)

\* A row leaves the table only from the recycle bin: a node that was restored
\* while a purge or a clear that had listed it was under way is not lost.
LiveNeverPurged ==
  [][\A n \in NodeId : node[n].st = "live" => node'[n].st # "purged"]_treeVars

\* When the repair of a library has returned and nothing else ran meanwhile,
\* its root is the only live node without parent and every other live node is
\* in a live directory, whatever races had left behind.
RepairHeals ==
  \A c \in Client :
    (At(c, "repair", "listed") /\ call[c].ids = {} /\ c \in solo) =>
      \A n \in Live(node) :
        IF n = call[c].dst THEN node[n].parent = 0
        ELSE node[n].parent \in LiveDirs(node)

\* A node is never moved below itself (MoveNode refuses to move a node under
\* a descendant).
NoNodeBelowItself == \A n \in NodeId : ~OnCycle(node, n, Live(node))
=============================================================================
