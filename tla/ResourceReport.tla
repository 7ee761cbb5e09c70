----------------------------- MODULE ResourceReport -----------------------------
(***************************************************************************)
(* What the resource monitor reports of one user's library: the bytes of   *)
(* the stored objects, by what refers to them, by the collection they      *)
(* belong to and by their kind of file.  A report is read in two           *)
(* statements without a transaction, while files and directories change.   *)
(***************************************************************************)
EXTENDS Integers, FiniteSetsExt

CONSTANTS
  DirCount,   \* directories are 1 .. DirCount; 0 is the root
  FileCount,  \* files are 1 .. FileCount, in the order of their ids
  StoredObject,  \* ids of storage_objects
  MaxBytes,   \* bound on content_length
  BuiltIn,    \* built-in types of directories
  ContentType,  \* object -> what its content type says of the kind of file, or "unknown"
  ExtType,    \* file -> what its extension says
  MaxWalk,    \* how many directories the walk to the root goes up (64)
  MaxReportSteps  \* bound on the changes of a behaviour

\* A report maps every other type of a directory to one of BuiltIn.
ASSUME ReportBounds ==
  /\ {DirCount, FileCount, MaxBytes, MaxWalk, MaxReportSteps} \subseteq Nat
  /\ IsFiniteSet(StoredObject) /\ IsFiniteSet(BuiltIn)
  /\ "UNCLASSIFIED" \notin BuiltIn

Dir == 1 .. DirCount
ReportFile == 1 .. FileCount

VARIABLES
  dirs,     \* directory -> its parent and built_in_type
  files,    \* file -> its parent, its state and the object node_files names
  bytes,    \* id -> content_length, 0 if there is no such row (any more)
  report,   \* what the statements of the running or the last report returned
  changed,  \* the tables changed since its first statement
  reportSteps

reportVars == <<dirs, files, bytes, report, changed, reportSteps>>

Category == BuiltIn \cup {"DEF", "UNCLASSIFIED"}
FileType == {ContentType[o] : o \in StoredObject} \cup {ExtType[f] : f \in ReportFile}

Objects == {o \in StoredObject : bytes[o] > 0}
Refs(o) == {f \in ReportFile : files[f].state # "purged" /\ files[f].object = o}
RefsIn(o, s) == {f \in Refs(o) : files[f].state = s}
AllRefs == UNION {Refs(o) : o \in Objects}

-----------------------------------------------------------------------------
\* object_refs: an object with a visible file counts as visible, whatever else
\* refers to it, and only one that no row of node_files names is an orphan.
IsVisible(o) == RefsIn(o, "visible") # {}

IsRecycled(o) == ~IsVisible(o) /\ RefsIn(o, "recycled") # {}
IsOrphan(o) == Refs(o) = {}

\* ref_ancestors: the directories above f from the inside, then 0; of a loop
\* only the first MaxWalk.
Walk(f) ==
  LET up[k \in 1 .. MaxWalk] ==
        IF k = 1 THEN files[f].parent ELSE IF up[k - 1] = 0 THEN 0 ELSE dirs[up[k - 1]].parent
  IN up

\* ref_effective_categories: the type of the outermost directory that has one.
CategoryOf(f) ==
  LET walk == Walk(f)
      typed == {k \in 1 .. MaxWalk : walk[k] # 0 /\ dirs[walk[k]].type # "DEF"}
  IN IF typed = {} THEN "DEF" ELSE dirs[walk[Max(typed)]].type

\* The content type first, then the extension.
TypeOf(f) ==
  IF ContentType[files[f].object] # "unknown" THEN ContentType[files[f].object] ELSE ExtType[f]

\* The members of S that satisfy P if there are any, else all.
Preferred(S, P(_)) == IF \E x \in S : P(x) THEN {x \in S : P(x)} ELSE S

\* object_main_category: visible files, then files with a collection, then the
\* oldest; object_main_dimensions puts files of a known type before the oldest.
MainFiles(o) ==
  Preferred(Preferred(Refs(o), LAMBDA f : files[f].state = "visible"),
            LAMBDA f : CategoryOf(f) # "DEF")

MainCategory(o) == IF IsOrphan(o) THEN "UNCLASSIFIED" ELSE CategoryOf(Min(MainFiles(o)))

MainCell(o) ==
  LET main == Min(Preferred(MainFiles(o), LAMBDA f : TypeOf(f) # "unknown"))
  IN IF IsOrphan(o) THEN <<"UNCLASSIFIED", ContentType[o]>> ELSE <<CategoryOf(main), TypeOf(main)>>

\* What a row says of the objects and the references it stands for.
ReportRow(objs, refs) ==
  LET Total(S) == MapThenSumSet(LAMBDA o : bytes[o], S)
  IN [physical   |-> Total(objs),
      visible    |-> Total({o \in objs : IsVisible(o)}),
      recycle    |-> Total({o \in objs : IsRecycled(o)}),
      orphan     |-> Total({o \in objs : IsOrphan(o)}),
      references |-> Cardinality(refs),
      referenced |-> MapThenSumSet(LAMBDA f : bytes[files[f].object], refs)]

\* resourceBreakdownLibrarySQL and, for one storage location, storageDistributionSQL.
LibraryRow == ReportRow(Objects, AllRefs)

\* resourceBreakdownCategorySQL.
CategoryRows ==
  [c \in Category \X {"all"} |-> ReportRow({o \in Objects : MainCategory(o) = c[1]},
                                          {f \in AllRefs : CategoryOf(f) = c[1]})]

\* resourceDashboardMatrixSQL, which leaves out what is visible, recycled or an
\* orphan.
MatrixRows ==
  [c \in Category \X FileType |->
     LET row == ReportRow({o \in Objects : MainCell(o) = c},
                          {f \in AllRefs : <<CategoryOf(f), TypeOf(f)>> = c})
     IN [x \in {"physical", "references", "referenced"} |-> row[x]]]

-----------------------------------------------------------------------------
NoReport == [step |-> "none"]

ReportTypeOK ==
  /\ dirs \in [Dir -> [parent : 0 .. DirCount, type : BuiltIn \cup {"DEF"}]]
  /\ files \in [ReportFile -> [parent : 0 .. DirCount, state : {"visible", "recycled", "purged"},
                               object : StoredObject]]
  /\ bytes \in [StoredObject -> 0 .. MaxBytes]
  /\ report.step \in {"none", "library", "done"}
  /\ changed \in BOOLEAN
  /\ reportSteps \in 0 .. MaxReportSteps

\* Files in directories inside each other, each of a type or of none; two
\* files may share an object, and there may be one nothing refers to.
ReportStart ==
  /\ dirs \in [Dir -> [parent : 0 .. DirCount, type : BuiltIn \cup {"DEF"}]]
  /\ \A d \in Dir : dirs[d].parent = d - 1
  /\ files \in [ReportFile -> [parent : Dir, state : {"visible", "recycled"},
                               object : StoredObject]]
  /\ bytes = [o \in StoredObject |-> MaxBytes]
  /\ report = NoReport /\ changed = FALSE /\ reportSteps = 0

\* A change of the tables by another request.
Changes ==
  /\ reportSteps < MaxReportSteps
  /\ reportSteps' = reportSteps + 1
  /\ changed' = TRUE
  /\ UNCHANGED report

\* Files go to the recycle bin and come back.
ReportedState(f, s) ==
  /\ Changes
  /\ files[f].state \in {"visible", "recycled"} \ {s}
  /\ files' = [files EXCEPT ![f].state = s]
  /\ UNCHANGED <<dirs, bytes>>

\* HardDeleteTree: the row of node_files goes with its node.
ReportedPurge(f) ==
  /\ Changes
  /\ files[f].state = "recycled"
  /\ files' = [files EXCEPT ![f].state = "purged"]
  /\ UNCHANGED <<dirs, bytes>>

\* A directory is moved or gets another type; two moves may make a loop.
ReportedDir(d) ==
  /\ Changes
  /\ \E p \in 0 .. DirCount, t \in BuiltIn \cup {"DEF"} :
       dirs' \in {[dirs EXCEPT ![d].parent = p], [dirs EXCEPT ![d].type = t]} \ {dirs}
  /\ UNCHANGED <<files, bytes>>

\* ReplaceFileStorage writes the row of the object in place; a migration or a
\* deleted object takes it away.
ReportedObject(o) ==
  /\ Changes
  /\ bytes[o] > 0
  /\ \E b \in 0 .. MaxBytes : (b > 0 \/ IsOrphan(o)) /\ bytes' = [bytes EXCEPT ![o] = b]
  /\ UNCHANGED <<dirs, files>>

\* Breakdown and Dashboard start with the same statement.  A report whose first
\* statement fails is empty.
ReadLibraries ==
  /\ report.step # "library"
  /\ report' = [step |-> "library", library |-> LibraryRow]
  /\ changed' = FALSE
  /\ UNCHANGED <<dirs, files, bytes, reportSteps>>

ReadRest(rows) ==
  /\ report.step = "library"
  /\ report' = [step |-> "done", library |-> report.library, rows |-> rows]
  /\ UNCHANGED <<dirs, files, bytes, changed, reportSteps>>

ReadCategories == ReadRest(CategoryRows)
ReadMatrix == ReadRest(MatrixRows)

\* The second statement fails and the report is returned without its rows.
ReadFails == ReadRest([k \in {} |-> LibraryRow])

ReportNext ==
  \/ \E f \in ReportFile : \E s \in {"visible", "recycled"} : ReportedState(f, s)
  \/ \E f \in ReportFile : ReportedPurge(f)
  \/ \E d \in Dir : ReportedDir(d)
  \/ \E o \in StoredObject : ReportedObject(o)
  \/ ReadLibraries \/ ReadCategories \/ ReadMatrix \/ ReadFails

ReportSpec == ReportStart /\ [][ReportNext]_reportVars

-----------------------------------------------------------------------------
\* Every object of a report is visible, recycled or an orphan and nothing
\* twice.  What is read by collection, or by collection and kind of file, adds
\* up to the library, unless the tables changed between the two statements;
\* that holds while two files share an object in different collections, and
\* when directories form a loop.  Only orphans are unclassified.
ReportAddsUp ==
  report # NoReport =>
    LET lib == report.library
    IN /\ lib.visible + lib.recycle + lib.orphan = lib.physical
       /\ report.step = "done" /\ ~changed /\ DOMAIN report.rows # {} =>
            LET Sum(cells, x) == MapThenSumSet(LAMBDA c : report.rows[c][x], cells)
            IN /\ \A x \in UNION {DOMAIN report.rows[c] : c \in DOMAIN report.rows} :
                    Sum(DOMAIN report.rows, x) = lib[x]
               /\ Sum({c \in DOMAIN report.rows : c[1] = "UNCLASSIFIED"}, "physical") = lib.orphan
=============================================================================
