------------------------------ MODULE CliCommands ------------------------------
(***************************************************************************)
(* The commands of the command-line client: the tree of words that names   *)
(* them, the requests each of them sends, and the client's methods, each of *)
(* which sends one request to a route of the server.                       *)
(***************************************************************************)
EXTENDS HttpApi

(* The methods of the client: verb and path, whether the query may carry   *)
(* dryRun, and whether the request carries the session.                    *)

Sends(verb, path) == [verb |-> verb, path |-> path, dry |-> FALSE, session |-> TRUE]
SendsDry(verb, path) == [verb |-> verb, path |-> path, dry |-> TRUE, session |-> TRUE]
Anonymous(verb, path) == [verb |-> verb, path |-> path, dry |-> FALSE, session |-> FALSE]

SessionMethods ==
  [Health |-> Anonymous("GET", "/healthz"),
   Login |-> Anonymous("POST", "/auth/login"),
   AuthStatus |-> Sends("GET", "/auth/status"),
   Logout |-> SendsDry("DELETE", "/auth/logout"),
   WhoAmI |-> Sends("GET", "/user/me")]

NodeMethods ==
  [ScrollLibraries |-> Sends("GET", "/libraries/scroll"),
   GetLibraryRootNodeID |-> Sends("GET", "/nodes/library/:libraryId/root"),
   ListChildren |-> Sends("GET", "/nodes/:nodeId/children"),
   SearchNodes |-> Sends("POST", "/nodes/search"),
   CreateNode |-> SendsDry("POST", "/nodes"),
   RenameNode |-> SendsDry("PATCH", "/nodes/:nodeId/rename"),
   UpdateNode |-> SendsDry("PUT", "/nodes/:nodeId"),
   MoveNodesBatch |-> SendsDry("PATCH", "/nodes/move/batch"),
   BatchSetArchiveChildrenBuiltInType |-> SendsDry("PATCH", "/nodes/:nodeId/archive/built-in-type/batch-set"),
   DeleteNodeTree |-> SendsDry("DELETE", "/nodes/:nodeId/library/:libraryId")]

RecycleMethods ==
  [ListRecycleBin |-> Sends("GET", "/nodes/recycle/library/:libraryId"),
   ClearRecycleBin |-> SendsDry("DELETE", "/nodes/recycle/library/:libraryId/clear")]

MappingMethods ==
  [ListBrowserFileMappings |-> Sends("GET", "/browser-file-mappings"),
   ResolveBrowserFileMapping |-> Sends("GET", "/browser-file-mappings/resolve"),
   CreateBrowserFileMapping |-> SendsDry("POST", "/browser-file-mappings"),
   UpdateBrowserFileMapping |-> SendsDry("PUT", "/browser-file-mappings/:mappingId"),
   DeleteBrowserFileMapping |-> SendsDry("DELETE", "/browser-file-mappings/:mappingId")]

BookmarkMethods ==
  [ListBrowserBookmarksTree |-> Sends("GET", "/browser-bookmarks/tree"),
   MatchBrowserBookmark |-> Sends("GET", "/browser-bookmarks/match"),
   CreateBrowserBookmark |-> SendsDry("POST", "/browser-bookmarks"),
   UpdateBrowserBookmark |-> SendsDry("PUT", "/browser-bookmarks/:bookmarkId"),
   MoveBrowserBookmark |-> SendsDry("PATCH", "/browser-bookmarks/:bookmarkId/move"),
   DeleteBrowserBookmark |-> SendsDry("DELETE", "/browser-bookmarks/:bookmarkId"),
   ImportBrowserBookmarks |-> SendsDry("POST", "/browser-bookmarks/import")]

RestoreMethods ==
  [RestoreNodeTree |-> SendsDry("PATCH", "/nodes/:nodeId/library/:libraryId/restore"),
   HardDeleteNodeTree |-> SendsDry("DELETE", "/nodes/:nodeId/library/:libraryId/hard")]

MigrationMethods ==
  [MigrationEnqueue |-> SendsDry("POST", "/migration/tasks"),
   MigrationListTasks |-> Sends("GET", "/migration/tasks"),
   MigrationGetTask |-> Sends("GET", "/migration/tasks/:id"),
   MigrationListTaskItems |-> Sends("GET", "/migration/tasks/:id/items"),
   MigrationCancelTask |-> SendsDry("POST", "/migration/tasks/:id/cancel"),
   StorageDistribution |-> Sends("GET", "/libraries/:libraryId/storage-distribution"),
   CaptureResourceMonitorSample |-> SendsDry("POST", "/resource-monitor/samples")]

CopyMethod == [CopyNode |-> SendsDry("POST", "/nodes/:nodeId/copy")]

TagMethods ==
  [UpdateNodeTags |-> SendsDry("PATCH", "/nodes/:nodeId/tags"),
   ReadNodeTags |-> Sends("GET", "/nodes/:nodeId/tags")]

MetadataMethod == [BrowseMetadata |-> Sends("POST", "/nodes/metadata/query")]

BatchRenameMethods ==
  [RenameBatch |-> SendsDry("POST", "/nodes/rename/batch/conditional"),
   RenameBatchStatus |-> Sends("GET", "/nodes/rename/batch/status")]

\* With an expected key the content is replaced only if it still has it.
WriteMethods ==
  [WriteFileContent |-> SendsDry("PUT", "/nodes/:nodeId/content"),
   WriteFileContentIfExpected |-> SendsDry("PUT", "/nodes/:nodeId/content/conditional")]

Methods ==
  Together({SessionMethods, NodeMethods, RecycleMethods, MappingMethods, BookmarkMethods,
            RestoreMethods, MigrationMethods, CopyMethod, TagMethods, MetadataMethod,
            BatchRenameMethods, WriteMethods})

-----------------------------------------------------------------------------
(* The commands: whether they accept --dry-run, and the methods they call, *)
(* one after the other; "missing" is a step that finds that it cannot go on. *)

Command(dry, calls) == [dry |-> dry, calls |-> calls]
Reading(method) == Command(FALSE, {<<method>>})
Writing(method) == Command(TRUE, {<<method>>})

\* The walk from the root of the library to a node: a listing per segment of
\* the path, here at most one, which may not have the name, or have it twice.
resolveNodeByPath == {<<"GetLibraryRootNodeID">>, <<"GetLibraryRootNodeID", "ListChildren">>}
LostPath == {<<"GetLibraryRootNodeID", "ListChildren", "missing">>}

\* A node is given by its id or by its path.
Then(walks, method) == {w \o <<method>> : w \in walks \cup {<<>>}}

authCommands ==
  [runAuthLogin |-> Reading("Login"),
   runAuthStatus |-> Reading("AuthStatus"),
   runAuthWhoAmI |-> Reading("WhoAmI"),
   runAuthLogout |-> Writing("Logout")]

configCommands == [runConfigShow |-> Command(FALSE, {<<>>})]

healthCommands == [runHealth |-> Reading("Health")]

libCommands == [runLibraryList |-> Reading("ScrollLibraries")]

createCommands ==
  [runFSMkdir |-> Command(TRUE, Then(resolveNodeByPath, "CreateNode") \cup LostPath)]

editCommands ==
  [runFSRename |-> Writing("RenameNode"),
   runFSConfigure |-> Writing("UpdateNode")]

\* Both the node and its new parent may be given by a path.
moveCommands ==
  [runFSMove |->
     Command(TRUE, Then(resolveNodeByPath \cup {v \o w : v, w \in resolveNodeByPath},
                        "MoveNodesBatch") \cup LostPath)]

removeCommands ==
  [runFSRemove |-> Command(TRUE, Then(resolveNodeByPath, "DeleteNodeTree") \cup LostPath)]

recycleCommands ==
  [runFSRecycleList |-> Reading("ListRecycleBin"),
   runFSRecycleClear |-> Writing("ClearRecycleBin")]

restoreCommands ==
  [runFSRecycleRestore |-> Writing("RestoreNodeTree"),
   runFSRecycleHardDelete |-> Writing("HardDeleteNodeTree")]

archiveCommands ==
  [runFSArchiveBatchSetBuiltInType |-> Writing("BatchSetArchiveChildrenBuiltInType")]

pathCommands ==
  [runFSPathResolve |-> Command(FALSE, resolveNodeByPath \cup LostPath)]

listCommands ==
  [runFSList |-> Reading("ListChildren"),
   runFSSearch |-> Reading("SearchNodes")]

copyCommands == [runFSCopy |-> Writing("CopyNode")]

writeCommands ==
  [runFSWrite |-> Command(TRUE, {<<"WriteFileContent">>, <<"WriteFileContentIfExpected">>})]

tagCommands ==
  [runFSTags |-> Reading("ReadNodeTags"),
   runFSTagsUpdate |-> Writing("UpdateNodeTags")]

metadataCommands == [runFSBrowse |-> Reading("BrowseMetadata")]

renameBatchCommands ==
  [runFSRenameBatch |-> Writing("RenameBatch"),
   runFSRenameStatus |-> Reading("RenameBatchStatus")]

monitorCommands == [runResourceMonitorSample |-> Writing("CaptureResourceMonitorSample")]

migrateCommands ==
  [runStorageMigrate |-> Writing("MigrationEnqueue"),
   runMigrationList |-> Reading("MigrationListTasks")]

\* The items of a task are asked for in a second request.
migrationCommands ==
  [runMigrationStatus |->
     Command(FALSE, {<<"MigrationGetTask">>, <<"MigrationGetTask", "MigrationListTaskItems">>}),
   runMigrationCancel |-> Writing("MigrationCancelTask"),
   runStorageDistribution |-> Reading("StorageDistribution")]

mapReadCommands ==
  [runBrowserMapList |-> Reading("ListBrowserFileMappings"),
   runBrowserMapResolve |-> Reading("ResolveBrowserFileMapping")]

mapCommands ==
  [runBrowserMapCreate |-> Writing("CreateBrowserFileMapping"),
   runBrowserMapUpdate |-> Writing("UpdateBrowserFileMapping"),
   runBrowserMapDelete |-> Writing("DeleteBrowserFileMapping")]

bookmarkCommands ==
  [runBrowserBookmarkTree |-> Reading("ListBrowserBookmarksTree"),
   runBrowserBookmarkMatch |-> Reading("MatchBrowserBookmark"),
   runBrowserBookmarkCreate |-> Writing("CreateBrowserBookmark")]

bookmarkEditCommands ==
  [runBrowserBookmarkUpdate |-> Writing("UpdateBrowserBookmark"),
   runBrowserBookmarkMove |-> Writing("MoveBrowserBookmark")]

bookmarkTreeCommands ==
  [runBrowserBookmarkDelete |-> Writing("DeleteBrowserBookmark"),
   runBrowserBookmarkImport |-> Writing("ImportBrowserBookmarks")]

Commands ==
  Together({authCommands, configCommands, healthCommands, libCommands, createCommands,
            editCommands, moveCommands, removeCommands, recycleCommands, restoreCommands,
            archiveCommands, pathCommands, listCommands, copyCommands, writeCommands,
            tagCommands, metadataCommands, renameBatchCommands, monitorCommands,
            migrateCommands, migrationCommands, mapReadCommands, mapCommands,
            bookmarkCommands, bookmarkEditCommands, bookmarkTreeCommands})

-----------------------------------------------------------------------------
(* The command tree: the words of each command, the function that runs it, *)
(* and whether its help offers --dry-run.  "upload file" is the subject of *)
(* the module UploadClient.                                                *)

rootTree == {<<"health", "runHealth", FALSE>>}

authTree ==
  {<<"auth login", "runAuthLogin", FALSE>>,
   <<"auth status", "runAuthStatus", FALSE>>,
   <<"auth whoami", "runAuthWhoAmI", FALSE>>,
   <<"auth logout", "runAuthLogout", TRUE>>}

libTree == {<<"lib ls", "runLibraryList", FALSE>>}

fsEditTree ==
  {<<"fs mkdir", "runFSMkdir", TRUE>>,
   <<"fs write", "runFSWrite", TRUE>>,
   <<"fs rename", "runFSRename", TRUE>>,
   <<"fs rename-batch", "runFSRenameBatch", TRUE>>,
   <<"fs rename-status", "runFSRenameStatus", FALSE>>,
   <<"fs tags", "runFSTags", FALSE>>,
   <<"fs tags-update", "runFSTagsUpdate", TRUE>>,
   <<"fs configure", "runFSConfigure", TRUE>>}

fsTree ==
  {<<"fs cp", "runFSCopy", TRUE>>,
   <<"fs mv", "runFSMove", TRUE>>,
   <<"fs rm", "runFSRemove", TRUE>>,
   <<"fs ls", "runFSList", FALSE>>,
   <<"fs search", "runFSSearch", FALSE>>,
   <<"fs browse", "runFSBrowse", FALSE>>}

archiveTree == {<<"fs archive batch-set-built-in-type", "runFSArchiveBatchSetBuiltInType", TRUE>>}

recycleTree ==
  {<<"fs recycle ls", "runFSRecycleList", FALSE>>,
   <<"fs recycle clear", "runFSRecycleClear", TRUE>>,
   <<"fs recycle restore", "runFSRecycleRestore", TRUE>>,
   <<"fs recycle hard", "runFSRecycleHardDelete", TRUE>>}

pathTree == {<<"fs path resolve", "runFSPathResolve", FALSE>>}

configTree == {<<"config show", "runConfigShow", FALSE>>}

mapTree ==
  {<<"browser-map ls", "runBrowserMapList", FALSE>>,
   <<"browser-map resolve", "runBrowserMapResolve", FALSE>>,
   <<"browser-map create", "runBrowserMapCreate", TRUE>>,
   <<"browser-map update", "runBrowserMapUpdate", TRUE>>,
   <<"browser-map rm", "runBrowserMapDelete", TRUE>>}

bookmarkTree ==
  {<<"browser-bookmark tree", "runBrowserBookmarkTree", FALSE>>,
   <<"browser-bookmark match", "runBrowserBookmarkMatch", FALSE>>,
   <<"browser-bookmark create", "runBrowserBookmarkCreate", TRUE>>,
   <<"browser-bookmark update", "runBrowserBookmarkUpdate", TRUE>>,
   <<"browser-bookmark move", "runBrowserBookmarkMove", TRUE>>,
   <<"browser-bookmark rm", "runBrowserBookmarkDelete", TRUE>>,
   <<"browser-bookmark import", "runBrowserBookmarkImport", TRUE>>}

monitorTree == {<<"resource-monitor sample", "runResourceMonitorSample", TRUE>>}

storageTree ==
  {<<"storage migrate", "runStorageMigrate", TRUE>>,
   <<"storage distribution", "runStorageDistribution", FALSE>>}

migrationTree ==
  {<<"storage migration ls", "runMigrationList", FALSE>>,
   <<"storage migration status", "runMigrationStatus", FALSE>>,
   <<"storage migration cancel", "runMigrationCancel", TRUE>>}

buildCommandTree ==
  rootTree \cup authTree \cup libTree \cup fsEditTree \cup fsTree \cup archiveTree
  \cup recycleTree \cup pathTree \cup configTree \cup mapTree \cup bookmarkTree
  \cup monitorTree \cup storageTree \cup migrationTree

-----------------------------------------------------------------------------
(* What a command sends. *)

\* A step of the client that fails without a request.
Missing == [open |-> TRUE, session |-> "none", writes |-> FALSE, replies |-> {Unauthorized}]

\* The route a method asks for.
Asked(m) == CHOOSE r \in Routes : r[1] = m.verb /\ r[2] = m.path

\* The requests in order.  A method that needs a session sends nothing without
\* one, also to an open route.
Requests(methods, dry) ==
  [i \in DOMAIN methods |->
     IF methods[i] = "missing" THEN Missing
     ELSE LET m == Methods[methods[i]]
          IN [Requested(Asked(m), dry /\ m.dry) EXCEPT !.open = @ /\ ~m.session]]

\* The requests whose dry run changes something: one whose handler ignores the
\* flag, and one that reads the root of a library and may have to make it.
DryRunGaps == {"BatchSetArchiveChildrenBuiltInType", "GetLibraryRootNodeID"}

\* A command as it is typed.  A flag that the command does not know ends it.
Typed(leaf, dry) ==
  LET c == Commands[leaf[2]]
  IN {[calls |-> IF dry /\ ~c.dry THEN <<Missing>> ELSE Requests(s, dry),
       command |-> TRUE, dry |-> dry,
       saves |-> leaf[2] \in {"runAuthLogin", "runAuthLogout"} /\ ~dry,
       gap |-> {s[i] : i \in DOMAIN s} \cap DryRunGaps] : s \in c.calls}

Lines ==
  (UNION {Typed(leaf, FALSE) : leaf \in buildCommandTree})
  \cup (UNION {Typed(leaf, TRUE) : leaf \in {l \in buildCommandTree : l[3]}})

\* Other clients send any request, with or without the flag.
OtherClients ==
  {[calls |-> <<Requested(r, dry)>>, command |-> FALSE, dry |-> dry, saves |-> FALSE, gap |-> {}] :
     r \in Routes, dry \in BOOLEAN}
=============================================================================
