-------------------------------- MODULE HttpApi --------------------------------
(***************************************************************************)
(* The HTTP interface of the server: what a request passes before its use  *)
(* case runs, what the use case may then do, and what the reply says.      *)
(*                                                                         *)
(* Most operations take the query parameter dryRun: the use case does its  *)
(* work in a transaction that is rolled back, and the reply is marked with *)
(* the header X-Dry-Run.  The flag passes three layers, each of which can  *)
(* drop it: the handler reads it, the use case obeys it, the reply names it. *)
(***************************************************************************)
EXTENDS Integers, Sequences, TLC

\* What a use case does to the data: nothing, a change that a dry run rolls
\* back, or a change that it commits in any case.  A change is a statement that
\* writes a row, an object or a file, if only the values it had.  Some succeed
\* also without one ("void"): they find nothing to do.
Use(writes, simulates, void) ==
  [writes |-> writes, simulates |-> simulates, void |-> void, session |-> "none"]

Reads == Use(FALSE, FALSE, FALSE)
Simulates == Use(TRUE, TRUE, FALSE)
SimulatesOrNothing == Use(TRUE, TRUE, TRUE)
Commits == Use(TRUE, FALSE, FALSE)
CommitsOrNothing == Use(TRUE, FALSE, TRUE)

\* The use cases that make and end a session.  A login with a session that
\* exists makes none.
LogsIn == [CommitsOrNothing EXCEPT !.session = "login"]
LogsOut == [Simulates EXCEPT !.session = "logout"]

\* A handler: the parts of the request it takes, in this order, each of which
\* may refuse the request, and its use case.  "dry" reads the flag and marks the
\* reply at once, "flag" only reads it and marks a success; "own" compares the
\* query with the session, "field" is a check of its own on what was read.
H(takes, use) == [takes |-> takes, use |-> use]

\* A handler that marks the reply and does not pass the flag on.
Forgets(takes, use) ==
  [takes |-> [i \in DOMAIN takes |-> IF takes[i] = "dry" THEN "mark" ELSE takes[i]], use |-> use]

\* Several tables, no two of which have a name in common, as one.
Together(tables) ==
  [n \in UNION {DOMAIN t : t \in tables} |-> (CHOOSE t \in tables : n \in DOMAIN t)[n]]

-----------------------------------------------------------------------------
(* The handlers, file by file. *)

CreateHandlers == [CreateNode |-> H(<<"dry", "json">>, Simulates)]

CopyHandlers == [CopyNode |-> H(<<"uri", "dry", "json">>, Simulates)]

DetailHandlers == [GetNodeDetail |-> H(<<"uri">>, Reads)]

MetadataHandlers == [BrowseMetadata |-> H(<<"json">>, Reads)]

SearchHandlers == [SearchNodes |-> H(<<"json">>, Reads)]

\* A batch that was renamed before is answered from its record.
BatchRenameHandlers ==
  [RenameNodesConditional |-> H(<<"dry", "json", "field">>, SimulatesOrNothing),
   RenameNodesStatus |-> H(<<"query">>, Reads)]

\* A NodeTagHandlers that marks the reply of UpdateNodeTags as a dry run and
\* lets it commit.
NodeTagHandlers_FlagDropped ==
  [UpdateNodeTags |-> Forgets(<<"uri", "dry", "json">>, Simulates),
   ReadNodeTags |-> H(<<"uri", "query">>, Reads)]

NodeTagHandlers ==
  [UpdateNodeTags |-> H(<<"uri", "dry", "json">>, Simulates),
   ReadNodeTags |-> H(<<"uri", "query">>, Reads)]

RecycleHandlers ==
  [GetRecycleBinItems |-> H(<<"uri">>, Reads),
   ClearRecycleBin |-> H(<<"dry", "uri">>, SimulatesOrNothing),
   RestoreNodeAndChildren |-> H(<<"dry", "uri">>, SimulatesOrNothing),
   HardDeleteNodeAndChildren |-> H(<<"dry", "uri">>, SimulatesOrNothing)]

\* ReorderNode answers success and does nothing, and so does an UpdateNode that
\* names no field.
UpdateHandlers ==
  [UpdateNode |-> H(<<"dry", "uri", "json">>, SimulatesOrNothing),
   Rename |-> H(<<"dry", "uri", "json", "field">>, Simulates),
   ReorderNode |-> H(<<>>, Reads),
   MoveNodesBatch |-> H(<<"dry", "json", "field">>, Simulates)]

\* Two of the changes do not read the flag.  All three succeed when there is
\* nothing to sort, to set or to delete.
SubtreeHandlers ==
  [SortComicChildrenByName |-> H(<<"uri">>, CommitsOrNothing),
   BatchSetArchiveChildrenBuiltInType |-> H(<<"uri">>, CommitsOrNothing),
   DeleteNodeAndChildren |-> H(<<"dry", "uri">>, SimulatesOrNothing)]

\* Asking for the root of a library makes or repairs one.
QueryHandlers ==
  [GetLibraryRootNodeID |-> H(<<"uri">>, CommitsOrNothing),
   GetAllDescendants |-> H(<<"uri", "query">>, Reads),
   GetDirectChildren |-> H(<<"uri", "query">>, Reads),
   GetArchiveCards |-> H(<<"uri", "query">>, Reads),
   GetAncestors |-> H(<<"uri", "query">>, Reads),
   GetFullPath |-> H(<<"uri", "query">>, Reads)]

DirectoryHandlers ==
  [GetFileLink |-> H(<<"query">>, Reads),
   BatchGetFileLinks |-> H(<<"json", "field">>, Reads),
   UpdateFileContent |-> H(<<"dry", "uri", "json", "field">>, Simulates),
   UpdateFileContentConditional |-> H(<<"dry", "uri", "json", "field">>, Simulates)]

FileHandlers ==
  [UploadFile |-> H(<<"form">>, Commits),
   GetFileLink |-> H(<<"query">>, Reads)]

\* Complete and Abort answer a repetition with success.
UploadHandlers ==
  [Init |-> H(<<"json">>, Commits),
   SignParts |-> H(<<"json">>, Commits),
   ListParts |-> H(<<"field">>, Reads),
   Renew |-> H(<<"field">>, Commits),
   Complete |-> H(<<"json">>, CommitsOrNothing),
   ReconcileCompletion |-> H(<<"field">>, Reads),
   Abort |-> H(<<"field">>, CommitsOrNothing)]

\* An update of a user that names no field writes nothing.
AccountHandlers ==
  [GetActualUserByUsername |-> H(<<"uri">>, Reads),
   HasUsername |-> H(<<"query">>, Reads),
   RegisterUser |-> H(<<"json", "field">>, Commits),
   UpdateUser |-> H(<<"flag", "uri", "json">>, SimulatesOrNothing)]

CurrentUserHandlers ==
  [GetCurrentUser |-> H(<<>>, Reads),
   UpdateCurrentUser |-> H(<<"flag", "json">>, SimulatesOrNothing),
   UpdateCurrentUserPassword |-> H(<<"flag", "json", "field">>, Simulates),
   UploadCurrentUserAvatar |-> H(<<"flag", "form">>, Simulates)]

PreferenceHandlers ==
  [ListCurrentUserPreferences |-> H(<<>>, Reads),
   GetCurrentUserPreference |-> H(<<"uri">>, Reads),
   UpsertCurrentUserPreference |-> H(<<"dry", "uri", "json">>, Simulates)]

LibraryHandlers ==
  [Scroll |-> H(<<"query">>, Reads),
   Create |-> H(<<"dry", "json", "field">>, Simulates),
   Update |-> H(<<"dry", "uri", "json", "field">>, Simulates),
   Delete |-> H(<<"dry", "uri">>, Simulates)]

TagReadHandlers ==
  [GetSearchTypes |-> H(<<>>, Reads),
   ListTags |-> H(<<"query">>, Reads)]

TagHandlers ==
  [CreateTag |-> H(<<"dry", "json", "field">>, Simulates),
   UpdateTag |-> H(<<"dry", "uri", "json", "field">>, Simulates),
   DeleteTag |-> H(<<"dry", "uri">>, Simulates)]

BookmarkHandlers ==
  [Tree |-> H(<<>>, Reads),
   Match |-> H(<<"query", "field">>, Reads),
   Create |-> H(<<"dry", "json", "field">>, Simulates),
   Update |-> H(<<"dry", "uri", "json">>, Simulates)]

BookmarkTreeHandlers ==
  [Move |-> H(<<"dry", "uri", "json">>, Simulates),
   Delete |-> H(<<"dry", "uri">>, Simulates),
   Import |-> H(<<"dry", "json">>, Simulates)]

MappingHandlers ==
  [List |-> H(<<>>, Reads),
   Resolve |-> H(<<"query", "field">>, Reads),
   Create |-> H(<<"dry", "json", "field">>, Simulates),
   Update |-> H(<<"dry", "uri", "json", "field">>, Simulates),
   Delete |-> H(<<"dry", "uri">>, Simulates)]

MonitorHandlers ==
  [Snapshot |-> H(<<"query">>, Reads),
   Distribution |-> H(<<"query">>, Reads),
   Probes |-> H(<<>>, Reads),
   Breakdown |-> H(<<"query">>, Reads),
   Dashboard |-> H(<<"query">>, Reads),
   CaptureSample |-> H(<<"query", "dry">>, Simulates)]

HealthHandlers == [Check |-> H(<<>>, Reads)]

\* The dry run of CancelTask is the handler's: it reads the task.
MigrationHandlers ==
  [EnqueueTask |-> H(<<"dry", "json">>, Simulates),
   ListTasks |-> H(<<"query">>, Reads),
   GetTask |-> H(<<"uri">>, Reads),
   CancelTask |-> H(<<"dry", "uri">>, Simulates)]

MigrationReadHandlers ==
  [ListTaskItems |-> H(<<"uri">>, Reads),
   StorageDistribution |-> H(<<"uri", "query">>, Reads)]

ProviderHandlers ==
  [ListProviders |-> H(<<>>, Reads),
   AddProvider |-> H(<<"json", "field">>, Commits),
   UpdateProvider |-> H(<<"field", "json">>, Commits),
   DeleteProvider |-> H(<<"field">>, Commits)]

StorageDefaultHandlers ==
  [GetDefault |-> H(<<>>, Reads),
   SetDefault |-> H(<<"json">>, Commits),
   GetRoutingRules |-> H(<<>>, Reads),
   UpdateRoutingRules |-> H(<<"json">>, Commits)]

StorageTestHandlers ==
  [TestProvider |-> H(<<"field">>, Reads),
   ResolveTarget |-> H(<<"json">>, Reads)]

AuthHandlers ==
  [Login |-> H(<<"json", "field">>, LogsIn),
   Status |-> H(<<"query", "own">>, Reads),
   Logout |-> H(<<"dry", "query", "own">>, LogsOut)]

-----------------------------------------------------------------------------
(* The routes, file by file: verb, path below /api/v1 and handler. *)

NodeRoutes ==
  {<<"POST", "/nodes", "CreateNode">>,
   <<"POST", "/nodes/:nodeId/copy", "CopyNode">>,
   <<"POST", "/nodes/search", "SearchNodes">>,
   <<"POST", "/nodes/metadata/query", "BrowseMetadata">>,
   <<"POST", "/nodes/rename/batch/conditional", "RenameNodesConditional">>,
   <<"GET", "/nodes/rename/batch/status", "RenameNodesStatus">>,
   <<"GET", "/nodes/library/:libraryId/root", "GetLibraryRootNodeID">>,
   <<"GET", "/nodes/:nodeId", "GetNodeDetail">>,
   <<"GET", "/nodes/:nodeId/tags", "ReadNodeTags">>,
   <<"PATCH", "/nodes/:nodeId/tags", "UpdateNodeTags">>,
   <<"GET", "/nodes/:nodeId/descendants", "GetAllDescendants">>,
   <<"GET", "/nodes/:nodeId/children", "GetDirectChildren">>,
   <<"GET", "/nodes/:nodeId/archive/cards", "GetArchiveCards">>,
   <<"GET", "/nodes/:nodeId/ancestors", "GetAncestors">>,
   <<"GET", "/nodes/:nodeId/path", "GetFullPath">>,
   <<"PUT", "/nodes/:nodeId", "UpdateNode">>,
   <<"PATCH", "/nodes/:nodeId/rename", "Rename">>,
   <<"PATCH", "/nodes", "ReorderNode">>,
   <<"PATCH", "/nodes/move/batch", "MoveNodesBatch">>,
   <<"PATCH", "/nodes/:nodeId/comic/sort-by-name", "SortComicChildrenByName">>,
   <<"PATCH", "/nodes/:nodeId/archive/built-in-type/batch-set", "BatchSetArchiveChildrenBuiltInType">>,
   <<"DELETE", "/nodes/:nodeId/library/:libraryId", "DeleteNodeAndChildren">>,
   <<"GET", "/nodes/recycle/library/:libraryId", "GetRecycleBinItems">>,
   <<"DELETE", "/nodes/recycle/library/:libraryId/clear", "ClearRecycleBin">>,
   <<"PATCH", "/nodes/:nodeId/library/:libraryId/restore", "RestoreNodeAndChildren">>,
   <<"DELETE", "/nodes/:nodeId/library/:libraryId/hard", "HardDeleteNodeAndChildren">>}

AuthRoutes ==
  {<<"POST", "/auth/login", "Login">>,
   <<"GET", "/auth/status", "Status">>,
   <<"DELETE", "/auth/logout", "Logout">>}

BookmarkRoutes ==
  {<<"GET", "/browser-bookmarks/tree", "Tree">>,
   <<"GET", "/browser-bookmarks/match", "Match">>,
   <<"POST", "/browser-bookmarks/import", "Import">>,
   <<"POST", "/browser-bookmarks", "Create">>,
   <<"PUT", "/browser-bookmarks/:bookmarkId", "Update">>,
   <<"PATCH", "/browser-bookmarks/:bookmarkId/move", "Move">>,
   <<"DELETE", "/browser-bookmarks/:bookmarkId", "Delete">>}

MappingRoutes ==
  {<<"GET", "/browser-file-mappings", "List">>,
   <<"GET", "/browser-file-mappings/resolve", "Resolve">>,
   <<"POST", "/browser-file-mappings", "Create">>,
   <<"PUT", "/browser-file-mappings/:mappingId", "Update">>,
   <<"DELETE", "/browser-file-mappings/:mappingId", "Delete">>}

DirectoryRoutes ==
  {<<"PUT", "/nodes/:nodeId/content", "UpdateFileContent">>,
   <<"PUT", "/nodes/:nodeId/content/conditional", "UpdateFileContentConditional">>,
   <<"GET", "/directory/link", "GetFileLink">>,
   <<"POST", "/directory/links/batch", "BatchGetFileLinks">>}

FileRoutes ==
  {<<"POST", "/files/upload", "UploadFile">>,
   <<"GET", "/files/link", "GetFileLink">>}

HealthRoutes == {<<"GET", "/health", "Check">>}

LibraryRoutes ==
  {<<"GET", "/libraries/scroll", "Scroll">>,
   <<"POST", "/libraries", "Create">>,
   <<"PUT", "/libraries/:id", "Update">>,
   <<"DELETE", "/libraries/:id", "Delete">>}

MigrationRoutes ==
  {<<"POST", "/migration/tasks", "EnqueueTask">>,
   <<"GET", "/migration/tasks", "ListTasks">>,
   <<"GET", "/migration/tasks/:id", "GetTask">>,
   <<"POST", "/migration/tasks/:id/cancel", "CancelTask">>,
   <<"GET", "/migration/tasks/:id/items", "ListTaskItems">>,
   <<"GET", "/libraries/:libraryId/storage-distribution", "StorageDistribution">>}

MonitorRoutes ==
  {<<"GET", "/resource-monitor/snapshot", "Snapshot">>,
   <<"GET", "/resource-monitor/distribution", "Distribution">>,
   <<"GET", "/resource-monitor/probes", "Probes">>,
   <<"GET", "/resource-monitor/breakdown", "Breakdown">>,
   <<"GET", "/resource-monitor/dashboard", "Dashboard">>,
   <<"POST", "/resource-monitor/samples", "CaptureSample">>}

StorageRoutes ==
  {<<"GET", "/storage/providers", "ListProviders">>,
   <<"POST", "/storage/providers", "AddProvider">>,
   <<"PUT", "/storage/providers/:alias", "UpdateProvider">>,
   <<"DELETE", "/storage/providers/:alias", "DeleteProvider">>,
   <<"POST", "/storage/providers/:alias/test", "TestProvider">>,
   <<"GET", "/storage/default", "GetDefault">>,
   <<"PUT", "/storage/default", "SetDefault">>,
   <<"GET", "/storage/routing-rules", "GetRoutingRules">>,
   <<"PUT", "/storage/routing-rules", "UpdateRoutingRules">>,
   <<"POST", "/storage/resolve-target", "ResolveTarget">>}

TagRoutes ==
  {<<"GET", "/tags/search-types", "GetSearchTypes">>,
   <<"GET", "/tags", "ListTags">>,
   <<"POST", "/tags", "CreateTag">>,
   <<"PUT", "/tags/:tagId", "UpdateTag">>,
   <<"DELETE", "/tags/:tagId", "DeleteTag">>}

UploadRoutes ==
  {<<"POST", "/upload/init", "Init">>,
   <<"POST", "/upload/parts/sign", "SignParts">>,
   <<"GET", "/upload/parts", "ListParts">>,
   <<"POST", "/upload/:uploadId/renew", "Renew">>,
   <<"POST", "/upload/complete", "Complete">>,
   <<"GET", "/upload/complete/status", "ReconcileCompletion">>,
   <<"DELETE", "/upload/:uploadId", "Abort">>}

UserRoutes ==
  {<<"GET", "/user/me", "GetCurrentUser">>,
   <<"PUT", "/user/me", "UpdateCurrentUser">>,
   <<"PUT", "/user/me/password", "UpdateCurrentUserPassword">>,
   <<"POST", "/user/me/avatar", "UploadCurrentUserAvatar">>,
   <<"GET", "/user/me/preferences", "ListCurrentUserPreferences">>,
   <<"GET", "/user/me/preferences/:namespace", "GetCurrentUserPreference">>,
   <<"PUT", "/user/me/preferences/:namespace", "UpsertCurrentUserPreference">>,
   <<"GET", "/user/exists", "HasUsername">>,
   <<"GET", "/user/:username", "GetActualUserByUsername">>,
   <<"POST", "/user", "RegisterUser">>,
   <<"PUT", "/user/:id", "UpdateUser">>}

-----------------------------------------------------------------------------
\* The routes of a file with their handlers.
Serves(routes, tables) == {<<r[1], r[2], Together(tables)[r[3]]>> : r \in routes}

\* All routes; /healthz is the one outside /api/v1.
Routes ==
  Serves(NodeRoutes, {CreateHandlers, CopyHandlers, DetailHandlers, MetadataHandlers,
                      SearchHandlers, BatchRenameHandlers, NodeTagHandlers, RecycleHandlers,
                      UpdateHandlers, SubtreeHandlers, QueryHandlers})
  \cup Serves(AuthRoutes, {AuthHandlers})
  \cup Serves(BookmarkRoutes, {BookmarkHandlers, BookmarkTreeHandlers})
  \cup Serves(MappingRoutes, {MappingHandlers})
  \cup Serves(DirectoryRoutes, {DirectoryHandlers})
  \cup Serves(FileRoutes, {FileHandlers})
  \cup Serves(HealthRoutes, {HealthHandlers})
  \cup Serves(LibraryRoutes, {LibraryHandlers})
  \cup Serves(MigrationRoutes, {MigrationHandlers, MigrationReadHandlers})
  \cup Serves(MonitorRoutes, {MonitorHandlers})
  \cup Serves(StorageRoutes, {ProviderHandlers, StorageDefaultHandlers, StorageTestHandlers})
  \cup Serves(TagRoutes, {TagReadHandlers, TagHandlers})
  \cup Serves(UploadRoutes, {UploadHandlers})
  \cup Serves(UserRoutes, {AccountHandlers, CurrentUserHandlers, PreferenceHandlers})
  \cup {<<"GET", "/healthz", HealthHandlers.Check>>}

\* The routes that need no session.
IgnorePaths ==
  {<<"GET", "/healthz">>, <<"GET", "/health">>, <<"POST", "/auth/login">>, <<"POST", "/user">>,
   <<"GET", "/user/exists">>, <<"POST", "/files/upload">>, <<"GET", "/files/link">>}

-----------------------------------------------------------------------------
(* A request. *)

Takes(h, parts) == \E i \in DOMAIN h.takes : h.takes[i] \in parts

\* The flag reaches the use case.
Simulated(h, dry) == dry /\ h.use.simulates /\ Takes(h, {"dry", "flag"})

\* A part of the request is malformed: nothing has been done.  The reply is
\* marked if the flag was read before.
Refusals(h, dry) ==
  {[ok |-> FALSE, done |-> FALSE,
    marked |-> dry /\ \E j \in 1 .. i - 1 : h.takes[j] \in {"dry", "mark"}] :
       i \in DOMAIN h.takes}

\* Whether the data may have changed when the use case succeeds.
MayChange(h, dry) ==
  IF h.use.writes /\ ~Simulated(h, dry) THEN {~h.use.void, TRUE} ELSE {FALSE}

\* The use case succeeds, or fails: also after its work, when its commit or a
\* later step does.
Results(h, dry) ==
  {[ok |-> TRUE, done |-> c, marked |-> dry /\ Takes(h, {"dry", "mark", "flag"})] :
     c \in MayChange(h, dry)}
  \cup {[ok |-> FALSE, done |-> c, marked |-> dry /\ Takes(h, {"dry", "mark"})] :
          c \in MayChange(h, dry) \cup {FALSE}}

\* What a request to this route may come to, with or without the flag.
Requested(route, dry) ==
  [open |-> <<route[1], route[2]>> \in IgnorePaths,
   session |-> IF Simulated(route[3], dry) THEN "none" ELSE route[3].use.session,
   writes |-> route[3].use.writes /\ ~route[3].use.void,
   replies |-> Refusals(route[3], dry) \cup Results(route[3], dry)]

\* The reply of the middleware to a request without a session that is alive.
Unauthorized == [ok |-> FALSE, done |-> FALSE, marked |-> FALSE]
=============================================================================
