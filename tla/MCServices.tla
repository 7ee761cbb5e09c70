------------------------------ MODULE MCServices ------------------------------
(***************************************************************************)
(* Instances of the components of the server that share no state, checked  *)
(* in one run: the initial state chooses the component that runs.          *)
(***************************************************************************)
EXTENDS MCNodeTree, FileContent, RenameBatch, LoginSessions, UserPreferences, UserAvatar,
        StorageRegistry, BrowserBookmarks, Tagging, UploadClient, SiblingOrder, FileMappings,
        ResourceReport, Listings, CommandLine, StorageRouting

\* The libraries that the run starts from are whole.
ASSUME TreesWholeAtStart == \A t \in InitTrees : Whole(t) /\ ParentsAreDirs(t)

VARIABLE focus

Component == {"tree", "content", "batch", "auth", "preferences", "avatar", "registry",
              "bookmarks", "tagging", "upload", "order", "mappings", "report", "listings", "calls",
              "routing"}

\* A character is its code point less that of 0: 1584 is the Arabic-Indic zero.
RunCharacters == -3 .. 80 \cup {1584}
RunDigits == 0 .. 9 \cup {1584}
RunLower == [c \in RunCharacters |-> IF c \in 17 .. 42 THEN c + 32 ELSE c]

\* Names of siblings: A1, 99, a01 and the Arabic-Indic zero.
NamesOfSiblings == << <<17, 1>>, <<9, 9>>, <<49, 0, 1>>, <<1584>> >>

\* Names of up to three of the characters 0, a and the Arabic-Indic zero, and the
\* names 9, 99, -, a-, A and A1.
AllNames == (UNION {[1 .. k -> {0, 49, 1584}] : k \in 0 .. 3})
            \cup {<<9>>, <<9, 9>>, <<-3>>, <<49, -3>>, <<17>>, <<17, 1>>}

ASSUME NamesAreNames == AllNames \in SUBSET Seq(Characters)

\* Object 2 is known to be a video, and so is the file 2 to be a text.
ReportContent == <<"unknown", "video">>
ReportExtension == <<"unknown", "text">>

\* A provider may be called after its type, in any spelling.
FoldedNames == [n \in AskedName |-> IF n \in {"local", "LOCAL"} THEN "local" ELSE "minio"]
PlaceTypes == [p \in Place |-> "minio"]

\* The requests of all components are the same model values, and so are the
\* providers, the operations, the tag names and the preferences.
Symmetry == Permutations(Request) \cup Permutations(Provider)

\* A component that does not run starts in one state only, and so do those
\* whose initial states differ only in the names of files or of providers.
\* The tags there are from the start are those that a node may have.
ServicesInit ==
  /\ focus \in Component
  /\ TreeStart
  /\ focus # "tree" => node = NoRows
  /\ ContentStart
  /\ focus # "content" => object = {}
  /\ BatchStart
  /\ file = CHOOSE f \in [BatchFile -> [name : BatchName, version : {0}]] : Distinct(f)
  /\ AvatarStart
  /\ focus # "avatar" => avatar = NoAvatar
  /\ RegistryStart
  /\ conf = CHOOSE c \in StorageConfig : Usable(c)
  /\ TaggingStart
  /\ \/ LiveTags = {}
     \/ focus = "tagging" /\ \A t \in Tag : t \in Bindable /\ tag[t].target = NoTarget
  /\ PrefStart
  /\ focus # "preferences" => row = Version0
  /\ focus # "report" => /\ dirs = [d \in Dir |-> [parent |-> d - 1, type |-> "DEF"]]
                         /\ files = [f \in ReportFile |->
                                      [parent |-> 1, state |-> "visible", object |-> 1]]
  /\ ReportStart
  /\ focus # "listings" => scroll = NoScroll /\ item = [r \in ListRow |-> "none"]
  /\ ListingsStart
  /\ CallsStart
  /\ focus # "calls" => made = 0
  /\ RoutingStart
  /\ focus # "routing" => inForce = CHOOSE t \in ProviderTable : TRUE
  /\ AuthStart /\ MarkStart /\ UploadClientStart /\ OrderStart /\ MappingStart
  /\ focus # "order" => sortOrder[1] = 1 /\ place[4] = "unborn"

\* The others keep their state.
ServicesNext ==
  /\ UNCHANGED focus
  /\ IF focus = "tree" THEN TRUE ELSE UNCHANGED treeVars
  /\ IF focus = "content" THEN TRUE ELSE UNCHANGED contentVars
  /\ IF focus = "batch" THEN TRUE ELSE UNCHANGED batchVars
  /\ IF focus = "auth" THEN TRUE ELSE UNCHANGED authVars
  /\ IF focus = "preferences" THEN TRUE ELSE UNCHANGED prefVars
  /\ IF focus = "avatar" THEN TRUE ELSE UNCHANGED avatarVars
  /\ IF focus = "registry" THEN TRUE ELSE UNCHANGED registryVars
  /\ IF focus = "bookmarks" THEN TRUE ELSE UNCHANGED markVars
  /\ IF focus = "tagging" THEN TRUE ELSE UNCHANGED taggingVars
  /\ IF focus = "upload" THEN TRUE ELSE UNCHANGED uploadVars
  /\ IF focus = "order" THEN TRUE ELSE UNCHANGED orderVars
  /\ IF focus = "mappings" THEN TRUE ELSE UNCHANGED mappingVars
  /\ IF focus = "report" THEN TRUE ELSE UNCHANGED reportVars
  /\ IF focus = "listings" THEN TRUE ELSE UNCHANGED listVars
  /\ IF focus = "calls" THEN TRUE ELSE UNCHANGED callVars
  /\ IF focus = "routing" THEN TRUE ELSE UNCHANGED routingVars
  /\ IF focus = "tree" THEN TreeNext ELSE TRUE
  /\ IF focus = "content" THEN ContentNext ELSE TRUE
  /\ IF focus = "batch" THEN BatchNext ELSE TRUE
  /\ IF focus = "auth" THEN AuthNext ELSE TRUE
  /\ IF focus = "preferences" THEN PrefNext ELSE TRUE
  /\ IF focus = "avatar" THEN AvatarNext ELSE TRUE
  /\ IF focus = "registry" THEN RegistryNext ELSE TRUE
  /\ IF focus = "bookmarks" THEN MarkNext ELSE TRUE
  /\ IF focus = "tagging" THEN TaggingNext ELSE TRUE
  /\ IF focus = "upload" THEN UploadClientNext ELSE TRUE
  /\ IF focus = "order" THEN OrderNext ELSE TRUE
  /\ IF focus = "mappings" THEN MappingNext ELSE TRUE
  /\ IF focus = "report" THEN ReportNext ELSE TRUE
  /\ IF focus = "listings" THEN ListingsNext ELSE TRUE
  /\ IF focus = "calls" THEN CallsNext ELSE TRUE
  /\ IF focus = "routing" THEN RoutingNext ELSE TRUE

serviceVars == <<treeVars, contentVars, batchVars, authVars, prefVars, avatarVars, registryVars,
                 markVars, taggingVars, uploadVars, orderVars, mappingVars, reportVars, listVars,
                 callVars, routingVars, focus>>

ServicesSpec == ServicesInit /\ [][ServicesNext]_serviceVars

\* The type invariants of all components.
ServicesTypeOK ==
  /\ TreeTypeOK
  /\ ContentTypeOK
  /\ BatchTypeOK
  /\ AuthTypeOK
  /\ PrefTypeOK
  /\ AvatarTypeOK
  /\ RegistryTypeOK
  /\ MarkTypeOK
  /\ TaggingTypeOK
  /\ UploadClientTypeOK
  /\ OrderTypeOK
  /\ FileMappingsTypeOK
  /\ ReportTypeOK
  /\ ListingsTypeOK
  /\ CallsTypeOK
  /\ RoutingTypeOK

\* Both trees of a user stay whole under concurrent moves, deletions, restores
\* and imports: the nodes of a library and the bookmarks.
TreesStayWhole == TreeStaysWhole /\ BookmarksShown

\* A row that names an object of the store names one that exists: files, also
\* after a content replacement or a copy whose commit is unknown, and avatars.
ObjectsBacked == BoundObjectExists /\ AvatarBacked

\* What two requests found free at the same time only one of them gets: the
\* name and the target of a tag, and the extension of a file mapping.
UniqueKept == TagsUnique /\ MappingsUnique

\* What a client puts together from several statements is right: the parts of
\* a storage report add up, and a listing read page by page has every row once.
ReadsTrue == ReportAddsUp /\ ListedOnce

\* Every session ends, on the server and in the client: one that is logged out or
\* forgotten stops to authenticate, and the file a client keeps its session in
\* can always be read.
SessionsSound == SessionsEnd /\ SessionFileWhole

\* Files stay readable whatever becomes of the configuration of providers: the
\* stores in force are those it describes, and a file is found where it was put.
ProvidersSound == RegistrySound /\ FoundWhereWritten

NamesSort == NamesInNaturalOrder(AllNames)

\* Nodes are listed as the user asked: a name sort puts them in the order of their
\* names, in which numbers count by their value, and a move puts a node where it was
\* asked to go and leaves the order of the others alone, whatever comes in between
\* their statements.
OrderAsAsked == NamesSort /\ SortsByName /\ MovesPlaceAsAsked
=============================================================================
