---------------------------- MODULE ServicesProofs ----------------------------
(***************************************************************************)
(* The components that the run Services checks together, each for every    *)
(* value of its constants: the run plays each component's specification,   *)
(* so what is proved of a component holds of it.                           *)
(***************************************************************************)
EXTENDS MCServices, NodeTreeProofs, StorageProofs, RequestProofs, ListingProofs

-----------------------------------------------------------------------------
(* Every component keeps its specification.                                *)

LEMMA ComponentsStart ==
  ServicesInit =>
    /\ TreeStart
    /\ ContentStart
    /\ AvatarStart
    /\ BatchStart
    /\ AuthStart
    /\ PrefStart
    /\ RegistryStart
    /\ MarkStart
    /\ RoutingStart
    /\ TaggingStart
    /\ MappingStart
    /\ UploadClientStart
    /\ CallsStart
    /\ OrderStart
    /\ ListingsStart
    /\ ReportStart
BY DEF ServicesInit

LEMMA ComponentsStep ==
  [ServicesNext]_serviceVars =>
    /\ [TreeNext]_treeVars
    /\ [ContentNext]_contentVars
    /\ [AvatarNext]_avatarVars
    /\ [BatchNext]_batchVars
    /\ [AuthNext]_authVars
    /\ [PrefNext]_prefVars
    /\ [RegistryNext]_registryVars
    /\ [MarkNext]_markVars
    /\ [RoutingNext]_routingVars
    /\ [TaggingNext]_taggingVars
    /\ [MappingNext]_mappingVars
    /\ [UploadClientNext]_uploadVars
    /\ [CallsNext]_callVars
    /\ [OrderNext]_orderVars
    /\ [ListingsNext]_listVars
    /\ [ReportNext]_reportVars
BY DEF ServicesNext, serviceVars

LEMMA TreeRun == ServicesSpec => TreeSpec
BY ComponentsStart, ComponentsStep, PTL DEF ServicesSpec, TreeSpec

LEMMA ContentRun == ServicesSpec => ContentSpec
BY ComponentsStart, ComponentsStep, PTL DEF ServicesSpec, ContentSpec

LEMMA AvatarsRun == ServicesSpec => AvatarSpec
BY ComponentsStart, ComponentsStep, PTL DEF ServicesSpec, AvatarSpec

LEMMA BatchesRun == ServicesSpec => BatchSpec
BY ComponentsStart, ComponentsStep, PTL DEF ServicesSpec, BatchSpec

LEMMA LoginsRun == ServicesSpec => AuthSpec
BY ComponentsStart, ComponentsStep, PTL DEF ServicesSpec, AuthSpec

LEMMA PreferencesRun == ServicesSpec => PrefSpec
BY ComponentsStart, ComponentsStep, PTL DEF ServicesSpec, PrefSpec

LEMMA RegistryRun == ServicesSpec => RegistrySpec
BY ComponentsStart, ComponentsStep, PTL DEF ServicesSpec, RegistrySpec

LEMMA MarksRun == ServicesSpec => MarkSpec
BY ComponentsStart, ComponentsStep, PTL DEF ServicesSpec, MarkSpec

LEMMA RoutingRun == ServicesSpec => RoutingSpec
BY ComponentsStart, ComponentsStep, PTL DEF ServicesSpec, RoutingSpec

LEMMA TagsRun == ServicesSpec => TaggingSpec
BY ComponentsStart, ComponentsStep, PTL DEF ServicesSpec, TaggingSpec

LEMMA MappingsRun == ServicesSpec => MappingSpec
BY ComponentsStart, ComponentsStep, PTL DEF ServicesSpec, MappingSpec

LEMMA UploadsRun == ServicesSpec => UploadClientSpec
BY ComponentsStart, ComponentsStep, PTL DEF ServicesSpec, UploadClientSpec

LEMMA CommandsRun == ServicesSpec => CallsSpec
BY ComponentsStart, ComponentsStep, PTL DEF ServicesSpec, CallsSpec

LEMMA OrderRun == ServicesSpec => OrderSpec
BY ComponentsStart, ComponentsStep, PTL DEF ServicesSpec, OrderSpec

LEMMA ListingsRun == ServicesSpec => ListingsSpec
BY ComponentsStart, ComponentsStep, PTL DEF ServicesSpec, ListingsSpec

LEMMA ReportRun == ServicesSpec => ReportSpec
BY ComponentsStart, ComponentsStep, PTL DEF ServicesSpec, ReportSpec

-----------------------------------------------------------------------------
(* The properties of the run.                                              *)

\* Both trees of a user stay whole under concurrent moves, deletions, restores and
\* imports, unless two requests that endanger a tree overlap: the nodes of a library,
\* which form a tree at the start (TreesWholeAtStart), and the bookmarks
\* (TreesStayWhole).
THEOREM ServicesTreesWhole == ServicesSpec => []TreesStayWhole
<1>1. TreeStaysWhole /\ BookmarksShown => TreesStayWhole
  BY DEF TreesStayWhole
<1>2. TreeSpec => []TreeStaysWhole
  BY TreesWholeAtStart, TreeIsWhole
<1> QED BY <1>1, <1>2, TreeRun, MarksRun, BookmarksStayShown, PTL

\* A row that names an object of the store names one that exists: files, also
\* after a content replacement or a copy whose commit is unknown, and avatars
\* (ObjectsBacked).
THEOREM ServicesBacked == ServicesSpec => []ObjectsBacked
<1>1. BoundObjectExists /\ AvatarBacked => ObjectsBacked
  BY DEF ObjectsBacked
<1> QED BY <1>1, ContentRun, AvatarsRun, BoundContentIsThere, AvatarIsThere, PTL

\* Files stay readable whatever becomes of the configuration of providers
\* (ProvidersSound).
THEOREM ServicesProvidersSound == ServicesSpec => []ProvidersSound
<1>1. RegistrySound /\ FoundWhereWritten => ProvidersSound
  BY DEF ProvidersSound
<1> QED BY <1>1, RegistryRun, RoutingRun, RegistryIsSound, FilesFoundWhereWritten, PTL

\* A session that is logged out or forgotten stops to authenticate, and the file
\* a client keeps its session in can always be read (SessionsSound).
THEOREM ServicesSessionsSound == ServicesSpec => []SessionsSound
<1>1. SessionsEnd /\ SessionFileWhole => SessionsSound
  BY DEF SessionsSound
<1> QED BY <1>1, LoginsRun, CommandsRun, LoginsEnd, SessionFileStaysWhole, PTL

\* What two requests found free at the same time only one of them gets: the name
\* and the target of a tag, and the extension of a mapping (UniqueKept).
THEOREM ServicesKeepUnique == ServicesSpec => []UniqueKept
<1>1. TagsUnique /\ MappingsUnique => UniqueKept
  BY DEF UniqueKept
<1> QED BY <1>1, TagsRun, MappingsRun, TagsStayUnique, ExtensionsUnique, PTL

\* What a client puts together from several statements is right: the parts of a
\* storage report add up, and a listing read page by page has every row once
\* (ReadsTrue).
THEOREM ServicesReadsTrue == ServicesSpec => []ReadsTrue
<1>1. ReportAddsUp /\ ListedOnce => ReadsTrue
  BY DEF ReadsTrue
<1> QED BY <1>1, ReportRun, ListingsRun, ReportsAddUp, RowsListedOnce, PTL

\* Every component stays within its types (ServicesTypeOK).
THEOREM ServicesTyped == ServicesSpec => []ServicesTypeOK
<1>1. /\ ContentInv => ContentTypeOK
      /\ AvatarInv => AvatarTypeOK
      /\ RoutingInv => RoutingTypeOK
      /\ RegistryInv => RegistryTypeOK
  BY DEF ContentInv, AvatarInv, RoutingInv, RegistryInv
<1>2. /\ BatchInv => BatchTypeOK
      /\ AuthInv => AuthTypeOK
      /\ PrefInv => PrefTypeOK
      /\ TaggingInv => TaggingTypeOK
      /\ MappingInv => FileMappingsTypeOK
  BY DEF BatchInv, AuthInv, PrefInv, TaggingInv, MappingInv
<1>3. ServicesSpec => []ContentInv /\ []AvatarInv /\ []RoutingInv /\ []RegistryInv
  BY ContentRun, AvatarsRun, RoutingRun, RegistryRun, ContentInvariant, AvatarInvariant,
     RoutingInvariance, RegistryInvariant
<1>4. ServicesSpec => []BatchInv /\ []AuthInv /\ []PrefInv /\ []TaggingInv /\ []MappingInv
  BY BatchesRun, LoginsRun, PreferencesRun, TagsRun, MappingsRun, BatchInvariant, AuthInvariant,
     PrefInvariant, TaggingInvariant, MappingInvariant
<1>5. ServicesSpec => []TreeTypeOK /\ []MarkTypeOK /\ []OrderTypeOK /\ []ListingsTypeOK /\ []ReportTypeOK
  BY TreeRun, MarksRun, OrderRun, ListingsRun, ReportRun, TreeTypes, MarkTypes, OrderTypes,
     ListingsAreTyped, ReportTypes
<1>6. ServicesSpec => []UploadClientTypeOK /\ []CallsTypeOK
  BY UploadsRun, CommandsRun, UploadTypes, CallsAreTyped
<1>7. /\ ContentTypeOK /\ AvatarTypeOK /\ RoutingTypeOK /\ RegistryTypeOK
      /\ BatchTypeOK /\ AuthTypeOK /\ PrefTypeOK /\ TaggingTypeOK /\ FileMappingsTypeOK
      /\ TreeTypeOK /\ MarkTypeOK /\ OrderTypeOK /\ ListingsTypeOK /\ ReportTypeOK
      /\ UploadClientTypeOK /\ CallsTypeOK
      => ServicesTypeOK
  BY DEF ServicesTypeOK
<1> QED BY <1>1, <1>2, <1>3, <1>4, <1>5, <1>6, <1>7, PTL

\* A name sort lists nodes in the order of their names, and a move puts a node where it
\* was asked to go and keeps the order of the others (OrderAsAsked), whatever comes in
\* between their statements.
THEOREM ServicesOrdered == ServicesSpec => OrderAsAsked
<1>1. NamesSort
  BY NamesAreNames, NaturalOrderOfNames DEF NamesSort
<1>2. OrderAsAsked <=> NamesSort /\ SortsByName /\ MovesPlaceAsAsked
  BY DEF OrderAsAsked
<1> QED BY <1>1, <1>2, OrderRun, SortIsByName, MovesArePlaced, PTL

\* What a component keeps by itself the run keeps: restored nodes are not purged and
\* repairs heal, stores hold what is bound and no unseen content is overwritten,
\* batches are carried out once and as approved, preferences are a register, tags
\* are bound only if they may be, metadata agrees, uploads are told truly, and
\* so are the users of the command line.
THEOREM ServicesKeepPromises ==
  ServicesSpec =>
    /\ LiveNeverPurged /\ []RepairHeals
    /\ []NothingLeaks /\ NoUnseenContentOverwritten
    /\ []CarriedOutOnce /\ OnlyAsApproved
    /\ PreferencesAreRegister
    /\ DeltaBindsBindable /\ []MetaAgrees
    /\ []ToldTheTruth
    /\ []AnswersTrue
BY TreeRun, ContentRun, BatchesRun, PreferencesRun, TagsRun, UploadsRun, CommandsRun, LiveRowsStay,
   RepairHealsTree, StoresHoldWhatIsBound, OverwritesOnlyWhatWasSeen, BatchCarriedOutOnce,
   BatchOnlyAsApproved, PreferencesRefineRegister, DeltasBindBindable, MetadataAgrees,
   UploadToldTheTruth, CommandsAnswerTruly, PTL
=============================================================================
