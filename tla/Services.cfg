SPECIFICATION ServicesSpec
CONSTANTS
  NodeCount = 4
  NodeName = {"root", "a"}
  RootName = "root"
  Client = {r1, r2}
  MaxCalls = 3
  InitTrees <- ServiceTrees
  ContentFile = {f1, f2}
  Migrating = {f1}
  Request = {r1, r2}
  First = First
  Moved = Moved
  Provider = {y1, y2}
  BatchFile = {b1, b2}
  BatchName = {n1, n2, n3}
  Op = {y1, y2}
  Sending = {r1, r2}
  MaxTouches = 1
  AuthCall = {r1, r2}
  MaxTokens = 3
  Device = {r1, r2}
  Value = {y1, y2}
  NoValue = NoValue
  MaxRevision = 3
  Photo = {r1, r2}
  Builtin = Builtin
  Alias = {a1, a2}
  Connection = {k1, k2, k3}
  Unusable = {k3}
  Public = {u1, u2}
  Reloader = {r1, r2}
  MaxEdits = 2
  MarkCount = 4
  MarkCall = {r1, r2}
  MaxMarkCalls = 3
  TagCount = 2
  TagName = {y1, y2}
  TagTarget = {gx}
  NoTarget = NoTarget
  TagCall = {r1, r2}
  MaxTagCalls = 3
  PartCount = 3
  BatchSize = 2
  NodeMade = NodeMade
  Arranger = {r1, r2}
  SiblingCount = 4
  MoveStep = 8
  MinGap = 2
  CreateStep = 3
  MaxOrder = 65
  Characters <- RunCharacters
  DigitChars <- RunDigits
  LowerOf <- RunLower
  SiblingNames <- NamesOfSiblings
  MaxOrderSteps = 2
  MappingCount = 3
  FileExt = {y1, y2}
  MappingCall = {r1, r2}
  MaxMappingCalls = 4
  DirCount = 2
  FileCount = 2
  StoredObject = {1, 2}
  MaxBytes = 2
  BuiltIn = {"COMIC", "VIDEO"}
  ContentType <- ReportContent
  ExtType <- ReportExtension
  MaxWalk = 3
  MaxReportSteps = 1
  RowCount = 3
  PageSize = 2
  MaxListSteps = 1
  CliProcess = {r1, r2}
  MaxSessions = 2
  RoutedAlias = {"local", "minio", "MINIO"}
  AskedName = {"local", "minio", "MINIO", "LOCAL", "Minio"}
  Place = {k1, k2}
  Folded <- FoldedNames
  PlaceType <- PlaceTypes
INVARIANTS
  ServicesTypeOK
  TreesStayWhole
  RepairHeals
  ObjectsBacked
  NothingLeaks
  CarriedOutOnce
  SessionsSound
  ProvidersSound
  UniqueKept
  MetaAgrees
  ToldTheTruth
  ReadsTrue
  AnswersTrue
PROPERTIES
  LiveNeverPurged
  NoUnseenContentOverwritten
  OnlyAsApproved
  PreferencesAreRegister
  DeltaBindsBindable
  OrderAsAsked
SYMMETRY Symmetry
CHECK_DEADLOCK FALSE
