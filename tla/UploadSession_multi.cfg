\* One multipart session, three concurrent requests, two operation ids.
SPECIFICATION Spec
CONSTANTS
  s1 = s1  s2 = s2  r1 = r1  r2 = r2  r3 = r3  A = A  B = B  n1 = n1  n2 = n2  j1 = j1  j2 = j2
  Sessions = {s1}
  Multipart = {s1}
  Owner <- OneActor
  ClientOps = {A, B}
  Requests = {r1, r2, r3}
  Janitors = {j1}
  NodeIds = {n1, n2}
  SessionTTL = 2
  CompletionClaimMinTTL = 1
  CleanupClaimTTL = 1
  ReceiptTTL = 2
  UrlTTL = 1
  SweepTimeout = 1
  SweepLimit = 1
SYMMETRY Symmetry
INVARIANTS TypeOK CommittedObjectPresent OneNodePerSession RepliesAgree CleanupExcludesCompletion
PROPERTIES JanitorRespectsLease ReceiptKept OutcomeSpec
