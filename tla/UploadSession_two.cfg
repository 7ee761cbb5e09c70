\* Two single-PUT sessions of one actor that share an operation id, and a janitor.
SPECIFICATION Spec
CONSTANTS
  s1 = s1  s2 = s2  r1 = r1  r2 = r2  r3 = r3  A = A  B = B  n1 = n1  n2 = n2  j1 = j1  j2 = j2
  Sessions = {s1, s2}
  Multipart = {}
  Owner <- OneActor
  ClientOps = {A}
  Requests = {r1, r2}
  Janitors = {j1}
  NodeIds = {n1, n2}
  SessionTTL = 1
  CompletionClaimMinTTL = 1
  CleanupClaimTTL = 1
  ReceiptTTL = 1
  UrlTTL = 1
  SweepTimeout = 1
  SweepLimit = 1
SYMMETRY SessionSymmetry
INVARIANT OperationHasOneResult
