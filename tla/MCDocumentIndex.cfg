SPECIFICATION Spec
CONSTANTS
  Path = {p, q}
  Documents <- TheDocuments
  MaxCalls = 3
  K = 60
  ChunkSize = 3
  Overlap = 1
CHECK_DEADLOCK FALSE
INVARIANTS
  StoresAgree
  NothingStale
  FusionMonotone
