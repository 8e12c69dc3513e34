CONSTANTS
  Accounts = {a1, a2}
  Quotas <- MCQuotas
  Sizes <- MCSizes
  ChunkSize = 1
  MaxInt64 = 100
  MaxParallel = 2
  Faults = {"db"}
SPECIFICATION Spec
INVARIANTS
  NoOrphans
