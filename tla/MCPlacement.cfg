CONSTANTS
  Accounts = {a1, a2, a3}
  Quotas <- MCQuotas
  Sizes <- MCSizes
  ChunkSize = 2
  MaxInt64 = 100
SPECIFICATION Spec
INVARIANTS
  TypeOK
  Balanced
  OvercommitBounded
  BudgetExact
  RefusedOnlyWhenFull
  SplitIsWhole
