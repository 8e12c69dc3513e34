CONSTANTS
  Accounts = {a1, a2}
  Quotas <- MCQuotas
  Sizes <- MCSizes
  ChunkSize = 1
  MaxInt64 = 100
  MaxParallel = 2
  Faults = {"read", "folder", "upload", "md5", "delete", "exists", "db", "lost", "cancel", "crash"}
SPECIFICATION FairSpec
INVARIANTS
  TypeOK
  CompleteMeansWhole
  RowsPointSomewhere
  FailureLeavesNoRecord
  OrphansExcused
  OneFolderPerAccount
  BuffersBounded
  NeverStuck
PROPERTIES
  QuietAfterReturn
  Terminates
  PlacementSpec
