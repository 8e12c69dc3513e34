CONSTANTS
  FileChunks = 5
  MaxParallel = 3
  Faults = {"account", "download", "corrupt", "write"}
SPECIFICATION FairSpec
INVARIANTS
  TypeOK
  OkMeansWhole
  FaultlessSucceeds
  NoGetterOutlives
PROPERTIES
  Terminates
  DeliverySpec
