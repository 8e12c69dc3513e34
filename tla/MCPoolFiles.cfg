CONSTANTS
  c1 = c1
  c2 = c2
  c3 = c3
  portal = portal
  cli = cli
  Clients = {c1, c2}
  Pools = {portal}
  Home <- MCHomeTwo
  Names = {"n"}
  Labels = {x, y}
  NumChunks = 2
  Ops = {"put", "get", "soft", "purge", "disconnect", "force", "connect"}
  Faults = {"db"}
  MaxOps = 5
SYMMETRY MCSymmetry
SPECIFICATION Spec
INVARIANTS
  PurgedIsGone
  GetIsOneUpload
  AckedPutSurvives
PROPERTIES
  PurgeGoesThrough
