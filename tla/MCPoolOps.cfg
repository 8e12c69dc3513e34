CONSTANTS
  c1 = c1
  c2 = c2
  c3 = c3
  portal = portal
  cli = cli
  Clients = {c1, c2, c3}
  Pools = {portal, cli}
  Home <- MCHome
  Names = {"n"}
  Labels = {x, y}
  NumChunks = 2
  Ops = {"put", "get", "soft", "purge", "disconnect", "force", "connect", "status"}
  Faults = {"upload", "delete", "db"}
  MaxOps = 3
SYMMETRY MCSymmetry
SPECIFICATION Spec
INVARIANTS
  TypeOK
  CompleteHasAllRows
  RowsPointSomewhere
