CONSTANTS
  c1 = c1
  c2 = c2
  c3 = c3
  portal = portal
  cli = cli
  Clients = {c1, c2}
  Pools = {portal}
  Home <- MCHomeTwo
  Names = {"n"}
  Labels = {x, y}
  NumChunks = 2
  Ops = {"put", "purge"}
  Faults = {}
  MaxOps = 4
SYMMETRY MCSymmetry
SPECIFICATION Spec
PROPERTIES
  PurgeRemovesWhatItFound
