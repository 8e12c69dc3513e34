CONSTANTS
  ann = ann
  bob = bob
  Names = {ann, bob}
  Nobody = nobody
  Browsers = {"chrome"}
  Labels = {"drive"}
  h1 = h1
  h2 = h2
  Handlers = {h1, h2}
  Commands = {"cli"}
  TTL = 1
  MaxIdle = 1
  SweepEvery = 1
  MaxStates = 1
  MaxRegs = 2
  MaxOps = 2
SYMMETRY PortalSymmetry
SPECIFICATION Spec
INVARIANTS
  TypeOK
  TenantIsolation
  OneShot
  Swept
  CliNeverLogsIn
  KnownUnlessForeign
