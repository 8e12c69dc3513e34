CONSTANTS
  Nodes = {"a", "b", "c"}
  Callers = {"a"}
  Bootstrap <- DialTheCaller
  MaxFaults = 1
  Faults = {"drop", "overrun", "first", "add", "join", "stop"}
  MaxOps = 3
SPECIFICATION Spec
CHECK_DEADLOCK FALSE
INVARIANTS
  TypeOK
  ReplicaExact
  GetIsLastStored
PROPERTIES
  GetReturns
