CONSTANTS
  Nodes = {"a", "b", "c"}
  Callers = {"a"}
  Bootstrap <- DialTheCaller
  MaxFaults = 1
  Faults = {}
  MaxOps = 3
SPECIFICATION Spec
CHECK_DEADLOCK FALSE
PROPERTIES
  AnyPeerIsEnough
