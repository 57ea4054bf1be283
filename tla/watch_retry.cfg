SPECIFICATION Spec
CONSTANTS
  a = a
  b = b
  solo = solo
  shared = shared
  other = other
  Plan = {a, b, solo}
  Project = {shared, other}
  Home <- MCHome
  Paths <- MCPaths
  View = "default"
  Kind <- MCKind
  Refusable = {a}
  Undecodable = {}
  Room <- MCRoom
  MaxFaults = 1
INVARIANTS
  GateStaysOpen
CHECK_DEADLOCK FALSE
