SPECIFICATION FairSpec
CONSTANTS
  a = a
  b = b
  solo = solo
  shared = shared
  other = other
  Plan = {a, b, solo}
  Project = {shared, other}
  Home <- MCHome
  Paths <- MCPaths
  View = "default"
  Kind <- MCKind
  Refusable = {solo}
  Undecodable = {solo}
  Room <- MCRoom
  MaxFaults = 1
INVARIANTS
  StreamIsTheLog
  GateStaysOpen
PROPERTIES
  NewsArrives
CHECK_DEADLOCK FALSE
