SPECIFICATION FairSpec
CONSTANTS
  Plan = {red, blue}
  Nobody = nobody
  Day = 4
  Reset = 0
  Buffer = 1
  Window = 1
  MaxClaims = 2
  MaxDeaths = 1
  MaxFaults = 1
INVARIANTS
  TypeOK
  OneProbe
  ForgivenWasRecorded
PROPERTIES
  PausesEnd
CHECK_DEADLOCK FALSE
