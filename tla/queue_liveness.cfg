SPECIFICATION FairSpec
CONSTANTS
  Slug = {boot, next}
  Bootstrap = boot
  TickAll = {cron}
  ProjectTick = {}
  MaxClaims = 2
  MaxAdds = 1
  MaxCommands = 1
  MaxFaults = 1
PROPERTIES
  LineMoves
  ZombiesEnd
CHECK_DEADLOCK FALSE
