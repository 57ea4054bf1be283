SPECIFICATION Spec
CONSTANTS
  Slug = {boot, next}
  Bootstrap = boot
  TickAll = {cron}
  ProjectTick = {push}
  MaxClaims = 1
  MaxAdds = 2
  MaxCommands = 0
  MaxFaults = 1
INVARIANTS
  TypeOK
  PoppedPlansExist
PROPERTIES
  ImplementsLine
  SweepTakesOnlyZombies
CHECK_DEADLOCK FALSE
