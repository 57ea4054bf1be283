SPECIFICATION Spec
CONSTANTS
  cron = cron
  push = push
  Ticker = {cron, push}
  NumPhases = 2
  MaxClaims = 2
  MaxAttempts = 1
  MaxInterventions = 1
  MaxBlockers = 1
  MaxTasks = 1
SYMMETRY TickerSymmetry
INVARIANTS
  TypeOK
  PidBelongsToClaim
  BudgetRespected
  QuietWhenFinished
  VerdictsRestOnLog
  DoneMeansFinished
PROPERTIES
  StartsOnlyOpenPhase
  HaltsOnlyWhenSpent
  LiveClaimSurvivesTicks
  ImplementsLedger
CHECK_DEADLOCK FALSE
