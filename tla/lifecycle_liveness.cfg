SPECIFICATION FairSpec
CONSTANTS
  cron = cron
  push = push
  Ticker = {cron, push}
  NumPhases = 1
  MaxClaims = 3
  MaxAttempts = 1
  MaxInterventions = 1
  MaxBlockers = 1
  MaxTasks = 0
PROPERTIES
  ClaimsEnd
  RunningPlansMove
  AnswersAreConsumed
CHECK_DEADLOCK FALSE
