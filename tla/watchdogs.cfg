SPECIFICATION FairSpec
CONSTANTS
  Ticker = {cron, push}
  Need = 2
  StrikeLimit = 1
  MaxClaims = 1
  MaxCalls = 2
  MaxFaults = 1
INVARIANTS
  NoticeOnce
PROPERTIES
  NoticesAreCurrent
  WedgedIsReported
CHECK_DEADLOCK FALSE
