SPECIFICATION FairSpec
CONSTANTS
  NPlans = 2
  DefaultKnown = TRUE
  FaultKinds = {"crash", "call"}
  MaxTip = 1
  Operated = {1}
  MaxEvents = 1
CHECK_DEADLOCK FALSE
PROPERTIES
  DeletedIsOnOrigin
  UnregisteredIsShipped
  ReadyIsAnnounced
  MergedIsArchived
  BatchIsTried
  ConflictsAreMarked
