\* One plan, in a repository where git does not know origin's default branch.
CONSTANTS
  NPlans = 1
  DefaultKnown = FALSE
  FaultKinds = {}
  MaxTip = 1
  Operated = {1}
  MaxEvents = 2
SPECIFICATION Spec
PROPERTY DeletedIsOnOrigin
CHECK_DEADLOCK FALSE
