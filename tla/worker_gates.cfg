SPECIFICATION Spec
CONSTANTS
  Worktree = TRUE
  Cap = 1
  Command = {one, two}
  MaxClaims = 2
  MaxCommits = 1
INVARIANTS
  TypeOK
PROPERTIES
  OverrunsAreOwn
  CompletedIsGood
  LargeIsAttested
SYMMETRY CommandsAlike
CHECK_DEADLOCK FALSE
