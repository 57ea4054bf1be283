SPECIFICATION Spec
CONSTANTS
  Worktree = FALSE
  Cap = 1
  Command = {one, two}
  MaxClaims = 2
  MaxCommits = 1
PROPERTIES
  LargeIsAttested
SYMMETRY CommandsAlike
CHECK_DEADLOCK FALSE
