SPECIFICATION MCSpec
CONSTANTS
  Run = {r1, r2}
  MaxCommit = 3
  None = None
  Partial = Partial
  MaxLibrary = 2
  MaxDeploys = 2
INVARIANTS
  TagNamesCommit
  DepsFollowSources
CHECK_DEADLOCK FALSE
