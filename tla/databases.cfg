SPECIFICATION Spec
CONSTANTS
  Table = {users, files}
  Critical = {users}
  Row = {a, b}
  Nature <- Natures
  MaxRuns = 1
  MaxWrites = 1
  Version = {9, 10, 11}
  Digits = 2
  Migrator = {p, q}
  MaxMigrates = 3
SYMMETRY Symmetry
INVARIANTS
  
  NothingLeft
  NoGaps
PROPERTIES
  SentAgainOnlyIfUnsure
CHECK_DEADLOCK FALSE
