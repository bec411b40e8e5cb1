SPECIFICATION Spec
CONSTANTS
  Sites = {s}
  Procs = {p, q}
  Keep <- KeepOne
  MaxVersion = 2
  MaxId = 3
  Overlap = FALSE
INVARIANTS
  TypeOK
  ReadyIsKept
  SiteRecoverable
PROPERTIES
  RollbackGivesBack
CHECK_DEADLOCK FALSE
