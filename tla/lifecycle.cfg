SPECIFICATION FairSpec
CONSTANTS
  Sites = {a, b}
  Procs = {p}
  Targets = {t, u}
  Instance <- OneCoolify
  NoRecord = none
  Unset <- OnlyNone
  Restorable = {"failover"}
  Overlap = FALSE
  MaxStacks = 2
  MaxFaults = 1
INVARIANTS
  TypeOK
  RecordedStackExists
PROPERTIES
  ServedStaysServed
  LoneDeleteCompletes
CHECK_DEADLOCK FALSE
