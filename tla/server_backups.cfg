SPECIFICATION Spec
CONSTANTS
  Source = {db, files}
  Directory = {files}
  Keyed = {db}
  Run = {cron, hand}
  Installer = hand
  DefaultKeep = 2
  HeavyKeep = 1
  Overrides = {2, 3}
  SameMinute = {2}
  MaxDumps = 3
  MaxInstalls = 1
INVARIANTS
  WholeOneStays
PROPERTIES
  RotationKeepsNewest
CHECK_DEADLOCK FALSE
