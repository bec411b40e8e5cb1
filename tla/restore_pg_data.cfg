SPECIFICATION Spec
CONSTANTS
  MaxRestores = 3
  MaxChanges = 2
  SameMachine = TRUE
  Autoheal = TRUE
INVARIANTS
  OriginalSurvives
PROPERTIES
  BadTarballHarmless
  AppRestarted
CHECK_DEADLOCK FALSE
