SPECIFICATION Spec
CONSTANTS
  MaxTasks = 2
  MaxEdits = 1
  Boots = 3
  MaxCommands = 1
  MaxWork = 1
INVARIANTS
  NotShutOut
  UndoneIsAsBefore
  CompletedMeansRestarted
PROPERTIES
  WindowSparesWork
  PendingEnds
CHECK_DEADLOCK FALSE
