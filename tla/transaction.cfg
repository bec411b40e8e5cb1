SPECIFICATION Spec
CONSTANT N = 6
INVARIANTS UndoesFromTheLast LeavesOnlyWhatFailed
PROPERTIES ImplementsSpec
CHECK_DEADLOCK FALSE
