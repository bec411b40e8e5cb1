SPECIFICATION Spec
CONSTANTS
    NoCompose = NoCompose
    NoContainer = NoContainer
    MaxDeploys = 2
    MaxBackups = 2
    MaxEdits = 1
    FirstCreds = {"legacy"}
    Kinds = {"build", "nobuild"}
    RegenerateAt <- BetweenUses
    EditAt <- NotAtPatch
    PruneAt <- NotAtSwap
INVARIANTS SwapReady
PROPERTIES HealthyDeployRunsRequest OverwrittenIsBackedUp RollbackUndoesTheSync HealKeepsUploads
CHECK_DEADLOCK FALSE
