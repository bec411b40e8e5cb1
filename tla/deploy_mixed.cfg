SPECIFICATION Spec
CONSTANTS
    NoCompose = NoCompose
    NoContainer = NoContainer
    MaxDeploys = 2
    MaxBackups = 1
    MaxEdits = 0
    FirstCreds = {"template", "legacy"}
    Kinds = {"build", "nobuild", "registry", "local"}
    RegenerateAt <- NotDuringRepair
    EditAt <- Never
    PruneAt <- NotAtSwap
INVARIANTS SwapReady
CHECK_DEADLOCK FALSE
