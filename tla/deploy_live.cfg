SPECIFICATION Spec
CONSTANTS
    NoCompose = NoCompose
    NoContainer = NoContainer
    MaxDeploys = 2
    MaxBackups = 1
    MaxEdits = 0
    FirstCreds = {"template"}
    Kinds = {"build", "local"}
    RegenerateAt <- BetweenUses
    EditAt <- Never
    PruneAt <- NotAtSwap
PROPERTIES DeployEnds AutohealRevives
CHECK_DEADLOCK FALSE
