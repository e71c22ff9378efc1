SPECIFICATION Spec
CONSTANTS
    StartPlaces = {"program", "package", "local", "custom", "renamed"}
    AutoDefault = TRUE
    Supervised = TRUE
    RuntimeDir = TRUE
    RestartMayFail = TRUE
    Desktop = TRUE
    MaxVersion = 3
    MaxWithdrawals = 1
    MaxUserSteps = 1
    MaxKills = 1
    MaxEarly = 1
INVARIANTS TypeOK
PROPERTIES NeverGoesBack InstalledOnce
CHECK_DEADLOCK FALSE
