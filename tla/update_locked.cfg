SPECIFICATION Spec
CONSTANTS
    StartPlaces = {"program"}
    AutoDefault = TRUE
    Supervised = TRUE
    RuntimeDir = TRUE
    RestartMayFail = FALSE
    Desktop = TRUE
    MaxVersion = 2
    MaxWithdrawals = 0
    MaxUserSteps = 0
    MaxKills = 0
    MaxEarly = 0
PROPERTIES SetupReplaces
CHECK_DEADLOCK FALSE
