SPECIFICATION FairSpec
CONSTANTS
    StartPlaces = {"program", "package", "custom"}
    AutoDefault = TRUE
    Supervised = TRUE
    RuntimeDir = TRUE
    RestartMayFail = FALSE
    Desktop = TRUE
    MaxVersion = 3
    MaxWithdrawals = 1
    MaxUserSteps = 0
    MaxKills = 1
    MaxEarly = 1
PROPERTIES UpdateSettles OfferRefreshed
CHECK_DEADLOCK FALSE
