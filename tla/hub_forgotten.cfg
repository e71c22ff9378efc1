SPECIFICATION FairSpec
CONSTANTS
    MaxCalls = 0
    MaxHelpers = 1
    MaxCrashes = 1
    MaxRestarts = 0
    PipeFrames = 2
PROPERTIES GoneHelperForgotten
CHECK_DEADLOCK FALSE
