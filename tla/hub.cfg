SPECIFICATION FairSpec
CONSTANTS
    MaxCalls = 3
    MaxHelpers = 2
    MaxCrashes = 1
    MaxRestarts = 1
    PipeFrames = 2
INVARIANTS TypeOK SessionValuesOwn
PROPERTIES RpcPromiseKept EveryCallReturns HelperServed
CHECK_DEADLOCK FALSE
