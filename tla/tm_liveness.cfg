CONSTANTS
    InitialConcurrency = 2
    MinConcurrency = 1
    MaxConcurrency = 100
    SuccessThreshold = 10
    Task = {1, 2, 3}
    Type = {100, 101}
    Pool <- MCPools
    PoolSize <- OneThread
    TypeOf <- TwoTypes
    Model = {"m", "c"}
    Installable = {"m"}
    ModelOf <- TwoModels
    Throttled = {}
    LimitChoices = {}
    Results = {"ok", "error"}
    Used = {"cancelTask"}
SPECIFICATION FairSpec
PROPERTIES
    TasksProceed
CHECK_DEADLOCK FALSE
