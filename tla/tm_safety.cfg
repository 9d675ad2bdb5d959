CONSTANTS
    InitialConcurrency = 2
    MinConcurrency = 1
    MaxConcurrency = 100
    SuccessThreshold = 10
    Task = {t1, t2, t3}
    Type = {101}
    Pool <- MCPools
    PoolSize <- TwoThreads
    TypeOf <- SameType
    Model = {"m"}
    Installable = {"m"}
    ModelOf <- SameModel
    Throttled = {101}
    LimitChoices = {}
    Results = {"ok", "429", "error"}
    Used = {"cancelTask", "cancelTasksByType", "install"}
SYMMETRY TaskSymmetry
SPECIFICATION Spec
INVARIANTS
    TasksAreInPlace
    SlotsMatchRunning
    CancelledNeverExecutes
    FinishedExactlyOnce
CHECK_DEADLOCK FALSE
