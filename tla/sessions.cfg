CONSTANTS
    InitialConcurrency = 2
    MinConcurrency = 1
    MaxConcurrency = 100
    SuccessThreshold = 10
    Task = {1, 2, 3}
    Type = {100, 101}
    Pool <- MCPools
    PoolSize <- MCPoolSize
    TypeOf <- ChatsAndCall
    Model = {"c"}
    Installable = {}
    ModelOf <- CloudModel
    Throttled = {}
    LimitChoices = {}
    Results = {"ok", "error"}
    Used = {}
    ChatSession = {"s"}
    CallSession = {"f"}
    None = "none"
    MaxChunks = 1
SPECIFICATION SessionSpec
INVARIANTS
    AnswersFitRequests
    
    BusySessionsWait
PROPERTIES
    OutputPrecedesFinish
CHECK_DEADLOCK FALSE
