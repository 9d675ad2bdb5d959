CONSTANTS
    InitialConcurrency = 5
    MinConcurrency = 1
    MaxConcurrency = 100
    SuccessThreshold = 10
    Caller = {"c1", "c2"}
    Server = {1, 2}
    Now = 1700000000
    MaxWaits = 1
    MaxCalls = 2
    Request = {"r1", "r2"}
    Account = {"a", "b"}
    Events = 2
SPECIFICATION MCSpec
INVARIANTS
    CallersAreTold
    RequestsAreTold
PROPERTIES
    
    ServersAreOwn
    StreamIsKept
    
CHECK_DEADLOCK FALSE
