CONSTANTS
    Request = {"r1"}
    Account = {"a"}
    Events = 1
SPECIFICATION RequestsSpec
INVARIANTS
    RateLimitsReachTasks
CHECK_DEADLOCK FALSE
