CONSTANTS
    Workflow = {w1}
    PoolSize <- SmallPools
    MaxTasks = 4
    Outcomes = {"full", "empty", "throws"}
    Nobody = Nobody
    Text <- SmallTexts
    Config <- SmallConfigs
    Pieces <- SmallPieces
    MaxTopK = 2
    MaxDistance = 2
    MaxFiles = 2
SPECIFICATION MCSpec
INVARIANTS
    StagesAgree
    PiecesArePacked
    ResultsAreNearest
PROPERTIES
    KeepsPromise
    BuildsEndAndLeave
    WindowsAreCut
CHECK_DEADLOCK FALSE
