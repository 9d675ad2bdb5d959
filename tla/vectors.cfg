CONSTANTS
    App = {a}
    NoApp = NoApp
    Base = {x}
    Matches <- Nested
    MaxDocs = 3
    MaxBuilds = 2
    CacheLimit = 1
    MaxSearches = 1
    MaxFaults = 1
    MaxRestarts = 1
    MaxDestroys = 1
SPECIFICATION Spec
INVARIANTS
    StoreAgrees
    SearchesFindDocuments
    NothingOutlivesDestroy
    HangsOnlyOnReload
CHECK_DEADLOCK FALSE
