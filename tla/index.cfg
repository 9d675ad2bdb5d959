CONSTANTS
    Doc = {"a", "b", "c"}
    ChunksOf <- MCChunks
    Batches <- OneOrAll
    DumpThreshold = 2
    MaxId = 8
    MaxCreates = 4
    MaxSearches = 1
    Faults = {"fail", "restart", "delete", "search", "io"}
    Blank = Blank
    Junk = Junk
    None = None
    ProviderOrder <- Providers
    TypeOrder <- Types
    StartContent <- OnlyPackaged
    KeyText = {"key1", "key2"}
    ModelText = {"m1"}
    MaxChanges = 2
SPECIFICATION MCSpec
INVARIANTS
    
    
    InterfacesFitFile
PROPERTIES
    EditsAreKept
CHECK_DEADLOCK FALSE
