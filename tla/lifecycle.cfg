CONSTANTS
    Client = {c1, c2}
    MaxSessions = 2
    MaxRequests = 4
    Nothing = Nothing
    Loose = {"g"}
    Inside = {"d/f"}
    Folder = "d"
    MaxChanges = 3
    MaxSwitches = 2
    MaxCrashes = 1
SPECIFICATION MCSpec
INVARIANTS
    BooksAgree
    
PROPERTIES
    SessionsGoAway
    
CHECK_DEADLOCK FALSE
