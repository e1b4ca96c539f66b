SPECIFICATION Spec
CONSTANTS
    InfoHash = {h1, h2}
    NumTIDs = 3
    MaxPending = 2
    MaxPerHash = 2
    Timeout = 3
    SendCap = 1
    MaxClock = 5
    MaxCalls = 4
SYMMETRY Symmetry
INVARIANTS
    TypeOK
    AccountingExact
    TableBounded
    ExpiryCovers
    RepliesMatchQueries
PROPERTIES
    LiveNeverOverwritten
    RefusalJustified
