SPECIFICATION ServiceSpec
CONSTANTS
    Requests <- MCRequests
    Contents <- MCContents
    Inside <- MCInside
    MaxCacheEntries = 2
    MaxOverlayFiles = 1
    MaxOverlayBytes = 1
    MaxInventoryFiles = 3
    Impatient = {"first"}
    MaxEdits = 1
INVARIANTS
    SupersededIsCancelled
    ScopeIsExact
