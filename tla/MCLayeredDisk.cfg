SPECIFICATION Spec
CONSTANTS
    docs = docs
    note = note
    blank = blank
    page = page
    Paths <- MCPaths
    Lower = 1
    Mount <- MCBelow
    Data = {blank}
    Empty = blank
    Links <- MCLinks
    MaxReparseDepth = 1
    MaxObjects = 4
INVARIANTS
    WalkIsUnion
    ReadersAndWritersAgree
    ListingIsView
CHECK_DEADLOCK FALSE
