SPECIFICATION BookmarkSpec
CONSTANTS
    p1 = p1
    p2 = p2
    b1 = b1
    b2 = b2
    BookmarkProfiles = {p1, p2}
    BookmarkIds = {b1, b2}
    Owner <- OwnerById
    LastStamp = 1
    ChunkOps = 1
    MaxEdits = 1
    MaxCuts = 0
    MaxSwitches = 1
INVARIANTS
    OwnProfileOnly
CHECK_DEADLOCK FALSE
