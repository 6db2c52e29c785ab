SPECIFICATION FairPhone
CONSTANTS
    Parts = {"alone", "store", "queue", "bookmarks"}
    d1 = d1
    w1 = w1
    w2 = w2
    Phones = {d1}
    Chapters = {1, 2}
    LastPage = 2
    Workers = {w1}
    Unparseable = {1}
    PhoneAhead = 1
    ServerCap = 1
    ClientCap = 2
    CompactRows = 2
    MaxGroups = 1
    MaxRowId = 3
    MaxWebPushes = 0
    MaxFailures = 1
    MaxPushSeconds = 3
    ClockSkew = 1
    MaxClockAge = 20
    h1 = h1
    h2 = h2
    RowIds = {1, 2}
    LastPageNumber = 1
    Hashes = {h1}
    BytesOf <- OneContent
    MaxMishaps = 1
    QueueChapters = {1, 2}
    BatchWidth = 2
    MaxChapterTries = 2
    MaxTaps = 4
    p1 = p1
    p2 = p2
    b1 = b1
    b2 = b2
    BookmarkProfiles = {p1, p2}
    BookmarkIds = {b1}
    Owner <- OwnerById
    LastStamp = 2
    ChunkOps = 1
    MaxEdits = 1
    MaxCuts = 1
    MaxSwitches = 1
    q1 = q1
    q2 = q2
    StatReaders = {q1}
    LastDay = 1
    RepairDays = 1
    MaxSessions = 0
    MaxBusy = 0
INVARIANTS
    PhoneTypesOK
    CancelledIsOwed
    NothingUnsent
PROPERTIES
    FurthestChapterKept
    OutboxDrains
    StorageSettles
    CancelsTakeEffect
    QueueNeverStallsSilently
    TombstonesAreTerminal
    BookmarksConverge
CHECK_DEADLOCK FALSE
