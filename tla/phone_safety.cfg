SPECIFICATION PhoneSpec
CONSTANTS
    Parts = {"alone", "overlap", "store", "stats"}
    d1 = d1
    w1 = w1
    w2 = w2
    Phones = {d1}
    Chapters = {1}
    LastPage = 2
    Workers = {w1, w2}
    Unparseable = {}
    PhoneAhead = 1
    ServerCap = 2
    ClientCap = 2
    CompactRows = 2
    MaxGroups = 2
    MaxRowId = 3
    MaxWebPushes = 1
    MaxFailures = 2
    MaxPushSeconds = 3
    ClockSkew = 1
    MaxClockAge = 20
    h1 = h1
    h2 = h2
    RowIds = {1, 2}
    LastPageNumber = 2
    Hashes = {h1, h2}
    BytesOf <- TwoContents
    MaxMishaps = 1
    QueueChapters = {1}
    BatchWidth = 1
    MaxChapterTries = 1
    MaxTaps = 0
    p1 = p1
    p2 = p2
    b1 = b1
    b2 = b2
    BookmarkProfiles = {p1}
    BookmarkIds = {b1}
    Owner <- OwnerById
    LastStamp = 1
    ChunkOps = 1
    MaxEdits = 0
    MaxCuts = 0
    MaxSwitches = 0
    q1 = q1
    q2 = q2
    StatReaders = {q1, q2}
    LastDay = 2
    RepairDays = 1
    MaxSessions = 2
    MaxBusy = 1
INVARIANTS
    TypeOK
    PositionNeverLostAlone
    CompletionNeverLost
    AccountsExact
    CompleteHasAllPages
    StatsTypeOK
    StatsTellTheSessions
    RebuildSuffices
    StreakCountsDays
PROPERTIES
    PositionNeverRewindsAlone
    CompletionStampedOnceAlone
    CompletionSticky
    ReplayCreditsNothingAlone
    InsertRaceMerges
    SharingIsInvisible
SYMMETRY ReaderSymmetry
CHECK_DEADLOCK FALSE
