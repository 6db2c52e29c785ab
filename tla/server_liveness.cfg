SPECIFICATION FairServer
CONSTANTS
    Parts = {"render", "oneSeries", "twoSeries", "restore", "searches", "readers"}
    j1 = j1
    w1 = w1
    w2 = w2
    t1 = t1
    a = a
    b = b
    ch1 = ch1
    Chapters = {ch1}
    ChapterOf <- OneChapter
    Boxes = {w1, w2}
    MaxAttempts = 2
    Segments = 1
    MaxClaims = 2
    Jobs = {j1}
    Threads = {t1}
    MaxUpsets = 1
    Series = {a, b}
    MaxFollows = 2
    LastRelease = 2
    MaxBadAnswers = 2
    MaxWalks = 1
    MaxCommits = 3
    KeepReplaced = 1
    MaxRestores = 2
    MaxFaults = 2
    s1 = s1
    s2 = s2
    HealthSources = {s1, s2}
    FollowedSources = {s1}
    SearchTiers <- AllAtOnce
    Recorders = {"search", "traffic", "sweep", "reprobe"}
    DemoteAfter = 1
    MaxStreak = 2
    ProbeBatch = 1
    MaxTurns = 2
INVARIANTS
    ServerTypesOK
    NeverToldTwice
    SnapshotIsAnnounced
    LiveIsWhole
PROPERTIES
    LeaseLostOnlyIfOvertaken
    RenderingEnds
    NewsArrives
    ComesBack
    RestoreSettles
CHECK_DEADLOCK FALSE
