SPECIFICATION RenderSpec
CONSTANTS
    Parts = {"oneBox", "oneJob"}
    j1 = j1
    j2 = j2
    w1 = w1
    w2 = w2
    t1 = t1
    t2 = t2
    ch1 = ch1
    Jobs = {j1, j2}
    Chapters = {ch1}
    ChapterOf <- OneChapter
    Boxes = {w1, w2}
    Threads = {t1, t2}
    MaxAttempts = 2
    Segments = 1
    MaxClaims = 2
    MaxUpsets = 1
SYMMETRY Symmetry
INVARIANTS
    TypeOK
    DoneHasAudio
    RetriesEnd
PROPERTIES
    TerminalStaysUnlessStale
    HandedOverThroughQueue
CHECK_DEADLOCK FALSE
