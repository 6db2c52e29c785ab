SPECIFICATION QueueSpec
CONSTANTS
    QueueChapters = {"c1", "c2"}
    BatchWidth = 2
    MaxChapterTries = 2
    MaxTaps = 4
INVARIANTS
    PauseReasonIsTrue
CHECK_DEADLOCK FALSE
