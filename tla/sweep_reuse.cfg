SPECIFICATION SweepSpec
CONSTANTS
    Series = {"a", "b"}
    MaxFollows = 1
    LastRelease = 1
    MaxBadAnswers = 1
    MaxWalks = 1
INVARIANTS
    SnapshotIsOwn
CHECK_DEADLOCK FALSE
