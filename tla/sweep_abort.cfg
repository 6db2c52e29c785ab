SPECIFICATION SweepSpec
CONSTANTS
    Series = {"a", "b"}
    MaxFollows = 2
    LastRelease = 1
    MaxBadAnswers = 1
    MaxWalks = 1
INVARIANTS
    RunsComplete
CHECK_DEADLOCK FALSE
