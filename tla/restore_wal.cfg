SPECIFICATION RestoreSpec
CONSTANTS
    MaxCommits = 3
    KeepReplaced = 1
    MaxRestores = 2
    MaxFaults = 1
INVARIANTS
    RetainedIsWhole
CHECK_DEADLOCK FALSE
