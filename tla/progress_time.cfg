SPECIFICATION Spec
CONSTANTS
    d1 = d1
    w1 = w1
    w2 = w2
    Phones = {d1}
    Chapters = {1}
    LastPage = 2
    Workers = {w1}
    Unparseable = {}
    PhoneAhead = 1
    ServerCap = 2
    ClientCap = 2
    CompactRows = 2
    MaxGroups = 2
    MaxRowId = 3
    MaxWebPushes = 0
    MaxFailures = 2
    MaxPushSeconds = 3
    ClockSkew = 1
    MaxClockAge = 20
INVARIANTS
    TimeBelievedOnce
CHECK_DEADLOCK FALSE
