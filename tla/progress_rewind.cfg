SPECIFICATION Spec
CONSTANTS
    d1 = d1
    w1 = w1
    w2 = w2
    Phones = {d1}
    Chapters = {1}
    LastPage = 3
    Workers = {w1, w2}
    Unparseable = {}
    PhoneAhead = 1
    ServerCap = 2
    ClientCap = 2
    CompactRows = 2
    MaxGroups = 2
    MaxRowId = 1
    MaxWebPushes = 2
    MaxFailures = 0
    MaxPushSeconds = 3
    ClockSkew = 1
    MaxClockAge = 20
PROPERTIES
    PositionNeverRewinds
CHECK_DEADLOCK FALSE
