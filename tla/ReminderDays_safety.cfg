SPECIFICATION FairSpec
CONSTANTS
    None = None
    MaxAmount = 4
    s1 = s1
    Students = {s1}
    SeedRows <- MCSeedRows
    p1 = p1
    Requests = {p1}
    LastDay = 1
    MaxCrashes = 1
INVARIANTS
    TypeOK
    SettledLeftAlone
    NoDoubleSend
PROPERTY EachDaySelects
