SPECIFICATION Spec
CONSTANTS
    None = None
    r1 = r1  r2 = r2  o1 = o1  o2 = o2  c1 = c1  c2 = c2
    MaxAmount = 60
    Readers = {r1, r2}
    Students = {1, 2}
    Ids = {1, 2, 3}
    Oids = {o1, o2}
    Callers <- MCCallers
    Course <- MCCourse
    Queries <- MCQueries
    PageSize = 1
    SeedRows <- MCSeedRows
    SeedOwner <- MCSeedOwner
    Edits <- MCEdits
    MaxChanges = 1
    MaxAttempts = 2
    TicksPerDay = 2
    MaxTick = 3
    Offset = 1
SYMMETRY SameReaders
PROPERTIES
    TodayIsUtc
