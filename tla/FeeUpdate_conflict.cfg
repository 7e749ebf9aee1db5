SPECIFICATION Spec
CONSTANTS
    None = None
    s1 = s1  s2 = s2
    p1 = p1  p2 = p2
    MaxAmount = 60
    Requests = {p1, p2}
    Students = {s1}
    Ids = {s1}
    Bodies <- RaceBodies
    SeedRows <- MCSeed
    SeedVersion = 1
    MaxAttempts = 2
INVARIANTS
    ConflictMeansAnotherWriter
