SPECIFICATION FairSpec
CONSTANTS
    None = None
    s1 = s1  s2 = s2
    Students = {s1, s2}
    MaxTries = 2
    MaxRuns = 2
    MaxAttempts = 3
    MaxCrashes = 1
INVARIANTS
    TypeOK
    AuditComplete
    AuditAllOrNothing
    MailBounded
    SentMeansDelivered
    FailureIsolated
PROPERTIES
    LateMailNeedsLostHost
    ImplementsJob
    RunEnds
