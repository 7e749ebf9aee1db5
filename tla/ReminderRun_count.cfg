SPECIFICATION Spec
CONSTANTS
    None = None
    s1 = s1  s2 = s2
    Students = {s1, s2}
    MaxTries = 2
    MaxRuns = 2
    MaxAttempts = 2
    MaxCrashes = 1
INVARIANTS
    CountIsWhatWasAdded
