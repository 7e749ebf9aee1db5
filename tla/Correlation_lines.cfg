SPECIFICATION Spec
CONSTANTS
    None = None
    Threads = {t1, t2}
    Requests = {p1, p2}
    Starts = {s1}
    run1 = run1
    run2 = run2
    act1 = act1
    act2 = act2
    Instances = {run1, run2}
    Activities = {act1, act2}
    RunOf <- MCRunOf
    Local = TRUE
    Configured = TRUE
SYMMETRY Symmetry
INVARIANTS
    TypeOK
    RunLinesCarryRun
    NoBorrowedId
    OneIdPerRequest
