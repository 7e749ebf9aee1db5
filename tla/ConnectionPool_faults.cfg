SPECIFICATION Spec
CONSTANTS
    None = None
    Workers = {t1, t2, t3}
    PoolSize = 1
    MaxOverflow = 1
    MaxAttempts = 2
    MaxOutages = 1
SYMMETRY Symmetry
INVARIANTS
    TypeOK
    NothingLeaked
    UnavailableNeedsOutage
    NoFalseAlarm
    OpenBounded
