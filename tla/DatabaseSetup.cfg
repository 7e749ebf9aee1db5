SPECIFICATION Spec
CONSTANTS
    Operators = {o1, o2}
    MaxCuts = 2
INVARIANTS
    TypeOK
    SeededOnce
PROPERTY RolesRerunnable
