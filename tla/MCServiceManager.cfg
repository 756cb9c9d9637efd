CONSTANTS
    Starters = {s1, s2}
    Stoppers = {t1}
    Attempts = 2
    MaxOverlap = 3
    NULL = NULL
SPECIFICATION Spec
SYMMETRY Symmetry
CHECK_DEADLOCK FALSE
INVARIANTS
    TypeOK
    OneServerUnlessStolen
    ServerManaged
PROPERTIES
    StopStops
    AloneAcquires
