CONSTANTS
    Starters = {s1, s2}
    Stoppers = {}
    Attempts = 2
    MaxOverlap = 2
    NULL = NULL
SPECIFICATION Spec
CHECK_DEADLOCK FALSE
INVARIANT OneServer
