CONSTANTS
    Requests = {q1, q2}
    Rows = {w1, w2}
    Items <- MCItems
    Batches <- MCBatches
    NULL = NULL
SPECIFICATION Spec
INVARIANT ReportedIsCreated
CHECK_DEADLOCK FALSE
