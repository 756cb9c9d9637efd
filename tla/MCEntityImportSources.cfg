CONSTANTS
    Requests = {q1, q2}
    Rows = {w1, w2}
    Items <- MCSourceItems
    Batches <- MCSourceBatches
    NULL = NULL
SPECIFICATION Spec
INVARIANT NoTwins
CHECK_DEADLOCK FALSE
