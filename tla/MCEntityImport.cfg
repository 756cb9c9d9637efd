CONSTANTS
    Requests = {q1, q2}
    Rows = {w1, w2, w3, w4}
    Items <- MCItems
    Batches <- MCBatches
    NULL = NULL
SPECIFICATION FairSpec
INVARIANTS
    TypeOK
    NoTwinsOfOneSource
    AllOrNothing
PROPERTY RequestsEnd
CHECK_DEADLOCK FALSE
