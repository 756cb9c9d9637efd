CONSTANTS
    Agents = {a1}
    Changes = {x1, x2, x3}
    Submitters = {s1, s2}
    Reviewers = {v1, v2}
    RawLimit = 2
    BatchSizes <- MCBatchSizes
    NULL = NULL
SPECIFICATION FairSpec
INVARIANTS
    TypeOK
    PendingBounded
    MadeOnlyIfApproved
    ApprovedMeansMade
PROPERTIES
    ImplementsLedger
    RequestsEnd
