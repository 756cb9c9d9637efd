CONSTANTS
    Registrations = {r1}
    Reviewers = {v1, v2}
    Clients = {c1, c2}
    Scopes = {pub, priv}
    PublicScope = pub
    RequestInputs <- MCRequestInputs
    GrantInputs <- MCNoGrantInputs
    ReviewedByInputs <- MCAnyReviewer
    UpdateInputs <- MCUpdateInputs
    MaxPolls = 1
    NULL = NULL
SPECIFICATION FairSpec
INVARIANTS
    TypeOK
    OneKeyPerEnrollment
    RedeemableMeansActive
    RejectedStaysOut
    OneReviewActs
    NamedApprovalMovesOn
    AnswersStand
PROPERTIES
    DecisionsFinal
    ImplementsLedger
    RequestsEnd
