CONSTANTS
    Registrations = {r1}
    Reviewers = {v1}
    Clients = {c1}
    Scopes = {pub, priv}
    PublicScope = pub
    RequestInputs <- MCRequestInputs
    GrantInputs <- MCGrantInputs
    ReviewedByInputs <- MCNamedReviewer
    UpdateInputs <- MCNoUpdates
    MaxPolls = 1
    NULL = NULL
SPECIFICATION Spec
INVARIANT GrantsOverride
