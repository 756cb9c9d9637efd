SPECIFICATION Spec
CONSTANTS
    i1 = i1
    i2 = i2
    None = None
    Ids <- TwoIds
    Lists <- TwoLists
    Queues <- TwoQueues
    Registrations <- OneRegistration
    Revertible <- OneRegistration
    Paths <- OnePath
    Kinds <- TwoKinds
    Scenarios <- AllScenarios
    MaxInFlight = 3
CHECK_DEADLOCK FALSE
INVARIANTS
    TypeOK
    RejectNamesShown
    KeysGoToScreen
    ResultsOfQuery
    TaxonomyRowsMatch
    StatusPromptHasTargets
    FormsGoHome
    TagsOfForm
    WaitsAreAnswered
    PaletteShowsItsText
    DialogsAwaitOne
