SPECIFICATION Spec
CONSTANTS
    NoUser = NoUser
    Forged = Forged
    Limit = 1
    Slots = {s1, s2}
    UserIds = {u1, u2}
    Forms <- MCForms
    Bodies <- MCBodies
    Duration = 1
    Second = 2
    MaxNow = 2
    MaxRows = 1
    MaxTokens = 2
SYMMETRY Symmetry
CHECK_DEADLOCK FALSE
INVARIANTS
    TypeOK
    RegisteredCanLogin
    HonestAnswers
    ErrorsToldApart
    HistoryComplete
    AdmittedAlike
    BodyLimitExact
PROPERTY TokenHolderServed
