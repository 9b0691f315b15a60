SPECIFICATION Spec
CONSTANTS
    Calls = {c1, c2}
    Replicas = {s1}
    Foreign = foreign
    Attempts = 2
    MaxFailures = 2
    MaxLosses = 1
    MaxForeign = 1
CHECK_DEADLOCK FALSE
SYMMETRY Symmetry
INVARIANTS
    TypeOK
    OwnReply
    NoDoubleClose
    NilChannelOnlyBetweenAttempts
PROPERTY
    NothingSentAfterShutdown
