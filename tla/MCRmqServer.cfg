SPECIFICATION FairSpec
CONSTANTS
    Requests = {q1, q2}
    Attempts = 2
    MaxFailures = 3
    MaxLosses = 2
CHECK_DEADLOCK FALSE
INVARIANTS
    AtMostOnce
    DrainedOnShutdown
    ReplyChannelExists
PROPERTIES
    ShutdownReturns
    GivingUpEndsServer
