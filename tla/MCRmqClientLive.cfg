SPECIFICATION FairSpec
CONSTANTS
    Calls = {c1, c2}
    Replicas = {s1}
    Foreign = foreign
    Attempts = 2
    MaxFailures = 2
    MaxLosses = 0
    MaxForeign = 0
CHECK_DEADLOCK FALSE
PROPERTIES
    EveryCallReturns
    ShutdownReturnsUnlessGivenUp
