SPECIFICATION FairSpec
CONSTANTS
    Calls = {c1}
    Replicas = {s1}
    Foreign = foreign
    Attempts = 1
    MaxFailures = 1
    MaxLosses = 1
    MaxForeign = 0
CHECK_DEADLOCK FALSE
PROPERTY ShutdownReturns
