SPECIFICATION Spec
CONSTANTS
    Requests = {q1}
    Attempts = 1
    MaxFailures = 1
    MaxLosses = 1
CHECK_DEADLOCK FALSE
INVARIANT ShutdownDoesNotPanic
