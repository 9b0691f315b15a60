SPECIFICATION Spec
CONSTANTS
    Attempts = 2
    MaxSignals = 2
INVARIANTS TypeOK DrainedBeforeClose SignalsCaught CleanExit OwnVerdict
PROPERTIES StopsUnlessHeldUp
CHECK_DEADLOCK FALSE
