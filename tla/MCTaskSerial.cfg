SPECIFICATION SerialSpec
CONSTANTS
    Users = {alice, bob}
    TaskIds = {t1}
    Titles = {a, b}
    Requests = {r1, r2}
    MaxClock = 1
    Precision = 2
    None = None
PROPERTY ImplementsBoard
