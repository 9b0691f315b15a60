SPECIFICATION Spec
CONSTANTS
    Users = {alice}
    TaskIds = {t1}
    Titles = {a}
    Requests = {r1, r2}
    MaxClock = 0
    Precision = 1
    None = None
PROPERTY StatusFollowsMachine
