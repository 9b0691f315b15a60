SPECIFICATION Spec
CONSTANTS
    Users = {alice, bob}
    TaskIds = {t1}
    Titles = {a, b}
    Requests = {r1, r2}
    MaxClock = 3
    Precision = 2
    None = None
SYMMETRY Symmetry
INVARIANTS
    TypeOK
    DeletedStayDeleted
    ResponseIsStored
    StampsOrdered
PROPERTIES
    OwnerOnly
    OnlyStaleWritesBreakMachine
