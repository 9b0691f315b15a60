SPECIFICATION Spec
CONSTANTS
    Users = {u1, u2}
    Ids = {i1, i2, i3}
    Statuses = {todo, finished}
    Limits <- MCLimits
    Offsets <- MCOffsets
    MaxTime = 3
    AnyStatus = any
    None = none
SYMMETRY Symmetry
INVARIANTS TypeOK PagesMatchTotal WalkComplete
