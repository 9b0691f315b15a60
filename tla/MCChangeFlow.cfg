SPECIFICATION Spec
CONSTANTS
    Users = {u1, u2}
    MaxWork = 2
    MaxFixes = 1
    MaxHistory = 2
SYMMETRY Symmetry
INVARIANTS NothingPushedIsLost FixesReviewed
 
CHECK_DEADLOCK FALSE
