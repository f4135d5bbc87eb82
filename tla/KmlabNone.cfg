\* A reader of an empty list gets something else than that.
CONSTANTS
    Pids = {p1, p2}
    Callers = {c1, c2}
    Workers = {k1}
    BUFS = 2
    BLOCKS = 2
    LINES = 1
    NoOne = NoOne
    MaxWork = 1
SYMMETRY Symmetry
SPECIFICATION Spec
INVARIANTS
    ReadersOfNoneAreTold
CHECK_DEADLOCK FALSE
